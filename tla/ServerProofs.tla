---------------------------- MODULE ServerProofs ----------------------------
(***************************************************************************)
(* Proofs about the Workbench server.                                      *)
(*                                                                         *)
(* The project requests and the exports (ProjectSpec): for any sets of     *)
(* browsers, sources, data files, resources and targets, and any number of *)
(* requests, revisions and restarts.                                       *)
(*                                                                         *)
(* The session of the Studio and the store of its maps (SessionSpec): for  *)
(* any sets of clients, maps and basemaps, any caps and any number of      *)
(* requests and crashes.                                                   *)
(***************************************************************************)
EXTENDS ExportService, StudioSession, TLAPS

projectVars == <<serviceVars, exportVars>>

(***************************************************************************)
(* Sequences that only grow.                                               *)
(***************************************************************************)
Sequence(s) == s \in Seq({s[i] : i \in DOMAIN s})

\* What appending leaves and adds.
LEMMA Appended ==
    ASSUME NEW s, Sequence(s), NEW e
    PROVE  /\ Sequence(Append(s, e))
           /\ Len(s) \in Nat /\ DOMAIN s = 1..Len(s)
           /\ Len(Append(s, e)) = Len(s) + 1
           /\ DOMAIN Append(s, e) = 1..Len(s) + 1
           /\ \A i \in 1..Len(s) : Append(s, e)[i] = s[i]
           /\ Append(s, e)[Len(s) + 1] = e
           /\ \A i \in DOMAIN Append(s, e) : i \in DOMAIN s \/ i = Len(s) + 1
<1> DEFINE S == {s[i] : i \in DOMAIN s} \cup {e}
           t == Append(s, e)
<1>1. s \in Seq(S)
  <2>1. s \in Seq({s[i] : i \in DOMAIN s})
    BY DEF Sequence
  <2> QED
    BY <2>1
<1>2. /\ Len(s) \in Nat /\ DOMAIN s = 1..Len(s)
      /\ t \in Seq(S) /\ Len(t) = Len(s) + 1 /\ DOMAIN t = 1..Len(s) + 1
      /\ \A i \in 1..Len(s) : t[i] = s[i]
      /\ t[Len(s) + 1] = e
  BY <1>1
<1>3. t \in Seq({t[i] : i \in DOMAIN t})
  <2> HIDE DEF t
  <2>1. t = [i \in 1..Len(t) |-> t[i]] /\ Len(t) \in Nat
    BY <1>2
  <2> QED
    BY <2>1, <1>2
<1>4. \A i \in 1..Len(s) + 1 : i \in 1..Len(s) \/ i = Len(s) + 1
  BY <1>2
<1> QED
  BY <1>2, <1>3, <1>4 DEF Sequence

\* The same, for what is in a sequence.
LEMMA AppendedElements ==
    ASSUME NEW s, Sequence(s), NEW e
    PROVE  /\ \A i \in DOMAIN s : i \in DOMAIN Append(s, e) /\ Append(s, e)[i] = s[i]
           /\ \A i \in DOMAIN Append(s, e) :
                  (i \in DOMAIN s /\ Append(s, e)[i] = s[i]) \/ Append(s, e)[i] = e
           /\ Len(s) + 1 \in DOMAIN Append(s, e) /\ Append(s, e)[Len(s) + 1] = e
BY Appended

\* A sequence that is as it was, or has one more at its end.
Extends(t, s) == t = s \/ \E e : t = Append(s, e)

LEMMA ExtendsKeeps ==
    ASSUME NEW s, Sequence(s), NEW t, Extends(t, s)
    PROVE  /\ Sequence(t)
           /\ Len(s) \in Nat /\ DOMAIN s = 1..Len(s)
           /\ Len(t) \in {Len(s), Len(s) + 1} /\ DOMAIN t = 1..Len(t)
           /\ DOMAIN s \subseteq DOMAIN t
           /\ \A i \in DOMAIN s : t[i] = s[i]
<1>1. CASE t = s
  BY <1>1, Appended
<1>2. ASSUME NEW e, t = Append(s, e)
      PROVE  /\ Sequence(t) /\ Len(s) \in Nat /\ DOMAIN s = 1..Len(s)
             /\ Len(t) = Len(s) + 1 /\ DOMAIN t = 1..Len(s) + 1
             /\ \A i \in 1..Len(s) : t[i] = s[i]
  BY <1>2, Appended
<1> QED
  BY <1>1, <1>2 DEF Extends

(***************************************************************************)
(* What every step does to the log, the histories and the requests.        *)
(***************************************************************************)
Shape ==
    /\ Sequence(log) /\ Sequence(origin) /\ Sequence(planned) /\ Sequence(previewed)
    /\ Len(log) \in Nat \ {0} /\ Len(origin) = Len(log)
    /\ request = [b \in Browsers |-> request[b]]
    /\ dataFiles = [f \in DataFiles |-> dataFiles[f]]
    /\ targets = [t \in Targets |-> targets[t]]

HistoryGrows ==
    /\ \/ UNCHANGED <<log, origin>>
       \/ \E spec, by : log' = Append(log, spec) /\ origin' = Append(origin, by)
    /\ Extends(planned', planned) /\ Extends(previewed', previewed)

\* The histories of the log, the plans and the previews only grow, and only one
\* browser's request moves on: the others keep theirs, or a crash ends them all.
LEMMA Moves ==
    ASSUME Shape, ExportNext
    PROVE  /\ HistoryGrows
           /\ \/ \E b \in Browsers : \A c \in Browsers \ {b} : request'[c] = request[c]
              \/ \A c \in Browsers : request'[c] = NoRequest
           /\ request' = [b \in Browsers |-> request'[b]]
           /\ dataFiles' = [f \in DataFiles |-> dataFiles'[f]]
           /\ targets' = [t \in Targets |-> targets'[t]]
<1> USE DEF Shape, HistoryGrows, Extends, project, dataState, planState, previewState, exportVars
<1> DEFINE Goal(b) ==
        /\ HistoryGrows
        /\ \A c \in Browsers \ {b} : request'[c] = request[c]
        /\ request' = [w \in Browsers |-> request'[w]]
        /\ dataFiles' = [f \in DataFiles |-> dataFiles'[f]]
        /\ targets' = [t \in Targets |-> targets'[t]]
<1>1. ASSUME NEW b \in Browsers, ServiceStep(b), UNCHANGED exportVars
      PROVE  Goal(b)
  <2> USE <1>1 DEF Becomes, Ends
  <2>1. ASSUME NEW id \in SourceIds, NEW data \in DataFiles, NEW url \in Urls \cup {Nothing},
               AttachOpen(b, id, data, url)
        PROVE  Goal(b)
    BY <2>1 DEF AttachOpen
  <2>2. CASE WriteData(b) \/ WriteFails(b)
    BY <2>2 DEF WriteData, WriteFails
  <2>3. CASE AttachApply(b)
    BY <2>3 DEF AttachApply, Attach, AppendRevision
  <2>4. CASE AttachFails(b)
    BY <2>4 DEF AttachFails
  <2>5. CASE AttachThrows(b)
    BY <2>5 DEF AttachThrows, Attach, AppendRevision
  <2>6. CASE RemoveData(b) \/ RemoveFails(b)
    BY <2>6 DEF RemoveData, RemoveFails
  <2>7. CASE PlanGiven(b)
    BY <2>7 DEF PlanGiven, Made
  <2>8. CASE PlanAsk(b)
    BY <2>8 DEF PlanAsk
  <2>9. CASE PlanMade(b)
    BY <2>9 DEF PlanMade, Made
  <2>10. CASE PersistPlan(b) \/ PersistFails(b)
    BY <2>10 DEF PersistPlan, PersistFails
  <2>11. ASSUME NEW hash \in DOMAIN planned, PlanLooked(b, hash) \/ ApplyCheck(b, hash)
         PROVE  Goal(b)
    BY <2>11 DEF PlanLooked, ApplyCheck
  <2>12. CASE ApplyCommit(b)
    BY <2>12 DEF ApplyCommit, AppendRevision
  <2>13. CASE ApplyFails(b)
    BY <2>13 DEF ApplyFails
  <2>14. ASSUME NEW target \in 1..Current - 1, Restore(b, target)
         PROVE  Goal(b)
    BY <2>14 DEF Restore, AppendRevision
  <2> QED
    BY <2>1, <2>2, <2>3, <2>4, <2>5, <2>6, <2>7, <2>8, <2>9, <2>10, <2>11, <2>12, <2>13,
       <2>14 DEF ServiceStep
<1>2. ASSUME NEW b \in Browsers, ExportStep(b)
      PROVE  Goal(b)
  <2> USE <1>2 DEF Becomes, Ends, ServiceUnchanged
  <2>1. ASSUME NEW target \in Targets, PreviewOpen(b, target)
        PROVE  Goal(b)
    BY <2>1 DEF PreviewOpen
  <2>2. CASE PreviewDone(b)
    BY <2>2 DEF PreviewDone
  <2>3. ASSUME NEW hash \in DOMAIN previewed, CommitAsk(b, hash)
        PROVE  Goal(b)
    BY <2>3 DEF CommitAsk
  <2>4. CASE CommitOpen(b)
    BY <2>4 DEF CommitOpen
  <2>5. CASE CommitRename(b)
    BY <2>5 DEF CommitRename
  <2>6. CASE CommitReceipt(b)
    BY <2>6 DEF CommitReceipt
  <2>7. CASE ExportThrows(b)
    BY <2>7 DEF ExportThrows
  <2> QED
    BY <2>1, <2>2, <2>3, <2>4, <2>5, <2>6, <2>7 DEF ExportStep
<1>3. CASE ExportCrash
  BY <1>3 DEF ExportCrash, ServiceCrash
<1> QED
  BY <1>1, <1>2, <1>3 DEF ExportNext

LEMMA ShapeKept ==
    ASSUME Shape, ExportNext
    PROVE  Shape'
<1> USE DEF Shape, HistoryGrows
<1>1. HistoryGrows
  BY Moves
<1>2. Sequence(planned') /\ Sequence(previewed')
  BY <1>1, ExtendsKeeps
<1>3. /\ Sequence(log') /\ Sequence(origin')
      /\ Len(log') \in Nat \ {0} /\ Len(origin') = Len(log')
  <2>1. CASE UNCHANGED <<log, origin>>
    BY <2>1
  <2>2. ASSUME NEW spec, NEW by, log' = Append(log, spec), origin' = Append(origin, by)
        PROVE  <1>3!:
    <3>1. Sequence(log') /\ Len(log') = Len(log) + 1
      BY <2>2, Appended
    <3>2. Sequence(origin') /\ Len(origin') = Len(origin) + 1
      BY <2>2, Appended
    <3> QED
      BY <3>1, <3>2
  <2> QED
    BY <1>1, <2>1, <2>2
<1> QED
  BY <1>2, <1>3, Moves

(***************************************************************************)
(* Data files.                                                             *)
(***************************************************************************)
Holds(r) == r.at \in {"attaching", "removing"}

FilesTyped ==
    /\ attached \in Nat
    /\ \A f \in DataFiles : dataFiles[f] \in {Nothing} \cup 1..attached
    /\ \A f, g \in DataFiles : dataFiles[f] = dataFiles[g] /\ dataFiles[f] # Nothing => f = g
    /\ \A b \in Browsers : request[b].at = "writing" \/ Holds(request[b]) =>
           request[b].file \in DataFiles
    /\ \A r \in DOMAIN origin : origin[r].kind = "attach" =>
           origin[r].file \in DataFiles /\ origin[r].content \in 1..attached

\* A request that has written its file is the only one to hold what is in it.
HoldersOwn ==
    \A b \in Browsers : Holds(request[b]) =>
        /\ request[b].content \in 1..attached
        /\ dataFiles[request[b].file] = request[b].content
        /\ \A c \in Browsers \ {b} : Holds(request[c]) => request[c].content # request[b].content

\* What is about to be removed is in no revision, or has been forsaken.
RemovedInVain ==
    \A b \in Browsers, r \in DOMAIN origin :
        Holds(request[b]) /\ origin[r].kind = "attach" /\ origin[r].content = request[b].content =>
            request[b].at = "removing" /\ request[b].content \in forsaken

Files == FilesTyped /\ HoldersOwn /\ RemovedInVain /\ AttachmentsIntact /\ NoStrayData

\* A step that attaches nothing and moves no request that holds a file.
LEMMA FilesElsewhere ==
    ASSUME Shape, Files,
           UNCHANGED dataState,
           UNCHANGED origin \/ \E by : origin' = Append(origin, by) /\ by.kind # "attach",
           \A c \in Browsers :
               \/ request'[c] = request[c]
               \/ /\ ~Holds(request[c]) /\ ~Holds(request'[c])
                  /\ request'[c].at = "writing" => request'[c].file \in DataFiles
    PROVE  Files'
<1>0. Sequence(origin) /\ UNCHANGED <<dataFiles, attached, forsaken, orphaned>>
  BY DEF Shape, dataState
<1>1. \A i \in DOMAIN origin' : origin'[i].kind = "attach" =>
          i \in DOMAIN origin /\ origin'[i] = origin[i]
  <2>1. CASE UNCHANGED origin
    BY <2>1
  <2>2. ASSUME NEW by, origin' = Append(origin, by), by.kind # "attach"
        PROVE  \A i \in DOMAIN origin' : origin'[i].kind = "attach" =>
                   i \in DOMAIN origin /\ origin'[i] = origin[i]
    <3>1. \A i \in DOMAIN origin' :
              (i \in DOMAIN origin /\ origin'[i] = origin[i]) \/ origin'[i] = by
      BY <1>0, <2>2, AppendedElements
    <3> QED
      BY <2>2, <3>1
  <2> QED
    BY <2>1, <2>2
<1>2. \A i \in DOMAIN origin : i \in DOMAIN origin' /\ origin'[i] = origin[i]
  <2>1. Extends(origin', origin)
    BY DEF Extends
  <2> QED
    BY <1>0, <2>1, ExtendsKeeps
<1>3. \A c \in Browsers : /\ Holds(request'[c]) <=> Holds(request[c])
                          /\ Holds(request[c]) => request'[c] = request[c]
                          /\ request'[c].at = "writing" /\ request'[c] # request[c] =>
                                 request'[c].file \in DataFiles
  OBVIOUS
<1>4. FilesTyped'
  <2>1. \A c \in Browsers : request'[c].at = "writing" \/ Holds(request'[c]) =>
            request'[c].file \in DataFiles
    BY <1>3 DEF Files, FilesTyped
  <2> QED
    BY <1>0, <1>1, <2>1 DEF Files, FilesTyped
<1>5. HoldersOwn'
  BY <1>0, <1>3 DEF Files, HoldersOwn
<1>6. RemovedInVain'
  BY <1>0, <1>1, <1>3 DEF Files, RemovedInVain
<1>7. AttachmentsIntact'
  BY <1>0, <1>1 DEF Files, AttachmentsIntact
<1>8. NoStrayData'
  BY <1>0, <1>2, <1>3 DEF Files, NoStrayData, Holds
<1> QED
  BY <1>4, <1>5, <1>6, <1>7, <1>8 DEF Files

LEMMA FilesWritten ==
    ASSUME Shape, Files, NEW b \in Browsers, WriteData(b)
    PROVE  Files'
<1> DEFINE r == request[b]
<1>1. CASE dataFiles[r.file] # Nothing
  <2>1. UNCHANGED <<origin, dataState>> /\ request' = [request EXCEPT ![b] = NoRequest]
    BY <1>1 DEF WriteData, Ends, Becomes, dataState, project
  <2>2. ~Holds(request[b]) /\ ~Holds(NoRequest) /\ NoRequest.at # "writing"
    BY DEF WriteData, Resumes, Holds, NoRequest
  <2>3. \A c \in Browsers : request'[c] = IF c = b THEN NoRequest ELSE request[c]
    BY <2>1 DEF Shape
  <2> QED
    BY <2>1, <2>2, <2>3, FilesElsewhere
<1>2. CASE dataFiles[r.file] = Nothing
  <2>1. /\ r.file \in DataFiles /\ ~Holds(r)
        /\ attached' = attached + 1
        /\ UNCHANGED <<origin, forsaken, orphaned>>
        /\ dataFiles'[r.file] = attached'
        /\ \A f \in DataFiles \ {r.file} : dataFiles'[f] = dataFiles[f]
        /\ \A c \in Browsers \ {b} : request'[c] = request[c]
        /\ request'[b] = Attaching(r, attached')
    BY <1>2 DEF WriteData, Resumes, Becomes, Files, FilesTyped, Holds, Shape, project
  <2>2. /\ Holds(request'[b]) /\ request'[b].at = "attaching"
        /\ request'[b].content = attached' /\ request'[b].file = r.file
    BY <2>1 DEF Attaching, Holds
  <2> HIDE DEF r
  <2>3. /\ attached \in Nat /\ attached' \in Nat /\ attached' # Nothing
        /\ 1..attached \subseteq 1..attached'
        /\ attached' \in 1..attached' /\ attached' \notin 1..attached
    BY <2>1, ServiceAssumption DEF Files, FilesTyped, ServiceAssumption
  <2>4. \A c \in Browsers \ {b} : Holds(request[c]) => request[c].file # r.file
    BY <1>2, ServiceAssumption DEF Files, FilesTyped, HoldersOwn, ServiceAssumption
  <2>5. FilesTyped'
    <3>1. \A f \in DataFiles : dataFiles'[f] \in {Nothing} \cup 1..attached'
      BY <2>1, <2>3 DEF Files, FilesTyped
    <3>2. \A f, g \in DataFiles : dataFiles'[f] = dataFiles'[g] /\ dataFiles'[f] # Nothing => f = g
      BY <2>1, <2>3 DEF Files, FilesTyped
    <3>3. \A c \in Browsers : request'[c].at = "writing" \/ Holds(request'[c]) =>
              request'[c].file \in DataFiles
      BY <2>1, <2>2 DEF Files, FilesTyped
    <3> QED
      BY <3>1, <3>2, <3>3, <2>1, <2>3 DEF Files, FilesTyped
  <2>6. HoldersOwn'
    <3> SUFFICES ASSUME NEW c \in Browsers, Holds(request'[c])
                 PROVE  /\ request'[c].content \in 1..attached'
                        /\ dataFiles'[request'[c].file] = request'[c].content
                        /\ \A d \in Browsers \ {c} :
                               Holds(request'[d]) => request'[d].content # request'[c].content
      BY DEF HoldersOwn
    <3>1. \A d \in Browsers \ {b} : Holds(request[d]) =>
              /\ request[d].content \in 1..attached
              /\ request[d].file \in DataFiles
              /\ dataFiles[request[d].file] = request[d].content
      BY DEF Files, FilesTyped, HoldersOwn
    <3>2. CASE c = b
      BY <3>1, <3>2, <2>1, <2>2, <2>3
    <3>3. CASE c # b
      <4>1. \A d \in Browsers \ {b, c} :
                Holds(request[d]) => request[d].content # request[c].content
        BY <3>3, <2>1 DEF Files, HoldersOwn
      <4> QED
        BY <3>1, <3>3, <4>1, <2>1, <2>2, <2>3, <2>4
    <3> QED
      BY <3>2, <3>3
  <2>7. RemovedInVain'
    <3> SUFFICES ASSUME NEW c \in Browsers, NEW i \in DOMAIN origin', Holds(request'[c]),
                        origin'[i].kind = "attach", origin'[i].content = request'[c].content
                 PROVE  request'[c].at = "removing" /\ request'[c].content \in forsaken'
      BY DEF RemovedInVain
    <3>1. origin'[i] = origin[i] /\ origin[i].content \in 1..attached
      BY <2>1 DEF Files, FilesTyped
    <3>2. c # b
      BY <3>1, <2>2, <2>3
    <3> QED
      BY <3>1, <3>2, <2>1 DEF Files, RemovedInVain
  <2>8. AttachmentsIntact'
    <3> SUFFICES ASSUME NEW i \in DOMAIN origin, origin[i].kind = "attach",
                        origin[i].content \notin forsaken
                 PROVE  dataFiles'[origin[i].file] = origin[i].content
      BY <2>1 DEF AttachmentsIntact
    <3>1. /\ origin[i].file \in DataFiles /\ origin[i].content \in Nat
          /\ dataFiles[origin[i].file] = origin[i].content
      BY DEF Files, FilesTyped, AttachmentsIntact
    <3>2. origin[i].file # r.file
      BY <1>2, <3>1, ServiceAssumption DEF ServiceAssumption
    <3> QED
      BY <3>1, <3>2, <2>1
  <2>9. NoStrayData'
    <3> SUFFICES ASSUME NEW f \in DataFiles, dataFiles'[f] \notin {Nothing} \cup orphaned',
                        ~\E i \in DOMAIN origin' : /\ origin'[i].kind = "attach"
                                                   /\ origin'[i].content = dataFiles'[f]
                 PROVE  \E c \in Browsers : /\ Holds(request'[c])
                                            /\ request'[c].content = dataFiles'[f]
      BY DEF NoStrayData, Holds
    <3>1. CASE f = r.file
      BY <3>1, <2>1, <2>2
    <3>2. CASE f # r.file
      <4>1. PICK c \in Browsers : Holds(request[c]) /\ request[c].content = dataFiles[f]
        BY <3>2, <2>1 DEF Files, NoStrayData, Holds
      <4>2. c # b
        BY <4>1, <2>1 DEF r
      <4> QED
        BY <3>2, <4>1, <4>2, <2>1
    <3> QED
      BY <3>1, <3>2
  <2> QED
    BY <2>5, <2>6, <2>7, <2>8, <2>9 DEF Files
<1> QED
  BY <1>1, <1>2

\* A write that fails leaves the file it created to nobody.
LEMMA FilesCutShort ==
    ASSUME Shape, Files, NEW b \in Browsers, WriteFails(b)
    PROVE  Files'
<1> DEFINE name == request[b].file
<1>1. /\ UNCHANGED <<origin, forsaken>>
      /\ \A c \in Browsers \ {b} : request'[c] = request[c]
      /\ request'[b] = NoRequest
      /\ ~Holds(request[b]) /\ ~Holds(request'[b]) /\ request'[b].at # "writing"
      /\ name \in DataFiles
  BY DEF WriteFails, Resumes, Ends, Becomes, NoRequest, Holds, Shape, Files, FilesTyped, project
<1>2. CASE UNCHANGED <<dataFiles, attached, orphaned>>
  <2>1. UNCHANGED dataState
    BY <1>1, <1>2 DEF dataState
  <2> QED
    BY <1>1, <2>1, FilesElsewhere
<1>3. CASE /\ dataFiles[name] = Nothing
           /\ attached' = attached + 1
           /\ dataFiles' = [dataFiles EXCEPT ![name] = attached']
           /\ orphaned' = orphaned \cup {attached'}
  <2> HIDE DEF name
  <2>1. /\ dataFiles'[name] = attached'
        /\ \A f \in DataFiles \ {name} : dataFiles'[f] = dataFiles[f]
    BY <1>1, <1>3 DEF Shape
  <2>2. /\ attached \in Nat /\ attached' \in Nat /\ attached' # Nothing
        /\ 1..attached \subseteq 1..attached'
        /\ attached' \in 1..attached' /\ attached' \notin 1..attached
    BY <1>3, ServiceAssumption DEF Files, FilesTyped, ServiceAssumption
  <2>3. \A c \in Browsers : Holds(request'[c]) => c # b /\ request[c].file # name
    BY <1>1, <1>3, ServiceAssumption DEF Files, FilesTyped, HoldersOwn, ServiceAssumption
  <2>4. FilesTyped'
    <3>1. \A f \in DataFiles : dataFiles'[f] \in {Nothing} \cup 1..attached'
      BY <2>1, <2>2 DEF Files, FilesTyped
    <3>2. \A f, g \in DataFiles : dataFiles'[f] = dataFiles'[g] /\ dataFiles'[f] # Nothing => f = g
      BY <2>1, <2>2 DEF Files, FilesTyped
    <3>3. \A c \in Browsers : request'[c].at = "writing" \/ Holds(request'[c]) =>
              request'[c].file \in DataFiles
      BY <1>1 DEF Files, FilesTyped
    <3> QED
      BY <3>1, <3>2, <3>3, <1>1, <2>2 DEF Files, FilesTyped
  <2>5. HoldersOwn'
    <3>1. \A c \in Browsers : Holds(request'[c]) => request'[c] = request[c]
      BY <1>1, <2>3
    <3>2. \A c \in Browsers : Holds(request'[c]) => request[c].file \in DataFiles \ {name}
      BY <2>3, <3>1 DEF Files, FilesTyped
    <3> QED
      BY <2>1, <2>2, <3>1, <3>2 DEF Files, HoldersOwn
  <2>6. RemovedInVain'
    BY <1>1, <2>3 DEF Files, RemovedInVain
  <2>7. AttachmentsIntact'
    <3> SUFFICES ASSUME NEW i \in DOMAIN origin, origin[i].kind = "attach",
                        origin[i].content \notin forsaken
                 PROVE  dataFiles'[origin[i].file] = origin[i].content
      BY <1>1 DEF AttachmentsIntact
    <3>1. /\ origin[i].file \in DataFiles /\ origin[i].content \in Nat
          /\ dataFiles[origin[i].file] = origin[i].content
      BY DEF Files, FilesTyped, AttachmentsIntact
    <3>2. origin[i].file # name
      BY <1>3, <3>1, ServiceAssumption DEF ServiceAssumption
    <3> QED
      BY <3>1, <3>2, <2>1
  <2>8. NoStrayData'
    <3> SUFFICES ASSUME NEW f \in DataFiles, dataFiles'[f] \notin {Nothing} \cup orphaned',
                        ~\E i \in DOMAIN origin' : /\ origin'[i].kind = "attach"
                                                   /\ origin'[i].content = dataFiles'[f]
                 PROVE  \E c \in Browsers : /\ Holds(request'[c])
                                            /\ request'[c].content = dataFiles'[f]
      BY DEF NoStrayData, Holds
    <3>1. f # name /\ dataFiles'[f] = dataFiles[f] /\ dataFiles[f] \notin orphaned
      BY <1>3, <2>1
    <3>2. PICK c \in Browsers : Holds(request[c]) /\ request[c].content = dataFiles[f]
      BY <1>1, <3>1 DEF Files, NoStrayData, Holds
    <3> QED
      BY <1>1, <3>1, <3>2
  <2> QED
    BY <2>4, <2>5, <2>6, <2>7, <2>8 DEF Files
<1> QED
  BY <1>2, <1>3 DEF WriteFails

LEMMA FilesAttached ==
    ASSUME Shape, Files, NEW b \in Browsers, AttachApply(b) \/ AttachThrows(b)
    PROVE  Files'
<1> DEFINE r == request[b]
           by == [kind |-> "attach", file |-> r.file, content |-> r.content]
           n == Len(origin) + 1
<1>1. /\ r.at = "attaching"
      /\ origin' = Append(origin, by)
      /\ UNCHANGED <<dataFiles, attached, orphaned>>
      /\ \A c \in Browsers \ {b} : request'[c] = request[c]
  BY DEF AttachApply, AttachThrows, Attach, AppendRevision, Becomes, Ends, Resumes, dataState, Shape
<1>2. \/ ~Holds(request'[b]) /\ request'[b].at # "writing" /\ forsaken' = forsaken
      \/ /\ request'[b].at = "removing" /\ request'[b].file = r.file
         /\ request'[b].content = r.content /\ forsaken' = forsaken \cup {r.content}
  BY DEF AttachApply, AttachThrows, Becomes, Ends, Holds, NoRequest, dataState, Shape
<1>3. /\ Holds(r) /\ r.file \in DataFiles /\ r.content \in 1..attached
      /\ dataFiles[r.file] = r.content
      /\ \A c \in Browsers \ {b} : Holds(request[c]) => request[c].content # r.content
  BY <1>1 DEF Files, FilesTyped, HoldersOwn, Holds
<1>4. /\ \A i \in DOMAIN origin : i \in DOMAIN origin' /\ origin'[i] = origin[i]
      /\ \A i \in DOMAIN origin' :
             (i \in DOMAIN origin /\ origin'[i] = origin[i]) \/ origin'[i] = by
      /\ n \in DOMAIN origin' /\ origin'[n] = by
  <2>1. Sequence(origin)
    BY DEF Shape
  <2> QED
    BY <1>1, <2>1, AppendedElements
<1>5. by.kind = "attach" /\ by.file = r.file /\ by.content = r.content
  OBVIOUS
<1>7. \A c \in Browsers : Holds(request'[c]) =>
          /\ Holds(request[c])
          /\ request'[c].content = request[c].content /\ request'[c].file = request[c].file
  BY <1>1, <1>2, <1>3
<1> HIDE DEF r, by, n
<1>8. FilesTyped'
  <2>1. \A c \in Browsers : request'[c].at = "writing" \/ Holds(request'[c]) =>
            request'[c].file \in DataFiles
    BY <1>1, <1>2, <1>7 DEF Files, FilesTyped, Holds, r
  <2> QED
    BY <2>1, <1>1, <1>3, <1>4, <1>5 DEF Files, FilesTyped
<1>9. HoldersOwn'
  BY <1>1, <1>7 DEF Files, HoldersOwn
<1>10. RemovedInVain'
  <2> SUFFICES ASSUME NEW c \in Browsers, NEW i \in DOMAIN origin', Holds(request'[c]),
                      origin'[i].kind = "attach", origin'[i].content = request'[c].content
               PROVE  request'[c].at = "removing" /\ request'[c].content \in forsaken'
    BY DEF RemovedInVain
  <2>1. CASE c = b
    BY <2>1, <1>2
  <2>2. CASE c # b
    <3>1. request'[c] = request[c] /\ request[c].content # r.content
      BY <2>2, <1>1, <1>3
    <3>2. i \in DOMAIN origin /\ origin'[i] = origin[i]
      BY <3>1, <1>4, <1>5
    <3> QED
      BY <3>1, <3>2, <1>2 DEF Files, RemovedInVain
  <2> QED
    BY <2>1, <2>2
<1>11. AttachmentsIntact'
  BY <1>1, <1>2, <1>3, <1>4, <1>5 DEF Files, AttachmentsIntact
<1>12. NoStrayData'
  <2> SUFFICES ASSUME NEW f \in DataFiles, dataFiles[f] \notin {Nothing} \cup orphaned
               PROVE  \/ \E i \in DOMAIN origin' : /\ origin'[i].kind = "attach"
                                                   /\ origin'[i].content = dataFiles[f]
                      \/ \E c \in Browsers : /\ Holds(request'[c])
                                             /\ request'[c].content = dataFiles[f]
    BY <1>1 DEF NoStrayData, Holds
  <2>1. CASE \E i \in DOMAIN origin : /\ origin[i].kind = "attach"
                                      /\ origin[i].content = dataFiles[f]
    <3>1. DOMAIN origin \subseteq DOMAIN origin'
      BY <1>4 DEF n
    <3> QED
      BY <2>1, <3>1, <1>4
  <2>2. ASSUME NEW c \in Browsers, Holds(request[c]), request[c].content = dataFiles[f]
        PROVE  \/ \E i \in DOMAIN origin' : /\ origin'[i].kind = "attach"
                                            /\ origin'[i].content = dataFiles[f]
               \/ Holds(request'[c]) /\ request'[c].content = dataFiles[f]
    <3>1. CASE c = b
      <4>1. n \in DOMAIN origin'
        BY <1>4 DEF n
      <4> QED
        BY <2>2, <3>1, <4>1, <1>4, <1>5 DEF r
    <3>2. CASE c # b
      BY <2>2, <3>2, <1>1
    <3> QED
      BY <3>1, <3>2
  <2> QED
    BY <2>1, <2>2 DEF Files, NoStrayData, Holds
<1> QED
  BY <1>8, <1>9, <1>10, <1>11, <1>12 DEF Files

\* An attachment that is refused: its request goes on to remove the file, then does,
\* or fails to.
LEMMA FilesRemoved ==
    ASSUME Shape, Files, NEW b \in Browsers, AttachFails(b) \/ RemoveData(b) \/ RemoveFails(b)
    PROVE  Files'
<1> DEFINE r == request[b]
<1>1. CASE AttachFails(b)
  <2>1. /\ UNCHANGED <<origin, dataState>>
        /\ \A c \in Browsers \ {b} : request'[c] = request[c]
        /\ request[b].at = "attaching" /\ request'[b].at = "removing"
        /\ request'[b].content = request[b].content /\ request'[b].file = request[b].file
    BY <1>1 DEF AttachFails, Becomes, Resumes, Shape, project, dataState
  <2>2. \A c \in Browsers : /\ Holds(request'[c]) <=> Holds(request[c])
                            /\ Holds(request[c]) => request'[c].content = request[c].content
                                                    /\ request'[c].file = request[c].file
    BY <2>1 DEF Holds
  <2>3. /\ UNCHANGED <<origin, dataFiles, attached, forsaken, orphaned>>
        /\ \A c \in Browsers : request'[c].at = "writing" => request[c].at = "writing"
    BY <2>1 DEF dataState
  <2> HIDE DEF r
  <2>6. FilesTyped'
    <3>1. \A c \in Browsers : request'[c].at = "writing" \/ Holds(request'[c]) =>
              request'[c].file \in DataFiles
      BY <2>1, <2>2 DEF Files, FilesTyped
    <3> QED
      BY <3>1, <2>3 DEF Files, FilesTyped
  <2>7. HoldersOwn'
    BY <2>2, <2>3 DEF Files, HoldersOwn
  <2>8. AttachmentsIntact'
    BY <2>3 DEF Files, AttachmentsIntact
  <2>4. RemovedInVain'
    BY <2>1, <2>2, <2>3 DEF Files, RemovedInVain
  <2>5. NoStrayData'
    BY <2>2, <2>3 DEF Files, NoStrayData, Holds
  <2> QED
    BY <2>4, <2>5, <2>6, <2>7, <2>8 DEF Files
<1>2. CASE RemoveData(b)
  <2>1. /\ UNCHANGED <<origin, attached, forsaken, orphaned>>
        /\ \A c \in Browsers \ {b} : request'[c] = request[c]
        /\ request[b].at = "removing"
        /\ ~Holds(request'[b]) /\ request'[b].at # "writing"
    BY <1>2 DEF RemoveData, Becomes, Ends, NoRequest, Holds, Resumes, Shape, project
  <2>2. /\ Holds(r) /\ r.file \in DataFiles /\ dataFiles[r.file] = r.content
        /\ r.content \in 1..attached
        /\ \A c \in Browsers \ {b} : Holds(request[c]) => request[c].content # r.content
    BY <2>1 DEF Files, FilesTyped, HoldersOwn, Holds
  <2>3. /\ dataFiles'[r.file] = Nothing
        /\ \A f \in DataFiles \ {r.file} : dataFiles'[f] = dataFiles[f]
    BY <1>2, <2>2 DEF RemoveData, Shape
  <2>4. r.content # Nothing
    BY <2>2, ServiceAssumption DEF ServiceAssumption, Files, FilesTyped
  <2> HIDE DEF r
  <2>5. \A f \in DataFiles \ {r.file} : dataFiles[f] # r.content
    BY <2>2, <2>4 DEF Files, FilesTyped
  <2>6. FilesTyped'
    <3>1. \A c \in Browsers : request'[c].at = "writing" \/ Holds(request'[c]) =>
              request'[c].file \in DataFiles
      BY <2>1 DEF Files, FilesTyped
    <3>2. \A f \in DataFiles : dataFiles'[f] \in {Nothing, dataFiles[f]}
      BY <2>3
    <3> QED
      BY <3>1, <3>2, <2>1 DEF Files, FilesTyped
  <2>7. HoldersOwn'
    <3>1. \A c \in Browsers \ {b} : Holds(request[c]) => request[c].file # r.file
      BY <2>2 DEF Files, HoldersOwn
    <3>2. \A c \in Browsers \ {b} : Holds(request[c]) => request[c].file \in DataFiles
      BY DEF Files, FilesTyped
    <3> QED
      BY <3>1, <3>2, <2>1, <2>3 DEF Files, HoldersOwn
  <2>8. RemovedInVain'
    BY <2>1 DEF Files, RemovedInVain
  <2>9. AttachmentsIntact'
    <3>1. \A i \in DOMAIN origin : origin[i].kind = "attach" /\ origin[i].content = r.content =>
              r.content \in forsaken
      BY <2>2 DEF Files, RemovedInVain, r
    <3>2. \A i \in DOMAIN origin : origin[i].kind = "attach" => origin[i].file \in DataFiles
      BY DEF Files, FilesTyped
    <3> QED
      BY <3>1, <3>2, <2>1, <2>2, <2>3 DEF Files, AttachmentsIntact
  <2>10. NoStrayData'
    <3> SUFFICES ASSUME NEW f \in DataFiles, dataFiles'[f] \notin {Nothing} \cup orphaned,
                        ~\E i \in DOMAIN origin : /\ origin[i].kind = "attach"
                                                  /\ origin[i].content = dataFiles'[f]
                 PROVE  \E c \in Browsers : /\ Holds(request'[c])
                                            /\ request'[c].content = dataFiles'[f]
      BY <2>1 DEF NoStrayData, Holds
    <3>1. f # r.file /\ dataFiles'[f] = dataFiles[f] /\ dataFiles[f] # r.content
      BY <2>3, <2>5
    <3>2. PICK c \in Browsers : Holds(request[c]) /\ request[c].content = dataFiles[f]
      BY <3>1 DEF Files, NoStrayData, Holds
    <3>3. c # b
      BY <3>1, <3>2 DEF r
    <3> QED
      BY <3>1, <3>2, <3>3, <2>1
  <2> QED
    BY <2>6, <2>7, <2>8, <2>9, <2>10 DEF Files
<1>3. CASE RemoveFails(b)
  <2>1. /\ UNCHANGED <<origin, dataFiles, attached, forsaken>>
        /\ orphaned' = orphaned \cup {request[b].content}
        /\ \A c \in Browsers \ {b} : request'[c] = request[c]
        /\ ~Holds(request'[b]) /\ request'[b].at # "writing"
    BY <1>3 DEF RemoveFails, Becomes, Ends, NoRequest, Holds, Shape, project
  <2>2. FilesTyped' /\ HoldersOwn' /\ RemovedInVain' /\ AttachmentsIntact'
    BY <2>1 DEF Files, FilesTyped, HoldersOwn, RemovedInVain, AttachmentsIntact
  <2>3. NoStrayData'
    BY <2>1 DEF Files, NoStrayData, Holds
  <2> QED
    BY <2>2, <2>3 DEF Files
<1> QED
  BY <1>1, <1>2, <1>3

\* A crash ends every request; what they held is orphaned.
LEMMA FilesCrashed ==
    ASSUME Shape, Files, ExportCrash
    PROVE  Files'
<1>1. /\ UNCHANGED <<origin, dataFiles, attached, forsaken>>
      /\ \A c \in Browsers : request'[c] = NoRequest
      /\ \A c \in Browsers : Holds(request[c]) => request[c].content \in orphaned'
      /\ orphaned \subseteq orphaned'
  BY DEF ExportCrash, ServiceCrash, project, Holds
<1>2. ~Holds(NoRequest) /\ NoRequest.at # "writing"
  BY DEF Holds, NoRequest
<1>3. FilesTyped' /\ HoldersOwn' /\ RemovedInVain' /\ AttachmentsIntact'
  BY <1>1, <1>2 DEF Files, FilesTyped, HoldersOwn, RemovedInVain, AttachmentsIntact
<1>4. NoStrayData'
  BY <1>1, <1>2 DEF Files, NoStrayData, Holds
<1> QED
  BY <1>3, <1>4 DEF Files

LEMMA FilesKept ==
    ASSUME Shape, Files, ExportNext
    PROVE  Files'
<1> DEFINE Elsewhere(b) ==
        /\ UNCHANGED dataState
        /\ UNCHANGED origin \/ \E by : origin' = Append(origin, by) /\ by.kind # "attach"
        /\ \A c \in Browsers \ {b} : request'[c] = request[c]
        /\ \/ request'[b] = request[b]
           \/ /\ ~Holds(request[b]) /\ ~Holds(request'[b])
              /\ request'[b].at = "writing" => request'[b].file \in DataFiles
<1>1. ASSUME NEW b \in Browsers, Elsewhere(b)
      PROVE  Files'
  BY <1>1, FilesElsewhere
<1> HIDE DEF Elsewhere
<1>2. ASSUME NEW b \in Browsers, ServiceStep(b)
      PROVE  Files'
  <2> USE DEF Asks, Resumes, Becomes, Ends, NoRequest, Holds, project
  <2>1. ASSUME NEW id \in SourceIds, NEW data \in DataFiles, NEW url \in Urls \cup {Nothing},
               AttachOpen(b, id, data, url)
        PROVE  Elsewhere(b)
    BY <2>1 DEF AttachOpen, Shape, Elsewhere
  <2>2. CASE PlanGiven(b) \/ PlanAsk(b)
    <3>1. CASE PlanGiven(b)
      <4>1. PICK base, change, declared, confirmed : Made(b, base, change, declared, confirmed)
        BY <3>1 DEF PlanGiven
      <4>2. request' = [request EXCEPT ![b] = [at |-> "persisting", hash |-> Len(planned')]]
        BY <4>1 DEF Made
      <4>3. request[b] = NoRequest /\ UNCHANGED dataState /\ UNCHANGED origin
        BY <3>1 DEF PlanGiven
      <4>4. /\ \A c \in Browsers \ {b} : request'[c] = request[c]
            /\ request'[b].at = "persisting" /\ request[b].at = "none"
        BY <4>2, <4>3 DEF Shape
      <4>5. Elsewhere(b)
        BY <4>3, <4>4 DEF Elsewhere
      <4> QED
        BY <4>5, <1>1
    <3>2. CASE PlanAsk(b)
      BY <3>2, <1>1 DEF PlanAsk, Shape, Elsewhere
    <3> QED
      BY <2>2, <3>1, <3>2
  <2>3. CASE PlanMade(b) \/ PersistPlan(b) \/ PersistFails(b)
    <3>1. Elsewhere(b)
      BY <2>3 DEF PlanMade, PersistPlan, PersistFails, Made, Shape, Elsewhere
    <3> QED
      BY <3>1, <1>1
  <2>4. ASSUME NEW hash \in DOMAIN planned, PlanLooked(b, hash) \/ ApplyCheck(b, hash)
        PROVE  Elsewhere(b)
    BY <2>4 DEF PlanLooked, ApplyCheck, Shape, Elsewhere
  <2>5. CASE ApplyCommit(b) \/ ApplyFails(b)
    <3>1. Elsewhere(b)
      BY <2>5 DEF ApplyCommit, ApplyFails, AppendRevision, Shape, Elsewhere
    <3> QED
      BY <3>1, <1>1
  <2>6. ASSUME NEW target \in 1..Current - 1, Restore(b, target)
        PROVE  Elsewhere(b)
    BY <2>6 DEF Restore, AppendRevision, Shape, Elsewhere
  <2> QED
    BY <1>1, <1>2, <2>1, <2>2, <2>3, <2>4, <2>5, <2>6, FilesWritten, FilesCutShort,
       FilesAttached, FilesRemoved DEF ServiceStep
<1>3. ASSUME NEW b \in Browsers, ExportStep(b)
      PROVE  Elsewhere(b)
  <2> USE DEF Asks, Resumes, Becomes, Ends, NoRequest, Holds, project,
                   ServiceUnchanged, exportVars
  <2>1. ASSUME NEW target \in Targets, PreviewOpen(b, target)
        PROVE  Elsewhere(b)
    BY <2>1 DEF PreviewOpen, Shape, Elsewhere
  <2>2. CASE PreviewDone(b) \/ CommitOpen(b) \/ CommitRename(b) \/ CommitReceipt(b)
    BY <2>2 DEF PreviewDone, CommitOpen, CommitRename, CommitReceipt, Shape, Elsewhere
  <2>3. ASSUME NEW hash \in DOMAIN previewed, CommitAsk(b, hash)
        PROVE  Elsewhere(b)
    BY <2>3 DEF CommitAsk, Shape, Elsewhere
  <2>4. CASE ExportThrows(b)
    BY <2>4 DEF ExportThrows, Shape, Elsewhere
  <2> QED
    BY <1>3, <2>1, <2>2, <2>3, <2>4 DEF ExportStep
<1> QED
  BY <1>1, <1>2, <1>3, FilesCrashed DEF ExportNext

(***************************************************************************)
(* Plans.                                                                  *)
(***************************************************************************)
Plans ==
    /\ \A h \in DOMAIN planned : planned[h].base \in Nat \ {0}
    /\ \A b \in Browsers : request[b].at = "planning" => request[b].base \in Nat \ {0}
    /\ \A b \in Browsers : LET r == request[b] IN
           r.at = "applying" =>
               /\ r.hash \in DOMAIN planned /\ planned[r.hash].confirmed
               /\ r.checked \in DOMAIN log
               /\ Fits(planned[r.hash], log[r.checked]) =>
                      Undeclared(planned[r.hash], log[r.checked]) = {}
    /\ origin[1].kind # "plan"
    /\ \A r \in DOMAIN origin : origin[r].kind = "plan" =>
           origin[r].hash \in DOMAIN planned /\ planned[origin[r].hash].base + 1 = r
    /\ PlansApplyAsReviewed

\* What holds of a request that has passed the check of its plan.
Checked(plan, checked) ==
    /\ plan.confirmed
    /\ checked \in DOMAIN log
    /\ Fits(plan, log[checked]) => Undeclared(plan, log[checked]) = {}

LEMMA HistoryStays ==
    ASSUME Shape, HistoryGrows
    PROVE  /\ \A h \in DOMAIN planned : h \in DOMAIN planned' /\ planned'[h] = planned[h]
           /\ \A h \in DOMAIN previewed : h \in DOMAIN previewed' /\ previewed'[h] = previewed[h]
           /\ \A i \in DOMAIN log : i \in DOMAIN log' /\ log'[i] = log[i]
           /\ \A i \in DOMAIN origin : i \in DOMAIN origin' /\ origin'[i] = origin[i]
           /\ DOMAIN log = 1..Len(log) /\ DOMAIN origin = 1..Len(log)
           /\ 1 \in DOMAIN log /\ Len(log) \in DOMAIN log
<1>1. /\ Sequence(log) /\ Sequence(origin) /\ Sequence(planned) /\ Sequence(previewed)
      /\ Len(log) \in Nat \ {0} /\ Len(origin) = Len(log)
  BY DEF Shape
<1>2. /\ Extends(log', log) /\ Extends(origin', origin)
      /\ Extends(planned', planned) /\ Extends(previewed', previewed)
  BY DEF HistoryGrows, Extends
<1>3. DOMAIN log = 1..Len(log) /\ DOMAIN origin = 1..Len(log)
  BY <1>1, Appended
<1> QED
  BY <1>1, <1>2, <1>3, ExtendsKeeps

\* A step that applies no plan.
LEMMA PlansElsewhere ==
    ASSUME Shape, Plans, HistoryGrows,
           \A h \in DOMAIN planned' \ DOMAIN planned : planned'[h].base \in Nat \ {0},
           \A c \in Browsers : request'[c] # request[c] =>
               /\ request'[c].at = "planning" => request'[c].base \in Nat \ {0}
               /\ request'[c].at = "applying" =>
                      /\ request'[c].hash \in DOMAIN planned
                      /\ Checked(planned[request'[c].hash], request'[c].checked),
           UNCHANGED origin \/ \E by : origin' = Append(origin, by) /\ by.kind # "plan"
    PROVE  Plans'
<1>1. /\ \A h \in DOMAIN planned : h \in DOMAIN planned' /\ planned'[h] = planned[h]
      /\ \A i \in DOMAIN log : i \in DOMAIN log' /\ log'[i] = log[i]
      /\ 1 \in DOMAIN origin /\ \A i \in DOMAIN origin : origin'[i] = origin[i]
      /\ DOMAIN log = 1..Len(log) /\ DOMAIN origin = 1..Len(log) /\ Len(log) \in Nat
  BY HistoryStays DEF Shape
<1>2. \A i \in DOMAIN origin' : origin'[i].kind = "plan" =>
          i \in DOMAIN origin /\ origin'[i] = origin[i] /\ origin[i].kind = "plan"
  <2>1. CASE UNCHANGED origin
    BY <2>1
  <2>2. ASSUME NEW by, origin' = Append(origin, by), by.kind # "plan"
        PROVE  \A i \in DOMAIN origin' : origin'[i].kind = "plan" =>
                   i \in DOMAIN origin /\ origin'[i] = origin[i] /\ origin[i].kind = "plan"
    <3>1. Sequence(origin)
      BY DEF Shape
    <3>2. \A i \in DOMAIN origin' :
              (i \in DOMAIN origin /\ origin'[i] = origin[i]) \/ origin'[i] = by
      BY <3>1, <2>2, AppendedElements
    <3> QED
      BY <2>2, <3>2
  <2> QED
    BY <2>1, <2>2
<1>3. \A h \in DOMAIN planned' : planned'[h].base \in Nat \ {0}
  BY <1>1 DEF Plans
<1>4. \A b \in Browsers : request'[b].at = "planning" => request'[b].base \in Nat \ {0}
  BY DEF Plans
<1>5. \A b \in Browsers : request'[b].at = "applying" =>
          /\ request'[b].hash \in DOMAIN planned'
          /\ planned'[request'[b].hash].confirmed
          /\ request'[b].checked \in DOMAIN log'
          /\ Fits(planned'[request'[b].hash], log'[request'[b].checked]) =>
                 Undeclared(planned'[request'[b].hash], log'[request'[b].checked]) = {}
  <2> SUFFICES ASSUME NEW b \in Browsers, request'[b].at = "applying"
               PROVE  /\ request'[b].hash \in DOMAIN planned
                      /\ Checked(planned[request'[b].hash], request'[b].checked)
    BY <1>1 DEF Checked
  <2> QED
    BY DEF Plans, Checked
<1>6. \A i \in DOMAIN origin' : origin'[i].kind = "plan" =>
          origin'[i].hash \in DOMAIN planned' /\ planned'[origin'[i].hash].base + 1 = i
  BY <1>1, <1>2 DEF Plans
<1>7. PlansApplyAsReviewed'
  <2> SUFFICES ASSUME NEW i \in DOMAIN origin', origin'[i].kind = "plan"
               PROVE  LET by == origin'[i] plan == planned'[by.hash] IN
                          /\ i = plan.base + 1 /\ log'[i] = Changed(plan, log'[plan.base])
                          /\ plan.confirmed
                          /\ by.checked >= plan.base => Undeclared(plan, log'[plan.base]) = {}
    BY DEF PlansApplyAsReviewed
  <2> DEFINE by == origin[i]
             plan == planned[by.hash]
  <2>1. /\ i \in DOMAIN origin /\ origin'[i] = by /\ by.kind = "plan"
        /\ by.hash \in DOMAIN planned /\ planned'[by.hash] = plan
    BY <1>1, <1>2 DEF Plans
  <2>2. /\ i = plan.base + 1 /\ log[i] = Changed(plan, log[plan.base])
        /\ plan.confirmed
        /\ by.checked >= plan.base => Undeclared(plan, log[plan.base]) = {}
    BY <2>1 DEF Plans, PlansApplyAsReviewed
  <2>3. plan.base \in Nat \ {0}
    BY <2>1 DEF Plans
  <2>4. i \in 1..Len(log) /\ plan.base \in 1..Len(log)
    <3> HIDE DEF plan, by
    <3> QED
      BY <2>1, <2>2, <2>3, <1>1
  <2> QED
    BY <2>1, <2>2, <2>4, <1>1
<1> QED
  BY <1>1, <1>3, <1>4, <1>5, <1>6, <1>7 DEF Plans

LEMMA PlansApplied ==
    ASSUME Shape, Plans, HistoryGrows, NEW b \in Browsers, ApplyCommit(b)
    PROVE  Plans'
<1> DEFINE r == request[b]
           plan == planned[r.hash]
           by == [kind |-> "plan", hash |-> r.hash, checked |-> r.checked]
           n == Len(log) + 1
<1>1. /\ r.at = "applying" /\ plan.base = Len(log) /\ Fits(plan, log[Len(log)])
      /\ log' = Append(log, Changed(plan, log[Len(log)]))
      /\ origin' = Append(origin, by)
      /\ planned' = planned
      /\ \A c \in Browsers : request'[c] = IF c = b THEN NoRequest ELSE request[c]
  BY DEF ApplyCommit, Resumes, AppendRevision, Ends, Becomes, planState, Shape, Current
<1>2. /\ r.hash \in DOMAIN planned /\ plan.confirmed /\ r.checked \in DOMAIN log
      /\ Fits(plan, log[r.checked]) => Undeclared(plan, log[r.checked]) = {}
  BY <1>1 DEF Plans
<1>3. /\ \A i \in DOMAIN log : i \in DOMAIN log' /\ log'[i] = log[i]
      /\ 1 \in DOMAIN origin /\ \A i \in DOMAIN origin : origin'[i] = origin[i]
      /\ DOMAIN log = 1..Len(log) /\ DOMAIN origin = 1..Len(log)
      /\ Len(log) \in Nat \ {0} /\ Len(origin) = Len(log)
  BY HistoryStays DEF Shape
<1>4. /\ log'[n] = Changed(plan, log[Len(log)]) /\ origin'[n] = by
      /\ \A i \in DOMAIN origin' : i \in DOMAIN origin \/ i = n
  <2>1. Sequence(log) /\ Sequence(origin)
    BY DEF Shape
  <2> QED
    BY <1>1, <1>3, <2>1, Appended
<1>5. by.hash = r.hash /\ by.checked = r.checked /\ NoRequest.at \notin {"planning", "applying"}
  BY DEF NoRequest
<1> HIDE DEF r, plan, by, n
<1>6. r.checked >= plan.base => Undeclared(plan, log[plan.base]) = {}
  <2>1. r.checked >= plan.base => r.checked = plan.base
    BY <1>1, <1>2, <1>3
  <2> QED
    BY <2>1, <1>1, <1>2
<1>7. \A c \in Browsers : request'[c].at \in {"planning", "applying"} => request'[c] = request[c]
  BY <1>1, <1>5
<1>8. /\ \A h \in DOMAIN planned' : planned'[h].base \in Nat \ {0}
      /\ \A c \in Browsers : request'[c].at = "planning" => request'[c].base \in Nat \ {0}
      /\ origin'[1].kind # "plan"
  BY <1>1, <1>3, <1>7 DEF Plans
<1>9. \A c \in Browsers : request'[c].at = "applying" =>
          /\ request'[c].hash \in DOMAIN planned'
          /\ planned'[request'[c].hash].confirmed
          /\ request'[c].checked \in DOMAIN log'
          /\ Fits(planned'[request'[c].hash], log'[request'[c].checked]) =>
                 Undeclared(planned'[request'[c].hash], log'[request'[c].checked]) = {}
  <2> SUFFICES ASSUME NEW c \in Browsers, request'[c].at = "applying"
               PROVE  /\ request'[c].hash \in DOMAIN planned'
                      /\ planned'[request'[c].hash].confirmed
                      /\ request'[c].checked \in DOMAIN log'
                      /\ Fits(planned'[request'[c].hash], log'[request'[c].checked]) =>
                             Undeclared(planned'[request'[c].hash], log'[request'[c].checked]) = {}
    OBVIOUS
  <2>1. request'[c] = request[c] /\ planned' = planned
    BY <1>1, <1>7
  <2>2. /\ request[c].hash \in DOMAIN planned
        /\ planned[request[c].hash].confirmed
        /\ request[c].checked \in DOMAIN log
        /\ Fits(planned[request[c].hash], log[request[c].checked]) =>
               Undeclared(planned[request[c].hash], log[request[c].checked]) = {}
    BY <2>1 DEF Plans
  <2> QED
    BY <2>1, <2>2, <1>3
<1>10. \A i \in DOMAIN origin' : origin'[i].kind = "plan" =>
           origin'[i].hash \in DOMAIN planned' /\ planned'[origin'[i].hash].base + 1 = i
  <2>1. by.hash \in DOMAIN planned /\ planned[by.hash].base + 1 = n
    BY <1>1, <1>2, <1>5 DEF n, plan
  <2> QED
    BY <2>1, <1>1, <1>3, <1>4 DEF Plans
<1>11. PlansApplyAsReviewed'
  <2> SUFFICES ASSUME NEW i \in DOMAIN origin', origin'[i].kind = "plan"
               PROVE  /\ i = planned[origin'[i].hash].base + 1
                      /\ log'[i] = Changed(planned[origin'[i].hash],
                                           log'[planned[origin'[i].hash].base])
                      /\ planned[origin'[i].hash].confirmed
                      /\ origin'[i].checked >= planned[origin'[i].hash].base =>
                             Undeclared(planned[origin'[i].hash],
                                        log'[planned[origin'[i].hash].base]) = {}
    BY <1>1 DEF PlansApplyAsReviewed
  <2>1. CASE i = n
    <3>1. origin'[i] = by /\ planned[origin'[i].hash] = plan
      BY <2>1, <1>4, <1>5 DEF plan
    <3>2. plan.base \in DOMAIN log /\ log'[plan.base] = log[plan.base]
      BY <1>1, <1>3
    <3> QED
      BY <2>1, <3>1, <3>2, <1>1, <1>2, <1>4, <1>5, <1>6 DEF n
  <2>2. CASE i \in DOMAIN origin
    <3> DEFINE old == planned[origin[i].hash]
    <3>1. /\ origin'[i] = origin[i] /\ origin[i].hash \in DOMAIN planned
          /\ i = old.base + 1 /\ log[i] = Changed(old, log[old.base])
          /\ old.confirmed
          /\ origin[i].checked >= old.base => Undeclared(old, log[old.base]) = {}
          /\ old.base \in Nat \ {0}
      BY <2>2, <1>3 DEF Plans, PlansApplyAsReviewed
    <3>2. i \in 1..Len(log) /\ old.base \in 1..Len(log)
      <4> HIDE DEF old
      <4> QED
        BY <2>2, <3>1, <1>3
    <3> QED
      BY <3>1, <3>2, <1>3
  <2> QED
    BY <2>1, <2>2, <1>4
<1> QED
  BY <1>8, <1>9, <1>10, <1>11 DEF Plans

LEMMA PlansKept ==
    ASSUME Shape, Plans, ExportNext
    PROVE  Plans'
<1> DEFINE Elsewhere(b) ==
        /\ \A h \in DOMAIN planned' \ DOMAIN planned : planned'[h].base \in Nat \ {0}
        /\ \A c \in Browsers \ {b} : request'[c] = request[c]
        /\ request'[b].at = "planning" => request'[b].base \in Nat \ {0}
        /\ request'[b].at = "applying" =>
               /\ request'[b].hash \in DOMAIN planned
               /\ Checked(planned[request'[b].hash], request'[b].checked)
        /\ UNCHANGED origin \/ \E by : origin' = Append(origin, by) /\ by.kind # "plan"
<1>1. HistoryGrows
  BY Moves
<1>2. ASSUME NEW b \in Browsers,
             request'[b] = request[b] \/ request'[b].at \notin {"planning", "applying"},
             \A c \in Browsers \ {b} : request'[c] = request[c],
             planned' = planned,
             UNCHANGED origin \/ \E by : origin' = Append(origin, by) /\ by.kind # "plan"
      PROVE  Plans'
  BY <1>1, <1>2, PlansElsewhere
<1>3. ASSUME NEW b \in Browsers, Elsewhere(b)
      PROVE  Plans'
  BY <1>1, <1>3, PlansElsewhere
<1> HIDE DEF Elsewhere
<1>4. /\ Sequence(planned) /\ Len(log) \in Nat \ {0} /\ Len(log) \in DOMAIN log
  BY <1>1, HistoryStays DEF Shape
\* A plan that is made is for a revision that is, or will be.
<1>5. ASSUME NEW b \in Browsers, NEW base \in Nat \ {0}, NEW change, NEW declared, NEW confirmed,
             Made(b, base, change, declared, confirmed), UNCHANGED origin
      PROVE  Plans'
  <2> DEFINE plan == [hash |-> Len(planned) + 1, base |-> base, change |-> change,
                      declared |-> declared, confirmed |-> confirmed]
  <2>1. planned' = Append(planned, plan) /\ plan.base = base
    BY <1>5 DEF Made
  <2> HIDE DEF plan
  <2>2. \A h \in DOMAIN planned' : h \in DOMAIN planned \/ planned'[h] = plan
    BY <2>1, <1>4, AppendedElements
  <2>3. /\ \A c \in Browsers \ {b} : request'[c] = request[c]
        /\ request'[b].at = "persisting"
    BY <1>5 DEF Made, Becomes, Shape
  <2> QED
    BY <2>1, <2>2, <2>3, <1>3, <1>5 DEF Elsewhere
<1>6. ASSUME NEW b \in Browsers, ServiceStep(b)
      PROVE  Plans'
  <2> USE DEF Asks, Resumes, Becomes, Ends, NoRequest, project
  <2>1. ASSUME NEW id \in SourceIds, NEW data \in DataFiles, NEW url \in Urls \cup {Nothing},
               AttachOpen(b, id, data, url)
        PROVE  Plans'
    BY <2>1, <1>2 DEF AttachOpen, Shape, planState
  <2>2. CASE WriteData(b) \/ WriteFails(b)
    BY <2>2, <1>2 DEF WriteData, WriteFails, Attaching, Shape, planState
  <2>3. CASE AttachApply(b) \/ AttachThrows(b)
    BY <2>3, <1>2 DEF AttachApply, AttachThrows, Attach, AppendRevision, Shape, planState
  <2>4. CASE AttachFails(b) \/ RemoveData(b) \/ RemoveFails(b)
    BY <2>4, <1>2 DEF AttachFails, RemoveData, RemoveFails, Shape, planState
  <2>5. CASE PlanGiven(b)
    <3>1. PICK base \in {Current, Current + 1} :
              \E change, declared, confirmed : Made(b, base, change, declared, confirmed)
      BY <2>5 DEF PlanGiven
    <3>2. base \in Nat \ {0}
      BY <3>1, <1>4 DEF Current
    <3>3. UNCHANGED origin
      BY <2>5 DEF PlanGiven
    <3> QED
      BY <3>1, <3>2, <3>3, <1>5
  <2>6. CASE PlanAsk(b)
    <3>1. Elsewhere(b)
      BY <2>6, <1>4 DEF PlanAsk, Shape, planState, Current, Elsewhere
    <3> QED
      BY <3>1, <1>3
  <2>7. CASE PlanMade(b)
    <3>1. Made(b, request[b].base, [kind |-> "style"], {}, TRUE) /\ UNCHANGED origin
      BY <2>7 DEF PlanMade
    <3>2. request[b].base \in Nat \ {0}
      BY <2>7 DEF PlanMade, Plans
    <3> QED
      BY <3>1, <3>2, <1>5
  <2>8. CASE PersistPlan(b) \/ PersistFails(b)
    BY <2>8, <1>2 DEF PersistPlan, PersistFails, Shape, planState
  <2>9. ASSUME NEW hash \in DOMAIN planned, PlanLooked(b, hash)
        PROVE  Plans'
    BY <2>9, <1>2 DEF PlanLooked
  <2>10. ASSUME NEW hash \in DOMAIN planned, ApplyCheck(b, hash)
         PROVE  Plans'
    <3>1. Checked(planned[hash], Len(log))
      BY <2>10, <1>4 DEF ApplyCheck, Allowed, Checked, Current
    <3>2. /\ request'[b].at = "applying" /\ request'[b].hash = hash
          /\ request'[b].checked = Len(log)
          /\ \A c \in Browsers \ {b} : request'[c] = request[c]
          /\ planned' = planned /\ UNCHANGED origin
      BY <2>10 DEF ApplyCheck, Shape, Current
    <3> QED
      BY <3>1, <3>2, <1>3 DEF Elsewhere
  <2>11. CASE ApplyCommit(b)
    BY <2>11, <1>1, PlansApplied
  <2>12. CASE ApplyFails(b)
    BY <2>12, <1>2 DEF ApplyFails, Shape, planState
  <2>13. ASSUME NEW target \in 1..Current - 1, Restore(b, target)
         PROVE  Plans'
    BY <2>13, <1>2 DEF Restore, AppendRevision, planState
  <2> QED
    BY <1>6, <2>1, <2>2, <2>3, <2>4, <2>5, <2>6, <2>7, <2>8, <2>9, <2>10, <2>11, <2>12, <2>13
       DEF ServiceStep
<1>7. ASSUME NEW b \in Browsers, ExportStep(b)
      PROVE  Plans'
  <2> USE DEF Asks, Resumes, Becomes, Ends, NoRequest, project, ServiceUnchanged, planState
  <2>1. ASSUME NEW target \in Targets, PreviewOpen(b, target)
        PROVE  Plans'
    BY <2>1, <1>2 DEF PreviewOpen, Shape
  <2>2. CASE PreviewDone(b) \/ CommitOpen(b) \/ CommitRename(b) \/ CommitReceipt(b)
    BY <2>2, <1>2 DEF PreviewDone, CommitOpen, CommitRename, CommitReceipt, Shape
  <2>3. ASSUME NEW hash \in DOMAIN previewed, CommitAsk(b, hash)
        PROVE  Plans'
    BY <2>3, <1>2 DEF CommitAsk, Shape
  <2>4. CASE ExportThrows(b)
    BY <2>4, <1>2 DEF ExportThrows, Shape
  <2> QED
    BY <1>7, <2>1, <2>2, <2>3, <2>4 DEF ExportStep
<1>8. CASE ExportCrash
  <2>1. /\ \A c \in Browsers : request'[c].at = "none"
        /\ planned' = planned /\ UNCHANGED origin
    BY <1>8 DEF ExportCrash, ServiceCrash, NoRequest, project
  <2> QED
    BY <2>1, <1>1, PlansElsewhere
<1> QED
  BY <1>6, <1>7, <1>8 DEF ExportNext

(***************************************************************************)
(* What has been answered is in its file, or the crash would lose it.      *)
(***************************************************************************)
InItsFile == offered \subseteq planFiles /\ reviewed \subseteq previewFiles

LEMMA AnsweredKept ==
    ASSUME InItsFile, ExportNext
    PROVE  InItsFile'
<1> USE DEF InItsFile, planState, previewState, exportVars, ServiceUnchanged
<1>1. ASSUME NEW b \in Browsers, ServiceStep(b), UNCHANGED exportVars
      PROVE  InItsFile'
  <2>1. \/ UNCHANGED <<offered, planFiles>>
        \/ /\ offered' = offered \cup {request[b].hash}
           /\ planFiles' = planFiles \cup {request[b].hash}
    BY <1>1 DEF ServiceStep, AttachOpen, WriteData, WriteFails, AttachApply, AttachFails,
                AttachThrows, RemoveData, RemoveFails, PlanGiven, PlanAsk, PlanMade, PersistPlan,
                PersistFails, PlanLooked, ApplyCheck, ApplyCommit, ApplyFails, Restore
  <2> QED
    BY <1>1, <2>1
<1>2. ASSUME NEW b \in Browsers, ExportStep(b)
      PROVE  InItsFile'
  <2>1. UNCHANGED <<offered, planFiles>>
    BY <1>2 DEF ExportStep, PreviewOpen, PreviewDone, CommitAsk, CommitOpen, CommitRename,
                CommitReceipt, ExportThrows
  <2>2. \/ UNCHANGED <<reviewed, previewFiles>>
        \/ /\ reviewed' = reviewed \cup {Len(previewed) + 1}
           /\ previewFiles' = previewFiles \cup {Len(previewed) + 1}
    BY <1>2 DEF ExportStep, PreviewOpen, PreviewDone, CommitAsk, CommitOpen, CommitRename,
                CommitReceipt, ExportThrows
  <2> QED
    BY <2>1, <2>2
<1>3. CASE ExportCrash
  BY <1>3 DEF ExportCrash, ServiceCrash
<1> QED
  BY <1>1, <1>2, <1>3 DEF ExportNext

(***************************************************************************)
(* Exports.                                                                *)
(***************************************************************************)
\* What a request of an export has been shown on its way.
ExportOf(r) ==
    /\ r.at = "previewing" => r.target \in Targets
    /\ r.at \in {"confirming", "staging", "receipting"} => r.hash \in DOMAIN previewed
    /\ r.at \in {"confirming", "staging"} => ~previewed[r.hash].collision
    /\ r.at = "staging" => /\ previewed[r.hash].base \in DOMAIN log
                           /\ r.spec = log[previewed[r.hash].base]
    /\ r.at = "receipting" => /\ targets[previewed[r.hash].target] # FreeTarget
                              /\ targets[previewed[r.hash].target].hash = r.hash

\* The target t holds what was previewed for it.
Placed(t) ==
    LET h == targets[t].hash IN
    /\ h \in DOMAIN previewed
    /\ previewed[h].target = t /\ ~previewed[h].collision
    /\ previewed[h].base \in DOMAIN log /\ targets[t].spec = log[previewed[h].base]

Receipted(h) ==
    /\ h \in DOMAIN previewed
    /\ targets[previewed[h].target] # FreeTarget
    /\ targets[previewed[h].target].hash = h

Exports ==
    /\ \A h \in DOMAIN previewed : previewed[h].target \in Targets
    /\ \A b \in Browsers : ExportOf(request[b])
    /\ \A t \in Targets : targets[t] # FreeTarget => Placed(t)
    /\ \A h \in receipts : Receipted(h)

LEMMA ExportsReviewed == Exports => ExportsAsReviewed
BY DEF Exports, Placed, Receipted, ExportsAsReviewed

\* A target that is taken stays what it is.
TargetsStay == \A t \in Targets : targets[t] # FreeTarget => targets'[t] = targets[t]

LEMMA ExportOfStays ==
    ASSUME Shape, HistoryGrows, TargetsStay, NEW b \in Browsers,
           \A h \in DOMAIN previewed : previewed[h].target \in Targets,
           ExportOf(request'[b])
    PROVE  ExportOf(request[b])'
<1>1. /\ \A h \in DOMAIN previewed : h \in DOMAIN previewed' /\ previewed'[h] = previewed[h]
      /\ \A i \in DOMAIN log : i \in DOMAIN log' /\ log'[i] = log[i]
  BY HistoryStays
<1> QED
  BY <1>1 DEF ExportOf, TargetsStay, FreeTarget

LEMMA ExportsGrow ==
    ASSUME Shape, Exports, HistoryGrows, TargetsStay,
           \A h \in DOMAIN previewed' \ DOMAIN previewed : previewed'[h].target \in Targets,
           \A c \in Browsers : \/ request'[c] = request[c] \/ ExportOf(request'[c])
                               \/ ExportOf(request[c])',
           \A t \in Targets : targets'[t] = targets[t] \/ Placed(t)',
           \A h \in receipts' : h \in receipts \/ Receipted(h)
    PROVE  Exports'
<1>1. /\ \A h \in DOMAIN previewed : h \in DOMAIN previewed' /\ previewed'[h] = previewed[h]
      /\ \A i \in DOMAIN log : i \in DOMAIN log' /\ log'[i] = log[i]
  BY HistoryStays
<1>2. \A h \in DOMAIN previewed' : previewed'[h].target \in Targets
  BY <1>1 DEF Exports
<1>3. \A c \in Browsers : ExportOf(request[c])'
  <2> TAKE c \in Browsers
  <2>1. CASE ExportOf(request'[c])
    BY <2>1, ExportOfStays DEF Exports
  <2>2. request'[c] = request[c] => ExportOf(request'[c])
    BY DEF Exports
  <2> QED
    BY <2>1, <2>2
<1>4. \A t \in Targets : targets'[t] # FreeTarget => Placed(t)'
  <2> SUFFICES ASSUME NEW t \in Targets, targets[t] # FreeTarget, targets'[t] = targets[t]
               PROVE  Placed(t)'
    OBVIOUS
  <2>1. Placed(t)
    BY DEF Exports
  <2> QED
    BY <2>1, <1>1 DEF Placed
<1>5. \A h \in receipts' : Receipted(h)'
  <2> SUFFICES ASSUME NEW h, Receipted(h)
               PROVE  Receipted(h)'
    BY DEF Exports
  <2>1. previewed[h].target \in Targets
    BY DEF Exports, Receipted
  <2> QED
    BY <2>1, <1>1 DEF Receipted, TargetsStay
<1> QED
  BY <1>2, <1>3, <1>4, <1>5 DEF Exports

LEMMA ExportsKept ==
    ASSUME Shape, Exports, ExportNext
    PROVE  Exports'
<1>1. HistoryGrows
  BY Moves
<1>2. /\ Sequence(previewed) /\ Len(log) \in DOMAIN log
      /\ \A h \in DOMAIN previewed : h # 0
  BY <1>1, HistoryStays, Appended DEF Shape
\* A step that previews nothing, moves nothing into a target and writes no receipt.
<1>3. ASSUME NEW b \in Browsers,
             \A c \in Browsers \ {b} : request'[c] = request[c],
             ExportOf(request'[b]) \/ request'[b] = request[b],
             previewed' = previewed, targets' = targets, receipts' = receipts
      PROVE  Exports'
  <2>1. TargetsStay
    BY <1>3 DEF TargetsStay
  <2> QED
    BY <1>1, <1>3, <2>1, ExportsGrow
<1>4. \A r : r.at \notin {"previewing", "confirming", "staging", "receipting"} => ExportOf(r)
  BY DEF ExportOf
<1>5. ASSUME NEW b \in Browsers, ServiceStep(b), UNCHANGED exportVars
      PROVE  Exports'
  <2>1. previewed' = previewed /\ targets' = targets /\ receipts' = receipts
    BY <1>5 DEF exportVars, previewState
  <2>2. /\ \A c \in Browsers \ {b} : request'[c] = request[c]
        /\ \/ request'[b] = request[b]
           \/ request'[b].at \notin {"previewing", "confirming", "staging", "receipting"}
    <3> USE DEF Becomes, Ends, NoRequest, Shape
    <3>1. ASSUME NEW id \in SourceIds, NEW data \in DataFiles, NEW url \in Urls \cup {Nothing},
                 AttachOpen(b, id, data, url)
          PROVE  <2>2!:
      BY <3>1 DEF AttachOpen
    <3>2. CASE WriteData(b) \/ WriteFails(b)
      BY <3>2 DEF WriteData, WriteFails, Attaching
    <3>3. CASE \/ AttachApply(b) \/ AttachFails(b) \/ AttachThrows(b)
               \/ RemoveData(b) \/ RemoveFails(b)
      BY <3>3 DEF AttachApply, AttachFails, AttachThrows, RemoveData, RemoveFails
    <3>4. CASE PlanGiven(b)
      <4>1. PICK base, change, declared, confirmed : Made(b, base, change, declared, confirmed)
        BY <3>4 DEF PlanGiven
      <4> QED
        BY <4>1 DEF Made
    <3>5. CASE PlanAsk(b) \/ PlanMade(b) \/ PersistPlan(b) \/ PersistFails(b)
      BY <3>5 DEF PlanAsk, PlanMade, PersistPlan, PersistFails, Made
    <3>6. ASSUME NEW hash \in DOMAIN planned, PlanLooked(b, hash) \/ ApplyCheck(b, hash)
          PROVE  <2>2!:
      BY <3>6 DEF PlanLooked, ApplyCheck
    <3>7. CASE ApplyCommit(b) \/ ApplyFails(b)
      BY <3>7 DEF ApplyCommit, ApplyFails
    <3>8. ASSUME NEW target \in 1..Current - 1, Restore(b, target)
          PROVE  <2>2!:
      BY <3>8 DEF Restore
    <3> HIDE DEF Shape
    <3> QED
      BY <1>5, <3>1, <3>2, <3>3, <3>4, <3>5, <3>6, <3>7, <3>8 DEF ServiceStep
  <2> QED
    BY <1>3, <1>4, <2>1, <2>2
<1>6. ASSUME NEW b \in Browsers, ExportStep(b)
      PROVE  Exports'
  <2> USE DEF Asks, Resumes, Becomes, Ends, NoRequest, exportVars, previewState
  <2>1. ASSUME NEW target \in Targets, PreviewOpen(b, target)
        PROVE  Exports'
    <3>1. /\ \A c \in Browsers \ {b} : request'[c] = request[c]
          /\ request'[b].at = "previewing" /\ request'[b].target = target
          /\ previewed' = previewed /\ targets' = targets /\ receipts' = receipts
      BY <2>1 DEF PreviewOpen, Shape
    <3>2. ExportOf(request'[b])
      BY <3>1 DEF ExportOf
    <3> QED
      BY <1>3, <3>1, <3>2
  <2>2. CASE PreviewDone(b)
    <3> DEFINE r == request[b]
               preview == [target |-> r.target, base |-> r.base, spec |-> r.spec,
                           collision |-> targets[r.target] # FreeTarget]
    <3>1. /\ previewed' = Append(previewed, preview)
          /\ preview.target = r.target /\ r.at = "previewing"
          /\ \A c \in Browsers : request'[c] = IF c = b THEN NoRequest ELSE request[c]
          /\ targets' = targets /\ receipts' = receipts
      BY <2>2 DEF PreviewDone, Shape
    <3>2. r.target \in Targets
      BY <3>1 DEF Exports, ExportOf
    <3> HIDE DEF preview, r
    <3>3. \A h \in DOMAIN previewed' : h \in DOMAIN previewed \/ previewed'[h] = preview
      BY <3>1, <1>2, AppendedElements
    <3>4. TargetsStay
      BY <3>1 DEF TargetsStay
    <3> QED
      BY <1>1, <1>4, <3>1, <3>2, <3>3, <3>4, ExportsGrow
  <2>3. ASSUME NEW hash \in DOMAIN previewed, CommitAsk(b, hash)
        PROVE  Exports'
    <3>1. /\ \A c \in Browsers \ {b} : request'[c] = request[c]
          /\ \/ request'[b].at = "none"
             \/ /\ request'[b].at = "confirming" /\ request'[b].hash = hash
                /\ ~previewed[hash].collision
          /\ previewed' = previewed /\ targets' = targets /\ receipts' = receipts
      BY <2>3 DEF CommitAsk, Shape
    <3>2. ExportOf(request'[b])
      BY <3>1 DEF ExportOf
    <3> QED
      BY <1>3, <3>1, <3>2
  <2>4. CASE CommitOpen(b)
    <3> DEFINE preview == previewed[request[b].hash]
    <3>1. /\ request[b].at = "confirming"
          /\ \A c \in Browsers \ {b} : request'[c] = request[c]
          /\ \/ request'[b].at = "none"
             \/ /\ request'[b].at = "staging" /\ request'[b].hash = request[b].hash
                /\ preview.base = Len(log) /\ request'[b].spec = log[Len(log)]
          /\ previewed' = previewed /\ targets' = targets /\ receipts' = receipts
      BY <2>4 DEF CommitOpen, Shape, Current
    <3>2. request[b].hash \in DOMAIN previewed /\ ~preview.collision
      BY <3>1 DEF Exports, ExportOf
    <3>3. ExportOf(request'[b])
      BY <3>1, <3>2, <1>2 DEF ExportOf
    <3> QED
      BY <1>3, <3>1, <3>3
  <2>5. CASE CommitRename(b)
    <3> DEFINE r == request[b]
               preview == previewed[r.hash]
    <3>1. /\ r.at = "staging"
          /\ \A c \in Browsers \ {b} : request'[c] = request[c]
          /\ previewed' = previewed /\ receipts' = receipts /\ log' = log
      BY <2>5 DEF CommitRename, Shape, ServiceUnchanged, project
    <3>2. /\ r.hash \in DOMAIN previewed /\ ~preview.collision
          /\ preview.base \in DOMAIN log /\ r.spec = log[preview.base]
          /\ preview.target \in Targets /\ r.hash # 0
      BY <3>1, <1>2 DEF Exports, ExportOf
    <3>3. CASE targets[preview.target] # FreeTarget
      <4>1. request'[b].at = "none" /\ targets' = targets
        BY <2>5, <3>3 DEF CommitRename, Shape
      <4> QED
        BY <1>3, <1>4, <3>1, <4>1
    <3>4. CASE targets[preview.target] = FreeTarget
      <4> DEFINE placed == [hash |-> r.hash, spec |-> r.spec]
      <4>1. /\ targets'[preview.target] = placed
            /\ \A t \in Targets \ {preview.target} : targets'[t] = targets[t]
            /\ request'[b].at = "receipting" /\ request'[b].hash = r.hash
        <5>1. /\ targets' = [targets EXCEPT ![preview.target] = placed]
              /\ request' = [request EXCEPT ![b] = [at |-> "receipting", hash |-> r.hash]]
          BY <2>5, <3>4 DEF CommitRename
        <5> HIDE DEF placed, preview
        <5> QED
          BY <5>1, <3>2 DEF Shape
      <4>2. placed.hash = r.hash /\ placed.spec = r.spec /\ placed # FreeTarget
        BY <3>2 DEF FreeTarget
      <4> HIDE DEF placed, r
      <4>3. TargetsStay
        BY <3>4, <4>1 DEF TargetsStay
      <4>4. PICK t \in Targets : t = preview.target
        BY <3>2
      <4>6. Placed(t)'
        BY <3>1, <3>2, <4>1, <4>2, <4>4 DEF Placed
      <4>5. ExportOf(request[b])'
        BY <3>1, <3>2, <4>1, <4>2 DEF ExportOf
      <4> QED
        BY <1>1, <3>1, <4>1, <4>3, <4>4, <4>5, <4>6, ExportsGrow
    <3> QED
      BY <3>3, <3>4
  <2>6. CASE CommitReceipt(b)
    <3>1. /\ request[b].at = "receipting"
          /\ \A c \in Browsers : request'[c] = IF c = b THEN NoRequest ELSE request[c]
          /\ previewed' = previewed /\ targets' = targets
          /\ receipts' = receipts \cup {request[b].hash}
      BY <2>6 DEF CommitReceipt, Shape
    <3>2. Receipted(request[b].hash)
      BY <3>1 DEF Exports, ExportOf, Receipted
    <3>3. TargetsStay
      BY <3>1 DEF TargetsStay
    <3> QED
      BY <1>1, <1>4, <3>1, <3>2, <3>3, ExportsGrow
  <2>7. CASE ExportThrows(b)
    BY <2>7, <1>3, <1>4 DEF ExportThrows, Shape
  <2> QED
    BY <1>6, <2>1, <2>2, <2>3, <2>4, <2>5, <2>6, <2>7 DEF ExportStep
<1>7. CASE ExportCrash
  <2>1. /\ \A c \in Browsers : request'[c].at = "none"
        /\ previewed' = previewed /\ targets' = targets /\ receipts' = receipts
    BY <1>7 DEF ExportCrash, ServiceCrash, NoRequest
  <2>2. TargetsStay
    BY <2>1 DEF TargetsStay
  <2> QED
    BY <2>1, <2>2, <1>1, <1>4, ExportsGrow
<1> QED
  BY <1>5, <1>6, <1>7 DEF ExportNext

(***************************************************************************)
(* The theorems.                                                           *)
(***************************************************************************)
ProjectInvariant == Shape /\ Files /\ Plans /\ InItsFile /\ Exports

LEMMA ProjectInvariantHolds == ProjectSpec => []ProjectInvariant
<1>1. ServiceInit /\ ExportInit => ProjectInvariant
  <2> SUFFICES ASSUME ServiceInit, ExportInit
               PROVE  ProjectInvariant
    OBVIOUS
  <2>1. /\ Sequence(log) /\ Sequence(origin) /\ Sequence(planned) /\ Sequence(previewed)
        /\ Len(log) = 1 /\ Len(origin) = 1 /\ DOMAIN origin = {1}
        /\ DOMAIN planned = {} /\ DOMAIN previewed = {} /\ origin[1].kind = "create"
    BY DEF ServiceInit, ExportInit, Sequence
  <2>2. /\ \A b \in Browsers : request[b].at = "none"
        /\ \A f \in DataFiles : dataFiles[f] = Nothing
        /\ \A t \in Targets : targets[t] = FreeTarget
        /\ attached = 0 /\ receipts = {} /\ offered = {} /\ reviewed = {}
    BY DEF ServiceInit, ExportInit, NoRequest
  <2>3. Shape
    BY <2>1 DEF ServiceInit, ExportInit, Shape
  <2>4. Files
    BY <2>1, <2>2 DEF Files, FilesTyped, HoldersOwn, RemovedInVain, AttachmentsIntact,
                      NoStrayData, Holds
  <2>5. Plans
    BY <2>1, <2>2 DEF Plans, PlansApplyAsReviewed
  <2>6. InItsFile
    BY <2>2 DEF InItsFile
  <2>7. Exports
    BY <2>1, <2>2 DEF Exports, ExportOf
  <2> QED
    BY <2>3, <2>4, <2>5, <2>6, <2>7 DEF ProjectInvariant
<1>2. ProjectInvariant /\ [ExportNext]_projectVars => ProjectInvariant'
  <2>1. CASE ExportNext
    BY <2>1, ShapeKept, FilesKept, PlansKept, AnsweredKept, ExportsKept DEF ProjectInvariant
  <2>2. CASE UNCHANGED projectVars
    <3> SUFFICES ASSUME ProjectInvariant
                 PROVE  ProjectInvariant'
      BY <2>2
    <3> USE <2>2 DEF projectVars, serviceVars, project, dataState, planState, exportVars,
                     previewState, ProjectInvariant
    <3>1. Shape'
      BY DEF Shape
    <3>2. Files'
      BY DEF Files, FilesTyped, HoldersOwn, RemovedInVain, AttachmentsIntact, NoStrayData
    <3>3. Plans'
      BY DEF Plans, PlansApplyAsReviewed
    <3>4. InItsFile'
      BY DEF InItsFile
    <3>5. Exports'
      BY DEF Exports, ExportOf, Placed, Receipted
    <3> QED
      BY <3>1, <3>2, <3>3, <3>4, <3>5
  <2> QED
    BY <2>1, <2>2
<1> QED
  BY <1>1, <1>2, PTL DEF ProjectSpec, projectVars

\* The data of a revision that an attachment made is there, with what was attached,
\* whatever other attachments of that name, refusals and crashes there have been
\* (attachWorkbenchData), unless the attachment threw after its commit was on its way.
THEOREM AttachedDataIsKept == ProjectSpec => []AttachmentsIntact
<1>1. ProjectInvariant => AttachmentsIntact
  BY DEF ProjectInvariant, Files
<1> QED
  BY <1>1, ProjectInvariantHolds, PTL

\* An attachment that the project refuses leaves no data file behind
\* (attachWorkbenchData); only a crash, a failed write and a failed removal do.
THEOREM RefusalsLeaveNoData == ProjectSpec => []NoStrayData
<1>1. ProjectInvariant => NoStrayData
  BY DEF ProjectInvariant, Files
<1> QED
  BY <1>1, ProjectInvariantHolds, PTL

\* A plan is applied to the revision it was reviewed on, once confirmed
\* (applyWorkbenchPlan), although its commands are checked in another step than they
\* are applied in; it adds no resource it does not declare if its base revision was
\* there when they were checked.
THEOREM PlansAreAppliedAsReviewed == ProjectSpec => []PlansApplyAsReviewed
<1>1. ProjectInvariant => PlansApplyAsReviewed
  BY DEF ProjectInvariant, Plans
<1> QED
  BY <1>1, ProjectInvariantHolds, PTL

\* A plan or a preview that has been answered is found again after any number of
\* restarts (persistJsonArtifact, persistExportArtifact).
THEOREM AnswersOutliveRestarts == ProjectSpec => []AnsweredStay
<1>1. ProjectInvariant => AnsweredStay
  BY DEF ProjectInvariant, InItsFile, AnsweredStay
<1> QED
  BY <1>1, ProjectInvariantHolds, PTL

\* A target holds the revision whose preview was reviewed, and a receipt is one of
\* the export that is there (commitWorkbenchExport), with no lock held throughout.
THEOREM ExportsAreAsReviewed == ProjectSpec => []ExportsAsReviewed
<1>1. ProjectInvariant => ExportsAsReviewed
  BY ExportsReviewed DEF ProjectInvariant
<1> QED
  BY <1>1, ProjectInvariantHolds, PTL

allVars == <<storeVars, sessionVars>>

(***************************************************************************)
(* Sequences that grow at their end.                                       *)
(***************************************************************************)
\* What appending leaves and adds.
LEMMA AppendedTo ==
    ASSUME NEW s, Sequence(s), NEW e
    PROVE  /\ Sequence(Append(s, e))
           /\ Len(s) \in Nat /\ DOMAIN s = 1..Len(s)
           /\ Len(Append(s, e)) = Len(s) + 1 /\ DOMAIN Append(s, e) = 1..Len(s) + 1
           /\ \A i \in 1..Len(s) : Append(s, e)[i] = s[i]
           /\ Append(s, e)[Len(s) + 1] = e
           /\ \A i \in 1..Len(s) + 1 : i \in 1..Len(s) \/ i = Len(s) + 1
<1> DEFINE S == {s[i] : i \in DOMAIN s} \cup {e}
           t == Append(s, e)
<1>1. s \in Seq(S)
  <2>1. s \in Seq({s[i] : i \in DOMAIN s})
    BY DEF Sequence
  <2> QED
    BY <2>1
<1>2. /\ Len(s) \in Nat /\ DOMAIN s = 1..Len(s)
      /\ t \in Seq(S) /\ Len(t) = Len(s) + 1 /\ DOMAIN t = 1..Len(s) + 1
      /\ \A i \in 1..Len(s) : t[i] = s[i]
      /\ t[Len(s) + 1] = e
  BY <1>1
<1>3. t \in Seq({t[i] : i \in DOMAIN t})
  <2> HIDE DEF t
  <2>1. t = [i \in 1..Len(t) |-> t[i]] /\ Len(t) \in Nat
    BY <1>2
  <2> QED
    BY <2>1, <1>2
<1>4. \A i \in 1..Len(s) + 1 : i \in 1..Len(s) \/ i = Len(s) + 1
  BY <1>2
<1> QED
  BY <1>2, <1>3, <1>4 DEF Sequence

\* The prefixes of a sequence are those of what it is appended to, and it is the
\* last of them.
LEMMA PrefixesStay ==
    ASSUME NEW s, Sequence(s), NEW e
    PROVE  /\ \A i \in DOMAIN s : SubSeq(Append(s, e), 1, i - 1) = SubSeq(s, 1, i - 1)
           /\ SubSeq(Append(s, e), 1, Len(s)) = s
<1> DEFINE S == {s[i] : i \in DOMAIN s} \cup {e}
<1>1. s \in Seq(S) /\ Append(s, e) \in Seq(S) /\ Len(s) \in Nat /\ DOMAIN s = 1..Len(s)
  <2>1. s \in Seq({s[i] : i \in DOMAIN s})
    BY DEF Sequence
  <2> QED
    BY <2>1
<1>2. Len(Append(s, e)) = Len(s) + 1 /\ \A i \in 1..Len(s) : Append(s, e)[i] = s[i]
  BY <1>1
<1>3. ASSUME NEW i \in DOMAIN s
      PROVE  SubSeq(Append(s, e), 1, i - 1) = SubSeq(s, 1, i - 1)
  <2>1. i \in 1..Len(s) /\ i - 1 \in 0..Len(s) /\ i - 1 \in 0..Len(s) + 1
    BY <1>1
  <2> QED
    BY <1>1, <1>2, <2>1
<1>4. SubSeq(Append(s, e), 1, Len(s)) = s
  BY <1>1, <1>2
<1> QED
  BY <1>3, <1>4

(***************************************************************************)
(* The store.                                                              *)
(***************************************************************************)
Rows(d) == d = [m \in MapIds |-> d[m]]

StoreTyped ==
    /\ call = [c \in Clients |-> call[c]]
    /\ Sequence(dbs) /\ handle \in 0..Len(dbs)
    /\ Rows(acked)

\* Where a request holds a database that it will write.
HasDatabase == {"creating", "persisting", "writing"}

\* A change of a map is on its way to the file.
Persisting(m) == \E c \in Clients : call[c].at = "persisting" /\ call[c].map = m
Dirty(m) == \E c \in Clients : call[c].at \in {"persisting", "writing"} /\ call[c].map = m

\* Before the database is open the file holds what has been acknowledged, and
\* whoever has read it has that.
Closed ==
    /\ file = acked /\ unwritten = FALSE /\ unanswered = {}
    /\ \A c \in Clients : /\ call[c].at \in {"idle", "asking", "opening", "read"}
                          /\ call[c].at = "read" => call[c].bytes = file

\* Once it is open there is one database, the rows that nobody changes are as
\* acknowledged if no change of them was answered an error, and what is being written,
\* or was written last and went through, lacks only the changes whose write has not
\* begun.
OneDatabase ==
    /\ Rows(dbs[handle])
    /\ \A c \in Clients : call[c].at \in HasDatabase => call[c].db = handle
    /\ \A m \in MapIds : Dirty(m) \/ m \in unanswered \/ dbs[handle][m] = acked[m]
    /\ \A c \in Writing : /\ Rows(call[c].bytes)
                          /\ \A m \in MapIds : Persisting(m) \/ call[c].bytes[m] = dbs[handle][m]
    /\ Writing = {} /\ ~unwritten =>
           \A m \in MapIds : Persisting(m) \/ file[m] = dbs[handle][m]

Quiet ==
    /\ ~unwritten => Rows(file)
    /\ \A c, d \in Writing : c = d
    /\ handle = 0 => Closed
    /\ handle # 0 => OneDatabase

Calm == StoreTyped /\ (disturbed = {} => Quiet)

\* A database with rows is not torn bytes: there are ids of maps.
LEMMA RowsAreSound == \A d : Rows(d) => d # Torn
<1>1. MapIds # {}
  BY StoreAssumption DEF StoreAssumption
<1>2. DOMAIN Torn = {}
  BY DEF Torn
<1> QED
  BY <1>1, <1>2 DEF Rows

(***************************************************************************)
(* The steps of the store.                                                 *)
(***************************************************************************)

\* A client that has nothing to do with the rows comes or goes.
ComesOrGoes(c, r) ==
    /\ call[c].at \in {"idle", "asking"} /\ r.at \in {"idle", "asking", "opening"}
    /\ call' = [call EXCEPT ![c] = r]
    /\ UNCHANGED <<handle, dbs, file, acked, failures>>

LEMMA QuietElsewhere ==
    ASSUME StoreTyped, Quiet, NEW c \in Clients, NEW r, ComesOrGoes(c, r)
    PROVE  Quiet'
<1> USE DEF ComesOrGoes, failures
<1>1. /\ call'[c] = r /\ \A d \in Clients : d # c => call'[d] = call[d]
      /\ Writing' = Writing /\ c \notin Writing
  BY DEF StoreTyped, Writing
<1>2. \A m \in MapIds : (Dirty(m)' <=> Dirty(m)) /\ (Persisting(m)' <=> Persisting(m))
  BY <1>1 DEF Dirty, Persisting
<1>3. Closed => Closed'
  BY <1>1 DEF Closed
<1>4. OneDatabase => OneDatabase'
  <2> SUFFICES ASSUME OneDatabase
               PROVE  OneDatabase'
    OBVIOUS
  <2>1. \A d \in Writing : call'[d] = call[d]
    BY <1>1 DEF Writing
  <2>2. \A d \in Clients : call'[d].at \in HasDatabase => call'[d].db = handle
    BY <1>1 DEF OneDatabase, HasDatabase
  <2> QED
    BY <1>1, <1>2, <2>1, <2>2 DEF OneDatabase, Rows
<1> QED
  BY <1>1, <1>3, <1>4 DEF Quiet, Rows

LEMMA QuietRead ==
    ASSUME StoreTyped, Quiet, NEW c \in Clients, ReadFile(c)
    PROVE  Quiet'
<1> PICK bytes \in {file} \cup CutShort :
        call' = [call EXCEPT ![c] = [at |-> "read", asks |-> @.asks, bytes |-> bytes]]
  BY DEF ReadFile
<1> DEFINE r == [at |-> "read", asks |-> call[c].asks, bytes |-> bytes]
<1>1. /\ call'[c] = r /\ \A d \in Clients : d # c => call'[d] = call[d]
      /\ Writing' = Writing /\ c \notin Writing /\ call[c].at = "opening"
  BY DEF StoreTyped, Writing, ReadFile
<1>2. \A m \in MapIds : (Dirty(m)' <=> Dirty(m)) /\ (Persisting(m)' <=> Persisting(m))
  BY <1>1 DEF Dirty, Persisting
<1>3. UNCHANGED <<handle, dbs, file, acked, unwritten, unanswered>>
  BY DEF ReadFile, failures
<1>4. Closed => Closed'
  <2> SUFFICES ASSUME Closed
               PROVE  Closed'
    OBVIOUS
  <2>1. Writing = {}
    BY DEF Closed, Writing
  <2>2. bytes = file
    BY <2>1 DEF CutShort
  <2> QED
    BY <1>1, <1>3, <2>2 DEF Closed
<1>5. OneDatabase => OneDatabase'
  <2> SUFFICES ASSUME OneDatabase
               PROVE  OneDatabase'
    OBVIOUS
  <2>1. \A d \in Writing : call'[d] = call[d]
    BY <1>1 DEF Writing
  <2>2. \A d \in Clients : call'[d].at \in HasDatabase => call'[d].db = handle
    BY <1>1 DEF OneDatabase, HasDatabase
  <2> QED
    BY <1>1, <1>2, <1>3, <2>1, <2>2 DEF OneDatabase, Rows
<1> QED
  BY <1>1, <1>3, <1>4, <1>5 DEF Quiet, Rows

\* The database that is opened is the one in the file.
LEMMA QuietOpened ==
    ASSUME StoreTyped, Quiet, NEW c \in Clients, OpenDatabase(c), disturbed' = {}
    PROVE  Quiet'
<1>1. handle = 0 /\ Closed
  BY DEF OpenDatabase, Quiet
<1>2. call[c].at = "read" /\ call[c].bytes = file /\ file = acked /\ Rows(file)
  BY <1>1 DEF OpenDatabase, Closed, Quiet
<1>3. call' = [call EXCEPT ![c] = [at |-> "creating", asks |-> call[c].asks, db |-> handle']]
  BY <1>2, RowsAreSound DEF OpenDatabase, HasOpened
<1>4. /\ dbs' = Append(dbs, file) /\ handle' = Len(dbs') /\ handle' # 0 /\ dbs'[handle'] = file
  BY <1>2, AppendedTo DEF OpenDatabase, StoreTyped
<1>5. file' = file /\ acked' = acked /\ UNCHANGED <<unwritten, unanswered>>
  BY DEF OpenDatabase
<1>6. \A d \in Clients : call'[d].at \in {"idle", "asking", "opening", "read", "creating"}
  BY <1>1, <1>3 DEF Closed, StoreTyped
<1>7. Writing' = {} /\ \A m \in MapIds : ~Dirty(m)' /\ ~Persisting(m)'
  BY <1>6 DEF Writing, Dirty, Persisting
<1>8. OneDatabase'
  <2>1. \A d \in Clients : call'[d].at \in HasDatabase => call'[d].db = handle'
    BY <1>1, <1>3 DEF Closed, StoreTyped, HasDatabase
  <2> QED
    BY <1>2, <1>4, <1>5, <1>7, <2>1 DEF OneDatabase, Rows
<1> QED
  BY <1>2, <1>4, <1>5, <1>7, <1>8 DEF Quiet, Rows

\* Whoever begins to write is the only one, and writes the database as it is.
LEMMA QuietBegins ==
    ASSUME StoreTyped, Quiet, NEW c \in Clients, BeginWrite(c), disturbed' = {}
    PROVE  Quiet'
<1>1. Writing = {} /\ UNCHANGED <<handle, dbs, file, acked, unwritten, unanswered>>
  BY DEF BeginWrite
<1>2. handle # 0 /\ OneDatabase
  BY DEF BeginWrite, Quiet, Closed
<1>3. /\ \A d \in Clients : d # c => call'[d] = call[d]
      /\ call'[c].bytes = dbs[handle]
      /\ \/ call[c].at = "creating" /\ call'[c].at = "installing"
         \/ /\ call[c].at = "persisting" /\ call'[c].at = "writing"
            /\ call'[c].map = call[c].map /\ call'[c].db = call[c].db
  <2>1. call[c].at \in {"creating", "persisting"} => call[c].db = handle
    BY <1>2 DEF OneDatabase, HasDatabase
  <2> QED
    BY <2>1 DEF BeginWrite, StoreTyped
<1>4. Writing' = {c}
  BY <1>1, <1>3 DEF Writing
<1>5. \A m \in MapIds : Dirty(m) => Dirty(m)'
  BY <1>3 DEF Dirty
<1>6. OneDatabase'
  <2>1. \A d \in Clients : call'[d].at \in HasDatabase => call'[d].db = handle
    BY <1>2, <1>3 DEF OneDatabase, HasDatabase
  <2> QED
    BY <1>1, <1>2, <1>3, <1>4, <1>5, <2>1 DEF OneDatabase, Rows
<1> QED
  BY <1>1, <1>2, <1>4, <1>6 DEF Quiet, Rows

\* The one that writes ends: the file is what it has written, and only what has been
\* changed since is not in it.
LEMMA QuietEnds ==
    ASSUME StoreTyped, Quiet, NEW c \in Clients, EndWrite(c), disturbed = {}
    PROVE  Quiet'
<1>1. /\ call[c].at = "writing" /\ file' = call[c].bytes /\ UNCHANGED <<handle, dbs>>
      /\ acked' = [acked EXCEPT ![call[c].map] = dbs[call[c].db][call[c].map]]
      /\ call' = [call EXCEPT ![c] = Idle]
      /\ unanswered' = unanswered \ {call[c].map}
  BY DEF EndWrite, Written, Answered
<1>2. handle # 0 /\ OneDatabase /\ call[c].db = handle /\ Writing = {c}
  BY <1>1 DEF Quiet, Closed, OneDatabase, Writing, HasDatabase
<1>3. call'[c].at = "idle" /\ \A d \in Clients : d # c => call'[d] = call[d]
  BY <1>1 DEF StoreTyped, Idle
<1>4. Writing' = {}
  BY <1>2, <1>3 DEF Writing
<1>5. \A m \in MapIds : Persisting(m)' <=> Persisting(m)
  BY <1>1, <1>3 DEF Persisting
<1>6. \A m \in MapIds : Dirty(m) => Dirty(m)' \/ m = call[c].map
  BY <1>1, <1>3 DEF Dirty
<1>7. \A m \in MapIds : Dirty(m)' \/ m \in unanswered' \/ dbs[handle][m] = acked'[m]
  BY <1>1, <1>2, <1>6 DEF OneDatabase, StoreTyped, Rows
<1>8. Rows(file') /\ \A m \in MapIds : Persisting(m)' \/ file'[m] = dbs[handle][m]
  BY <1>1, <1>2, <1>5 DEF OneDatabase
<1>9. \A d \in Clients : call'[d].at \in HasDatabase => call'[d].db = handle
  BY <1>2, <1>3 DEF OneDatabase, HasDatabase
<1>10. OneDatabase'
  BY <1>1, <1>2, <1>4, <1>7, <1>8, <1>9 DEF OneDatabase, Rows
<1> QED
  BY <1>1, <1>2, <1>4, <1>8, <1>10 DEF Quiet, Rows

\* The one that writes fails: its change stays, and may not be in the file.
LEMMA QuietFails ==
    ASSUME StoreTyped, Quiet, NEW c \in Clients, FailWrite(c)
    PROVE  Quiet'
<1>1. /\ call[c].at \in {"installing", "writing"} /\ UNCHANGED <<handle, dbs, acked>>
      /\ unwritten' /\ unanswered \subseteq unanswered'
      /\ call[c].at = "writing" => call[c].map \in unanswered'
      /\ call' = [call EXCEPT ![c] = Idle]
  BY DEF FailWrite, Answered
<1>2. handle # 0 /\ OneDatabase /\ Writing = {c}
  BY <1>1 DEF Quiet, Closed, Writing
<1>3. call'[c].at = "idle" /\ \A d \in Clients : d # c => call'[d] = call[d]
  BY <1>1 DEF StoreTyped, Idle
<1>4. Writing' = {}
  BY <1>2, <1>3 DEF Writing
<1>5. \A m \in MapIds : Dirty(m) => Dirty(m)' \/ m \in unanswered'
  BY <1>1, <1>3 DEF Dirty
<1>6. \A m \in MapIds : Dirty(m)' \/ m \in unanswered' \/ dbs[handle][m] = acked[m]
  BY <1>1, <1>2, <1>5 DEF OneDatabase
<1>7. \A d \in Clients : call'[d].at \in HasDatabase => call'[d].db = handle
  BY <1>2, <1>3 DEF OneDatabase, HasDatabase
<1>8. OneDatabase'
  BY <1>1, <1>2, <1>4, <1>6, <1>7 DEF OneDatabase, Rows
<1> QED
  BY <1>1, <1>2, <1>4, <1>8 DEF Quiet

\* A request is served on the open database: a row is put, or nothing is changed.
LEMMA Served ==
    ASSUME NEW c, NEW r, Serve(c, r)
    PROVE  LeaveRows(c) \/ \E row : PutRow(c, r, row)
BY DEF Serve, Save, Load, Delete, NotServed

\* The client that is served has just arrived, or has written the new database.
Ready(c) == \/ call[c].at = "idle" /\ handle # 0 /\ UNCHANGED <<file, unwritten>>
            \/ call[c].at = "installing" /\ file' \in Written(c) /\ unwritten' = FALSE

LEMMA ReadyStore ==
    ASSUME StoreTyped, Quiet, disturbed = {}, NEW c \in Clients, Ready(c),
           \A d \in Clients : d # c => call'[d] = call[d],
           call'[c].at \in {"idle", "persisting"}
    PROVE  /\ handle # 0 /\ OneDatabase /\ (~unwritten' => Rows(file'))
           /\ Writing' \subseteq Writing
           /\ Writing' = {} /\ ~unwritten' =>
                  \A m \in MapIds : Persisting(m) \/ file'[m] = dbs[handle][m]
<1>1. handle # 0 /\ OneDatabase
  BY DEF Ready, Quiet, Closed
<1>2. Writing' = Writing \ {c}
  BY DEF Writing
<1>3. CASE call[c].at = "idle" /\ UNCHANGED <<file, unwritten>>
  <2>1. Writing' = Writing
    BY <1>2, <1>3 DEF Writing
  <2> QED
    BY <1>1, <1>3, <2>1 DEF Quiet, OneDatabase
<1>4. CASE call[c].at = "installing" /\ file' \in Written(c)
  <2>1. c \in Writing /\ file' = call[c].bytes
    BY <1>4 DEF Writing, Written
  <2> QED
    BY <1>1, <1>2, <2>1 DEF OneDatabase
<1> QED
  BY <1>3, <1>4 DEF Ready

LEMMA QuietLeft ==
    ASSUME StoreTyped, Quiet, disturbed = {}, NEW c \in Clients, Ready(c), LeaveRows(c)
    PROVE  Quiet'
<1>1. /\ call' = [call EXCEPT ![c] = Idle] /\ UNCHANGED <<handle, dbs, acked, unanswered>>
      /\ call[c].at \in {"idle", "installing"}
  BY DEF LeaveRows, Answered, Ready
<1>2. call'[c].at = "idle" /\ \A d \in Clients : d # c => call'[d] = call[d]
  BY <1>1 DEF StoreTyped, Idle
<1>3. /\ handle # 0 /\ OneDatabase /\ (~unwritten' => Rows(file')) /\ Writing' \subseteq Writing
      /\ Writing' = {} /\ ~unwritten' =>
             \A m \in MapIds : Persisting(m) \/ file'[m] = dbs[handle][m]
  BY <1>2, ReadyStore
<1>4. \A m \in MapIds : (Dirty(m)' <=> Dirty(m)) /\ (Persisting(m)' <=> Persisting(m))
  BY <1>1, <1>2 DEF Dirty, Persisting
<1>5. \A d \in Writing' : d \in Writing /\ call'[d] = call[d]
  BY <1>2, <1>3 DEF Writing
<1>6. \A d \in Clients : call'[d].at \in HasDatabase => call'[d].db = handle
  BY <1>2, <1>3 DEF OneDatabase, HasDatabase
<1>7. OneDatabase'
  BY <1>1, <1>3, <1>4, <1>5, <1>6 DEF OneDatabase, Rows
<1> QED
  BY <1>1, <1>3, <1>5, <1>7 DEF Quiet, Rows

LEMMA QuietPut ==
    ASSUME StoreTyped, Quiet, disturbed = {}, NEW c \in Clients, Ready(c),
           NEW r, NEW row, PutRow(c, r, row)
    PROVE  Quiet'
<1>1. /\ call' = [call EXCEPT ![c] = [at |-> "persisting", map |-> r.map, db |-> handle]]
      /\ dbs' = [dbs EXCEPT ![handle][r.map] = row] /\ UNCHANGED <<handle, acked, unanswered>>
      /\ call[c].at \in {"idle", "installing"}
  BY DEF PutRow, Ready
<1>2. /\ call'[c].at = "persisting" /\ call'[c].map = r.map /\ call'[c].db = handle
      /\ \A d \in Clients : d # c => call'[d] = call[d]
  BY <1>1 DEF StoreTyped
<1>3. /\ handle # 0 /\ OneDatabase /\ (~unwritten' => Rows(file')) /\ Writing' \subseteq Writing
      /\ Writing' = {} /\ ~unwritten' =>
             \A m \in MapIds : Persisting(m) \/ file'[m] = dbs[handle][m]
  BY <1>2, ReadyStore
<1>4. \A m \in MapIds : (Dirty(m) => Dirty(m)') /\ (Persisting(m) => Persisting(m)')
  BY <1>1, <1>2 DEF Dirty, Persisting
<1>5. \A m \in MapIds : m = r.map => Dirty(m)' /\ Persisting(m)'
  BY <1>2 DEF Dirty, Persisting
<1>6. Rows(dbs'[handle]) /\ \A m \in MapIds : m # r.map => dbs'[handle][m] = dbs[handle][m]
  <2>1. handle \in DOMAIN dbs /\ Rows(dbs[handle])
    BY <1>3, AppendedTo DEF StoreTyped, OneDatabase
  <2>2. dbs'[handle] = [dbs[handle] EXCEPT ![r.map] = row]
    BY <1>1, <2>1
  <2> QED
    BY <2>1, <2>2 DEF Rows
<1>7. \A d \in Writing' : d \in Writing /\ call'[d] = call[d]
  BY <1>2, <1>3 DEF Writing
<1>8. \A d \in Clients : call'[d].at \in HasDatabase => call'[d].db = handle
  BY <1>2, <1>3 DEF OneDatabase, HasDatabase
<1>9. \A m \in MapIds : Dirty(m)' \/ m \in unanswered \/ dbs'[handle][m] = acked[m]
  BY <1>3, <1>4, <1>5, <1>6 DEF OneDatabase
<1>10. \A d \in Writing' : /\ Rows(call'[d].bytes)
                           /\ \A m \in MapIds :
                                  Persisting(m)' \/ call'[d].bytes[m] = dbs'[handle][m]
  BY <1>3, <1>4, <1>5, <1>6, <1>7 DEF OneDatabase
<1>11. Writing' = {} /\ ~unwritten' =>
           \A m \in MapIds : Persisting(m)' \/ file'[m] = dbs'[handle][m]
  BY <1>3, <1>4, <1>5, <1>6
<1>12. OneDatabase'
  BY <1>1, <1>6, <1>8, <1>9, <1>10, <1>11 DEF OneDatabase, Rows
<1> QED
  BY <1>1, <1>3, <1>7, <1>12 DEF Quiet, Rows

\* A crash while nothing is being written: what was acknowledged is in the file, and
\* what was not written is forgotten.
LEMMA QuietCrashed ==
    ASSUME StoreTyped, Quiet, StoreCrash, disturbed' = {}
    PROVE  Quiet'
<1>1. /\ Writing = {} /\ file' = file /\ handle' = 0
      /\ ~unwritten /\ unwritten' = FALSE /\ unanswered' = {}
  BY DEF StoreCrash, CutShort
<1>2. \A c \in Clients : call'[c].at = "idle"
  BY DEF StoreCrash, Idle
<1>3. Writing' = {}
  BY <1>2 DEF Writing
<1>4. acked' = [m \in MapIds |-> IF Dirty(m) \/ m \in unanswered THEN file[m] ELSE acked[m]]
  <2>1. file # Torn
    BY <1>1, RowsAreSound DEF Quiet
  <2>2. \A m \in MapIds : Settled(m) =
            IF Dirty(m) \/ m \in unanswered THEN file[m] ELSE acked[m]
    BY <1>1, <2>1 DEF Settled, Dirty
  <2> QED
    BY <2>2 DEF StoreCrash
<1>5. \A m \in MapIds : Dirty(m) \/ m \in unanswered \/ file[m] = acked[m]
  <2>1. CASE handle = 0
    BY <2>1 DEF Quiet, Closed
  <2>2. CASE handle # 0
    <3>1. \A m \in MapIds : Persisting(m) => Dirty(m)
      BY DEF Persisting, Dirty
    <3> QED
      BY <1>1, <2>2, <3>1 DEF Quiet, OneDatabase
  <2> QED
    BY <2>1, <2>2
<1>6. file' = acked'
  BY <1>1, <1>4, <1>5 DEF Quiet, Rows
<1>7. Closed'
  BY <1>1, <1>2, <1>6 DEF Closed
<1> QED
  BY <1>1, <1>3, <1>7 DEF Quiet, Rows

LEMMA Replaced ==
    ASSUME NEW s, Sequence(s), NEW i, NEW e
    PROVE  /\ Sequence([s EXCEPT ![i] = e])
           /\ Len([s EXCEPT ![i] = e]) = Len(s) /\ DOMAIN [s EXCEPT ![i] = e] = DOMAIN s
<1> DEFINE t == [s EXCEPT ![i] = e]
<1>1. s = [j \in 1..Len(s) |-> s[j]] /\ Len(s) \in Nat /\ DOMAIN s = 1..Len(s)
  <2>1. s \in Seq({s[j] : j \in DOMAIN s})
    BY DEF Sequence
  <2> QED
    BY <2>1
<1>2. t = [j \in 1..Len(s) |-> t[j]] /\ DOMAIN t = 1..Len(s)
  BY <1>1
<1>3. t \in Seq({t[j] : j \in DOMAIN t}) /\ Len(t) = Len(s)
  <2> HIDE DEF t
  <2> QED
    BY <1>1, <1>2
<1> QED
  BY <1>1, <1>2, <1>3 DEF Sequence

\* What a step does to the store: nothing, a step of one client, or a crash.
StepOf(c) ==
    \/ \E r : ComesOrGoes(c, r)
    \/ ReadFile(c) \/ OpenDatabase(c) \/ BeginWrite(c) \/ EndWrite(c) \/ FailWrite(c)
    \/ Ready(c) /\ LeaveRows(c)
    \/ Ready(c) /\ \E r, row : PutRow(c, r, row)

LEMMA StoreMoves ==
    ASSUME SessionNext
    PROVE  UNCHANGED storeVars \/ (\E c \in Clients : StepOf(c)) \/ StoreCrash
<1> USE DEF ComesOrGoes
<1>1. ASSUME NEW c \in Clients, MockChat(c) \/ Decide(c)
      PROVE  UNCHANGED storeVars
  BY <1>1 DEF MockChat, Decide
<1>2. ASSUME NEW c \in Clients, AskProvider(c)
      PROVE  StepOf(c)
  <2> DEFINE r == [at |-> "asking", request |-> requests', epoch |-> epoch,
                   from |-> Revision(active)]
  <2>1. call[c].at = "idle" /\ call' = [call EXCEPT ![c] = r] /\ r.at = "asking"
    BY <1>2 DEF AskProvider, Arrive
  <2>2. UNCHANGED <<handle, dbs, file, acked, failures>>
    BY <1>2 DEF AskProvider
  <2> HIDE DEF r
  <2> QED
    BY <2>1, <2>2 DEF StepOf
<1>3. ASSUME NEW c \in Clients, ProviderFails(c) \/ ProviderStale(c) \/ ProviderAnswers(c)
      PROVE  StepOf(c)
  <2>1. Answer(c)
    BY <1>3 DEF ProviderFails, ProviderStale, ProviderAnswers
  <2>2. call[c].at = "asking" /\ call' = [call EXCEPT ![c] = Idle] /\ Idle.at = "idle"
    BY <2>1 DEF Answer, Answered, Idle
  <2>3. UNCHANGED <<handle, dbs, file, acked, failures>>
    BY <2>1 DEF Answer
  <2> QED
    BY <2>2, <2>3 DEF StepOf
<1>4. ASSUME NEW c \in Clients, NEW r, AskStore(c, r)
      PROVE  StepOf(c)
  <2>1. call[c].at = "idle"
    BY <1>4 DEF AskStore, Arrive
  <2>2. CASE StartOpening(c, r)
    <3> DEFINE q == [at |-> "opening", asks |-> r]
    <3>1. call' = [call EXCEPT ![c] = q] /\ q.at = "opening"
      BY <2>2 DEF StartOpening
    <3>2. UNCHANGED <<handle, dbs, file, acked, failures>>
      BY <2>2 DEF StartOpening
    <3> HIDE DEF q
    <3> QED
      BY <2>1, <3>1, <3>2 DEF StepOf
  <2>3. CASE handle # 0 /\ Serve(c, r) /\ UNCHANGED <<file, unwritten>>
    BY <2>1, <2>3, Served DEF StepOf, Ready
  <2> QED
    BY <1>4, <2>2, <2>3 DEF AskStore
<1>5. ASSUME NEW c \in Clients, Opened(c)
      PROVE  StepOf(c)
  BY <1>5, Served DEF Opened, EndNewWrite, StepOf, Ready
<1>6. ASSUME NEW c \in Clients, StoreStep(c)
      PROVE  StepOf(c)
  BY <1>6 DEF StoreStep, StepOf
<1> QED
  BY <1>1, <1>2, <1>3, <1>4, <1>5, <1>6 DEF SessionNext, Crash

LEMMA TypedKept ==
    ASSUME StoreTyped, SessionNext
    PROVE  StoreTyped'
<1>1. CASE UNCHANGED storeVars
  BY <1>1 DEF storeVars, StoreTyped, Rows
<1>2. ASSUME NEW c \in Clients, StepOf(c)
      PROVE  StoreTyped'
  <2>1. ASSUME UNCHANGED <<handle, dbs, acked>>, NEW r, call' = [call EXCEPT ![c] = r]
        PROVE  StoreTyped'
    BY <2>1 DEF StoreTyped, Rows
  <2>2. CASE ReadFile(c)
    BY <2>1, <2>2 DEF ReadFile
  <2>3. CASE BeginWrite(c)
    BY <2>1, <2>3 DEF BeginWrite
  <2>4. CASE OpenDatabase(c)
    <3>1. Sequence(dbs') /\ handle' \in 0..Len(dbs')
      BY <2>4, AppendedTo DEF OpenDatabase, StoreTyped
    <3>2. acked' = acked /\ call' = [d \in Clients |-> call'[d]]
      BY <2>4 DEF OpenDatabase, StoreTyped, Answered, HasOpened
    <3> QED
      BY <3>1, <3>2 DEF StoreTyped, Rows
  <2>5. CASE EndWrite(c) \/ FailWrite(c)
    BY <2>5 DEF EndWrite, FailWrite, Answered, StoreTyped, Rows
  <2>6. CASE LeaveRows(c)
    BY <2>1, <2>6 DEF LeaveRows, Answered
  <2>7. ASSUME NEW r, NEW row, PutRow(c, r, row)
        PROVE  StoreTyped'
    <3>1. Sequence(dbs') /\ Len(dbs') = Len(dbs)
      BY <2>7, Replaced DEF PutRow, StoreTyped
    <3>2. /\ acked' = acked /\ handle' = handle /\ call' = [d \in Clients |-> call'[d]]
      BY <2>7 DEF PutRow, StoreTyped
    <3> QED
      BY <3>1, <3>2 DEF StoreTyped, Rows
  <2> QED
    BY <1>2, <2>1, <2>2, <2>3, <2>4, <2>5, <2>6, <2>7 DEF StepOf, ComesOrGoes
<1>3. CASE StoreCrash
  <2>1. Sequence(<< >>) /\ 0 \in 0..Len(<< >>)
    BY DEF Sequence
  <2> QED
    BY <1>3, <2>1 DEF StoreCrash, StoreTyped, Rows
<1> QED
  BY <1>1, <1>2, <1>3, StoreMoves

LEMMA CalmStays ==
    ASSUME Calm, UNCHANGED storeVars
    PROVE  Calm'
<1>1. UNCHANGED <<handle, dbs, file, call, acked, disturbed, unwritten, unanswered>>
  BY DEF storeVars, failures
<1>2. StoreTyped'
  BY <1>1 DEF Calm, StoreTyped, Rows
<1>3. Quiet => Quiet'
  BY <1>1 DEF Quiet, Closed, OneDatabase, Writing, Persisting, Dirty, Rows
<1> QED
  BY <1>1, <1>2, <1>3 DEF Calm

LEMMA CalmKept ==
    ASSUME Calm, SessionNext
    PROVE  Calm'
<1>1. StoreTyped /\ StoreTyped'
  BY TypedKept DEF Calm
<1> SUFFICES ASSUME disturbed' = {}
             PROVE  Quiet'
  BY <1>1 DEF Calm
<1>2. CASE UNCHANGED storeVars
  BY <1>2, CalmStays DEF Calm
<1>3. ASSUME NEW c \in Clients, StepOf(c)
      PROVE  Quiet'
  <2>1. disturbed = {}
    <3>1. disturbed \subseteq disturbed'
      BY <1>3 DEF StepOf, ComesOrGoes, ReadFile, OpenDatabase, BeginWrite, EndWrite,
                  FailWrite, LeaveRows, PutRow, failures
    <3> QED
      BY <3>1
  <2>2. Quiet
    BY <2>1 DEF Calm
  <2>3. ASSUME NEW r, ComesOrGoes(c, r)
        PROVE  Quiet'
    BY <1>1, <2>2, <2>3, QuietElsewhere
  <2>4. CASE ReadFile(c)
    BY <1>1, <2>2, <2>4, QuietRead
  <2>5. CASE OpenDatabase(c)
    BY <1>1, <2>2, <2>5, QuietOpened
  <2>6. CASE BeginWrite(c)
    BY <1>1, <2>2, <2>6, QuietBegins
  <2>7. CASE EndWrite(c)
    BY <1>1, <2>1, <2>2, <2>7, QuietEnds
  <2>10. CASE FailWrite(c)
    BY <1>1, <2>2, <2>10, QuietFails
  <2>8. CASE Ready(c) /\ LeaveRows(c)
    BY <1>1, <2>1, <2>2, <2>8, QuietLeft
  <2>9. ASSUME Ready(c), NEW r, NEW row, PutRow(c, r, row)
        PROVE  Quiet'
    BY <1>1, <2>1, <2>2, <2>9, QuietPut
  <2> QED
    BY <1>3, <2>3, <2>4, <2>5, <2>6, <2>7, <2>8, <2>9, <2>10 DEF StepOf
<1>4. CASE StoreCrash
  <2>1. disturbed = {}
    BY <1>4 DEF StoreCrash
  <2> QED
    BY <1>1, <1>4, <2>1, QuietCrashed DEF Calm
<1> QED
  BY <1>2, <1>3, <1>4, StoreMoves

LEMMA CalmHolds == SessionSpec => []Calm
<1>1. SessionInit => Calm
  <2> SUFFICES ASSUME StoreInit
               PROVE  Calm
    BY DEF SessionInit
  <2>1. Sequence(dbs) /\ handle = 0 /\ handle \in 0..Len(dbs)
    BY DEF StoreInit, Sequence
  <2>2. /\ Rows(acked) /\ file = acked /\ call = [c \in Clients |-> call[c]]
        /\ \A c \in Clients : call[c].at = "idle"
        /\ unwritten = FALSE /\ unanswered = {}
    BY DEF StoreInit, Rows, NoRows, Idle
  <2>3. Writing = {}
    BY <2>2 DEF Writing
  <2> QED
    BY <2>1, <2>2, <2>3 DEF Calm, StoreTyped, Quiet, Closed, Rows
<1>2. Calm /\ [SessionNext]_allVars => Calm'
  <2>1. CASE SessionNext
    BY <2>1, CalmKept
  <2>2. CASE UNCHANGED allVars
    BY <2>2, CalmStays DEF allVars
  <2> QED
    BY <2>1, <2>2
<1> QED
  BY <1>1, <1>2, PTL DEF SessionSpec, allVars

\* What the store has acknowledged is what it holds (saveMap, deleteMap, persistDb),
\* until two requests have opened the database at once, two writes have overlapped, or
\* the process has died in the middle of a write or after one that failed.  Until then
\* a write that fails spoils only what its own request has changed, and the file only
\* until the next write that goes through.
THEOREM AcksAreKept == SessionSpec => []AckedSavesKept
<1>1. Calm => AckedSavesKept
  <2> SUFFICES ASSUME Calm, disturbed = {}, \A c \in Clients : call[c].at = "idle"
               PROVE  /\ handle # 0 =>
                             \A m \in MapIds \ unanswered : dbs[handle][m] = acked[m]
                      /\ ~unwritten => file = IF handle = 0 THEN acked ELSE dbs[handle]
    BY DEF AckedSavesKept
  <2>1. Quiet /\ Rows(acked)
    BY DEF Calm, StoreTyped
  <2>2. CASE handle = 0
    BY <2>1, <2>2 DEF Quiet, Closed
  <2>3. CASE handle # 0
    <3>1. OneDatabase /\ Rows(dbs[handle]) /\ (~unwritten => Rows(file))
      BY <2>1, <2>3 DEF Quiet, OneDatabase
    <3>2. Writing = {} /\ \A m \in MapIds : ~Persisting(m) /\ ~Dirty(m)
      BY DEF Writing, Persisting, Dirty
    <3>3. \A m \in MapIds : /\ m \notin unanswered => dbs[handle][m] = acked[m]
                            /\ ~unwritten => file[m] = dbs[handle][m]
      BY <3>1, <3>2 DEF OneDatabase
    <3>4. ~unwritten => file = dbs[handle]
      BY <3>1, <3>3 DEF Rows
    <3> QED
      BY <2>3, <3>3, <3>4
  <2> QED
    BY <2>2, <2>3
<1> QED
  BY <1>1, CalmHolds, PTL

(***************************************************************************)
(* The maps: where each of their edits comes from.                         *)
(***************************************************************************)

\* Every edit of a map was asked for when the map was what its earlier edits made
\* of it, in the history of requests h.
Grounded(spec, h) ==
    /\ spec = [id |-> spec.id, edits |-> spec.edits, basemap |-> spec.basemap]
    /\ Sequence(spec.edits)
    /\ \A i \in DOMAIN spec.edits :
           /\ spec.edits[i] \in DOMAIN h
           /\ h[spec.edits[i]].id = spec.id
           /\ h[spec.edits[i]].edits = SubSeq(spec.edits, 1, i - 1)

GroundedRows(d, h) ==
    d # Torn => Rows(d) /\ \A m \in MapIds : d[m] # Absent => Grounded(d[m].spec, h)

GroundedRequest(r, h) ==
    /\ r.op = "load" => r.map \in MapIds
    /\ r.op = "save" => Grounded(r.spec, h)

\* What a request under way carries, with o the open database of n, and with the map
\* spec active in epoch e.  A chat that waits for its answer has asked for a change of
\* that map, unless the epoch has moved on.
GroundedCall(r, h, o, n, spec, e) ==
    /\ r.at \in {"opening", "read", "creating", "installing"} => GroundedRequest(r.asks, h)
    /\ r.at \in {"read", "installing", "writing"} => GroundedRows(r.bytes, h)
    /\ r.at \in {"creating", "installing"} => o # 0
    /\ r.at \in HasDatabase => r.db \in 1..n
    /\ r.at = "asking" =>
           /\ r.epoch \in 0..e
           /\ r.request \in DOMAIN h
           /\ r.epoch = e => h[r.request].id = spec.id /\ h[r.request].edits = spec.edits

AllGrounded(h) ==
    /\ Grounded(active, h)
    /\ GroundedRows(file, h)
    /\ \A i \in DOMAIN dbs : GroundedRows(dbs[i], h)
    /\ \A c \in Clients : GroundedCall(call[c], h, handle, Len(dbs), active, epoch)

Provenance ==
    /\ StoreTyped
    /\ Sequence(asked) /\ requests = Len(asked)
    /\ epoch \in Nat
    /\ AllGrounded(asked)

\* A history that has one request more at its end, or none.
Extended(k, h) ==
    /\ DOMAIN h \subseteq DOMAIN k
    /\ \A i \in DOMAIN h : k[i] = h[i]

LEMMA GroundedStays ==
    ASSUME NEW h, NEW k, Extended(k, h)
    PROVE  /\ \A spec : Grounded(spec, h) => Grounded(spec, k)
           /\ \A d : GroundedRows(d, h) => GroundedRows(d, k)
           /\ \A r : GroundedRequest(r, h) => GroundedRequest(r, k)
<1>1. ASSUME NEW spec, Grounded(spec, h)
      PROVE  Grounded(spec, k)
  BY <1>1 DEF Grounded, Extended
<1>2. ASSUME NEW d, GroundedRows(d, h)
      PROVE  GroundedRows(d, k)
  BY <1>1, <1>2 DEF GroundedRows
<1>3. ASSUME NEW r, GroundedRequest(r, h)
      PROVE  GroundedRequest(r, k)
  BY <1>1, <1>3 DEF GroundedRequest
<1> QED
  BY <1>1, <1>2, <1>3

\* A request that does not move stays grounded when others do.
LEMMA CallStays ==
    ASSUME NEW r, NEW h, NEW k, Extended(k, h),
           NEW o, NEW p, o # 0 => p # 0,
           NEW n \in Nat, NEW l \in Nat, n <= l,
           NEW spec, NEW next, NEW e \in Nat, NEW f \in Nat,
           (next = spec /\ f = e) \/ f = e + 1,
           GroundedCall(r, h, o, n, spec, e)
    PROVE  GroundedCall(r, k, p, l, next, f)
<1>1. r.at \in {"opening", "read", "creating", "installing"} => GroundedRequest(r.asks, k)
  BY GroundedStays DEF GroundedCall
<1>2. r.at \in {"read", "installing", "writing"} => GroundedRows(r.bytes, k)
  BY GroundedStays DEF GroundedCall
<1>3. r.at \in {"creating", "installing"} => p # 0
  BY DEF GroundedCall
<1>4. r.at \in HasDatabase => r.db \in 1..l
  <2> SUFFICES ASSUME r.db \in 1..n
               PROVE  r.db \in 1..l
    BY DEF GroundedCall
  <2> QED
    OBVIOUS
<1>5. ASSUME r.at = "asking"
      PROVE  /\ r.epoch \in 0..f
             /\ r.request \in DOMAIN k
             /\ r.epoch = f => k[r.request].id = next.id /\ k[r.request].edits = next.edits
  <2>1. /\ r.epoch \in 0..e /\ r.request \in DOMAIN h
        /\ r.epoch = e => h[r.request].id = spec.id /\ h[r.request].edits = spec.edits
    BY <1>5 DEF GroundedCall
  <2>2. r.request \in DOMAIN k /\ k[r.request] = h[r.request]
    BY <2>1 DEF Extended
  <2>3. CASE next = spec /\ f = e
    BY <2>1, <2>2, <2>3
  <2>4. CASE f = e + 1
    <3>1. r.epoch \in 0..f /\ r.epoch # f
      BY <2>1, <2>4
    <3> QED
      BY <2>2, <3>1
  <2> QED
    BY <2>3, <2>4
<1> QED
  BY <1>1, <1>2, <1>3, <1>4, <1>5 DEF GroundedCall

\* A new map has no edits to account for.
LEMMA NewIsGrounded == \A id, h : Grounded(NewMap(id), h)
<1> SUFFICES ASSUME NEW id, NEW h
             PROVE  Grounded(NewMap(id), h)
  OBVIOUS
<1>1. NewMap(id).edits = << >> /\ DOMAIN NewMap(id).edits = {} /\ Sequence(NewMap(id).edits)
  BY DEF NewMap, Sequence
<1> QED
  BY <1>1 DEF NewMap, Grounded

\* An edit is put on the map that it was asked for.
LEMMA EditIsGrounded ==
    ASSUME NEW spec, NEW h, Grounded(spec, h), NEW n \in DOMAIN h,
           h[n].id = spec.id, h[n].edits = spec.edits
    PROVE  /\ Grounded(Edited(spec, n), h)
           /\ \A b : Grounded([Edited(spec, n) EXCEPT !.basemap = b], h)
<1> DEFINE s == spec.edits
           t == Append(s, n)
<1>1. Sequence(s)
  BY DEF Grounded
<1>2. /\ Sequence(t) /\ DOMAIN s = 1..Len(s) /\ DOMAIN t = 1..Len(s) + 1 /\ Len(s) \in Nat
      /\ \A i \in DOMAIN s : t[i] = s[i] /\ SubSeq(t, 1, i - 1) = SubSeq(s, 1, i - 1)
      /\ t[Len(s) + 1] = n /\ SubSeq(t, 1, Len(s)) = s
      /\ \A i \in DOMAIN t : i \in DOMAIN s \/ i = Len(s) + 1
  <2>1. /\ Sequence(t) /\ DOMAIN s = 1..Len(s) /\ DOMAIN t = 1..Len(s) + 1 /\ Len(s) \in Nat
        /\ \A i \in 1..Len(s) : t[i] = s[i]
        /\ t[Len(s) + 1] = n
        /\ \A i \in 1..Len(s) + 1 : i \in 1..Len(s) \/ i = Len(s) + 1
    BY <1>1, AppendedTo
  <2>2. /\ \A i \in DOMAIN s : SubSeq(t, 1, i - 1) = SubSeq(s, 1, i - 1)
        /\ SubSeq(t, 1, Len(s)) = s
    BY <1>1, PrefixesStay
  <2> HIDE DEF s, t
  <2> QED
    BY <2>1, <2>2
<1>3. \A i \in DOMAIN t : /\ t[i] \in DOMAIN h
                          /\ h[t[i]].id = spec.id
                          /\ h[t[i]].edits = SubSeq(t, 1, i - 1)
  <2> TAKE i \in DOMAIN t
  <2>1. CASE i \in DOMAIN s
    BY <1>2, <2>1 DEF Grounded
  <2>2. CASE i = Len(s) + 1
    <3>1. i - 1 = Len(s)
      BY <1>2, <2>2
    <3> QED
      BY <1>2, <2>2, <3>1
  <2> QED
    BY <1>2, <2>1, <2>2
<1>4. ASSUME NEW b
      PROVE  Grounded([id |-> spec.id, edits |-> t, basemap |-> b], h)
  <2> HIDE DEF t
  <2> QED
    BY <1>2, <1>3 DEF Grounded
<1>5. /\ Edited(spec, n) = [id |-> spec.id, edits |-> t, basemap |-> spec.basemap]
      /\ \A b : [Edited(spec, n) EXCEPT !.basemap = b]
                    = [id |-> spec.id, edits |-> t, basemap |-> b]
  <2>1. spec = [id |-> spec.id, edits |-> spec.edits, basemap |-> spec.basemap]
    BY DEF Grounded
  <2>2. Edited(spec, n) = [id |-> spec.id, edits |-> t, basemap |-> spec.basemap]
    BY <2>1 DEF Edited
  <2>3. ASSUME NEW b, NEW r, r = [id |-> spec.id, edits |-> t, basemap |-> spec.basemap]
        PROVE  [r EXCEPT !.basemap = b] = [id |-> spec.id, edits |-> t, basemap |-> b]
    <3> HIDE DEF t
    <3> QED
      BY <2>3
  <2> HIDE DEF t
  <2> QED
    BY <2>2, <2>3
<1> QED
  BY <1>4, <1>5

(***************************************************************************)
(* The steps of the session.                                               *)
(***************************************************************************)

\* The active map stays, or gives way to one whose edits are accounted for.
Advances ==
    \/ UNCHANGED <<active, epoch>>
    \/ epoch' = epoch + 1 /\ Grounded(active', asked')

HistoryKept == Sequence(asked') /\ requests' = Len(asked') /\ Extended(asked', asked)

LEMMA Unasked ==
    ASSUME Provenance, UNCHANGED <<requests, asked>>
    PROVE  HistoryKept
BY DEF HistoryKept, Provenance, Extended

\* The request that arrives is about the active map.
LEMMA Arrived ==
    ASSUME Provenance, NEW c \in Clients, Arrive(c)
    PROVE  /\ HistoryKept
           /\ requests' \in DOMAIN asked' /\ asked'[requests'] = active
           /\ call[c].at = "idle"
<1>1. /\ asked' = Append(asked, active) /\ requests' = Len(asked) + 1 /\ call[c].at = "idle"
  BY DEF Arrive, Provenance
<1>2. /\ Sequence(Append(asked, active)) /\ Len(asked) \in Nat /\ DOMAIN asked = 1..Len(asked)
      /\ Len(Append(asked, active)) = Len(asked) + 1
      /\ DOMAIN Append(asked, active) = 1..Len(asked) + 1
      /\ \A i \in 1..Len(asked) : Append(asked, active)[i] = asked[i]
      /\ Append(asked, active)[Len(asked) + 1] = active
  BY AppendedTo DEF Provenance
<1> QED
  BY <1>1, <1>2 DEF HistoryKept, Extended

LEMMA OutcomeIsGrounded ==
    ASSUME NEW n, NEW from, Outcome(n, from), Grounded(active, asked'),
           n \in DOMAIN asked', asked'[n].id = active.id, asked'[n].edits = active.edits
    PROVE  Advances
<1>1. /\ Grounded(Edited(active, n), asked')
      /\ \A b : Grounded([Edited(active, n) EXCEPT !.basemap = b], asked')
  BY EditIsGrounded
<1>2. CASE Applied(n, from)
  BY <1>1, <1>2 DEF Applied, ReplaceActiveSpec, Advances
<1>3. CASE SkippedAll(from)
  BY <1>3 DEF SkippedAll, ReplaceActiveSpec, Advances
<1>4. ASSUME NEW choice, BasemapSet(n, from, choice)
      PROVE  Advances
  BY <1>1, <1>4 DEF BasemapSet, ReplaceActiveSpec, Advances
<1>5. CASE MapReset(from)
  BY <1>5, NewIsGrounded DEF MapReset, ReplaceActiveSpec, Advances
<1>6. ASSUME NEW status, NotApplied(status, from)
      PROVE  Advances
  BY <1>6 DEF NotApplied, Advances
<1> QED
  BY <1>2, <1>3, <1>4, <1>5, <1>6 DEF Outcome

\* What was grounded is so after a step that keeps the history.
LEMMA CarriedOver ==
    ASSUME Provenance, HistoryKept
    PROVE  AllGrounded(asked')
<1>1. Extended(asked', asked) /\ epoch \in Nat /\ Len(dbs) \in Nat
  BY AppendedTo DEF HistoryKept, Provenance, StoreTyped
<1>2. ASSUME NEW c \in Clients
      PROVE  GroundedCall(call[c], asked', handle, Len(dbs), active, epoch)
  <2>1. GroundedCall(call[c], asked, handle, Len(dbs), active, epoch)
    BY DEF Provenance, AllGrounded
  <2> QED
    BY <1>1, <2>1, CallStays
<1>3. /\ Grounded(active, asked') /\ GroundedRows(file, asked')
      /\ \A i \in DOMAIN dbs : GroundedRows(dbs[i], asked')
  BY <1>1, GroundedStays DEF Provenance, AllGrounded
<1> QED
  BY <1>2, <1>3 DEF AllGrounded

\* A step of one client: the others' requests stay grounded.
LEMMA Assembled ==
    ASSUME Provenance, SessionNext, NEW c \in Clients, HistoryKept, Advances,
           handle # 0 => handle' # 0, Len(dbs) <= Len(dbs'),
           GroundedRows(file', asked'),
           \A i \in DOMAIN dbs' : GroundedRows(dbs'[i], asked'),
           \A d \in Clients : d # c => call'[d] = call[d],
           GroundedCall(call'[c], asked', handle', Len(dbs'), active', epoch')
    PROVE  Provenance'
<1>1. StoreTyped' /\ AllGrounded(asked') /\ epoch \in Nat
  BY TypedKept, CarriedOver DEF Provenance
<1>2. Len(dbs) \in Nat /\ Len(dbs') \in Nat
  <2>1. Sequence(dbs) /\ Sequence(dbs')
    BY <1>1 DEF Provenance, StoreTyped
  <2> QED
    BY <2>1, AppendedTo
<1>3. /\ epoch' \in Nat /\ Grounded(active', asked')
      /\ (active' = active /\ epoch' = epoch) \/ epoch' = epoch + 1
  BY <1>1 DEF Advances, AllGrounded
<1>4. ASSUME NEW d \in Clients, d # c
      PROVE  GroundedCall(call'[d], asked', handle', Len(dbs'), active', epoch')
  <2>1. GroundedCall(call[d], asked, handle, Len(dbs), active, epoch) /\ call'[d] = call[d]
    BY <1>4 DEF Provenance, AllGrounded
  <2>2. Extended(asked', asked)
    BY DEF HistoryKept
  <2> QED
    BY <1>1, <1>2, <1>3, <2>1, <2>2, CallStays
<1>5. AllGrounded(asked)'
  BY <1>3, <1>4 DEF AllGrounded
<1> QED
  BY <1>1, <1>3, <1>5 DEF Provenance, HistoryKept

LEMMA IdleIsGrounded == \A h, o, n, spec, e : GroundedCall(Idle, h, o, n, spec, e)
BY DEF Idle, GroundedCall, HasDatabase

\* A request that has arrived is served on the open database.
LEMMA ServedGrounded ==
    ASSUME Provenance, HistoryKept, NEW c \in Clients, NEW r,
           GroundedRequest(r, asked'), handle # 0, Serve(c, r)
    PROVE  /\ Advances
           /\ handle' = handle /\ Len(dbs') = Len(dbs)
           /\ \A i \in DOMAIN dbs' : GroundedRows(dbs'[i], asked')
           /\ \A d \in Clients : d # c => call'[d] = call[d]
           /\ GroundedCall(call'[c], asked', handle', Len(dbs'), active', epoch')
<1>1. AllGrounded(asked') /\ StoreTyped
  BY CarriedOver DEF Provenance
<1>2. /\ handle \in DOMAIN dbs /\ handle \in 1..Len(dbs)
      /\ \A i \in DOMAIN dbs : GroundedRows(dbs[i], asked')
  BY <1>1, AppendedTo DEF StoreTyped, AllGrounded
<1>3. ASSUME LeaveRows(c)
      PROVE  /\ handle' = handle /\ Len(dbs') = Len(dbs)
             /\ \A i \in DOMAIN dbs' : GroundedRows(dbs'[i], asked')
             /\ \A d \in Clients : d # c => call'[d] = call[d]
             /\ GroundedCall(call'[c], asked', handle', Len(dbs'), active', epoch')
  <2>1. call'[c] = Idle /\ \A d \in Clients : d # c => call'[d] = call[d]
    BY <1>1, <1>3 DEF LeaveRows, Answered, StoreTyped
  <2> QED
    BY <1>2, <1>3, <2>1, IdleIsGrounded DEF LeaveRows
<1>4. ASSUME NEW row, PutRow(c, r, row), row # Absent => Grounded(row.spec, asked')
      PROVE  /\ handle' = handle /\ Len(dbs') = Len(dbs)
             /\ \A i \in DOMAIN dbs' : GroundedRows(dbs'[i], asked')
             /\ \A d \in Clients : d # c => call'[d] = call[d]
             /\ GroundedCall(call'[c], asked', handle', Len(dbs'), active', epoch')
  <2>1. /\ call'[c] = [at |-> "persisting", map |-> r.map, db |-> handle] /\ handle' = handle
        /\ \A d \in Clients : d # c => call'[d] = call[d]
    BY <1>1, <1>4 DEF PutRow, StoreTyped
  <2>2. Len(dbs') = Len(dbs) /\ DOMAIN dbs' = DOMAIN dbs
    BY <1>1, <1>4, Replaced DEF PutRow, StoreTyped
  <2>3. /\ dbs'[handle] = [dbs[handle] EXCEPT ![r.map] = row]
        /\ \A i \in DOMAIN dbs : i # handle => dbs'[i] = dbs[i]
    BY <1>2, <1>4 DEF PutRow
  <2>4. dbs[handle] # Torn
    BY <1>4 DEF PutRow
  <2>5. /\ Rows(dbs[handle])
        /\ \A m \in MapIds :
               dbs[handle][m] # Absent => Grounded(dbs[handle][m].spec, asked')
    BY <1>2, <2>4 DEF GroundedRows
  <2>6. GroundedRows(dbs'[handle], asked')
    <3>1. /\ Rows(dbs'[handle])
          /\ \A m \in MapIds : dbs'[handle][m] = dbs[handle][m] \/ dbs'[handle][m] = row
      BY <2>3, <2>5 DEF Rows
    <3> QED
      BY <1>4, <2>5, <3>1 DEF GroundedRows
  <2>7. GroundedCall(call'[c], asked', handle', Len(dbs'), active', epoch')
    BY <1>2, <2>1, <2>2 DEF GroundedCall, HasDatabase
  <2> QED
    BY <1>2, <2>1, <2>2, <2>3, <2>6, <2>7
<1>5. CASE Save(c, r)
  <2> DEFINE row == [spec |-> r.spec, basemap |-> r.basemap, audit |-> audit,
                     decisions |-> decisions]
  <2>1. PutRow(c, r, row) /\ Grounded(row.spec, asked')
    BY <1>5 DEF Save, GroundedRequest
  <2>2. Advances
    BY <1>5 DEF Save, sessionState, Advances
  <2> HIDE DEF row
  <2> QED
    BY <1>4, <2>1, <2>2
<1>6. CASE Load(c, r)
  <2>1. r.map \in MapIds /\ dbs[handle] # Torn /\ Row(r.map) # Absent
    BY <1>6 DEF Load, Found, GroundedRequest
  <2>2. Grounded(Row(r.map).spec, asked')
    BY <1>2, <2>1 DEF Row, GroundedRows
  <2>3. Advances
    BY <1>6, <2>2 DEF Load, ReplaceActiveSpec, Advances
  <2> QED
    BY <1>3, <1>6, <2>3 DEF Load
<1>7. CASE Delete(c, r)
  <2>1. Advances
    BY <1>7 DEF Delete, sessionState, Advances
  <2> QED
    BY <1>4, <1>7, <2>1 DEF Delete
<1>8. CASE NotServed(c, r)
  <2>1. Advances
    BY <1>8 DEF NotServed, sessionState, Advances
  <2> QED
    BY <1>3, <1>8, <2>1 DEF NotServed
<1> QED
  BY <1>5, <1>6, <1>7, <1>8 DEF Serve

LEMMA ProvenanceOfChats ==
    ASSUME Provenance, SessionNext, NEW c \in Clients,
           \/ MockChat(c) \/ AskProvider(c) \/ Decide(c)
           \/ ProviderFails(c) \/ ProviderStale(c) \/ ProviderAnswers(c)
    PROVE  Provenance'
<1>1. HistoryKept
  BY Arrived, Unasked DEF MockChat, AskProvider, Decide, ProviderFails, ProviderStale,
                          ProviderAnswers, Answer
<1>2. AllGrounded(asked') /\ StoreTyped /\ epoch \in Nat
  BY <1>1, CarriedOver DEF Provenance
<1>3. Len(dbs) \in Nat
  BY <1>2, AppendedTo DEF StoreTyped
<1>4. UNCHANGED <<handle, dbs, file>>
  BY DEF MockChat, AskProvider, Decide, ProviderFails, ProviderStale, ProviderAnswers, Answer,
         storeVars
<1>5. GroundedRows(file', asked') /\ \A i \in DOMAIN dbs' : GroundedRows(dbs'[i], asked')
  BY <1>2, <1>4 DEF AllGrounded
<1>6. CASE MockChat(c) \/ Decide(c)
  <2>1. UNCHANGED call
    BY <1>6 DEF MockChat, Decide, storeVars
  <2>2. Advances
    <3>1. CASE MockChat(c)
      <4>1. /\ requests' \in DOMAIN asked' /\ asked'[requests'] = active
            /\ Outcome(requests', Revision(active))
        BY <3>1, Arrived DEF MockChat
      <4> QED
        BY <1>2, <4>1, OutcomeIsGrounded DEF AllGrounded
    <3>2. CASE Decide(c)
      BY <3>2 DEF Decide, Advances
    <3> QED
      BY <1>6, <3>1, <3>2
  <2>3. GroundedCall(call'[c], asked', handle', Len(dbs'), active', epoch')
    <3>1. GroundedCall(call[c], asked, handle, Len(dbs), active, epoch) /\ call'[c] = call[c]
      BY <2>1 DEF Provenance, AllGrounded
    <3>2. Extended(asked', asked)
      BY <1>1 DEF HistoryKept
    <3>3. epoch' \in Nat /\ ((active' = active /\ epoch' = epoch) \/ epoch' = epoch + 1)
      BY <1>2, <2>2 DEF Advances
    <3> QED
      BY <1>2, <1>3, <1>4, <3>1, <3>2, <3>3, CallStays
  <2> QED
    BY <1>1, <1>3, <1>4, <1>5, <2>1, <2>2, <2>3, Assembled
<1>7. CASE AskProvider(c)
  <2>1. /\ call'[c] = [at |-> "asking", request |-> requests', epoch |-> epoch,
                       from |-> Revision(active)]
        /\ \A d \in Clients : d # c => call'[d] = call[d]
        /\ UNCHANGED <<active, epoch>>
    BY <1>2, <1>7 DEF AskProvider, StoreTyped
  <2>2. requests' \in DOMAIN asked' /\ asked'[requests'] = active
    BY <1>7, Arrived DEF AskProvider
  <2>3. GroundedCall(call'[c], asked', handle', Len(dbs'), active', epoch')
    BY <1>2, <2>1, <2>2 DEF GroundedCall, HasDatabase
  <2>4. Advances
    BY <2>1 DEF Advances
  <2> QED
    BY <1>1, <1>3, <1>4, <1>5, <2>1, <2>3, <2>4, Assembled
<1>8. CASE ProviderFails(c) \/ ProviderStale(c) \/ ProviderAnswers(c)
  <2>1. call'[c] = Idle /\ \A d \in Clients : d # c => call'[d] = call[d]
    BY <1>2, <1>8 DEF ProviderFails, ProviderStale, ProviderAnswers, Answer, Answered, StoreTyped
  <2>2. Advances
    <3>1. CASE ProviderFails(c) \/ ProviderStale(c)
      BY <3>1 DEF ProviderFails, ProviderStale, NotApplied, Advances
    <3>2. CASE ProviderAnswers(c)
      <4>1. /\ call[c].at = "asking" /\ call[c].epoch = epoch
            /\ Outcome(call[c].request, call[c].from)
        BY <3>2 DEF ProviderAnswers, Answer, IsActiveMapSession
      <4>2. GroundedCall(call[c], asked', handle, Len(dbs), active, epoch)
        BY <1>2 DEF AllGrounded
      <4>3. /\ call[c].request \in DOMAIN asked'
            /\ asked'[call[c].request].id = active.id
            /\ asked'[call[c].request].edits = active.edits
        BY <4>1, <4>2 DEF GroundedCall
      <4> QED
        BY <1>2, <4>1, <4>3, OutcomeIsGrounded DEF AllGrounded
    <3> QED
      BY <1>8, <3>1, <3>2
  <2>3. GroundedCall(call'[c], asked', handle', Len(dbs'), active', epoch')
    BY <2>1, IdleIsGrounded
  <2> QED
    BY <1>1, <1>3, <1>4, <1>5, <2>1, <2>2, <2>3, Assembled
<1> QED
  BY <1>6, <1>7, <1>8

LEMMA ProvenanceOfSaved ==
    ASSUME Provenance, SessionNext, NEW c \in Clients,
           \/ \E m \in MapIds : \E r \in Operations(m) : AskStore(c, r)
           \/ Opened(c)
    PROVE  Provenance'
<1>1. HistoryKept
  BY Arrived, Unasked DEF AskStore, Opened
<1>2. AllGrounded(asked') /\ StoreTyped /\ epoch \in Nat
  BY <1>1, CarriedOver DEF Provenance
<1>3. Len(dbs) \in Nat
  BY <1>2, AppendedTo DEF StoreTyped
<1>4. ASSUME NEW m \in MapIds, NEW r \in Operations(m), AskStore(c, r)
      PROVE  Provenance'
  <2>1. GroundedRequest(r, asked')
    BY <1>2 DEF Operations, GroundedRequest, AllGrounded
  <2>2. CASE StartOpening(c, r) /\ UNCHANGED <<sessionState, late>>
    <3>1. /\ call'[c] = [at |-> "opening", asks |-> r]
          /\ \A d \in Clients : d # c => call'[d] = call[d]
          /\ UNCHANGED <<handle, dbs, file>>
      BY <1>2, <2>2 DEF StartOpening, StoreTyped
    <3>2. GroundedCall(call'[c], asked', handle', Len(dbs'), active', epoch')
      BY <2>1, <3>1 DEF GroundedCall, HasDatabase
    <3>3. Advances
      BY <2>2 DEF sessionState, Advances
    <3>4. GroundedRows(file', asked') /\ \A i \in DOMAIN dbs' : GroundedRows(dbs'[i], asked')
      BY <1>2, <3>1 DEF AllGrounded
    <3> QED
      BY <1>1, <1>3, <3>1, <3>2, <3>3, <3>4, Assembled
  <2>3. CASE handle # 0 /\ Serve(c, r) /\ UNCHANGED <<file, unwritten>>
    <3>1. /\ Advances
          /\ handle' = handle /\ Len(dbs') = Len(dbs)
          /\ \A i \in DOMAIN dbs' : GroundedRows(dbs'[i], asked')
          /\ \A d \in Clients : d # c => call'[d] = call[d]
          /\ GroundedCall(call'[c], asked', handle', Len(dbs'), active', epoch')
      BY <1>1, <2>1, <2>3, ServedGrounded
    <3>2. GroundedRows(file', asked')
      BY <1>2, <2>3 DEF AllGrounded
    <3> QED
      BY <1>1, <1>3, <3>1, <3>2, Assembled
  <2> QED
    BY <1>4, <2>2, <2>3 DEF AskStore
<1>5. CASE Opened(c)
  <2>1. call[c].at = "installing" /\ file' \in Written(c) /\ Serve(c, call[c].asks)
    BY <1>5 DEF Opened, EndNewWrite
  <2>2. GroundedRequest(call[c].asks, asked') /\ handle # 0
    BY <1>2, <2>1 DEF AllGrounded, GroundedCall
  <2>3. /\ Advances
        /\ handle' = handle /\ Len(dbs') = Len(dbs)
        /\ \A i \in DOMAIN dbs' : GroundedRows(dbs'[i], asked')
        /\ \A d \in Clients : d # c => call'[d] = call[d]
        /\ GroundedCall(call'[c], asked', handle', Len(dbs'), active', epoch')
    BY <1>1, <2>1, <2>2, ServedGrounded
  <2>4. GroundedRows(file', asked')
    <3>1. \A w \in Writing : GroundedRows(call[w].bytes, asked')
      BY <1>2 DEF AllGrounded, GroundedCall, Writing
    <3>2. c \in Writing
      BY <2>1 DEF Writing
    <3>3. GroundedRows(Torn, asked') /\ GroundedRows(file, asked')
      BY <1>2 DEF GroundedRows, AllGrounded
    <3> QED
      BY <2>1, <3>1, <3>2, <3>3 DEF Written
  <2> QED
    BY <1>1, <1>3, <2>3, <2>4, Assembled
<1> QED
  BY <1>4, <1>5

LEMMA ProvenanceOfStore ==
    ASSUME Provenance, SessionNext, NEW c \in Clients, StoreStep(c)
    PROVE  Provenance'
<1>1. UNCHANGED <<active, epoch, requests, asked>>
  BY DEF StoreStep, sessionVars
<1>2. HistoryKept /\ Advances
  BY <1>1, Unasked DEF Advances
<1>3. AllGrounded(asked') /\ StoreTyped
  BY <1>2, CarriedOver DEF Provenance
<1>4. Len(dbs) \in Nat /\ DOMAIN dbs = 1..Len(dbs)
  BY <1>3, AppendedTo DEF StoreTyped
<1>5. /\ GroundedRows(file, asked') /\ \A i \in DOMAIN dbs : GroundedRows(dbs[i], asked')
      /\ \A w \in Writing : GroundedRows(call[w].bytes, asked')
      /\ GroundedRows(NoRows, asked') /\ GroundedRows(Torn, asked')
      /\ GroundedCall(call[c], asked', handle, Len(dbs), active, epoch)
  BY <1>3 DEF AllGrounded, GroundedCall, Writing, GroundedRows, NoRows, Rows
<1>6. CASE ReadFile(c)
  <2> PICK bytes \in {file} \cup CutShort :
          call' = [call EXCEPT ![c] = [at |-> "read", asks |-> @.asks, bytes |-> bytes]]
    BY <1>6 DEF ReadFile
  <2>1. GroundedRows(bytes, asked')
    BY <1>5 DEF CutShort
  <2>2. /\ call'[c] = [at |-> "read", asks |-> call[c].asks, bytes |-> bytes]
        /\ \A d \in Clients : d # c => call'[d] = call[d]
        /\ call[c].at = "opening" /\ UNCHANGED <<handle, dbs, file>>
    BY <1>3, <1>6 DEF ReadFile, StoreTyped
  <2>3. GroundedCall(call'[c], asked', handle', Len(dbs'), active', epoch')
    BY <1>5, <2>1, <2>2 DEF GroundedCall, HasDatabase
  <2> QED
    BY <1>2, <1>4, <1>5, <2>2, <2>3, Assembled
<1>7. CASE OpenDatabase(c)
  <2> DEFINE bytes == call[c].bytes
  <2>1. call[c].at = "read" /\ GroundedRows(bytes, asked') /\ GroundedRequest(call[c].asks, asked')
    BY <1>5, <1>7 DEF OpenDatabase, GroundedCall
  <2>2. /\ dbs' = Append(dbs, bytes) /\ Len(dbs') = Len(dbs) + 1
        /\ DOMAIN dbs' = 1..Len(dbs) + 1 /\ dbs'[Len(dbs) + 1] = bytes
        /\ \A i \in 1..Len(dbs) : dbs'[i] = dbs[i]
        /\ \A i \in DOMAIN dbs' : i \in DOMAIN dbs \/ i = Len(dbs) + 1
    BY <1>3, <1>4, <1>7, AppendedTo DEF OpenDatabase, StoreTyped
  <2>3. handle' # 0 /\ handle' \in 1..Len(dbs') /\ file' = file
    BY <1>4, <1>7, <2>2 DEF OpenDatabase
  <2>4. \A i \in DOMAIN dbs' : GroundedRows(dbs'[i], asked')
    BY <1>4, <1>5, <2>1, <2>2
  <2>5. /\ \A d \in Clients : d # c => call'[d] = call[d]
        /\ call'[c] = Idle \/ call'[c] = [at |-> "creating", asks |-> call[c].asks, db |-> handle']
    BY <1>3, <1>7 DEF OpenDatabase, Answered, HasOpened, StoreTyped
  <2>6. GroundedCall(call'[c], asked', handle', Len(dbs'), active', epoch')
    <3>1. CASE call'[c] = Idle
      BY <3>1, IdleIsGrounded
    <3>2. CASE call'[c] = [at |-> "creating", asks |-> call[c].asks, db |-> handle']
      BY <2>1, <2>3, <3>2 DEF GroundedCall, HasDatabase
    <3> QED
      BY <2>5, <3>1, <3>2
  <2> QED
    BY <1>2, <1>4, <1>5, <2>2, <2>3, <2>4, <2>5, <2>6, Assembled
<1>8. CASE BeginWrite(c)
  <2>1. UNCHANGED <<handle, dbs, file>> /\ \A d \in Clients : d # c => call'[d] = call[d]
    BY <1>3, <1>8 DEF BeginWrite, StoreTyped
  <2>2. ASSUME call[c].at = "creating",
               call'[c] = [at |-> "installing", asks |-> call[c].asks, bytes |-> dbs[call[c].db]]
        PROVE  GroundedCall(call'[c], asked', handle', Len(dbs'), active', epoch')
    <3>1. call[c].db \in DOMAIN dbs
      BY <1>4, <1>5, <2>2 DEF GroundedCall, HasDatabase
    <3> QED
      BY <1>5, <2>1, <2>2, <3>1 DEF GroundedCall, HasDatabase
  <2>3. ASSUME call[c].at = "persisting",
               call'[c] = [at |-> "writing", map |-> call[c].map, db |-> call[c].db,
                           bytes |-> dbs[call[c].db]]
        PROVE  GroundedCall(call'[c], asked', handle', Len(dbs'), active', epoch')
    <3>1. call[c].db \in DOMAIN dbs
      BY <1>4, <1>5, <2>3 DEF GroundedCall, HasDatabase
    <3> QED
      BY <1>5, <2>1, <2>3, <3>1 DEF GroundedCall, HasDatabase
  <2>4. GroundedCall(call'[c], asked', handle', Len(dbs'), active', epoch')
    <3>1. \/ /\ call[c].at = "creating"
             /\ call'[c] = [at |-> "installing", asks |-> call[c].asks, bytes |-> dbs[call[c].db]]
          \/ /\ call[c].at = "persisting"
             /\ call'[c] = [at |-> "writing", map |-> call[c].map, db |-> call[c].db,
                            bytes |-> dbs[call[c].db]]
      BY <1>3, <1>8 DEF BeginWrite, StoreTyped
    <3> QED
      BY <2>2, <2>3, <3>1
  <2> QED
    BY <1>2, <1>4, <1>5, <2>1, <2>4, Assembled
<1>9. CASE EndWrite(c) \/ FailWrite(c)
  <2>1. /\ call[c].at \in {"installing", "writing"} /\ UNCHANGED <<handle, dbs>>
        /\ file' \in {file, NoRows, Torn} \cup Written(c)
    BY <1>9 DEF EndWrite, FailWrite
  <2>2. call'[c] = Idle /\ \A d \in Clients : d # c => call'[d] = call[d]
    BY <1>3, <1>9 DEF EndWrite, FailWrite, Answered, StoreTyped
  <2>3. GroundedRows(file', asked')
    BY <1>5, <2>1 DEF Written, Writing
  <2>4. GroundedCall(call'[c], asked', handle', Len(dbs'), active', epoch')
    BY <2>2, IdleIsGrounded
  <2> QED
    BY <1>2, <1>4, <1>5, <2>1, <2>2, <2>3, <2>4, Assembled
<1> QED
  BY <1>6, <1>7, <1>8, <1>9 DEF StoreStep

LEMMA ProvenanceOfCrash ==
    ASSUME Provenance, SessionNext, Crash
    PROVE  Provenance'
<1>1. HistoryKept
  BY Unasked DEF Crash
<1>2. AllGrounded(asked') /\ StoreTyped'
  BY <1>1, CarriedOver, TypedKept DEF Provenance
<1>3. /\ \A w \in Writing : GroundedRows(call[w].bytes, asked')
      /\ GroundedRows(NoRows, asked') /\ GroundedRows(Torn, asked') /\ GroundedRows(file, asked')
  BY <1>2 DEF AllGrounded, GroundedCall, Writing, GroundedRows, NoRows, Rows
<1>4. GroundedRows(file', asked')
  BY <1>3 DEF Crash, StoreCrash, CutShort
<1>5. DOMAIN dbs' = {} /\ epoch' = 0 /\ \A c \in Clients : call'[c] = Idle
  BY DEF Crash, StoreCrash
<1>6. Grounded(active', asked')
  BY NewIsGrounded DEF Crash
<1>7. AllGrounded(asked)'
  BY <1>4, <1>5, <1>6, IdleIsGrounded DEF AllGrounded
<1> QED
  BY <1>1, <1>2, <1>5, <1>7 DEF Provenance, HistoryKept

LEMMA ProvenanceHolds == SessionSpec => []Provenance
<1>1. SessionInit => Provenance
  <2> SUFFICES ASSUME SessionInit
               PROVE  Provenance
    OBVIOUS
  <2>1. /\ Sequence(dbs) /\ DOMAIN dbs = {} /\ handle = 0 /\ handle \in 0..Len(dbs)
        /\ Sequence(asked) /\ requests = Len(asked) /\ epoch = 0
    BY DEF SessionInit, StoreInit, Sequence
  <2>2. /\ Rows(acked) /\ call = [c \in Clients |-> call[c]]
        /\ \A c \in Clients : call[c] = Idle
        /\ file = NoRows /\ active = NewMap(1)
    BY DEF SessionInit, StoreInit, Rows, NoRows
  <2>3. GroundedRows(file, asked)
    BY <2>2 DEF GroundedRows, NoRows, Rows
  <2> QED
    BY <2>1, <2>2, <2>3, NewIsGrounded, IdleIsGrounded DEF Provenance, StoreTyped, AllGrounded
<1>2. Provenance /\ [SessionNext]_allVars => Provenance'
  <2>1. CASE SessionNext
    <3> SUFFICES ASSUME Provenance
                 PROVE  Provenance'
      OBVIOUS
    <3> QED
      BY <2>1, ProvenanceOfChats, ProvenanceOfSaved, ProvenanceOfStore, ProvenanceOfCrash
         DEF SessionNext
  <2>2. CASE UNCHANGED allVars
    <3> SUFFICES ASSUME Provenance
                 PROVE  Provenance'
      OBVIOUS
    <3>1. UNCHANGED <<handle, dbs, file, call, acked, active, epoch, requests, asked>>
      BY <2>2 DEF allVars, storeVars, sessionVars
    <3>2. StoreTyped'
      BY <3>1 DEF Provenance, StoreTyped, Rows
    <3>3. AllGrounded(asked)'
      BY <3>1 DEF Provenance, AllGrounded
    <3> QED
      BY <3>1, <3>2, <3>3 DEF Provenance
  <2> QED
    BY <2>1, <2>2
<1> QED
  BY <1>1, <1>2, PTL DEF SessionSpec, allVars

\* An answer is put on the map its chat was about, or on none (isActiveMapSession),
\* however many chats, resets, loads and restarts lie between: on the active map and
\* on every saved one.
THEOREM EditsStayOnTheirMap == SessionSpec => []EveryEditOnItsMap
<1>1. Provenance => EveryEditOnItsMap
  <2>1. \A spec : Grounded(spec, asked) => EditsOfItsMap(spec)
    BY DEF Grounded, EditsOfItsMap
  <2> QED
    BY <2>1 DEF Provenance, AllGrounded, GroundedRows, EveryEditOnItsMap
<1> QED
  BY <1>1, ProvenanceHolds, PTL
(***************************************************************************)
(* The session: the map, its basemap, its records and the decisions about  *)
(* them, active or in a row of a database, are one bundle.                 *)
(***************************************************************************)

\* The ids of audit records are their places, until records are dropped.
Numbered(records) ==
    /\ Sequence(records) /\ Len(records) <= Cap
    /\ \A i \in DOMAIN records : records[i].id = i

\* The evidence of a decision is in the place that it names.
Decided(made, records) ==
    /\ Sequence(made)
    /\ \A i \in DOMAIN made : /\ made[i].evidence \in DOMAIN records
                              /\ records[made[i].evidence] = made[i].about

\* What hangs together in x, with k and l for cut and late.
Bundle(x, k, l) ==
    /\ x.basemap = x.spec.basemap
    /\ ~k => Numbered(x.audit) /\ Decided(x.decisions, x.audit)
    /\ ~k /\ ~l => LeadsTo(x.audit, Len(x.spec.edits))

\* The session, as a save takes it.
Session == [spec |-> active, basemap |-> basemap, audit |-> audit, decisions |-> decisions]

BoundRows(d, k, l) ==
    d # Torn => \A m \in MapIds : d[m] # Absent => Bundle(d[m], k, l)

BoundRequest(r) == r.op = "save" => r.basemap = r.spec.basemap

BoundCall(r, k, l) ==
    /\ r.at \in {"opening", "read", "creating", "installing"} => BoundRequest(r.asks)
    /\ r.at \in {"read", "installing", "writing"} => BoundRows(r.bytes, k, l)

AllBound(k, l) ==
    /\ BoundRows(file, k, l)
    /\ \A i \in DOMAIN dbs : BoundRows(dbs[i], k, l)
    /\ \A c \in Clients : BoundCall(call[c], k, l)

Together == Bundle(Session, cut, late) /\ AllBound(cut, late)

\* Records are never put back, and a save cannot be undone.
Excused(k, l) == (cut => k) /\ (late => l)

LEMMA BundleStays ==
    ASSUME NEW k, NEW l, Excused(k, l)
    PROVE  /\ \A x : Bundle(x, cut, late) => Bundle(x, k, l)
           /\ \A d : BoundRows(d, cut, late) => BoundRows(d, k, l)
           /\ \A r : BoundCall(r, cut, late) => BoundCall(r, k, l)
           /\ AllBound(cut, late) => AllBound(k, l)
<1>1. ASSUME NEW x, Bundle(x, cut, late)
      PROVE  Bundle(x, k, l)
  BY <1>1 DEF Bundle, Excused
<1>2. ASSUME NEW d, BoundRows(d, cut, late)
      PROVE  BoundRows(d, k, l)
  BY <1>1, <1>2 DEF BoundRows
<1>3. ASSUME NEW r, BoundCall(r, cut, late)
      PROVE  BoundCall(r, k, l)
  BY <1>2, <1>3 DEF BoundCall
<1>4. ASSUME AllBound(cut, late)
      PROVE  AllBound(k, l)
  BY <1>2, <1>3, <1>4 DEF AllBound
<1> QED
  BY <1>1, <1>2, <1>3, <1>4

LEMMA NothingDecided == Numbered(<< >>) /\ Decided(<< >>, << >>) /\ \A n : LeadsTo(<< >>, n)
BY SessionAssumption DEF SessionAssumption, Numbered, Decided, LeadsTo, Sequence

\* A list that the cap cuts is a list of some of its records.
LEMMA KeptLast ==
    ASSUME NEW s, Sequence(s)
    PROVE  /\ Sequence(KeepLast(s))
           /\ \A i \in DOMAIN KeepLast(s) : \E j \in DOMAIN s : KeepLast(s)[i] = s[j]
           /\ Len(s) <= Cap => KeepLast(s) = s
<1> DEFINE S == {s[i] : i \in DOMAIN s}
           n == Len(s)
           t == SubSeq(s, n - Cap + 1, n)
<1>1. s \in Seq(S) /\ n \in Nat /\ DOMAIN s = 1..n /\ Cap \in Nat \ {0}
  <2>1. s \in Seq(S)
    BY DEF Sequence
  <2> HIDE DEF S
  <2> QED
    BY <2>1, SessionAssumption DEF SessionAssumption
<1>2. CASE n <= Cap
  BY <1>1, <1>2 DEF KeepLast
<1>3. CASE n > Cap
  <2>1. n - Cap + 1 \in 1..n /\ KeepLast(s) = t
    BY <1>1, <1>3 DEF KeepLast
  <2>2. /\ t \in Seq(S) /\ Len(t) = Cap /\ DOMAIN t = 1..Cap
        /\ \A i \in 1..Cap : t[i] = s[n - Cap + i]
    <3> HIDE DEF S
    <3> QED
      BY <1>1, <2>1
  <2>3. \A i \in 1..Cap : n - Cap + i \in DOMAIN s
    BY <1>1, <1>3
  <2>4. t \in Seq({t[i] : i \in DOMAIN t})
    <3> HIDE DEF t
    <3>1. t = [i \in 1..Len(t) |-> t[i]]
      BY <2>2
    <3> QED
      BY <2>2, <3>1, <1>1
  <2> HIDE DEF t
  <2> QED
    BY <1>1, <1>3, <2>1, <2>2, <2>3, <2>4 DEF Sequence
<1> QED
  BY <1>1, <1>2, <1>3

\* What appendAuditRecord does until it drops a record: decisions keep their evidence,
\* and the newest change is the new record, or the one that it was.
LEMMA RecordAdded ==
    ASSUME Bundle(Session, cut, late), NEW status, NEW from, NEW to,
           AppendAudit(status, from, to)
    PROVE  /\ cut => cut'
           /\ ~cut' => /\ Numbered(audit') /\ Decided(decisions, audit')
                       /\ status \in {"applied", "reset"} => LeadsTo(audit', to)
                       /\ status \notin {"applied", "reset"} =>
                             \A n : LeadsTo(audit, n) => LeadsTo(audit', n)
<1> DEFINE rec == [id |-> Len(audit) + 1, status |-> status, from |-> from, to |-> to]
<1>1. audit' = KeepLast(Append(audit, rec)) /\ (cut' <=> cut \/ Len(audit) = Cap)
  BY DEF AppendAudit
<1> SUFFICES ASSUME ~cut, Len(audit) # Cap
             PROVE  /\ Numbered(audit') /\ Decided(decisions, audit')
                    /\ status \in {"applied", "reset"} => LeadsTo(audit', to)
                    /\ status \notin {"applied", "reset"} =>
                          \A n : LeadsTo(audit, n) => LeadsTo(audit', n)
  BY <1>1
<1>2. Numbered(audit) /\ Decided(decisions, audit)
  BY DEF Bundle, Session
<1>3. rec.id = Len(audit) + 1 /\ rec.status = status /\ rec.to = to
  OBVIOUS
<1> HIDE DEF rec
<1>4. /\ Sequence(Append(audit, rec))
      /\ Len(audit) \in Nat /\ DOMAIN audit = 1..Len(audit)
      /\ Len(Append(audit, rec)) = Len(audit) + 1
      /\ DOMAIN Append(audit, rec) = 1..Len(audit) + 1
      /\ \A i \in 1..Len(audit) : Append(audit, rec)[i] = audit[i]
      /\ Append(audit, rec)[Len(audit) + 1] = rec
      /\ \A i \in 1..Len(audit) + 1 : i \in 1..Len(audit) \/ i = Len(audit) + 1
  BY <1>2, AppendedTo DEF Numbered
<1>5. Len(audit) + 1 <= Cap /\ audit' = Append(audit, rec)
  <2>1. Len(audit) + 1 <= Cap
    <3>1. Len(audit) \in Nat /\ Cap \in Nat /\ Len(audit) <= Cap
      BY <1>2, <1>4, SessionAssumption DEF SessionAssumption, Numbered
    <3> QED
      BY <3>1
  <2> QED
    BY <1>1, <1>4, <2>1, KeptLast
<1> DEFINE n == Len(audit)
<1>6. /\ Sequence(audit') /\ Len(audit') <= Cap
      /\ n \in Nat /\ DOMAIN audit = 1..n /\ DOMAIN audit' = 1..n + 1
      /\ \A i \in 1..n : audit'[i] = audit[i]
      /\ audit'[n + 1] = rec /\ rec.id = n + 1 /\ rec.status = status /\ rec.to = to
      /\ \A i \in 1..n + 1 : i \in 1..n \/ i = n + 1
  BY <1>3, <1>4, <1>5
<1> HIDE DEF n
<1>7. Numbered(audit')
  BY <1>2, <1>6 DEF Numbered
<1>8. Decided(decisions, audit')
  <2>1. \A i \in 1..n : i \in 1..n + 1
    BY <1>6
  <2> QED
    BY <1>2, <1>6, <2>1 DEF Decided
<1>9. ASSUME status \in {"applied", "reset"}
      PROVE  LeadsTo(audit', to)
  <2>1. IsChange(audit'[n + 1]) /\ n + 1 \in DOMAIN audit' /\ \A i \in 1..n : n + 1 > i
    BY <1>6, <1>9 DEF IsChange
  <2> QED
    BY <1>6, <2>1 DEF LeadsTo
<1>10. ASSUME status \notin {"applied", "reset"}, NEW m, LeadsTo(audit, m)
       PROVE  LeadsTo(audit', m)
  <2>1. ~IsChange(audit'[n + 1])
    BY <1>6, <1>10 DEF IsChange
  <2>2. \A i \in 1..n : i \in 1..n + 1
    BY <1>6
  <2> QED
    BY <1>6, <1>10, <2>1, <2>2 DEF LeadsTo, IsChange
<1> QED
  BY <1>7, <1>8, <1>9, <1>10

\* The edits of the active map are a sequence: one more is one revision more.
LEMMA EditIsARevision ==
    ASSUME Provenance, NEW n
    PROVE  /\ Edited(active, n).basemap = active.basemap
           /\ Len(Edited(active, n).edits) = Revision(active) + 1
           /\ \A b : LET next == [Edited(active, n) EXCEPT !.basemap = b] IN
                     next.basemap = b /\ Len(next.edits) = Revision(active) + 1
<1>1. /\ active = [id |-> active.id, edits |-> active.edits, basemap |-> active.basemap]
      /\ Sequence(active.edits)
  BY DEF Provenance, AllGrounded, Grounded
<1>2. Len(Append(active.edits, n)) = Revision(active) + 1
  BY <1>1, AppendedTo DEF Revision
<1> DEFINE s == Append(active.edits, n)
<1>3. Edited(active, n) = [id |-> active.id, edits |-> s, basemap |-> active.basemap]
  BY <1>1 DEF Edited
<1> HIDE DEF s
<1>4. ASSUME NEW b
      PROVE  [Edited(active, n) EXCEPT !.basemap = b]
                 = [id |-> active.id, edits |-> s, basemap |-> b]
  BY <1>3
<1> QED
  BY <1>2, <1>3, <1>4 DEF s

\* However a chat ends, its record leads to the revision of the map that is active.
LEMMA OutcomeIsBound ==
    ASSUME Provenance, Together, NEW n, NEW from, Outcome(n, from),
           UNCHANGED <<decisions, late>>
    PROVE  Excused(cut', late') /\ Bundle(Session, cut, late)'
<1>1. Bundle(Session, cut, late) /\ basemap = active.basemap
  BY DEF Together, Bundle, Session
<1>2. ASSUME NEW status, NEW to, AppendAudit(status, from, to),
             basemap' = active'.basemap,
             \/ status \in {"applied", "reset"} /\ to = Len(active'.edits)
             \/ status \notin {"applied", "reset"} /\ active' = active
      PROVE  Excused(cut', late') /\ Bundle(Session, cut, late)'
  <2>1. /\ cut => cut'
        /\ ~cut' => /\ Numbered(audit') /\ Decided(decisions, audit')
                    /\ status \in {"applied", "reset"} => LeadsTo(audit', to)
                    /\ status \notin {"applied", "reset"} =>
                          \A m : LeadsTo(audit, m) => LeadsTo(audit', m)
    BY <1>1, <1>2, RecordAdded
  <2>2. ~cut /\ ~late => LeadsTo(audit, Len(active.edits))
    BY <1>1 DEF Bundle, Session
  <2>3. ~cut' /\ ~late' => LeadsTo(audit', Len(active'.edits))
    BY <1>2, <2>1, <2>2
  <2> QED
    BY <1>2, <2>1, <2>3 DEF Excused, Bundle, Session
<1>3. CASE Applied(n, from)
  <2>1. /\ active' = Edited(active, n) /\ basemap' = basemap
        /\ AppendAudit("applied", from, Revision(active) + 1)
    BY <1>3 DEF Applied, ReplaceActiveSpec
  <2> QED
    BY <1>1, <1>2, <2>1, EditIsARevision
<1>4. CASE SkippedAll(from)
  BY <1>1, <1>2, <1>4 DEF SkippedAll, ReplaceActiveSpec, Revision
<1>5. ASSUME NEW choice, BasemapSet(n, from, choice)
      PROVE  Excused(cut', late') /\ Bundle(Session, cut, late)'
  <2>1. /\ active' = [Edited(active, n) EXCEPT !.basemap = choice] /\ basemap' = choice
        /\ AppendAudit("applied", from, Revision(active) + 1)
    BY <1>5 DEF BasemapSet, ReplaceActiveSpec
  <2> QED
    BY <1>1, <1>2, <2>1, EditIsARevision
<1>6. CASE MapReset(from)
  <2>1. active'.basemap = DefaultBasemap /\ Len(active'.edits) = 0 /\ basemap' = DefaultBasemap
    BY <1>6 DEF MapReset, ReplaceActiveSpec, NewMap
  <2>2. AppendAudit("reset", from, 0)
    BY <1>6 DEF MapReset
  <2> QED
    BY <1>2, <2>1, <2>2
<1>7. ASSUME NEW status \in {"ready", "blocked"}, NotApplied(status, from)
      PROVE  Excused(cut', late') /\ Bundle(Session, cut, late)'
  BY <1>1, <1>2, <1>7 DEF NotApplied
<1> QED
  BY <1>3, <1>4, <1>5, <1>6, <1>7 DEF Outcome

\* A step of one client.
LEMMA Joined ==
    ASSUME Together, NEW c \in Clients, Excused(cut', late'),
           Bundle(Session, cut, late)',
           BoundRows(file', cut', late'),
           \A i \in DOMAIN dbs' : BoundRows(dbs'[i], cut', late'),
           \A d \in Clients : d # c => call'[d] = call[d],
           BoundCall(call'[c], cut', late')
    PROVE  Together'
<1>1. AllBound(cut', late')
  BY BundleStays DEF Together
<1>2. AllBound(cut, late)'
  BY <1>1 DEF AllBound
<1> QED
  BY <1>2 DEF Together

LEMMA IdleIsBound == \A k, l : BoundCall(Idle, k, l)
BY DEF Idle, BoundCall

\* Nothing of the session moves.
LEMMA SessionStays ==
    ASSUME Together, UNCHANGED <<active, basemap, audit, decisions, cut, late>>
    PROVE  Excused(cut', late') /\ Bundle(Session, cut, late)'
BY DEF Together, Session, Excused

LEMMA TogetherOfChats ==
    ASSUME Provenance, Together, NEW c \in Clients,
           \/ MockChat(c) \/ AskProvider(c) \/ Decide(c)
           \/ ProviderFails(c) \/ ProviderStale(c) \/ ProviderAnswers(c)
    PROVE  Together'
<1>1. /\ UNCHANGED <<dbs, file, late>>
      /\ \A d \in Clients : d # c => call'[d] = call[d]
      /\ \/ call'[c] = call[c]
         \/ call'[c] = Idle
         \/ call'[c].at = "asking"
  BY DEF MockChat, AskProvider, Decide, ProviderFails, ProviderStale, ProviderAnswers, Answer,
         Answered, storeVars, Provenance, StoreTyped
<1>2. Excused(cut', late') /\ Bundle(Session, cut, late)'
  <2>1. CASE MockChat(c)
    BY <2>1, OutcomeIsBound DEF MockChat
  <2>2. CASE AskProvider(c)
    BY <2>2, SessionStays DEF AskProvider
  <2>3. CASE Decide(c)
    <3> DEFINE made == [id |-> Len(decisions) + 1, evidence |-> Last(audit).id,
                        about |-> Last(audit)]
               next == Append(decisions, made)
    <3>1. /\ audit # << >> /\ decisions' = KeepLast(next)
          /\ UNCHANGED <<active, basemap, audit, cut, late>>
      BY <2>3 DEF Decide
    <3>2. ASSUME ~cut
          PROVE  Decided(decisions', audit)
      <4>1. Numbered(audit) /\ Decided(decisions, audit)
        BY <3>2 DEF Together, Bundle, Session
      <4>2. /\ Len(audit) \in DOMAIN audit /\ Last(audit) = audit[Len(audit)]
            /\ Last(audit).id = Len(audit)
        <5>1. Sequence(audit) /\ Len(audit) \in Nat /\ DOMAIN audit = 1..Len(audit)
          BY <4>1, AppendedTo DEF Numbered
        <5>2. Len(audit) # 0
          BY <3>1, <5>1 DEF Sequence
        <5>3. Last(audit) = audit[Len(audit)] /\ Len(audit) \in DOMAIN audit
          BY <5>1, <5>2 DEF Last
        <5> QED
          BY <4>1, <5>3 DEF Numbered
      <4>3. made.evidence \in DOMAIN audit /\ audit[made.evidence] = made.about
        BY <4>2
      <4> HIDE DEF made
      <4>4. /\ Sequence(next) /\ DOMAIN decisions = 1..Len(decisions)
            /\ DOMAIN next = 1..Len(decisions) + 1
            /\ \A i \in 1..Len(decisions) : next[i] = decisions[i]
            /\ next[Len(decisions) + 1] = made
            /\ \A i \in 1..Len(decisions) + 1 : i \in 1..Len(decisions) \/ i = Len(decisions) + 1
        BY <4>1, AppendedTo DEF Decided
      <4> HIDE DEF next
      <4>5. \A i \in DOMAIN next : /\ next[i].evidence \in DOMAIN audit
                                   /\ audit[next[i].evidence] = next[i].about
        BY <4>1, <4>3, <4>4 DEF Decided
      <4>6. /\ Sequence(decisions')
            /\ \A i \in DOMAIN decisions' : \E j \in DOMAIN next : decisions'[i] = next[j]
        BY <3>1, <4>4, KeptLast
      <4> QED
        BY <4>5, <4>6 DEF Decided
    <3> QED
      BY <3>1, <3>2 DEF Together, Bundle, Session, Excused
  <2>4. CASE ProviderFails(c) \/ ProviderStale(c) \/ ProviderAnswers(c)
    <3>1. Answer(c) /\ \E n, from : Outcome(n, from)
      BY <2>4 DEF ProviderFails, ProviderStale, ProviderAnswers, Outcome
    <3> QED
      BY <3>1, OutcomeIsBound DEF Answer
  <2> QED
    BY <2>1, <2>2, <2>3, <2>4
<1>3. BoundCall(call'[c], cut', late')
  <2>1. CASE call'[c] = call[c]
    BY <1>2, <2>1, BundleStays DEF Together, AllBound
  <2>2. CASE call'[c] = Idle
    BY <2>2, IdleIsBound
  <2>3. CASE call'[c].at = "asking"
    BY <2>3 DEF BoundCall
  <2> QED
    BY <1>1, <2>1, <2>2, <2>3
<1>4. BoundRows(file', cut', late') /\ \A i \in DOMAIN dbs' : BoundRows(dbs'[i], cut', late')
  BY <1>1, <1>2, BundleStays DEF Together, AllBound
<1> QED
  BY <1>1, <1>2, <1>3, <1>4, Joined

\* A request is served: what is saved is the session, and what is loaded is what was
\* saved.
LEMMA ServedIsBound ==
    ASSUME Provenance, Together, NEW c \in Clients, NEW r, BoundRequest(r),
           r.op = "load" => r.map \in MapIds,
           handle # 0, Serve(c, r)
    PROVE  /\ Excused(cut', late') /\ Bundle(Session, cut, late)'
           /\ \A i \in DOMAIN dbs' : BoundRows(dbs'[i], cut', late')
           /\ \A d \in Clients : d # c => call'[d] = call[d]
           /\ BoundCall(call'[c], cut', late')
<1>1. StoreTyped /\ AllBound(cut, late) /\ Bundle(Session, cut, late)
  BY DEF Provenance, Together
<1>2. handle \in DOMAIN dbs /\ GroundedRows(dbs[handle], asked)
  <2>1. handle \in DOMAIN dbs
    BY <1>1, AppendedTo DEF StoreTyped
  <2> QED
    BY <2>1 DEF Provenance, AllGrounded
<1>3. ASSUME LeaveRows(c), Excused(cut', late')
      PROVE  /\ \A i \in DOMAIN dbs' : BoundRows(dbs'[i], cut', late')
             /\ \A d \in Clients : d # c => call'[d] = call[d]
             /\ BoundCall(call'[c], cut', late')
  <2>1. /\ call'[c] = Idle /\ \A d \in Clients : d # c => call'[d] = call[d]
        /\ dbs' = dbs
    BY <1>1, <1>3 DEF LeaveRows, Answered, StoreTyped
  <2> QED
    BY <1>1, <1>3, <2>1, IdleIsBound, BundleStays DEF AllBound
<1>4. ASSUME NEW row, PutRow(c, r, row), Excused(cut', late'),
             row # Absent => Bundle(row, cut', late')
      PROVE  /\ \A i \in DOMAIN dbs' : BoundRows(dbs'[i], cut', late')
             /\ \A d \in Clients : d # c => call'[d] = call[d]
             /\ BoundCall(call'[c], cut', late')
  <2>1. /\ call'[c] = [at |-> "persisting", map |-> r.map, db |-> handle]
        /\ \A d \in Clients : d # c => call'[d] = call[d]
    BY <1>1, <1>4 DEF PutRow, StoreTyped
  <2>2. /\ DOMAIN dbs' = DOMAIN dbs
        /\ dbs'[handle] = [dbs[handle] EXCEPT ![r.map] = row]
        /\ \A i \in DOMAIN dbs : i # handle => dbs'[i] = dbs[i]
        /\ dbs[handle] # Torn
    BY <1>2, <1>4 DEF PutRow
  <2>3. \A i \in DOMAIN dbs : BoundRows(dbs[i], cut', late')
    BY <1>1, <1>4, BundleStays DEF AllBound
  <2>4. BoundRows(dbs'[handle], cut', late')
    <3>1. Rows(dbs[handle])
      BY <1>2, <2>2 DEF GroundedRows
    <3>2. \A m \in MapIds : dbs'[handle][m] = dbs[handle][m] \/ dbs'[handle][m] = row
      BY <2>2, <3>1 DEF Rows
    <3> QED
      BY <1>2, <1>4, <2>2, <2>3, <3>2 DEF BoundRows
  <2>5. BoundCall(call'[c], cut', late')
    BY <2>1 DEF BoundCall
  <2> QED
    BY <2>1, <2>2, <2>3, <2>4, <2>5
<1>5. CASE Save(c, r)
  <2> DEFINE row == [spec |-> r.spec, basemap |-> r.basemap, audit |-> audit,
                     decisions |-> decisions]
  <2>1. /\ PutRow(c, r, row) /\ r.op = "save"
        /\ UNCHANGED <<active, basemap, audit, decisions, cut>>
        /\ (late' <=> late \/ r.spec # active)
    BY <1>5 DEF Save, sessionState
  <2>2. Excused(cut', late') /\ Bundle(Session, cut, late)'
    BY <1>1, <2>1 DEF Excused, Bundle, Session
  <2>3. Bundle(row, cut', late')
    BY <1>1, <2>1 DEF Bundle, Session, BoundRequest
  <2> HIDE DEF row
  <2> QED
    BY <1>4, <2>1, <2>2, <2>3
<1>6. CASE Load(c, r)
  <2>1. r.map \in MapIds /\ dbs[handle] # Torn /\ Row(r.map) # Absent
    BY <1>6 DEF Load, Found
  <2>2. Bundle(Row(r.map), cut, late)
    BY <1>1, <1>2, <2>1 DEF Row, AllBound, BoundRows
  <2>3. /\ active' = Row(r.map).spec /\ basemap' = Row(r.map).basemap
        /\ audit' = Row(r.map).audit /\ decisions' = Row(r.map).decisions
        /\ UNCHANGED <<cut, late>> /\ LeaveRows(c)
    BY <1>6 DEF Load, ReplaceActiveSpec
  <2>4. Excused(cut', late') /\ Bundle(Session, cut, late)'
    BY <2>2, <2>3 DEF Excused, Bundle, Session
  <2> QED
    BY <1>3, <2>3, <2>4
<1>7. CASE Delete(c, r) \/ NotServed(c, r)
  <2>1. UNCHANGED <<active, basemap, audit, decisions, cut, late>>
    BY <1>7 DEF Delete, NotServed, sessionState
  <2>2. PutRow(c, r, Absent) \/ LeaveRows(c)
    BY <1>7 DEF Delete, NotServed
  <2> QED
    BY <1>3, <1>4, <2>1, <2>2, SessionStays
<1> QED
  BY <1>5, <1>6, <1>7 DEF Serve

LEMMA TogetherOfSaved ==
    ASSUME Provenance, Together, NEW c \in Clients,
           \/ \E m \in MapIds : \E r \in Operations(m) : AskStore(c, r)
           \/ Opened(c)
    PROVE  Together'
<1>1. StoreTyped /\ AllBound(cut, late) /\ basemap = active.basemap
  BY DEF Provenance, Together, Bundle, Session
<1>2. ASSUME NEW m \in MapIds, NEW r \in Operations(m), AskStore(c, r)
      PROVE  Together'
  <2>1. BoundRequest(r) /\ (r.op = "load" => r.map \in MapIds)
    BY <1>1 DEF Operations, BoundRequest
  <2>2. CASE StartOpening(c, r) /\ UNCHANGED <<sessionState, late>>
    <3>1. /\ call'[c] = [at |-> "opening", asks |-> r]
          /\ \A d \in Clients : d # c => call'[d] = call[d]
          /\ UNCHANGED <<dbs, file, active, basemap, audit, decisions, cut, late>>
      BY <1>1, <2>2 DEF StartOpening, StoreTyped, sessionState
    <3>2. BoundCall(call'[c], cut', late')
      BY <2>1, <3>1 DEF BoundCall
    <3>3. Excused(cut', late') /\ Bundle(Session, cut, late)'
      BY <3>1, SessionStays
    <3>4. /\ BoundRows(file', cut', late')
          /\ \A i \in DOMAIN dbs' : BoundRows(dbs'[i], cut', late')
      BY <1>1, <3>1 DEF AllBound
    <3> QED
      BY <3>1, <3>2, <3>3, <3>4, Joined
  <2>3. CASE handle # 0 /\ Serve(c, r) /\ UNCHANGED <<file, unwritten>>
    <3>1. /\ Excused(cut', late') /\ Bundle(Session, cut, late)'
          /\ \A i \in DOMAIN dbs' : BoundRows(dbs'[i], cut', late')
          /\ \A d \in Clients : d # c => call'[d] = call[d]
          /\ BoundCall(call'[c], cut', late')
      BY <2>1, <2>3, ServedIsBound
    <3>2. BoundRows(file', cut', late')
      BY <1>1, <2>3, <3>1, BundleStays DEF AllBound
    <3> QED
      BY <3>1, <3>2, Joined
  <2> QED
    BY <1>2, <2>2, <2>3 DEF AskStore
<1>3. CASE Opened(c)
  <2>1. call[c].at = "installing" /\ file' \in Written(c) /\ Serve(c, call[c].asks)
    BY <1>3 DEF Opened, EndNewWrite
  <2>2. /\ GroundedRequest(call[c].asks, asked) /\ handle # 0
        /\ BoundRequest(call[c].asks)
    BY <1>1, <2>1 DEF Provenance, AllGrounded, GroundedCall, AllBound, BoundCall
  <2>3. /\ Excused(cut', late') /\ Bundle(Session, cut, late)'
        /\ \A i \in DOMAIN dbs' : BoundRows(dbs'[i], cut', late')
        /\ \A d \in Clients : d # c => call'[d] = call[d]
        /\ BoundCall(call'[c], cut', late')
    BY <2>1, <2>2, ServedIsBound DEF GroundedRequest
  <2>4. BoundRows(file', cut', late')
    <3>1. \A w \in Writing : BoundRows(call[w].bytes, cut, late)
      BY <1>1 DEF AllBound, BoundCall, Writing
    <3>2. c \in Writing /\ BoundRows(Torn, cut, late) /\ BoundRows(file, cut, late)
      BY <1>1, <2>1 DEF Writing, BoundRows, AllBound
    <3>3. BoundRows(file', cut, late)
      BY <2>1, <3>1, <3>2 DEF Written
    <3> QED
      BY <2>3, <3>3, BundleStays
  <2> QED
    BY <2>3, <2>4, Joined
<1> QED
  BY <1>2, <1>3

\* The steps of the store on their own move rows and requests as they are.
LEMMA TogetherOfStore ==
    ASSUME Provenance, Together, NEW c \in Clients, StoreStep(c)
    PROVE  Together'
<1>1. UNCHANGED <<active, basemap, audit, decisions, cut, late>>
  BY DEF StoreStep, sessionVars
<1>2. Excused(cut', late') /\ Bundle(Session, cut, late)' /\ UNCHANGED <<cut, late>>
  BY <1>1, SessionStays
<1>3. StoreTyped /\ AllBound(cut, late)
  BY DEF Provenance, Together
<1>4. /\ BoundRows(file, cut, late) /\ \A i \in DOMAIN dbs : BoundRows(dbs[i], cut, late)
      /\ \A w \in Writing : BoundRows(call[w].bytes, cut, late)
      /\ BoundRows(NoRows, cut, late) /\ BoundRows(Torn, cut, late)
      /\ BoundCall(call[c], cut, late)
  BY <1>3 DEF AllBound, BoundCall, Writing, BoundRows, NoRows
<1>5. CASE ReadFile(c)
  <2> PICK bytes \in {file} \cup CutShort :
          call' = [call EXCEPT ![c] = [at |-> "read", asks |-> @.asks, bytes |-> bytes]]
    BY <1>5 DEF ReadFile
  <2>1. BoundRows(bytes, cut, late)
    BY <1>4 DEF CutShort
  <2>2. /\ call'[c] = [at |-> "read", asks |-> call[c].asks, bytes |-> bytes]
        /\ \A d \in Clients : d # c => call'[d] = call[d]
        /\ call[c].at = "opening" /\ UNCHANGED <<dbs, file>>
    BY <1>3, <1>5 DEF ReadFile, StoreTyped
  <2>3. BoundCall(call'[c], cut, late)
    BY <1>4, <2>1, <2>2 DEF BoundCall
  <2> QED
    BY <1>2, <1>4, <2>2, <2>3, Joined
<1>6. CASE OpenDatabase(c)
  <2> DEFINE bytes == call[c].bytes
  <2>1. call[c].at = "read" /\ BoundRows(bytes, cut, late) /\ BoundRequest(call[c].asks)
    BY <1>4, <1>6 DEF OpenDatabase, BoundCall
  <2>2. /\ dbs' = Append(dbs, bytes) /\ DOMAIN dbs = 1..Len(dbs)
        /\ DOMAIN dbs' = 1..Len(dbs) + 1 /\ dbs'[Len(dbs) + 1] = bytes
        /\ \A i \in 1..Len(dbs) : dbs'[i] = dbs[i]
        /\ \A i \in 1..Len(dbs) + 1 : i \in 1..Len(dbs) \/ i = Len(dbs) + 1
    BY <1>3, <1>6, AppendedTo DEF OpenDatabase, StoreTyped
  <2>3. file' = file
    BY <1>6 DEF OpenDatabase
  <2>4. \A i \in DOMAIN dbs' : BoundRows(dbs'[i], cut, late)
    BY <1>4, <2>1, <2>2
  <2>5. /\ \A d \in Clients : d # c => call'[d] = call[d]
        /\ call'[c] = Idle \/ call'[c] = [at |-> "creating", asks |-> call[c].asks, db |-> handle']
    BY <1>3, <1>6 DEF OpenDatabase, Answered, HasOpened, StoreTyped
  <2>6. BoundCall(call'[c], cut, late)
    <3>1. CASE call'[c] = Idle
      BY <3>1, IdleIsBound
    <3>2. CASE call'[c] = [at |-> "creating", asks |-> call[c].asks, db |-> handle']
      BY <2>1, <3>2 DEF BoundCall
    <3> QED
      BY <2>5, <3>1, <3>2
  <2> QED
    BY <1>2, <1>4, <2>3, <2>4, <2>5, <2>6, Joined
<1>7. CASE BeginWrite(c)
  <2>1. UNCHANGED <<dbs, file>> /\ \A d \in Clients : d # c => call'[d] = call[d]
    BY <1>3, <1>7 DEF BeginWrite, StoreTyped
  <2>2. \/ /\ call[c].at = "creating"
           /\ call'[c] = [at |-> "installing", asks |-> call[c].asks, bytes |-> dbs[call[c].db]]
        \/ /\ call[c].at = "persisting"
           /\ call'[c] = [at |-> "writing", map |-> call[c].map, db |-> call[c].db,
                          bytes |-> dbs[call[c].db]]
    BY <1>3, <1>7 DEF BeginWrite, StoreTyped
  <2>3. call[c].db \in DOMAIN dbs
    <3>1. GroundedCall(call[c], asked, handle, Len(dbs), active, epoch)
      BY DEF Provenance, AllGrounded
    <3>2. DOMAIN dbs = 1..Len(dbs)
      BY <1>3, AppendedTo DEF StoreTyped
    <3> QED
      BY <2>2, <3>1, <3>2 DEF GroundedCall, HasDatabase
  <2>4. BoundCall(call'[c], cut, late)
    BY <1>4, <2>2, <2>3 DEF BoundCall
  <2> QED
    BY <1>2, <1>4, <2>1, <2>4, Joined
<1>8. CASE EndWrite(c) \/ FailWrite(c)
  <2>1. /\ call[c].at \in {"installing", "writing"} /\ UNCHANGED dbs
        /\ file' \in {file, NoRows, Torn} \cup Written(c)
    BY <1>8 DEF EndWrite, FailWrite
  <2>2. call'[c] = Idle /\ \A d \in Clients : d # c => call'[d] = call[d]
    BY <1>3, <1>8 DEF EndWrite, FailWrite, Answered, StoreTyped
  <2>3. BoundRows(file', cut, late)
    BY <1>4, <2>1 DEF Written, Writing
  <2> QED
    BY <1>2, <1>4, <2>1, <2>2, <2>3, IdleIsBound, Joined
<1> QED
  BY <1>5, <1>6, <1>7, <1>8 DEF StoreStep

LEMMA TogetherOfCrash ==
    ASSUME Provenance, Together, Crash
    PROVE  Together'
<1>1. /\ UNCHANGED <<cut, late>> /\ active' = NewMap(maps + 1) /\ basemap' = DefaultBasemap
      /\ audit' = << >> /\ decisions' = << >>
  BY DEF Crash
<1>2. Bundle(Session, cut, late)'
  BY <1>1, NothingDecided DEF Bundle, Session, NewMap
<1>3. DOMAIN dbs' = {} /\ \A c \in Clients : call'[c] = Idle
  BY DEF Crash, StoreCrash
<1>4. BoundRows(file', cut, late)
  <2>1. /\ BoundRows(file, cut, late) /\ BoundRows(NoRows, cut, late)
        /\ BoundRows(Torn, cut, late)
        /\ \A w \in Writing : BoundRows(call[w].bytes, cut, late)
    BY DEF Together, AllBound, BoundCall, Writing, BoundRows, NoRows
  <2> QED
    BY <2>1 DEF Crash, StoreCrash, CutShort
<1> QED
  BY <1>1, <1>2, <1>3, <1>4, IdleIsBound DEF Together, AllBound

LEMMA TogetherHolds == SessionSpec => []Together
<1>1. SessionInit => Together
  <2> SUFFICES ASSUME SessionInit
               PROVE  Together
    OBVIOUS
  <2>1. Bundle(Session, cut, late)
    BY NothingDecided DEF SessionInit, NewMap, Bundle, Session
  <2>2. DOMAIN dbs = {} /\ BoundRows(file, cut, late) /\ \A c \in Clients : call[c] = Idle
    BY DEF SessionInit, StoreInit, BoundRows, NoRows
  <2> QED
    BY <2>1, <2>2, IdleIsBound DEF Together, AllBound
<1>2. Provenance /\ Together /\ [SessionNext]_allVars => Together'
  <2>1. ASSUME Provenance, Together, SessionNext
        PROVE  Together'
    BY <2>1, TogetherOfChats, TogetherOfSaved, TogetherOfStore, TogetherOfCrash
       DEF SessionNext
  <2>2. ASSUME Together, UNCHANGED allVars
        PROVE  Together'
    <3>1. UNCHANGED <<dbs, file, call, active, basemap, audit, decisions, cut, late>>
      BY <2>2 DEF allVars, storeVars, sessionVars
    <3>2. Bundle(Session, cut, late)'
      BY <2>2, <3>1, SessionStays
    <3> QED
      BY <2>2, <3>1, <3>2 DEF Together, AllBound
  <2> QED
    BY <2>1, <2>2
<1> QED
  BY <1>1, <1>2, ProvenanceHolds, PTL DEF SessionSpec, allVars

\* The basemap, the audit records and the decisions are those of the active map,
\* whatever was saved, loaded, reset or lost in between.
THEOREM SessionIsWhole == SessionSpec => []SessionHangsTogether
<1>1. Together => SessionHangsTogether
  <2> SUFFICES ASSUME Together
               PROVE  SessionHangsTogether
    OBVIOUS
  <2>1. Bundle(Session, cut, late)
    BY DEF Together
  <2>2. basemap = active.basemap /\ (~cut /\ ~late => LeadsTo(audit, Revision(active)))
    BY <2>1 DEF Bundle, Session, Revision
  <2>3. ASSUME ~cut, NEW i \in DOMAIN decisions
        PROVE  IsEvident(decisions[i], audit)
    <3>1. Numbered(audit) /\ Decided(decisions, audit)
      BY <2>1, <2>3 DEF Bundle, Session
    <3> QED
      BY <2>3, <3>1 DEF Numbered, Decided, IsEvident
  <2> QED
    BY <2>2, <2>3 DEF SessionHangsTogether
<1> QED
  BY <1>1, TogetherHolds, PTL

=============================================================================
