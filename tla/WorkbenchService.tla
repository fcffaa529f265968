-------------------------- MODULE WorkbenchService --------------------------
(***************************************************************************)
(* The project requests of the Workbench server (workbench-service.mjs):   *)
(* data is attached, changes are planned, reviewed by their hash and       *)
(* applied, and old revisions restored.                                    *)
(*                                                                         *)
(* The project itself is the append-only log that CommitJournal implements *)
(* (RevisionLog): a request opens it, then appends to it, and others may   *)
(* append in between.  A revision is its place in the log.  What a request *)
(* keeps beside the log -- data files, plans -- is not covered by the      *)
(* project's lock or journal.                                              *)
(***************************************************************************)
EXTENDS Integers, Sequences, FiniteSets, TLC

CONSTANTS
    Browsers,       \* each has one request at a time
    SourceIds,
    DataFiles,      \* names in the data directory
    Urls,           \* network resources
    Nothing,
    MaxRevisions,   \* bound: revisions of the log
    MaxPlans,       \* bound
    MaxAttachments, \* bound: data files written
    MaxCalls,       \* bound: requests that begin
    MaxRestarts     \* bound

ServiceAssumption ==
    /\ MaxRevisions \in Nat \ {0}
    /\ MaxPlans \in Nat /\ MaxAttachments \in Nat /\ MaxCalls \in Nat /\ MaxRestarts \in Nat
    /\ Nothing \notin Urls \cup Nat

ASSUME ServiceAssumption

VARIABLES
    log,            \* the specs of the revisions
    origin,         \* what made each revision
    dataFiles,      \* the attachment each data file is from
    planned,        \* history: the plans made; a plan's hash is its place
    plans,          \* hashes of the plans in memory
    planFiles,      \* hashes of the plan artifacts
    offered,        \* history: hashes that have been answered to a browser
    request,        \* the request of each browser
    calls,          \* requests begun so far
    attached,       \* history: data files written so far
    restarts,
    forsaken,       \* history: attachments that threw although they were committed
    orphaned        \* history: attachments whose data file a crash, a failed write or a
                    \* failed removal has left

project == <<log, origin>>
dataState == <<dataFiles, attached, forsaken, orphaned>>
planState == <<planned, plans, planFiles, offered>>
serviceVars == <<project, dataState, planState, request, calls, restarts>>

NoRequest == [at |-> "none"]

\* A spec: what each source gets its data from (Nothing: from the spec itself), and
\* how the map looks (the plan that styled it last).
NewProject == [sources |-> << >>, look |-> 0]

Current == Len(log)

ServiceInit ==
    /\ log = <<NewProject>>
    /\ origin = <<[kind |-> "create"]>>
    /\ dataFiles = [f \in DataFiles |-> Nothing]
    /\ planned = << >> /\ plans = {} /\ planFiles = {} /\ offered = {}
    /\ request = [b \in Browsers |-> NoRequest]
    /\ calls = 0 /\ attached = 0 /\ restarts = 0
    /\ forsaken = {} /\ orphaned = {}

\* A request arrives; one goes on.
Asks(b) ==
    /\ request[b] = NoRequest
    /\ calls < MaxCalls
    /\ calls' = calls + 1
    /\ UNCHANGED restarts

Resumes(b, place) == request[b].at = place /\ UNCHANGED <<calls, restarts>>

Becomes(b, r) == request' = [request EXCEPT ![b] = r]
Ends(b) == Becomes(b, NoRequest)

AppendRevision(spec, by) ==
    /\ Current < MaxRevisions
    /\ log' = Append(log, spec)
    /\ origin' = Append(origin, by)

WithSource(spec, id, url) == [spec EXCEPT !.sources = (id :> url) @@ @]

(***************************************************************************)
(* attachWorkbenchData                                                     *)
(***************************************************************************)

\* The base and the source are looked at in the project as it is now.
AttachOpen(b, id, file, url) ==
    /\ Asks(b)
    /\ id \notin DOMAIN log[Current].sources
    /\ Becomes(b, [at |-> "writing", id |-> id, file |-> file, url |-> url, base |-> Current])
    /\ UNCHANGED <<project, dataState, planState>>

Attaching(r, content) ==
    [at |-> "attaching", id |-> r.id, file |-> r.file, url |-> r.url, base |-> r.base,
     content |-> content]

\* Mutant of WriteData: a file that is there is written over.
WriteDataOver(b) ==
    LET r == request[b] IN
    /\ Resumes(b, "writing")
    /\ attached < MaxAttachments
    /\ attached' = attached + 1
    /\ dataFiles' = [dataFiles EXCEPT ![r.file] = attached']
    /\ Becomes(b, Attaching(r, attached'))
    /\ UNCHANGED <<project, forsaken, orphaned, planState>>

\* writeFile with flag wx: a file that is there is left alone and refuses the request.
WriteData(b) ==
    LET r == request[b] IN
    /\ Resumes(b, "writing")
    /\ \/ /\ dataFiles[r.file] = Nothing
          /\ attached < MaxAttachments
          /\ attached' = attached + 1
          /\ dataFiles' = [dataFiles EXCEPT ![r.file] = attached']
          /\ Becomes(b, Attaching(r, attached'))
       \/ /\ dataFiles[r.file] # Nothing
          /\ Ends(b)
          /\ UNCHANGED <<dataFiles, attached>>
    /\ UNCHANGED <<project, forsaken, orphaned, planState>>

\* writeFile, or mkdir before it, rejects for another reason: the request fails.  Once
\* the file was created, what has been written stays, and no rm follows.  (A crash in
\* the middle of the write leaves the same.)
WriteFails(b) ==
    LET file == request[b].file IN
    /\ Resumes(b, "writing")
    /\ \/ /\ dataFiles[file] = Nothing
          /\ attached < MaxAttachments
          /\ attached' = attached + 1
          /\ dataFiles' = [dataFiles EXCEPT ![file] = attached']
          /\ orphaned' = orphaned \cup {attached'}
       \/ UNCHANGED <<dataFiles, attached, orphaned>>
    /\ Ends(b)
    /\ UNCHANGED <<project, forsaken, planState>>

Attach(r) == AppendRevision(WithSource(log[Current], r.id, r.url),
                     [kind |-> "attach", file |-> r.file, content |-> r.content])

AttachApply(b) ==
    LET r == request[b] IN
    /\ Resumes(b, "attaching")
    /\ r.base = Current /\ Attach(r)
    /\ Ends(b)
    /\ UNCHANGED <<dataState, planState>>

\* Mutant of AttachFails: a conflict is answered at once.
AttachFailsAtOnce(b) ==
    LET r == request[b] IN
    /\ Resumes(b, "attaching")
    /\ r.base # Current
    /\ Ends(b)
    /\ UNCHANGED <<project, dataState, planState>>

\* The base is stale, or the store throws before the commit; the file is removed next.
AttachFails(b) ==
    LET r == request[b] IN
    /\ Resumes(b, "attaching")
    /\ Becomes(b, [at |-> "removing", file |-> r.file, content |-> r.content])
    /\ UNCHANGED <<project, dataState, planState>>

\* The store throws after the journal is out: recovery finishes the commit, and
\* the file is removed as well.
AttachThrows(b) ==
    LET r == request[b] IN
    /\ Resumes(b, "attaching")
    /\ r.base = Current /\ Attach(r)
    /\ forsaken' = forsaken \cup {r.content}
    /\ Becomes(b, [at |-> "removing", file |-> r.file, content |-> r.content])
    /\ UNCHANGED <<dataFiles, attached, orphaned, planState>>

RemoveData(b) ==
    /\ Resumes(b, "removing")
    /\ dataFiles' = [dataFiles EXCEPT ![request[b].file] = Nothing]
    /\ Ends(b)
    /\ UNCHANGED <<project, attached, forsaken, orphaned, planState>>

\* rm rejects: the file stays.
RemoveFails(b) ==
    /\ Resumes(b, "removing")
    /\ orphaned' = orphaned \cup {request[b].content}
    /\ Ends(b)
    /\ UNCHANGED <<project, dataFiles, attached, forsaken, planState>>

(***************************************************************************)
(* Plans.  A plan's commands style the map, add a source or drop one.      *)
(***************************************************************************)
Changes ==
    [kind : {"style"}] \cup [kind : {"add"}, id : SourceIds, url : Urls]
                       \cup [kind : {"drop"}, id : SourceIds]

\* The commands of a plan take effect on a spec ("atomic", and not all skipped).
Fits(plan, spec) ==
    /\ plan.change.kind = "add" => plan.change.id \notin DOMAIN spec.sources
    /\ plan.change.kind = "drop" => plan.change.id \in DOMAIN spec.sources

Changed(plan, spec) ==
    LET change == plan.change IN
    CASE change.kind = "style" -> [spec EXCEPT !.look = plan.hash]
      [] change.kind = "add" -> WithSource(spec, change.id, change.url)
      [] change.kind = "drop" ->
             [spec EXCEPT !.sources = [id \in DOMAIN @ \ {change.id} |-> @[id]]]

Resources(spec) == {spec.sources[id] : id \in DOMAIN spec.sources} \ {Nothing}

Undeclared(plan, spec) ==
    Resources(Changed(plan, spec)) \ (Resources(spec) \cup plan.declared)

\* createWorkbenchPlan: the plan is in memory before it is in its file.
Made(b, base, change, declared, confirmed) ==
    /\ Len(planned) < MaxPlans
    /\ planned' = Append(planned, [hash |-> Len(planned) + 1, base |-> base, change |-> change,
                                   declared |-> declared, confirmed |-> confirmed])
    /\ plans' = plans \cup {Len(planned')}
    /\ Becomes(b, [at |-> "persisting", hash |-> Len(planned')])

\* The browser sends a plan, for the revision it sees or one it expects (one for an
\* older revision could never be applied), and declares what it adds, or does not.
PlanGiven(b) ==
    /\ Asks(b)
    /\ \E base \in {Current, Current + 1}, change \in Changes :
           \/ Made(b, base, change, {}, TRUE)
           \/ \E confirmed \in BOOLEAN :
                  change.kind = "add" /\ Made(b, base, change, {change.url}, confirmed)
    /\ UNCHANGED <<project, dataState, planFiles, offered>>

\* The browser sends a prompt: the project is read, then the provider asked.
PlanAsk(b) ==
    /\ Asks(b)
    /\ Becomes(b, [at |-> "planning", base |-> Current])
    /\ UNCHANGED <<project, dataState, planState>>

PlanMade(b) ==
    /\ Resumes(b, "planning")
    /\ Made(b, request[b].base, [kind |-> "style"], {}, TRUE)
    /\ UNCHANGED <<project, dataState, planFiles, offered>>

\* Mutant of PersistPlan: the file is left for later.
PersistPlanLater(b) ==
    /\ Resumes(b, "persisting")
    /\ offered' = offered \cup {request[b].hash}
    /\ Ends(b)
    /\ UNCHANGED <<project, dataState, planned, plans, planFiles>>

PersistPlan(b) ==
    /\ Resumes(b, "persisting")
    /\ planFiles' = planFiles \cup {request[b].hash}
    /\ offered' = offered \cup {request[b].hash}
    /\ Ends(b)
    /\ UNCHANGED <<project, dataState, planned, plans>>

\* mkdir or writeFile rejects: the plan stays in memory, its hash is not answered.
PersistFails(b) ==
    /\ Resumes(b, "persisting")
    /\ Ends(b)
    /\ UNCHANGED <<project, dataState, planState>>

Available(hash) == hash \in plans \cup planFiles

\* previewWorkbenchPlan, and an apply that is refused, only take the plan into memory.
PlanLooked(b, hash) ==
    /\ Asks(b)
    /\ hash \in offered /\ Available(hash)
    /\ plans' = plans \cup {hash}
    /\ UNCHANGED <<project, dataState, planned, planFiles, offered, request>>

\* applyWorkbenchPlan: the commands are tried on the project as it is now.
Allowed(plan) ==
    /\ plan.confirmed
    /\ Fits(plan, log[Current]) => Undeclared(plan, log[Current]) = {}

ApplyCheck(b, hash) ==
    /\ Asks(b)
    /\ hash \in offered /\ Available(hash) /\ Allowed(planned[hash])
    /\ plans' = plans \cup {hash}
    /\ Becomes(b, [at |-> "applying", hash |-> hash, checked |-> Current])
    /\ UNCHANGED <<project, dataState, planned, planFiles, offered>>

\* Mutant of ApplyCommit: the base revision of the plan is not asked for.
ApplyAnywhere(b) ==
    LET r == request[b]
        plan == planned[r.hash] IN
    /\ Resumes(b, "applying")
    /\ Fits(plan, log[Current])
    /\ AppendRevision(Changed(plan, log[Current]),
               [kind |-> "plan", hash |-> r.hash, checked |-> r.checked])
    /\ Ends(b)
    /\ UNCHANGED <<dataState, planState>>

\* applyWorkbenchProject, under the lock.
ApplyCommit(b) ==
    LET r == request[b]
        plan == planned[r.hash] IN
    /\ Resumes(b, "applying")
    /\ plan.base = Current /\ Fits(plan, log[Current])
    /\ AppendRevision(Changed(plan, log[Current]),
               [kind |-> "plan", hash |-> r.hash, checked |-> r.checked])
    /\ Ends(b)
    /\ UNCHANGED <<dataState, planState>>

\* The base is stale, the commands fail, or the store throws.
ApplyFails(b) ==
    /\ Resumes(b, "applying")
    /\ Ends(b)
    /\ UNCHANGED <<project, dataState, planState>>

\* restoreWorkbenchRevision, under the lock: the base is the one the browser sees.
Restore(b, target) ==
    /\ Asks(b)
    /\ log[target] # log[Current]
    /\ AppendRevision(log[target], [kind |-> "restore", of |-> target])
    /\ UNCHANGED <<dataState, planState, request>>

\* The process dies and starts again.
ServiceCrash ==
    /\ restarts < MaxRestarts
    /\ restarts' = restarts + 1
    /\ plans' = {}
    /\ request' = [b \in Browsers |-> NoRequest]
    /\ orphaned' = orphaned \cup {request[b].content : b \in {w \in Browsers :
                       request[w].at \in {"attaching", "removing"}}}
    /\ UNCHANGED <<project, dataFiles, attached, forsaken, planned, planFiles, offered, calls>>

ServiceStep(b) ==
    \/ \E id \in SourceIds, file \in DataFiles, url \in Urls \cup {Nothing} :
           AttachOpen(b, id, file, url)
    \/ WriteData(b) \/ WriteFails(b) \/ AttachApply(b) \/ AttachFails(b) \/ AttachThrows(b)
    \/ RemoveData(b) \/ RemoveFails(b)
    \/ PlanGiven(b) \/ PlanAsk(b) \/ PlanMade(b) \/ PersistPlan(b) \/ PersistFails(b)
    \/ \E hash \in DOMAIN planned : PlanLooked(b, hash) \/ ApplyCheck(b, hash)
    \/ ApplyCommit(b) \/ ApplyFails(b)
    \/ \E target \in 1..Current - 1 : Restore(b, target)

(***************************************************************************)
(* Properties.                                                             *)
(***************************************************************************)

\* A revision that an attachment made has its data file, with what was attached:
\* neither another attachment of the same name, nor one that failed, nor a crash
\* replaces or removes it.  The exception is an attachment that threw after its
\* commit was on its way (forsaken): its file is removed although recovery
\* finishes the commit.
AttachmentsIntact ==
    \A r \in DOMAIN origin : LET by == origin[r] IN
        by.kind = "attach" /\ by.content \notin forsaken => dataFiles[by.file] = by.content

\* An attachment that the project refuses -- the base is stale, a file of that name is
\* there, the store throws -- leaves nothing behind that would refuse the next one of
\* that name: a data file that no revision refers to belongs to an attachment under
\* way.  The exception (orphaned) is a file left by a process that died, by a write
\* that failed after it had created the file, or by an rm that failed.
NoStrayData ==
    \A f \in DataFiles : dataFiles[f] \notin {Nothing} \cup orphaned =>
        \/ \E r \in DOMAIN origin : origin[r].kind = "attach" /\ origin[r].content = dataFiles[f]
        \/ \E b \in Browsers : request[b].at \in {"attaching", "removing"}
                               /\ request[b].content = dataFiles[f]

\* What is applied is what was reviewed: a revision made by a plan is what its
\* commands make of the revision it was reviewed on, it was confirmed, and it adds
\* no network resource it does not declare.  The last part is not promised for a
\* plan that was sent before its base revision was there: it has been checked
\* against an earlier one.
PlansApplyAsReviewed ==
    \A r \in DOMAIN origin : LET by == origin[r] plan == planned[by.hash] IN
        by.kind = "plan" =>
            /\ r = plan.base + 1 /\ log[r] = Changed(plan, log[plan.base])
            /\ plan.confirmed
            /\ by.checked >= plan.base => Undeclared(plan, log[plan.base]) = {}
=============================================================================
