---------------------------- MODULE StudioSession ----------------------------
(***************************************************************************)
(* The Studio's one map session (apps/workbench/server/index.mjs): the     *)
(* active map, changed by chats, resets and loads, with its audit records  *)
(* and review decisions.  A chat with the mock provider runs at once; one  *)
(* with a real provider waits for its answer while others go on.           *)
(*                                                                         *)
(* A map is the sequence of the chats that edited it since it was created; *)
(* its revision is their number.  Its basemap is the one last set on it.   *)
(***************************************************************************)
EXTENDS LegacyStore, SequencesExt

CONSTANTS
    Cap,            \* STUDIO_AUDIT_RECORD_CAP and STUDIO_REVIEW_DECISION_CAP
    Basemaps,
    DefaultBasemap,
    MaxRequests,    \* bound: requests that begin
    MaxCrashes      \* bound

SessionAssumption ==
    /\ Cap \in Nat \ {0} /\ MaxRequests \in Nat /\ MaxCrashes \in Nat
    /\ DefaultBasemap \in Basemaps

ASSUME SessionAssumption

VARIABLES
    active,         \* activeSpec
    epoch,          \* activeEpoch
    basemap,        \* activeBasemap
    audit,          \* auditRecords
    decisions,      \* reviewDecisions
    maps,           \* maps created so far: an id for each
    requests,       \* requests begun so far
    crashes,
    asked,          \* history: the map each request was about
    cut,            \* history: records have been dropped at the cap
    late            \* history: saved before the database was open, and so after the call

sessionVars ==
    <<active, epoch, basemap, audit, decisions, maps, requests, crashes, asked, cut, late>>

NewMap(id) == [id |-> id, edits |-> << >>, basemap |-> DefaultBasemap]
Revision(spec) == Len(spec.edits)

SessionInit ==
    /\ StoreInit
    /\ active = NewMap(1)
    /\ epoch = 0
    /\ basemap = DefaultBasemap
    /\ audit = << >> /\ decisions = << >>
    /\ maps = 1 /\ requests = 0 /\ crashes = 0
    /\ asked = << >>
    /\ cut = FALSE
    /\ late = FALSE

\* A request of a client arrives; it is about the map that is active now.
Arrive(c) ==
    /\ call[c].at = "idle"
    /\ requests < MaxRequests
    /\ requests' = requests + 1
    /\ asked' = Append(asked, active)
    /\ UNCHANGED crashes

(***************************************************************************)
(* Evidence.                                                               *)
(***************************************************************************)

KeepLast(records) ==
    IF Len(records) > Cap THEN SubSeq(records, Len(records) - Cap + 1, Len(records)) ELSE records

\* appendAuditRecord: the id is taken from the length of the list.
AppendAudit(status, from, to) ==
    LET record == [id |-> Len(audit) + 1, status |-> status, from |-> from, to |-> to] IN
    /\ audit' = KeepLast(Append(audit, record))
    /\ cut' = (cut \/ Len(audit) = Cap)

\* A review decision is about the newest audit record, which it names by its id.
Decide(c) ==
    /\ Arrive(c)
    /\ audit # << >>
    /\ decisions' = KeepLast(Append(decisions, [id |-> Len(decisions) + 1,
                                                evidence |-> Last(audit).id,
                                                about |-> Last(audit)]))
    /\ UNCHANGED <<storeVars, active, epoch, basemap, audit, maps, cut, late>>

(***************************************************************************)
(* Chats: applyProviderCommands, applyAgentIntent and applyLegacyIntent.   *)
(***************************************************************************)

\* replaceActiveSpec
ReplaceActiveSpec(spec) == active' = spec /\ epoch' = epoch + 1

Edited(spec, request) == [spec EXCEPT !.edits = Append(@, request)]

\* The commands of the answer are applied to the active map.
Applied(request, from) ==
    /\ ReplaceActiveSpec(Edited(active, request))
    /\ AppendAudit("applied", from, Revision(active) + 1)
    /\ UNCHANGED <<basemap, maps>>

\* Every command is skipped: the spec is replaced by itself.
SkippedAll(from) ==
    /\ ReplaceActiveSpec(active)
    /\ AppendAudit("applied", from, Revision(active))
    /\ UNCHANGED <<basemap, maps>>

\* setBasemap: the layers of the basemap change with a command each, in one batch.
BasemapSet(request, from, choice) ==
    /\ ReplaceActiveSpec([Edited(active, request) EXCEPT !.basemap = choice])
    /\ basemap' = choice
    /\ AppendAudit("applied", from, Revision(active) + 1)
    /\ UNCHANGED maps

\* newMapSessionResult
MapReset(from) ==
    /\ ReplaceActiveSpec(NewMap(maps + 1))
    /\ maps' = maps + 1
    /\ basemap' = DefaultBasemap
    /\ AppendAudit("reset", from, 0)

\* Nothing to do ("ready"), or the commands fail ("blocked").
NotApplied(status, from) ==
    /\ AppendAudit(status, from, Revision(active))
    /\ UNCHANGED <<active, epoch, basemap, maps>>

Outcome(request, from) ==
    \/ Applied(request, from)
    \/ SkippedAll(from)
    \/ \E choice \in Basemaps \ {basemap} : BasemapSet(request, from, choice)
    \/ MapReset(from)
    \/ NotApplied("ready", from)
    \/ NotApplied("blocked", from)

MockChat(c) ==
    /\ Arrive(c)
    /\ Outcome(requests', Revision(active))
    /\ UNCHANGED <<storeVars, decisions, late>>

\* The session is pinned before the provider is called.
AskProvider(c) ==
    /\ Arrive(c)
    /\ call' = [call EXCEPT ![c] = [at |-> "asking", request |-> requests', epoch |-> epoch,
                                    from |-> Revision(active)]]
    /\ UNCHANGED <<handle, dbs, file, acked, failures, active, epoch, basemap, audit,
                   decisions, maps, cut, late>>

\* Mutant of IsActiveMapSession: the revision stands for the map.
SameRevision(c) == call[c].from = Revision(active)

\* The epoch says it all: the spec is replaced nowhere else.
IsActiveMapSession(c) == call[c].epoch = epoch

Answer(c) ==
    /\ call[c].at = "asking"
    /\ Answered(c)
    /\ UNCHANGED <<handle, dbs, file, acked, failures, decisions, requests, crashes, asked, late>>

\* The provider failed, or the active map has been replaced meanwhile.
ProviderFails(c) == Answer(c) /\ NotApplied("blocked", call[c].from)

ProviderStale(c) ==
    /\ Answer(c)
    /\ ~IsActiveMapSession(c)
    /\ NotApplied("blocked", call[c].from)

ProviderAnswers(c) ==
    /\ Answer(c)
    /\ IsActiveMapSession(c)
    /\ Outcome(call[c].request, call[c].from)

(***************************************************************************)
(* Saved maps.                                                             *)
(***************************************************************************)

sessionState == <<active, epoch, basemap, audit, decisions, maps, cut>>

\* The spec is the one the request was made with; the records are serialised
\* when the database is there.
Save(c, r) ==
    /\ r.op = "save"
    /\ PutRow(c, r, [spec |-> r.spec, basemap |-> r.basemap, audit |-> audit,
                     decisions |-> decisions])
    /\ late' = (late \/ r.spec # active)
    /\ UNCHANGED sessionState

\* Mutant of Load: the records of the map are not taken along.
LoadWithoutDecisions(c, r) ==
    /\ r.op = "load" /\ Found(r.map)
    /\ ReplaceActiveSpec(Row(r.map).spec)
    /\ basemap' = Row(r.map).basemap
    /\ audit' = Row(r.map).audit
    /\ LeaveRows(c)
    /\ UNCHANGED <<decisions, maps, cut, late>>

Load(c, r) ==
    /\ r.op = "load" /\ Found(r.map)
    /\ ReplaceActiveSpec(Row(r.map).spec)
    /\ basemap' = Row(r.map).basemap
    /\ audit' = Row(r.map).audit
    /\ decisions' = Row(r.map).decisions
    /\ LeaveRows(c)
    /\ UNCHANGED <<maps, cut, late>>

Delete(c, r) ==
    /\ r.op = "delete" /\ Found(r.map)
    /\ PutRow(c, r, Absent)
    /\ UNCHANGED <<sessionState, late>>

\* A list of the maps, a map that is not found, a database that is none.
NotServed(c, r) ==
    /\ CASE r.op = "list" -> TRUE
         [] r.op = "save" -> dbs[handle] = Torn
         [] OTHER -> ~Found(r.map)
    /\ LeaveRows(c)
    /\ UNCHANGED <<sessionState, late>>

Serve(c, r) == Save(c, r) \/ Load(c, r) \/ Delete(c, r) \/ NotServed(c, r)

Operations(m) == {[op |-> "save", map |-> m, spec |-> active, basemap |-> basemap],
                  [op |-> "load", map |-> m], [op |-> "delete", map |-> m], [op |-> "list"]}

\* A request for a saved map, with the database open or not.
AskStore(c, r) ==
    /\ Arrive(c)
    /\ \/ StartOpening(c, r) /\ UNCHANGED <<sessionState, late>>
       \/ handle # 0 /\ Serve(c, r) /\ UNCHANGED <<file, unwritten>>

\* getDb returns whatever _db is now.
Opened(c) ==
    /\ EndNewWrite(c)
    /\ Serve(c, call[c].asks)
    /\ UNCHANGED <<requests, crashes, asked>>

StoreStep(c) ==
    /\ ReadFile(c) \/ OpenDatabase(c) \/ BeginWrite(c) \/ EndWrite(c) \/ FailWrite(c)
    /\ UNCHANGED sessionVars

\* The process dies; the new one starts with a new map.
Crash ==
    /\ crashes < MaxCrashes
    /\ crashes' = crashes + 1
    /\ StoreCrash
    /\ active' = NewMap(maps + 1) /\ maps' = maps + 1
    /\ epoch' = 0
    /\ basemap' = DefaultBasemap
    /\ audit' = << >> /\ decisions' = << >>
    /\ UNCHANGED <<requests, asked, cut, late>>

SessionNext ==
    \/ \E c \in Clients :
           \/ MockChat(c) \/ AskProvider(c) \/ Decide(c)
           \/ ProviderFails(c) \/ ProviderStale(c) \/ ProviderAnswers(c)
           \/ \E m \in MapIds : \E r \in Operations(m) : AskStore(c, r)
           \/ Opened(c) \/ StoreStep(c)
    \/ Crash

SessionSpec == SessionInit /\ [][SessionNext]_<<storeVars, sessionVars>>

(***************************************************************************)
(* Properties.                                                             *)
(***************************************************************************)

\* Every edit of the active map, and of every saved one, was made on the map its
\* chat was about: an answer that comes after a reset, a load or another chat is
\* not put on the map that is active by then.
EditsOfItsMap(spec) ==
    \A i \in DOMAIN spec.edits :
        LET before == asked[spec.edits[i]] IN
        before.id = spec.id /\ before.edits = SubSeq(spec.edits, 1, i - 1)

EveryEditOnItsMap ==
    /\ EditsOfItsMap(active)
    /\ file # Torn => \A m \in MapIds : file[m] # Absent => EditsOfItsMap(file[m].spec)

IsChange(record) == record.status \in {"applied", "reset"}

\* The newest record of a change, if there is one, leads to revision n.
LeadsTo(records, n) ==
    \A i \in DOMAIN records :
        /\ IsChange(records[i])
        /\ \A j \in DOMAIN records : j > i => ~IsChange(records[j])
        => records[i].to = n

\* The evidence of a decision is one record, the one it was about.
IsEvident(decision, records) ==
    \E i \in DOMAIN records :
        /\ records[i] = decision.about
        /\ \A j \in DOMAIN records : records[j].id = decision.evidence <=> j = i

\* The parts of the session belong together, across chats, resets, saves and loads:
\* the active basemap is the one last set on the active map, the newest record of a
\* change leads to the revision of that map, and a decision names one record, the
\* one it was about.  Records dropped at the cap, after which ids repeat, excuse the
\* last two; a save that waited for the database to be opened while the map was
\* changed excuses that the records lead elsewhere.
SessionHangsTogether ==
    /\ basemap = active.basemap
    /\ ~cut /\ ~late => LeadsTo(audit, Revision(active))
    /\ ~cut => \A i \in DOMAIN decisions : IsEvident(decisions[i], audit)
=============================================================================
