# GIS Engine: specifications of the stateful core

TLA+ modules for the parts of this repository that keep state and share it: the
Workbench project directory and its lock, the requests of the Workbench server
(projects, exports, the Studio session and its database), the map runtime with
the commands it applies and the MapLibre adapter it drives. Each module is written
from the code; TLC checks small instances, TLAPS proves the properties listed
under "Proofs" for every value of the constants.

## 1. The system

GIS Engine is a TypeScript monorepo. A map is a JSON document, the *MapSpec*,
with a canonical integer `revision`. It is changed only by *commands*: a batch
is applied to a spec, each command bumps the revision once, and the result is a
new spec and a list of JSON patches. Around this pure core there are the
stateful parts below.

| Component | Where | State | Operations | Talks to |
|---|---|---|---|---|
| Project lock | `project-store.mjs` 455-514 | `projectLockTails` (a promise per root, in each process), the directory `.gis-engine/project.lock` | `withProjectLock` | file system; other processes through the directory |
| Project store | `project-store.mjs` 33-191, 264-423, 516-574 | `gis-engine.project.json`, `mapspec.json`, `.gis-engine/revisions/*.json`, `.gis-engine/commit-journal.json`, staged `*.tmp` | create, open, apply, restore, recovery | the lock, command application |
| Map runtime | `MapRuntime.ts` | `#spec`, `#needsReload`, `#closing`, `#destroyed`, `#applyQueue` | create, apply, snapshot, queryFeatures, destroy | a renderer adapter (load, applyPatch, snapshot, destroy) |
| Command application | `commands/*.ts`, `spec/patch/*.ts` | the spec and the results of the batch under way | applyCommands, buildPatch, applyJsonPatch, invertPatch | validateSpec |
| diffSpecs | `packages/ai/src/tools/diffSpecs.ts` | none | the commands that are to turn one spec into another | restore of the project store |
| Workbench service | `workbench-service.mjs` | `plans`, `exportPreviews`, plan artifacts, `data/*` | inspect, attach, plan, preview, apply, restore | project store, export service |
| Export service | `export-service.mjs` | previews and receipts in `.gis-engine/exports`, the exported directories | previewWorkbenchExport, commitWorkbenchExport | project store (open only) |
| Studio session | `server/index.mjs`, `audit.mjs`, `review-decisions.mjs` | `activeSpec`, `activeEpoch`, `activeBasemap`, capped audit and review lists | chat, reset, load, save, review | provider, legacy store, command application |
| Legacy store | `store.mjs` | an sql.js database in memory and its file | save, load, list, delete | file system |
| Provider clients | `provider-http.ts`, `provider.mjs` | a request under way | one call with deadline and byte cap | network |
| Renderer adapters | `renderer/maplibre/*.ts`, `renderer/mock.ts` | a MapLibre map | the adapter interface | the browser |
| The rest | `packages/ai`, `packages/cli`, `packages/scene3d*`, `apps/workbench/src`, `api` | none that outlives a request, or user interface state | -- | -- |

What makes it hard, and what correctness means there:

* **Project directory.** Several files must change together, in several
  processes, any of which may die between two system calls. A reader must find
  one revision or the next, never a mixture; an acknowledged revision must stay;
  history is only appended to; a client's change applies to the revision it
  reviewed. These rest on the lock (one operation at a time) and on the journal
  (an unfinished commit is redone), so both are modelled separately and then
  together.
* **Lock.** In a process a chain of promises, between processes a directory with
  a five-minute age limit. Calls must not overtake one another, must not run
  together, and must all end.
* **Map runtime.** Applies, reads and destroy are called at any time while the
  adapter is at work and may fail half way. The renderer must show the committed
  spec or be marked for a reload; nothing may be lost, reordered, or done with a
  released adapter.
* **Commands.** A batch is atomic or goes on after a failure, may be a dry run as
  a whole or in single commands, and meets revisions at their limit. What it
  answers must be what it did: the patches lead from one spec to the other and
  their inverses back.
* **Adapter.** The patches of a batch reach a live map one operation at a time, or
  as a whole style when one of them is not handled half way, or not at all; the
  map must come to show the committed spec on every path.
* **Service and export.** A check under one acquisition of the lock and the action
  under another; a side file written before the commit that refers to it; a target
  directory no lock protects; plans and previews that are confirmed after a
  restart. What is confirmed must be what was reviewed.
* **Studio session.** A provider answers after the map has moved on, perhaps to
  one with the same revision; ids are taken from the length of a capped list;
  four variables must be replaced together.
* **Legacy store.** The database is opened by whoever comes first, and every change
  writes the whole file in place. An acknowledged save must be there after a
  restart.

Every hazard found is in `PROJECT.json`, at its line, with the properties that
cover it or the reason why none does.

## 2. Modules

```
            RevisionLog   (what a project promises: an append-only log)
                 ^ implemented by
 ProjectLock   CommitJournal            MapRuntime
      \           /
      ProjectStore

 WorkbenchService   LegacyStore               Commands
        |                |                    /      \
  ExportService    StudioSession   MapLibreAdapter   DiffSpecs
        \                /                    \      /
           MCWorkbench                      MCMapBatches
```

`ExportService` EXTENDS `WorkbenchService` and `StudioSession` EXTENDS
`LegacyStore`, whose steps are steps of its requests. `WorkbenchService` has the
append-only log of revisions as its project: this is what `RevisionLog` promises
and `CommitJournal` is shown to implement, so a commit is one step here.

| Module | Models | Notes |
|---|---|---|
| `ProjectLock` | `withProjectLock`, `settleLockTail` | one action per stretch of code between two awaits |
| `RevisionLog` | what create, apply and restore promise | abstract: one step per commit |
| `CommitJournal` | create, open, apply, restore, `recoverPendingCommit`, `commitProjectState` | the lock is an assumption here (`Free`) |
| `ProjectStore` | the two together, with processes that crash | extends both |
| `MapRuntime` | the class of that name; the adapter by its contract | |
| `MapRuntimeProofs` | theorems about `MapRuntime` | |
| `ProjectStoreProofs` | theorems about `ProjectLock`; about `CommitJournal`, its types, its safety beside creates that take no lock, that it implements `RevisionLog`; about `ProjectStore`, from these | |
| `Commands` | `applyCommands`, `buildPatch`, `applyJsonPatch`, `invertPatch`, the rules of `validateSpec` that a command can break | one step per command of a batch |
| `MapLibreAdapter` | `load`, `applyPatch`, `destroy` of the adapter, `styleDiff.ts`, `transformer.ts`, under a runtime that reloads after an error | the MapLibre map is external |
| `DiffSpecs` | `diffSpecsTool` | operators, over `Commands` |
| `LegacyStore` | `store.mjs`: `getDb`, `openDatabase`, `persistDb`, save, load, delete | one action per stretch between two awaits |
| `StudioSession` | the `/api/chat`, reset, map and review routes of `server/index.mjs`, `audit.mjs`, `review-decisions.mjs` | over `LegacyStore` |
| `WorkbenchService` | attach, plan, preview, apply and restore of `workbench-service.mjs` | over the log |
| `ExportService` | `export-service.mjs` | over `WorkbenchService` |
| `FoldTheorems` | what the folds of the community modules compute, element by element | for any operator: a CONSTANT that the module that folds instantiates |
| `BatchProofs` | theorems about `Commands`, as `MapLibreAdapter` runs it | |
| `AdapterProofs` | theorems about `MapLibreAdapter`, from those of `BatchProofs` | |
| `DiffProofs`, `RestoreProofs` | what each list of commands of `DiffSpecs` does to a spec; theorems about restores, from those and from `BatchProofs` | |
| `ServerProofs` | theorems about `ExportService` with `WorkbenchService`, and about `StudioSession` with `LegacyStore` | |
| `MC*` | small instances for TLC; `MCWorkbench` puts project requests and the session side by side | |

**ProjectLock.** A call goes `idle` -> `queued` (it has read the tail of the map
and installed its own) -> `probing` -> `holding` -> `leaving` -> `returned`;
`blocked` is between an EEXIST and the `stat`, `breaking` between a stale `stat`
and the `rm`. `chain = previous.then(() => tail)` resolves exactly when the
predecessor's own tail is released, so `PredecessorSettled` looks at that alone.
`rm` removes by path whatever is there: `BreakLock` and `Leave` do not look at
who made the directory. `Raise` is an unexpected error of `mkdir`, `stat` or
`rm`, after which `releaseTail` is not called. `Crash` forgets a process's calls
and map and leaves the directory; a crashed process is at once a restarted one,
since its other calls may still be made. `Age` is the passing of five minutes.

**CommitJournal.** A revision is three files: receipt, `mapspec.json`, metadata.
A commit stages each under a random name (`Stage`), publishes a journal that
lists them (`Publish`), renames them one by one (`Rename`) and removes the
journal (`Clear`). Every other operation first redoes a journal it finds
(`RecoverBegin`, then for each entry a look, `RedoFind` or `RedoSkip`, and a
rename, `RedoMove`), then reads the three files in any order, and decides.
Between the reads and the first await of the commit the code is synchronous, so
`Plan` is one action. Interruption may strike between any two steps. A MapSpec is
its revision and an opaque content; the outcome of a batch of commands is any
content and any bump up to `MaxBatch`, or a failure. `Free` says which calls exclude one
another: those whose kind is not in `Unlocked`. With `Unlocked = {"create"}` a
create runs beside the others, as `createWorkbenchProject` does, which does not
take the lock; with `Unlocked = {}` the protocol is seen by itself.

**ProjectStore.** An actor of the protocol is a call of the lock while it is
`holding`; the project has been created before.

**MapRuntime.** An apply goes `queued` -> `patching` -> `done`, with `reloading`
after a failure and `recovering` first if an earlier reload has failed. A
MapSpec is the sequence of applies that made it, so a lost or reordered one
shows. While the adapter works it may show anything; when it fails, what it
shows is the old spec, the new one or neither (`Torn`). A read's second
`#assertAlive` and its call to the adapter are one step: there is one microtask
between them and two between the start of `destroy` and `adapter.destroy`.

**Commands.** A MapSpec is a record with the members the commands touch; a member
that may be absent is absent from the record, as in the code. A patch is a
sequence of operations with a path, a sequence of names and indices; `ApplyOperation`
follows `applyPatch.ts` in what it does to arrays and objects, `InvertPatch`
computes each inverse against the document as it is then. A batch takes its
commands one after another: a stale base (`Conflict`), a command that cannot be
built (`BuildFails`), one that has nothing to do (`Skip`), one whose outcome is not
valid (`Invalid`), or `Apply`. After a failure an atomic batch has answered and a
best-effort one goes on. The batch itself is not chosen in advance: each step takes
any command, so all batches up to the size that `BatchSizes` allows are covered.
`Blocked` stands for the values that the style specification refuses.

**MapLibreAdapter.** `ApplyPatch` is one step, since `adapter.applyPatch` has no
await: the operations one at a time as long as each is handled, otherwise the
whole style on what the operations so far have left. `adapterSpec` moves before
the transformation can fail; then the runtime reloads (`Reload`, `InstantiateMap`).
A map may also fail to come about, which leaves an adapter without one.

**DiffSpecs.** `Diff` is the list of commands in the order of the tool: layers out,
sources out, sources in, layers in, reorderings, view, interactions. A reordering
puts a layer *before* its predecessor, as the code does. `DiffShape` is what the
schemas say of specs and commands besides `SpecShape`: what a view may say, that a
layer has an id, that toggles which are there are not `undefined`.

**LegacyStore.** `handle` is `_db`, an index into the databases this process has
opened, for a second opening replaces the first while requests still hold that.
A request goes `opening` (initSqlJs) -> `read` -> `creating` -> `installing` when it
finds no database, then `persisting` -> `writing`. While a file is being written it
is empty or torn. Overlapping writes leave either's bytes, or neither's. A write may
fail (`FailWrite`): the file is then as it was, cut short or whole, the request answers
an error, and the change stays in the open database.

**StudioSession.** A map is its identity, the chats that edited it and its basemap;
the revision is the number of edits. A request of a mock is one step; one of the
provider pins the epoch (`AskProvider`) and ends as `ProviderFails`,
`ProviderStale` or `ProviderAnswers`. `Save` uses the spec of the moment the
request came and the records of the moment the database is there, as the code does
by passing the lists by reference. A crash starts a new map.

**WorkbenchService, ExportService.** Each browser has one request at a time, which
moves from await to await; other requests come in between. An attachment goes
`writing` (its base has been read) -> `attaching` (its file is there) -> revision, or
`removing`. The write may fail after the file was created, without an `rm`
(`WriteFails`), and so may the `rm` (`RemoveFails`). A plan is checked (`ApplyCheck`) in one acquisition of the lock and
applied (`ApplyCommit`) in another. A hash is the place of a plan or preview in the
history of those made. An export is confirmed in four steps: found (`CommitAsk`),
compared with the project (`CommitOpen`), renamed (`CommitRename`), receipted.

## 3. Runs

| Run | Instance | Shows |
|---|---|---|
| `lock_queue` | 3 + 1 calls of 2 processes, 1 retry, 1 crash, errors, live holders may outlast the limit | arrival order and one operation per process always; one in all until a lock has gone stale; every call ends unless an earlier one of its process failed with its tail unreleased |
| `journal_commit` | 1 call at a time, revisions 0..3, batches of 1 and 2, 2 interruptions | no partial write, durability, committed reads, reviewed base, implements `RevisionLog` |
| `journal_create` | creates outside the lock beside opens and applies, revisions 0..2, 1 interruption | durability, committed reads and reviewed base do not need the create to take the lock |
| `store_crash` | 1 + 1 calls, 1 crash, 1 rejected operation, takeover of the lock | the lock serves the protocol (every step is one of `JournalNext`); no partial write, durability, immutable receipts |
| `store_takeover` | 2 + 1 calls, 1 crash, double takeover | operations of one process do not interleave |
| `map_batches` | 2 maps, 24 commands, batches of up to 1, 2 and 1 of them one after another, the revision limit at 4 | results are valid, inverse patches undo, the answer and the chain of revisions are true, a map patched, restyled or reloaded shows the committed spec (but for the bounds that a load ignores), and when diffSpecs leads back to an earlier spec |
| `workbench_server` | 2 browsers and 2 Studio clients, 1 restart | attachments keep their data, no refusal leaves stray data, plans and exports are as reviewed, answers survive a restart; acknowledged saves are kept through restarts and failed writes, no late answer reaches another map, basemap, audit and decisions fit the map |
| `runtime_queue` | 3 applies, 1 read, 2 destroys, an adapter that fails at will | the safety properties of `MapRuntime`, and every call that waits for the queue answers |

Runs that are expected to be violated; each shows that a sentence of the
repository is not true of the code:

| Run | Property | What happens |
|---|---|---|
| `store_rewrite` | `HistoryNeverRewritten` | two waiters break the same stale lock, the second breaks the new one of the first; both commit the next revision and one receipt replaces the other |
| `journal_recreate` | `NoPartialWrite` | a create cut short, then a create with another initial revision: two receipts of sequence 0 |
| `journal_unlocked` | `NoPartialWrite` | the last `rm` of a create removes the journal of an apply |
| `runtime_read` | `ReadsCommitted` | an apply submitted after a read starts before the read reaches the adapter |

Bounds. Three calls are what a double takeover takes (one dies, two wait); two
in one process and one in the other show both locks at work, and a third in one
process puts a call behind one that waits. One retry lets a call break a lock,
two let it take the lock it has broken. Where creates run outside the lock, an
actor makes one of them (`Once`): the second create finds the first one's
project unless that was cut short, which `journal_commit` covers. A recovery
that is itself cut short takes two interruptions. Two contents tell a lost write from a kept one, and four
revisions with batches of two leave gaps in the revision numbers and room for a
restore of a revision that is not the last. Three UUIDs suffice because a name
is chosen only when no staged file, journal or call has it; a state that has
used them all stops, and none of the properties depends on going on. Three
applies put a waiting apply behind one that recovers from the failure of
another. Calls, contents and UUIDs are interchangeable, hence the symmetry in
the safety runs; the two runs with a liveness property use none.

`map_batches` has a command of nearly every type, twice where the second case is
of another kind (a removed filter, a dry run, a stale base, a source that cannot be
shown, a value that is refused). One map has no revision, no scene and is plain; the
other has a scene, a vector source, a layer that only its view allows, with a command that
takes that view away, and revision 2, so that a third command is past the limit (4). Two commands in one batch are what an inverse in the wrong order or a failure
after a success takes. That batch is the second (`BatchSizes` is 1, 2, 1), so that it
meets a live map in a state that no `load` made, and one more follows it.

`workbench_server`: the project side has 2 browsers, 1 source, file, URL and target,
4 revisions, 1 plan, 2 previews, 2 data files, 5 requests and 1 restart; the session
side has 2 clients, 1 map id, 2 basemaps, a cap of 2, 4 requests and 1 restart. The
two sides share the process but no state, so a behaviour has requests of one side
(`front`). Two requests of each kind meet on the one file, target, map or database,
which is where they can harm one another. Four requests are a save, a change, a load
and a review, or a chat with three others under it; a cap of 2 is full after three
records.

Deadlock is not checked because every instance makes a finite number of calls and
then stops.

Excuses. Some properties hold only until something happens that the code does not
handle; the history variable that says so is part of the statement, so that it also
says what remains true:

* `disturbed` (`AckedSavesKept`): two requests opened the database at once, two
  writes overlapped, or the process died in the middle of a write or after one that
  failed. `unwritten`: a write of the file has failed and none has gone through
  since, so that only the open database is complete. `unanswered`: the maps whose
  save or delete was answered an error by such a write, and is in the database
  nevertheless.
* `late` (`SessionHangsTogether`): a save waited for the database to be opened
  while the map was changed. `cut`: records were dropped at the cap, after which ids
  repeat.
* `forsaken` (`AttachmentsIntact`): an attachment whose commit threw after its
  journal was out. Its file is removed although recovery finishes the commit.
* `orphaned` (`NoStrayData`): a data file of a process that died, of a `writeFile`
  that failed after it had created the file (`workbench-service.mjs:147` rethrows
  without an `rm`), or one whose `rm` failed. No retry with that name succeeds.
* `loaded` (`MapShowsSpec`): `load` gives the library no bounds
  (`adapter.ts:343-352`), so a map that is to show bounds stands at the origin after
  its first load, and after the reload that follows a failed patch, until a patch
  touches the view. Center, zoom, bearing and pitch have no exception.
* `checked` (`PlansApplyAsReviewed`): a plan for a revision that did not exist yet
  is checked for undeclared resources against an earlier spec.

`RestoresWithinReach` is of the same kind. `mcp/server.ts:819` says that the tool
outputs "the command set needed to transform one into the other"; it does so
exactly when the specs differ in sources, layers, view and toggles alone and no
toggles are to be taken back (`Expressible`), no layer moves (`InPlace`), no
source is replaced under a layer that stays (`Unused`), and no layer that only some
views allow is put in before the view has changed (`Timely`). In every other case a
restore is refused and changes nothing.

## 4. Fairness

`FairLockSpec`: each call proceeds when it can. Node's event loop runs every
continuation, the wait between probes is bounded by `PROJECT_LOCK_RETRY_LIMIT`,
and an operation is a finite sequence of file system calls. Crashes and errors
are not forced to happen. In `FairRuntimeSpec` the adapter settles every promise it returns: without that the queue of the code
would stand still as well.

## 5. Proofs

`ProjectStoreProofs` proves of the lock, for any number of processes, calls, retries,
crashes and errors, from `LockAssumption` alone:

* `LockTypeCorrect`: `LockSpec => []LockTypeOK`.
* `ChainIsFair`: `LockSpec => []InArrivalOrder`, and `ChainIsExclusive`:
  `LockSpec => []OneAtATimePerProcess`. Neither is inductive. The invariant
  behind them (`Chain`) says that the calls of a process that have arrived and
  not been lost form a chain: a call's predecessor arrived before it, the map
  holds the last call or nothing, and nothing only if every earlier call has
  released its tail; a call that has released has ended. Two calls past the
  chain would need the predecessor of the later one to have released, hence to
  have ended, and so on down the chain.
* `LockIsExclusive`: `LockSpec => []ExclusiveUntilStale`. The inductive form
  says that a call that is holding or leaving made the directory, unless some
  lock has been stale before.

`MapRuntimeProofs` proves for any number of applies, reads and destroys, from
`RuntimeAssumption`:

* `RuntimeTypeCorrect`: `RuntimeSpec => []RuntimeTypeOK`.
* `ChangesAreSerial`: `[]OneChangeAtATime`, and `RendererIsMarked`:
  `[]RendererAgrees`. The invariant `Queue` says that an apply has left its
  place in the queue only when every apply submitted before it is done, so that
  the one at work is unique; `Marked` says what the renderer shows at each step
  of that one.
* `ReadsFollowWrites`: `[]ReadsOwnWrites`, and `DestroyDrains`:
  `[]DrainedBeforeRelease`. `ReadsWait` and `DestroyWaits` carry what the tail
  of the queue stood for when the read or the destroy took it.
* `CommitsFollowTheQueue`: `[]CommitsInOrder`. The invariant adds that an apply that has
  answered "applied" is done, so that the next one to be committed stands later in the
  queue than all those that were.

Of the commit protocol, `ProjectStoreProofs` proves `JournalTypeCorrect`: `JournalSpec =>
[]JournalTypeOK`, for any number of calls and interruptions, with or without
creates outside the lock. It needs `Equipped`: a call that is committing has a
receipt and a transaction, and its place among the files fits its step.

It proves more of the protocol for any number of calls, contents, UUIDs, revisions and
interruptions. Opens, applies and restores run under the lock, as in the code;
creates take none and may come at any time, and what they may do is the hypothesis:

* `CreatesAlone`: no create is under way beside another call, and none writes where
  one that was cut short has left the receipt of another revision.
* `CreatesFirst`: a create that stages or publishes is the first to write in its
  directory. It may begin and end beside opens, applies, restores and recoveries; one
  of them may finish its commit while it is itself renaming.
* `CreatesClearOwn`: with its last `rm` a create removes its own journal or none.

None of the three is what the code ensures. They are about the behaviour, not the
constants, and since the conclusions are safety properties, each theorem says
that its conclusion holds until the hypothesis fails for the first time. What happens
then is in the runs: `journal_recreate` violates `CreatesAlone` and `CreatesFirst`
(the leftover receipt), `journal_unlocked` meets `CreatesFirst` and violates
`CreatesClearOwn`. The passing runs meet them: `journal_commit` `CreatesAlone`,
`journal_create` `CreatesFirst` but neither of the others.

* `AcksAreDurable` (`[]AckedDurable`), `OpensReadCommitted` (`OpenReadsCommitted`) and
  `CommitsAreReviewed` (`CommitsOnReviewedBase`): under
  `[]CreatesAlone \/ []CreatesFirst`. This covers the open beside a create without the
  lock, and the apply whose journal such a create removes.
* `CommitIsAtomic` (`[]NoPartialWrite`) and `CommitsAppend` (`ImplementsLog`): under
  `[]CreatesAlone \/ ([]CreatesFirst /\ []CreatesClearOwn)`.

While creates run alone they follow from one inductive invariant, `CommitInv`. None of
them is inductive: that recovery works in this state says nothing of the state after
the next rename. `CommitInv` says of the files that each file an unfinished
journal names is still staged or already in place (`InPlace`), so that a rename
moves a file to where recovery would have put it and changes nothing recovery
can see; that what recovery leaves is `Whole`; and that before `mapspec.json`
appears only creates have been tried (`Uncreated`). Of a call it says for each
step what it may rely on: `Reading` that what was read is still there,
`Continues` that its receipt is the successor of the last one and its revision
is free, `Staging` and `Renaming` which files are staged. The arithmetic is in
`ContinuesWhole`: a receipt numbered with the size of the history extends it.

While creates come first the invariant is another one, `FoundedInv`, for two commits may
then be under way at once: that of a create and that of whoever has found its project
in place. `InTurn` says that one of any two has all its files in place, so that their renames
never compete; `Kept` that a receipt once in place
stays, and that before the metadata appears there is one commit; `Founded` that a create
whose project is there has renamed all it has, whoever did it. A reader finds nothing or
what is there (`Viewing`), since no file is replaced while it holds the lock; an apply
that has planned knows that nothing is left to recover (`Planned`). Nothing here says
that what is left to do is in the *journal*, which is what a create that removes
another's journal destroys: `FoundedSafe` adds it (`Remaining`), for `CommitIsAtomic` and
`CommitsAppend`.

For the log, `Orderly` is what both invariants give and `LogStep` proves each step from:
with `LogInv`, the numbers of the history have no gap, only creates come before
`mapspec.json`, and a prepared receipt is what `Apply` or `Restore` of the log ask
for. Publishing a journal is the append (`PublishStep`, on `NextEntry`), the rename
of the first `mapspec.json` the create (`InstallStep`); every other step is a stutter.

Last, it puts the lock that the code has in the place of the one the
protocol is specified with, for a project that has been created and for any number
of processes, calls, crashes and rejected operations:

* `StoreIsSerialPerProcess`: `StoreSpec => []OneOperationPerProcess`, with no
  further assumption: it comes from the chain of promises, not from the directory.
  `StoreUsesLock` carries what is proved of `ProjectLock` over, and `WorksInLock`
  says that a call is inside the protocol only while it holds the lock.
* `LockServes`: `StoreSpec /\ BrokenLocksAreAbandoned => LockServesJournal`. A step
  of the store is a step of `CommitJournal` or leaves its files alone, provided the
  call that works is the one that made the directory (`HolderMadeLock`), which stays
  so as long as no lock is broken under it.
* `StoreIsAtomic`, `StoreKeepsAcks`, `StoreReadsCommitted`, `StoreCommitsReviewed`:
  the four guarantees of the protocol, of the store as a whole, from the same
  assumption. The invariant is `JournalInv` of the protocol, which a created
  project satisfies (`CreatedIsWhole`).
* `StoreAppends`: the store refines `RevisionLog` from its first entry on
  (`LogIsBegun /\ [][Log!LogNext]_CommittedLog`), from the same assumption.
* `StoreKeepsHistory`: `HistoryNeverRewritten`. The receipt of an unfinished journal
  is for a revision that has none yet (`PlaceIsFree`), so the rename replaces
  nothing.
* `FreshLocksAreKept`: a lock is broken only after one has grown stale.

The assumption `BrokenLocksAreAbandoned` is a property of the behaviour and not of the
code. It fails when a second waiter, which found the same stale lock, removes the new
one of the first; `store_rewrite` shows such a behaviour, and what is proved from the
assumption fails with it. Until then, and in particular as long as no lock
grows stale, the theorems hold.

`ServerProofs` proves for any number of browsers, plans, previews, files,
targets, requests and restarts, from `ServiceAssumption`:

* `AttachedDataIsKept` (`[]AttachmentsIntact`) and `RefusalsLeaveNoData`
  (`[]NoStrayData`), with writes and removals that fail,
* `PlansAreAppliedAsReviewed` (`[]PlansApplyAsReviewed`): the part about undeclared
  resources only for a plan whose base revision was there when it was checked,
* `AnswersOutliveRestarts` (`[]AnsweredStay`) and `ExportsAreAsReviewed`
  (`[]ExportsAsReviewed`).

The invariant, `ProjectInvariant`, has a part for each. `Files`: a data file belongs
to one attachment, and the request that wrote it is the only one to hold it, so
that what it removes is its own; what it holds is in the log only if it is
forsaken. `Plans`: what a request carries from the check to the commit is that the
plan was confirmed and, if its commands fitted the revision it was checked at, that
it declared what they add there; when that revision is the base, this is the revision
the commit is made on, and if it is later the commit is refused. `InItsFile`: what
has been answered is in a file, which `AnsweredStay` alone does not say of
memory. `Exports`: what is staged is the spec of the preview's base, and a target,
once taken, stays what it is. `Shape` and `HistoryGrows` say that the log and the
histories are sequences that are only appended to, so that a fact about an entry of
them is one for good.

Of the session and its database it proves for any number of clients, maps, requests and restarts:

* `AcksAreKept` (`[]AckedSavesKept`), from `StoreAssumption`. `Calm` says, while
  nothing has disturbed the store, that one database is open, that one request at
  most writes, that what it writes differs from the database only in rows whose own
  request has yet to write, and that the file differs from it only so. An
  acknowledgement therefore never speaks of a row that is not in both. After a write
  that failed the file is left out of this until one goes through, and so are the rows
  whose request was answered an error.
* `EditsStayOnTheirMap` (`[]EveryEditOnItsMap`). `Provenance` says of every map
  there is -- active, in a database, in the bytes of a file being written, in the
  request of a save -- that each of its edits was asked for when the map was what
  the edits before made of it, and of a chat that waits that, as long as the epoch
  has not moved, the active map is the one it was asked about.

* `SessionIsWhole` (`[]SessionHangsTogether`). What hangs together in the session has to
  hang together in every copy of it: in the rows of every database, in the bytes of a
  file being written, in the file, and in the request of a save. `Bundle` says it of one
  copy, with the exceptions that the property names (`cut`, `late`) as parameters, so
  that a copy made before an exception is none the worse for it (`BundleStays`). Of the
  audit records it says more than the property: that their numbers count up
  (`Numbered`), so that a record's number says where it is, and a decision's evidence is
  in the place that it names (`Decided`).

`BatchProofs` proves, for any maps, commands, batch sizes and options, over all
nineteen commands:

* `BatchIsTyped` (`[]BatchTypeOK`): a batch given a spec that `validateSpec` accepts only
  works on such specs.
* `BatchCanBeUndone` (`[]UndoRestores`): at every moment, the inverse patches of the
  effective commands, the last first, apply without an exception and give the very spec
  the batch was given, for a roll back and for a client's undo.
* `AnswersAreTrue` (`[]AnswersTruly`): revisions strictly increase along the effective
  results, and applying exactly their patches to the given spec gives the answer.

The assumption is `CommandsAssumption`: the specs and commands have the shapes that
their JSON schemas give them (`SpecShape`, `CommandShape`), and revisions begin within
the bound `MaxRevision`. The argument has four layers.

1. *Folds.* `GetAtPath`, `ApplyJsonPatch`, `InvertPatch` and what `UndoRestores`
   says of a batch are folds. What a fold computes
   takes an induction, and the library's theorems of it take an operator as a parameter,
   which no prover here can instantiate. `FoldTheorems` makes the operator a CONSTANT
   instead and proves once, from well-founded induction on sets, that a fold is the last
   value of its steps (`LeftFoldIs`, `RightFoldIs`); `BatchProofs` instantiates it with
   each operator that is folded. So data of any length is within reach after all.
2. *Operations.* `Undoes` says of a patch and its inverse that both apply and the second
   leads back. It is proved of each operation `add`, `replace` and `remove`, in an object
   and in an array, and of a sequence of them.
3. *Commands.* `CommandGoes` says of each command, on a spec of the right shape, that if
   it builds a patch the paths in it reach containers, the patch applies, its inverse
   undoes it, and the spec that comes out has the shape again; `RevisionGoes` the same of
   the patch with the revision's operation after it (`WholeGoes`).
4. *Batches.* `BatchInv`, the inductive invariant: the effective results are a log of
   the way from the given spec to the one the batch works on (`Logged`, from `Linked`,
   `Kept` and `Rewound`). Neither `UndoRestores` nor `AnswersTruly` is inductive: that the
   inverses lead back from here does not say that each of them applies where it comes.

`AdapterProofs` proves of the adapter, under the same assumption:

* `MapFollowsSpec` (`[]MapShowsSpec`): once a batch is over, a live map shows the
  committed spec, source by source and layer by layer, with its toggles, every center,
  zoom, bearing and pitch its view gives, and, if a patch has touched the view since the
  last load, the bounds of a view that gives nothing else, whichever way the patch went in and whatever failed before.

Its argument:

1. *One operation.* `applyIncrementalPatch` applies each operation of a patch to the map
   with the values of the *final* spec, so in the middle of a patch the map is neither
   the style of the document of that moment nor that of the final one: an `id` removed
   and added again, a filter or a paint property set twice. What holds in between is
   said by `Near...`: a cell (a source, a filter, a property of `paint` or `layout`) that
   no operation still to come is on has its final value, in the document
   (`WalkNears`, by induction from the end) and in the map (`Styled`, from the
   beginning). At the end no operation is to come, and the map is the style (`StyledAtLast`).
2. *Which operations.* An operation that the adapter handles is on one cell and changes
   no other (`HandledIs`, `OperationStyled`); a layer put in or taken out, or a zoom range,
   it refuses. All this needs the operation to be one that commands make, on a path that
   the document has (`Known`): `CommandWay` proves that of each command, on a spec of the
   right shape, and `WayConcat` of the patches of a batch one after the other.
3. *Removing a source.* The library keeps a source that a layer of the map uses. That
   the source is gone nevertheless needs that the final spec is valid, so none of
   its layers uses it, and that the layers of the map name the same sources (`SourceInUse`,
   `SourceStyled`).
4. *The whole patch.* `HandledShows` and `RebuiltShows` add the camera and the toggles, which
   follow only if an operation touches them: otherwise they are the ones the map has
   (`Untouched`).
5. *The runtime.* `MapInv`, the inductive invariant, with `BatchInv`: while a batch runs the
   adapter holds the spec it was given, the map shows it, and the patches of the results
   lead from it to the answer (`CommittedIs`, from the log of `BatchInv`).

`RestoreProofs` proves of restores, from `CommandsAssumption` and `DiffAssumption`:

* `RestoresWhatIsInReach`: for any two valid specs, the commands of diffSpecs lead from
  the one to the other, as one atomic batch, *exactly* when `Expressible`, `InPlace`,
  `Unused` and `Timely` hold. No bound on sources, layers or what they say.
* `CommittedIsRestored` (`[]RestoresWithinReach`): after any batches, the spec an atomic
  batch has committed is one of which that is true.

The first says what a list of commands as long as the specs are comes to. `DiffProofs`
has it for one list after the other, by induction over the list (`ThroughLeads`,
`ListInduction`): `Leads` is that a batch of them succeeds and what it ends in.

1. *Layers and sources out and in.* A spec on the way is the first one with other sources
   and layers (`Made`), and its validity is one of each layer that it has, with the sources
   there are and the view as it was (`ValidIs`, `Dressed...`). Hence the lists before the
   reorderings lead to the sources and layers asked for, in the order kept, new, changed, just
   when no source goes under a layer that stays and every layer that comes in is allowed
   by the old view (`FirstCommandsLead`).
2. *Order.* The commands of `buildReorderCommands` are computed from lists of ids and
   not from the spec. They always apply, and they lead to a rearrangement of the layers
   (`ReordersRearrange`), but never to the one asked for unless there are none:
   the last of them puts its layer before the one it is to follow, and nothing after
   moves it (`LastMoveFails`, `NothingMoves`). So a restore succeeds only where no
   layer moves, which is `InPlace` (`InPlaceIs`).
3. *View and toggles.* `setView` merges, so what the old view alone says becomes
   `undefined`; toggles can be replaced and not removed (`ViewLeads`, `TogglesLead`,
   `FinishedMeans`, `ExpressibleIs`).

The second needs of every spec a batch works on what the first asks of specs. `RestoreInv`
says that the given spec, the current one and that of the runtime keep `DiffShape`, and
that a committed one is valid. Each operation of a patch that commands make keeps what
`DiffShape` says (`Mild`, `MildHolds`), whatever path it is on, which is proved command by
command (`CommandHolds`) and with the inductive `BatchInv` and `MapInv` of the other two
modules of every step.

The proof found that the property was false. The instance had no map with a layer of type
`fill-extrusion-lite`, so TLC had no case in which a layer is allowed by the view of the
spec that is restored and not by that of the spec at hand: diffSpecs adds the layer while
the view is still the old one, the batch fails, and the restore is refused although all
it needs can be expressed. `Timely` says so, and the instance has such a layer now.

The proofs about commands and the adapter found two more things in the model. Where two
guards of a CASE can both be true, TLA+ does not say which arm is taken, although TLC
takes the first; the code's `switch` and `if ... else if` do say it, and such definitions
are now chains of IF. And the shape of a layer lacked the `type` that its JSON schema
requires, without which the style of a layer is not determined.

Model-checked only: liveness (`EveryCallSettles`, `EveryCallAnswers`), out of the
provers' reach. Every other property of the passing runs is stated by a theorem.

## 6. Not modelled

* The contents of files beyond revision, sequence and a content value: schema
  validation, integrity hashes, tampering with files. Files are replaced by
  `rename`, so none is read half written.
* Loss of writes in a power failure: the code does not call `fsync`, and a crash
  here is that of a process.
* `replayWorkbenchProject`, `exportLegacyWorkbenchProjects`, `readExportReceipts`:
  they only read.
* The JSON schema, the grammar of expressions, the escaping of JSON pointers, the
  resource policy (all a set `Blocked` of refused values), the order of the members
  of an object. `project-store.mjs:673` compares texts, so a restore whose members
  come out in another order is refused as well.
* The adapter used without a `MapRuntime`, where an apply or a destroy may come
  while `load` waits for its import; popups, feature selection, events, snapshots; the mock
  adapter, which only keeps the spec.
* Routes of the server that only read, tiles and static files; which command a
  prompt is turned into; `removeLayer` of a layer of a basemap, which leaves
  `activeBasemap` as it is.
* The provider clients: one call has a deadline and a byte cap, and leaves no state
  behind. Its outcome is a choice in the modules that use it.
* The stateless tools other than diffSpecs, the command line, the scene packages and
  the user interface.

## 7. Plan

Done: the modules of section 2 and the theorems of section 5.

What is left: the deadline of a provider's stream; the adapter without a runtime; and the parts of
section 6.
