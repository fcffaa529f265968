------------------------------ MODULE Commands ------------------------------
(***************************************************************************)
(* applyCommands: a batch of commands over a MapSpec, one command at a     *)
(* time, each turned into a JSON patch, its inverse and the next spec.     *)
(*                                                                         *)
(* A document is what the JSON is: an object is a function from names, an  *)
(* array a sequence (counted from 1 here, from 0 in the code), an absent   *)
(* member a name outside the domain.  A path is a sequence of names and    *)
(* positions; ids are free of the characters a JSON pointer escapes.       *)
(***************************************************************************)
EXTENDS Integers, Sequences, SequencesExt

CONSTANTS
    Specs,          \* the MapSpecs a batch may be given
    CommandSet,     \* the commands a client may ask for
    MaxRevision,    \* stands for Number.MAX_SAFE_INTEGER
    BatchSizes,     \* bound: commands in the first batch, in the second, and so on
    Blocked,        \* values of paint, layout or filter that validateSpec refuses
    Absent          \* an optional value that is not given

InvalidRevision == -1       \* the sentinel "invalid-revision(...)"

(***************************************************************************)
(* JSON documents.                                                         *)
(***************************************************************************)

Has(object, name) == name \in DOMAIN object

Member(object, name, default) ==
    IF Has(object, name) THEN object[name] ELSE default

With(object, name, value) ==
    [n \in DOMAIN object \cup {name} |-> IF n = name THEN value ELSE object[n]]

Without(object, name) == [n \in DOMAIN object \ {name} |-> object[n]]

\* {...object, ...over}
Merge(over, object) ==
    [n \in DOMAIN over \cup DOMAIN object |-> IF Has(over, n) THEN over[n] ELSE object[n]]

Only(object, names) == [n \in DOMAIN object \cap names |-> object[n]]

(***************************************************************************)
(* What the JSON schemas say of the shape of specs and commands.           *)
(***************************************************************************)

IsObject(o) == o = [name \in DOMAIN o |-> o[name]]
IsArray(a) == a \in Seq({a[i] : i \in DOMAIN a})

LayerShape(layer) ==
    /\ IsObject(layer) /\ {"id", "type"} \subseteq DOMAIN layer
    /\ \A member \in {"paint", "layout"} \cap DOMAIN layer : IsObject(layer[member])

LayersShape(layers) == IsArray(layers) /\ \A i \in DOMAIN layers : LayerShape(layers[i])

SceneShape(scene) ==
    /\ IsObject(scene)
    /\ Has(scene, "sources") => IsObject(scene.sources)
    /\ Has(scene, "layers") => LayersShape(scene.layers)

ExtensionsShape(extensions) ==
    /\ IsObject(extensions)
    /\ Has(extensions, "scene3d") => SceneShape(extensions.scene3d)

SpecShape(spec) ==
    /\ IsObject(spec) /\ {"view", "sources", "layers"} \subseteq DOMAIN spec
    /\ IsObject(spec.view) /\ IsObject(spec.sources) /\ LayersShape(spec.layers)
    /\ Has(spec, "extensions") => ExtensionsShape(spec.extensions)

CommandShape(c) ==
    /\ {"type", "dryRun", "base"} \subseteq DOMAIN c /\ c.dryRun \in BOOLEAN
    /\ c.type \in {"addLayer", "addSceneLayer"} => LayerShape(c.value)
    /\ c.type \in {"setPaint", "setLayout"} =>
           c.member \in {"paint", "layout"} /\ IsObject(c.value) /\ IsFiniteSet(DOMAIN c.value)
    /\ c.type \in {"setCapabilities", "setInteractions"} =>
           c.member \in {"capabilities", "interactions"}

CommandsAssumption ==
    /\ MaxRevision \in Nat \ {0}
    /\ BatchSizes \in Seq(Nat) /\ BatchSizes # << >>
    /\ \A spec \in Specs : SpecShape(spec) /\ Member(spec, "revision", 0) \in 0..MaxRevision
    /\ \A c \in CommandSet : CommandShape(c)

ASSUME CommandsAssumption

(***************************************************************************)
(* Patches.                                                                *)
(***************************************************************************)

GetAtPath(document, path) ==
    FoldLeft(LAMBDA value, key : value[key], document, path)

\* The paths of the arrays of a MapSpec; every other container is an object.
ArrayPaths == {<<"layers">>, <<"extensions", "scene3d", "layers">>}

IsArrayOperation(o) == Front(o.path) \in ArrayPaths

\* The operations that do not throw on a document.
Applicable(document, o) ==
    LET container == GetAtPath(document, Front(o.path))
        key == Last(o.path) IN
    IF IsArrayOperation(o)
    THEN key \in 1..(Len(container) + IF o.op = "add" THEN 1 ELSE 0)
    ELSE o.op = "add" \/ Has(container, key)

ArrayOperation(array, index, o) ==
    CASE o.op = "add" -> InsertAt(array, index, o.value)
      [] o.op = "remove" -> RemoveAt(array, index)
      [] o.op = "replace" -> ReplaceAt(array, index, o.value)

ObjectOperation(object, name, o) ==
    IF o.op = "remove" THEN Without(object, name)
    ELSE With(object, name, o.value)

ApplyOperation(document, o) ==
    LET above == Front(o.path)
        container == GetAtPath(document, above)
        changed == IF IsArrayOperation(o)
                   THEN ArrayOperation(container, Last(o.path), o)
                   ELSE ObjectOperation(container, Last(o.path), o)
    IN FoldRightDomain(
           LAMBDA i, inner : [GetAtPath(document, SubSeq(above, 1, i - 1))
                                 EXCEPT ![above[i]] = inner],
           above, changed)

ApplyJsonPatch(document, patch) == FoldLeft(ApplyOperation, document, patch)

Add(path, value) == [op |-> "add", path |-> path, value |-> value]
Replace(path, value) == [op |-> "replace", path |-> path, value |-> value]
Delete(path) == [op |-> "remove", path |-> path]

\* "replace" where the member is there already, "add" where it is not.
Put(object, name, path, value) ==
    IF Has(object, name) THEN Replace(path, value) ELSE Add(path, value)

InvertOperation(document, o) ==
    CASE o.op = "add" -> Delete(o.path)
      [] o.op = "remove" -> Add(o.path, GetAtPath(document, o.path))
      [] o.op = "replace" -> Replace(o.path, GetAtPath(document, o.path))

\* Mutant of InvertPatch: the inverses in the order of the operations.
InvertInOrder(document, patch) ==
    FoldLeft(LAMBDA acc, o :
                 [inverse |-> Append(acc.inverse, InvertOperation(acc.document, o)),
                  document |-> ApplyOperation(acc.document, o)],
             [inverse |-> << >>, document |-> document], patch).inverse

\* Each operation is inverted against the document it was applied to, and the
\* inverse of the last operation comes first.
InvertPatch(document, patch) ==
    FoldLeft(LAMBDA acc, o :
                 [inverse |-> <<InvertOperation(acc.document, o)>> \o acc.inverse,
                  document |-> ApplyOperation(acc.document, o)],
             [inverse |-> << >>, document |-> document], patch).inverse

(***************************************************************************)
(* buildPatch: what one command does to a spec: a patch, nothing (skipped) *)
(* or an error.                                                            *)
(***************************************************************************)

Built(patch) == [kind |-> "patch", patch |-> patch]
Skipped == [kind |-> "skipped", patch |-> << >>]
Failed == [kind |-> "failed", patch |-> << >>]

\* The position of the layer with an id, 0 if there is none.
LayerAt(layers, id) == SelectInSeq(layers, LAMBDA layer : layer.id = id)

\* The position a layer gets: before another one, or after the last.
Anchor(layers, before) ==
    IF before = Absent THEN Len(layers) + 1 ELSE LayerAt(layers, before)

AddSource(c, spec) ==
    IF Has(spec.sources, c.id) THEN Skipped
    ELSE Built(<<Add(<<"sources", c.id>>, c.value)>>)

RemoveSource(c, spec) ==
    IF ~Has(spec.sources, c.id) THEN Failed
    ELSE Built(<<Delete(<<"sources", c.id>>)>>)

AddLayer(c, spec) ==
    IF LayerAt(spec.layers, c.value.id) # 0 THEN Skipped
    ELSE IF Anchor(spec.layers, c.before) = 0 THEN Failed
    ELSE Built(<<Add(<<"layers", Anchor(spec.layers, c.before)>>, c.value)>>)

RemoveLayer(c, spec) == Built(<<Delete(<<"layers", LayerAt(spec.layers, c.id)>>)>>)

\* setPaint and setLayout: patchRecordMerge of the member named in the command.
PatchRecordMerge(c, spec) ==
    LET index == LayerAt(spec.layers, c.id)
        layer == spec.layers[index]
        path == <<"layers", index, c.member>>
        names == SetToSeq(DOMAIN c.value) IN
    IF ~Has(layer, c.member) THEN Built(<<Add(path, c.value)>>)
    ELSE Built([i \in DOMAIN names |->
                   Put(layer[c.member], names[i], Append(path, names[i]), c.value[names[i]])])

SetFilter(c, spec) ==
    LET index == LayerAt(spec.layers, c.id)
        layer == spec.layers[index]
        path == <<"layers", index, "filter">> IN
    IF c.value # Absent THEN Built(<<Put(layer, "filter", path, c.value)>>)
    ELSE IF ~Has(layer, "filter") THEN Skipped
    ELSE Built(<<Delete(path)>>)

SetLayerZoomRange(c, spec) ==
    LET index == LayerAt(spec.layers, c.id)
        layer == spec.layers[index]
        path(name) == <<"layers", index, name>> IN
    IF c.minzoom > c.maxzoom THEN Failed
    ELSE Built(<<Put(layer, "minzoom", path("minzoom"), c.minzoom),
                 Put(layer, "maxzoom", path("maxzoom"), c.maxzoom)>>)

SetView(c, spec) == Built(<<Replace(<<"view">>, Merge(c.value, spec.view))>>)

FitBounds(c, spec) ==
    Built(<<Replace(<<"view">>,
                    With(Only(spec.view, {"mode", "bearing", "pitch"}), "bounds", c.value))>>)

\* setCapabilities and setInteractions.
SetMember(c, spec) == Built(<<Put(spec, c.member, <<c.member>>, c.value)>>)

ReorderLayer(c, spec) ==
    LET from == LayerAt(spec.layers, c.id)
        others == RemoveAt(spec.layers, from)
        to == Anchor(others, c.before)
        layer == spec.layers[from] IN
    IF c.before = c.id THEN Skipped
    ELSE IF to = 0 THEN Failed
    ELSE IF InsertAt(others, to, layer) = spec.layers THEN Skipped
    ELSE Built(<<Delete(<<"layers", from>>), Add(<<"layers", to>>, layer)>>)

\* The commands on a layer of the map fail when there is no such layer.
LayerCommand(c, spec) ==
    IF LayerAt(spec.layers, c.id) = 0 THEN Failed
    ELSE CASE c.type = "removeLayer" -> RemoveLayer(c, spec)
           [] c.type \in {"setPaint", "setLayout"} -> PatchRecordMerge(c, spec)
           [] c.type = "setFilter" -> SetFilter(c, spec)
           [] c.type = "setLayerZoomRange" -> SetLayerZoomRange(c, spec)
           [] c.type = "reorderLayer" -> ReorderLayer(c, spec)

Extensions(spec) == Member(spec, "extensions", << >>)
HasScene(spec) == Has(Extensions(spec), "scene3d")
Scene(spec) == Member(Extensions(spec), "scene3d", << >>)
SceneSources(spec) == Member(Scene(spec), "sources", << >>)
SceneLayers(spec) == Member(Scene(spec), "layers", << >>)
ScenePath == <<"extensions", "scene3d">>

SetSceneCamera(c, spec) ==
    IF ~Has(spec, "extensions")
    THEN Built(<<Add(<<"extensions">>, [scene3d |-> [camera |-> c.value]])>>)
    ELSE IF ~HasScene(spec) THEN Built(<<Add(ScenePath, [camera |-> c.value])>>)
    ELSE Built(<<Put(Scene(spec), "camera", Append(ScenePath, "camera"), c.value)>>)

AddSceneSource(c, spec) ==
    IF ~HasScene(spec) THEN Failed
    ELSE IF Has(SceneSources(spec), c.id) THEN Skipped
    ELSE IF ~Has(Scene(spec), "sources")
    THEN Built(<<Add(Append(ScenePath, "sources"), With(<< >>, c.id, c.value))>>)
    ELSE Built(<<Add(ScenePath \o <<"sources", c.id>>, c.value)>>)

RemoveSceneSource(c, spec) ==
    IF \/ ~Has(SceneSources(spec), c.id)
       \/ \E i \in DOMAIN SceneLayers(spec) : SceneLayers(spec)[i].source = c.id
    THEN Failed
    ELSE Built(<<Delete(ScenePath \o <<"sources", c.id>>)>>)

AddSceneLayer(c, spec) ==
    IF ~HasScene(spec) \/ ~Has(SceneSources(spec), c.value.source) THEN Failed
    ELSE IF LayerAt(SceneLayers(spec), c.value.id) # 0 THEN Skipped
    ELSE IF ~Has(Scene(spec), "layers")
    THEN Built(<<Add(Append(ScenePath, "layers"), <<c.value>>)>>)
    ELSE Built(<<Add(ScenePath \o <<"layers", Len(SceneLayers(spec)) + 1>>, c.value)>>)

RemoveSceneLayer(c, spec) ==
    LET index == LayerAt(SceneLayers(spec), c.id) IN
    IF index = 0 THEN Failed ELSE Built(<<Delete(ScenePath \o <<"layers", index>>)>>)

SetSceneLayerVisibility(c, spec) ==
    LET index == LayerAt(SceneLayers(spec), c.id) IN
    IF index = 0 THEN Failed
    ELSE Built(<<Put(SceneLayers(spec)[index], "visible",
                     ScenePath \o <<"layers", index, "visible">>, c.value)>>)

BuildPatch(c, spec) ==
    CASE c.type = "addSource" -> AddSource(c, spec)
      [] c.type = "removeSource" -> RemoveSource(c, spec)
      [] c.type = "addLayer" -> AddLayer(c, spec)
      [] c.type \in {"removeLayer", "setPaint", "setLayout", "setFilter",
                     "setLayerZoomRange", "reorderLayer"} -> LayerCommand(c, spec)
      [] c.type = "setView" -> SetView(c, spec)
      [] c.type = "fitBounds" -> FitBounds(c, spec)
      [] c.type \in {"setCapabilities", "setInteractions"} -> SetMember(c, spec)
      [] c.type = "setSceneCamera" -> SetSceneCamera(c, spec)
      [] c.type = "addSceneSource" -> AddSceneSource(c, spec)
      [] c.type = "removeSceneSource" -> RemoveSceneSource(c, spec)
      [] c.type = "addSceneLayer" -> AddSceneLayer(c, spec)
      [] c.type = "removeSceneLayer" -> RemoveSceneLayer(c, spec)
      [] c.type = "setSceneLayerVisibility" -> SetSceneLayerVisibility(c, spec)
      [] OTHER -> Failed

(***************************************************************************)
(* validateSpec, as far as a command can break it: references, identities, *)
(* ranges, values the style specification refuses, the revision.           *)
(***************************************************************************)

DistinctIds(layers) ==
    \A i, j \in DOMAIN layers : layers[i].id = layers[j].id => i = j

VectorLayers ==
    {"fill", "line", "circle", "symbol", "symbol-lite", "fill-extrusion-lite", "heatmap"}

\* isLayerSourceCompatible
Compatible(layerType, sourceType) ==
    \/ layerType = "background"
    \/ layerType = "raster" /\ sourceType \in {"raster", "pmtiles"}
    \/ /\ layerType \in VectorLayers
       /\ sourceType \in {"geojson", "pmtiles", "flatgeobuf", "geoparquet", "vector"}

\* The dimensions and experimental features a spec asks for.
Requested(spec, list) == Member(Member(spec, "capabilities", << >>), list, {})

\* A view need not say its mode.
Mode(spec) == Member(spec.view, "mode", Absent)

\* hasFillExtrusionLiteGate
ExtrusionAllowed(spec) ==
    /\ Mode(spec) = "map2_5d" \/ "2_5d" \in Requested(spec, "dimensions")
    /\ "fill-extrusion-lite" \in Requested(spec, "experimental")

ValidLayer(layer, spec) ==
    /\ layer.type # "background" => Has(layer, "source")
    /\ Has(layer, "source") =>
           /\ Has(spec.sources, layer.source)
           /\ Compatible(layer.type, spec.sources[layer.source].type)
    /\ layer.type = "fill-extrusion-lite" => ExtrusionAllowed(spec)
    /\ Has(layer, "minzoom") /\ Has(layer, "maxzoom") => layer.minzoom <= layer.maxzoom
    /\ Has(layer, "filter") => layer.filter \notin Blocked
    /\ \A member \in {"paint", "layout"} \cap DOMAIN layer :
           \A name \in DOMAIN layer[member] : layer[member][name] \notin Blocked

ValidScene(spec) ==
    /\ Has(Scene(spec), "camera")
    /\ DistinctIds(SceneLayers(spec))
    /\ \A i \in DOMAIN SceneLayers(spec) :
           Has(SceneSources(spec), SceneLayers(spec)[i].source)

ValidateSpec(spec) ==
    /\ Member(spec, "revision", 0) # InvalidRevision
    /\ Mode(spec) # "scene3d" /\ "3d" \notin Requested(spec, "dimensions")
    /\ DistinctIds(spec.layers)
    /\ \A i \in DOMAIN spec.layers : ValidLayer(spec.layers[i], spec)
    /\ HasScene(spec) => ValidScene(spec)

(***************************************************************************)
(* The loop over the batch.                                                *)
(***************************************************************************)
VARIABLES
    given,          \* the spec the batch was called with
    options,        \* transaction and dryRun
    current,        \* currentSpec
    results,        \* a record for each command so far
    committed,
    answer,         \* what the call returned, or Pending
    batches         \* batches begun so far

batchVars == <<given, options, current, results, committed, answer, batches>>

Pending == [pending |-> TRUE]
Answer(spec, done, undone) == [spec |-> spec, committed |-> done, rolledBack |-> undone]

Options == [atomic : BOOLEAN, dryRun : BOOLEAN]

Revision(spec) == Member(spec, "revision", Absent)

\* Mutant of NextRevision: an exhausted revision stays what it is.
SaturatedRevision(spec) ==
    IF Member(spec, "revision", 0) < MaxRevision THEN Member(spec, "revision", 0) + 1
    ELSE MaxRevision

NextRevision(spec) ==
    LET revision == Member(spec, "revision", 0) IN
    IF revision < MaxRevision THEN revision + 1 ELSE InvalidRevision

WithNextRevision(spec) == With(spec, "revision", NextRevision(spec))

\* The patch of a command, with the revision's operation after the others.
WholePatch(patch, spec) ==
    Append(patch, Put(spec, "revision", <<"revision">>, NextRevision(spec)))

Running == answer = Pending

BatchInit ==
    /\ given \in Specs
    /\ options \in Options
    /\ current = given
    /\ results = << >>
    /\ committed = FALSE
    /\ answer = Pending
    /\ batches = 1

\* The next command of the batch, while the call has not returned.
Take(c) == Running /\ Len(results) < BatchSizes[batches] /\ c \in CommandSet

Stale(c) == c.base # Absent /\ c.base # Revision(current)

Unapplied(c, status) ==
    [status |-> status, patch |-> << >>, inverse |-> << >>, base |-> Revision(current),
     next |-> Revision(current), dryRun |-> c.dryRun]

\* Mutant of Fail: the roll back keeps what was applied before.
FailHalfway(c) ==
    /\ results' = Append(results, Unapplied(c, "failed"))
    /\ answer' = IF options.atomic THEN Answer(current, FALSE, TRUE) ELSE answer
    /\ UNCHANGED <<given, options, current, committed, batches>>

\* failAndMaybeRollback: an atomic batch ends here with the spec it was given.
Fail(c) ==
    /\ results' = Append(results, Unapplied(c, "failed"))
    /\ answer' = IF options.atomic THEN Answer(given, FALSE, TRUE) ELSE answer
    /\ UNCHANGED <<given, options, current, committed, batches>>

Conflict(c) == Take(c) /\ Stale(c) /\ Fail(c)

BuildFails(c) ==
    Take(c) /\ ~Stale(c) /\ BuildPatch(c, current).kind = "failed" /\ Fail(c)

Skip(c) ==
    /\ Take(c) /\ ~Stale(c) /\ BuildPatch(c, current).kind = "skipped"
    /\ results' = Append(results, Unapplied(c, "skipped"))
    /\ UNCHANGED <<given, options, current, committed, answer, batches>>

Outcome(c) == WithNextRevision(ApplyJsonPatch(current, BuildPatch(c, current).patch))

Invalid(c) ==
    /\ Take(c) /\ ~Stale(c) /\ BuildPatch(c, current).kind = "patch"
    /\ ~ValidateSpec(Outcome(c))
    /\ Fail(c)

Applied(c) ==
    LET patch == WholePatch(BuildPatch(c, current).patch, current) IN
    [status |-> "applied", patch |-> patch, inverse |-> InvertPatch(current, patch),
     base |-> Revision(current), next |-> NextRevision(current), dryRun |-> c.dryRun]

\* Mutant of Apply: the outcome is not validated.
ApplyUnchecked(c) ==
    /\ Take(c) /\ ~Stale(c) /\ BuildPatch(c, current).kind = "patch"
    /\ results' = Append(results, Applied(c))
    /\ current' = IF c.dryRun THEN current ELSE Outcome(c)
    /\ committed' = (committed \/ (~c.dryRun /\ ~options.dryRun))
    /\ UNCHANGED <<given, options, answer, batches>>

Apply(c) ==
    /\ Take(c) /\ ~Stale(c) /\ BuildPatch(c, current).kind = "patch"
    /\ ValidateSpec(Outcome(c))
    /\ results' = Append(results, Applied(c))
    /\ IF c.dryRun
       THEN UNCHANGED <<current, committed>>
       ELSE /\ current' = Outcome(c)
            /\ committed' = (committed \/ ~options.dryRun)
    /\ UNCHANGED <<given, options, answer, batches>>

\* The batch ends: a dry run hands back the spec it was given.
Finish ==
    /\ Running
    /\ answer' = Answer(IF options.dryRun THEN given ELSE current, committed, FALSE)
    /\ UNCHANGED <<given, options, current, results, committed, batches>>

\* The caller submits another batch for a spec.
NewBatch(spec) ==
    /\ ~Running /\ batches < Len(BatchSizes)
    /\ given' = spec /\ current' = spec
    /\ options' \in Options
    /\ results' = << >> /\ committed' = FALSE /\ answer' = Pending
    /\ batches' = batches + 1

BatchStep ==
    \/ \E c \in CommandSet : Conflict(c) \/ BuildFails(c) \/ Skip(c) \/ Invalid(c) \/ Apply(c)
    \/ Finish

(***************************************************************************)
(* Properties.                                                             *)
(***************************************************************************)

\* The results that changed the spec the batch works on.
Effective ==
    FoldLeft(LAMBDA all, r : IF r.status = "applied" /\ ~r.dryRun THEN Append(all, r) ELSE all,
             << >>, results)

\* Type invariant: the answer is what the call may return, and the spec the
\* batch works on is one validateSpec accepts whenever the given one was.
BatchTypeOK ==
    /\ options \in Options
    /\ committed \in BOOLEAN
    /\ Len(results) <= BatchSizes[batches]
    /\ \A i \in DOMAIN results : results[i].status \in {"failed", "skipped", "applied"}
    /\ ValidateSpec(given) => ValidateSpec(current)

\* The operations of an inverse patch, each applicable when its turn comes.
Undoable(document, patch) ==
    FoldLeft(LAMBDA acc, o :
                 IF acc.ok /\ Applicable(acc.document, o)
                 THEN [ok |-> TRUE, document |-> ApplyOperation(acc.document, o)]
                 ELSE [ok |-> FALSE, document |-> acc.document],
             [ok |-> TRUE, document |-> document], patch)

\* The inverse patches of a batch, the last command's first, take the spec it
\* ended with back to the spec it was given, and none of their operations
\* throws (applyCommands.ts, invertPatch.ts).
UndoRestores ==
    FoldRight(LAMBDA r, acc : IF acc.ok THEN Undoable(acc.document, r.inverse) ELSE acc,
              Effective, [ok |-> TRUE, document |-> current])
        = [ok |-> TRUE, document |-> given]

\* The effective commands form a chain of revisions: each starts from the one
\* before, the first from the given spec, and the last leads to the spec the batch
\* works on; none has a number twice.  A dry-run command, which reports the revision
\* it would lead to, is not a link.
RevisionsChain ==
    LET before(i) == IF i = 1 THEN Revision(given) ELSE Effective[i - 1].next IN
    /\ \A i \in DOMAIN Effective : Effective[i].base = before(i)
    /\ \A i \in DOMAIN Effective : i > 1 => Effective[i].next > before(i)
    /\ Revision(current) = before(Len(Effective) + 1)

\* The patches of the effective commands, in order.
EffectivePatch == FoldLeft(LAMBDA all, r : all \o r.patch, << >>, Effective)

\* What the call answers is what has happened: a batch that says it rolled back,
\* was a dry run or committed nothing hands back the very spec it was given, and
\* one that says it committed hands back that spec with the patches of its
\* commands applied in order, so that a reader can replay them; the revisions it
\* reports are a chain all along.
AnswersTruly ==
    /\ RevisionsChain
    /\ ~Running =>
           /\ answer.committed <=> answer.spec # given
           /\ answer.rolledBack \/ options.dryRun => ~answer.committed
           /\ answer.committed => answer.spec = ApplyJsonPatch(given, EffectivePatch)
=============================================================================
