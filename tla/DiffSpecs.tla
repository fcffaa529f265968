------------------------------ MODULE DiffSpecs ------------------------------
(***************************************************************************)
(* diffSpecsTool: the commands that are to turn one MapSpec into another.  *)
(* restoreWorkbenchRevision applies them as one atomic batch and refuses   *)
(* the restore unless they have.                                           *)
(***************************************************************************)
EXTENDS Commands

\* All that a view may say.
ViewMembers == {"mode", "center", "zoom", "bearing", "pitch", "bounds"}

\* What the schemas say of specs and commands besides.
DiffShape(spec) ==
    /\ DOMAIN spec.view \subseteq ViewMembers
    /\ IsFiniteSet(DOMAIN spec.sources)
    /\ Has(spec, "interactions") => spec.interactions # Absent
    /\ \A i \in DOMAIN spec.layers : spec.layers[i].id # Absent

DiffAssumption ==
    /\ \A spec \in Specs : DiffShape(spec)
    /\ \A c \in CommandSet :
           /\ c.type = "setView" => DOMAIN c.value \subseteq ViewMembers
           /\ c.type = "addLayer" => c.value.id # Absent
           /\ c.type \in {"setCapabilities", "setInteractions"} /\ c.member = "interactions" =>
                  c.value # Absent

ASSUME DiffAssumption

(***************************************************************************)
(* What is in one spec and not in the other.                               *)
(***************************************************************************)

DiffSources(before, after) ==
    [added |-> SetToSeq(DOMAIN after \ DOMAIN before),
     removed |-> SetToSeq(DOMAIN before \ DOMAIN after),
     modified |-> SetToSeq({id \in DOMAIN before \cap DOMAIN after : before[id] # after[id]})]

IdsOf(layers) == [i \in DOMAIN layers |-> layers[i].id]

LayerOf(layers, id) == layers[LayerAt(layers, id)]

\* The ids of a list that are in a set, in the order of the list.
Among(ids, set) ==
    FoldLeft(LAMBDA kept, id : IF id \in set THEN Append(kept, id) ELSE kept, << >>, ids)

DiffLayers(before, after) ==
    LET ids(layers) == ToSet(IdsOf(layers)) IN
    [added |-> Among(IdsOf(after), ids(after) \ ids(before)),
     removed |-> Among(IdsOf(before), ids(before) \ ids(after)),
     modified |-> Among(IdsOf(before), {id \in ids(before) \cap ids(after) :
                                           LayerOf(before, id) # LayerOf(after, id)})]

(***************************************************************************)
(* The commands.                                                           *)
(***************************************************************************)

DiffCommand(type, fields) == Merge(fields, [type |-> type, dryRun |-> FALSE, base |-> Absent])

RemoveLayers(ids) == [i \in DOMAIN ids |-> DiffCommand("removeLayer", [id |-> ids[i]])]
RemoveSources(ids) == [i \in DOMAIN ids |-> DiffCommand("removeSource", [id |-> ids[i]])]

AddSources(ids, sources) ==
    [i \in DOMAIN ids |-> DiffCommand("addSource", [id |-> ids[i], value |-> sources[ids[i]]])]

AddLayers(ids, layers) ==
    [i \in DOMAIN ids |->
        DiffCommand("addLayer", [value |-> LayerOf(layers, ids[i]), before |-> Absent])]

\* A layer that is not in its place is put before the one it is to follow, the
\* first one last.
BuildReorderCommands(beforeOrder, afterOrder) ==
    LET common == Among(afterOrder, ToSet(beforeOrder))
        Moved(acc, i) ==
            IF acc.order[i] = common[i] THEN acc
            ELSE [order |-> InsertAt(Remove(acc.order, common[i]), i, common[i]),
                  commands |-> Append(acc.commands,
                      DiffCommand("reorderLayer",
                          [id |-> common[i],
                           before |-> IF i > 1 THEN common[i - 1] ELSE Absent]))]
    IN FoldLeftDomain(Moved,
           [order |-> Among(beforeOrder, ToSet(afterOrder)),
            commands |-> << >>], common).commands

\* A member that is in the old view alone is set to undefined (Absent).
DiffView(before, after) ==
    LET names == {name \in ViewMembers : Member(before, name, Absent) # Member(after, name, Absent)} IN
    IF names = {} THEN << >>
    ELSE <<DiffCommand("setView", [value |-> [name \in names |-> Member(after, name, Absent)]])>>

DiffInteractions(before, after) ==
    IF ~Has(after, "interactions")
       \/ Member(before, "interactions", Absent) = after.interactions
    THEN << >>
    ELSE <<DiffCommand("setInteractions",
               [member |-> "interactions", value |-> after.interactions])>>

\* Mutant of Diff: the sources go before the layers that use them.
DiffSourcesFirst(before, after) ==
    LET sources == DiffSources(before.sources, after.sources)
        layers == DiffLayers(before.layers, after.layers) IN
    RemoveSources(sources.removed) \o RemoveSources(sources.modified)
    \o RemoveLayers(layers.removed) \o RemoveLayers(layers.modified)
    \o AddSources(sources.added, after.sources) \o AddSources(sources.modified, after.sources)
    \o AddLayers(layers.added, after.layers) \o AddLayers(layers.modified, after.layers)
    \o DiffView(before.view, after.view) \o DiffInteractions(before, after)

Diff(before, after) ==
    LET sources == DiffSources(before.sources, after.sources)
        layers == DiffLayers(before.layers, after.layers)
        Surviving(ids, gone) == Among(ids, ToSet(ids) \ ToSet(gone)) IN
    RemoveLayers(layers.removed) \o RemoveLayers(layers.modified)
    \o RemoveSources(sources.removed) \o RemoveSources(sources.modified)
    \o AddSources(sources.added, after.sources) \o AddSources(sources.modified, after.sources)
    \o AddLayers(layers.added, after.layers) \o AddLayers(layers.modified, after.layers)
    \o BuildReorderCommands(Surviving(IdsOf(before.layers), layers.removed),
                            Surviving(IdsOf(after.layers), layers.added))
    \o DiffView(before.view, after.view) \o DiffInteractions(before, after)

(***************************************************************************)
(* Properties.                                                             *)
(***************************************************************************)

\* An atomic batch over a spec, its revisions left out.
RunAtomic(commands, spec) ==
    FoldLeft(LAMBDA acc, c :
                 LET built == BuildPatch(c, acc.spec)
                     next == ApplyJsonPatch(acc.spec, built.patch) IN
                 IF ~acc.ok \/ built.kind = "failed" THEN [acc EXCEPT !.ok = FALSE]
                 ELSE IF built.kind = "skipped" THEN acc
                 ELSE [ok |-> ValidateSpec(next), spec |-> next],
             [ok |-> TRUE, spec |-> spec], commands)

\* What a spec says, but for its revision; what is undefined says nothing.
Meaning(spec) ==
    [Without(spec, "revision") EXCEPT
        !.view = Only(@, {name \in DOMAIN @ : @[name] # Absent})]

Restores(before, after) ==
    LET done == RunAtomic(Diff(before, after), before) IN
    done.ok /\ Meaning(done.spec) = Meaning(after)

\* What the commands can express: nothing but sources, layers, view and toggles is
\* different, and the toggles are not to be taken back.
Expressible(before, after) ==
    LET rest(spec) == Only(spec, DOMAIN spec \ {"sources", "layers", "view",
                                                "interactions", "revision"}) IN
    /\ rest(before) = rest(after)
    /\ Has(before, "interactions") => Has(after, "interactions")

\* No layer moves: the survivors are in the old order, those that change after the
\* others, with the new ones between them.
InPlace(before, after) ==
    LET layers == DiffLayers(before, after)
        survivors == Among(IdsOf(before), ToSet(IdsOf(after)))
        kept == Among(survivors, ToSet(survivors) \ ToSet(layers.modified)) IN
    /\ IdsOf(after) = kept \o layers.added \o layers.modified
    /\ survivors = kept \o layers.modified

\* A source that changes is not that of a layer that stays as it is.
Unused(before, after) ==
    LET changed == DiffSources(before.sources, after.sources).modified
        layers == DiffLayers(before.layers, after.layers) IN
    \A i \in DOMAIN before.layers :
        LET layer == before.layers[i] IN
        Has(layer, "source") /\ Contains(changed, layer.source) =>
            Contains(layers.removed \o layers.modified, layer.id)

\* A new or changed layer that only some views allow is put in under the old view,
\* which is not changed before the layers are.
Timely(before, after) ==
    LET layers == DiffLayers(before.layers, after.layers) IN
    \A id \in ToSet(layers.added) \cup ToSet(layers.modified) :
        LayerOf(after.layers, id).type = "fill-extrusion-lite" => ExtrusionAllowed(before)

\* When an atomic batch has taken effect, the commands of diffSpecsTool turn the
\* spec it has made back into the one it was given, or into one a map began with,
\* exactly when what differs can be expressed, no layer has to move, no source has
\* to be replaced under a layer and no layer has to wait for its view: in every
\* other case the restore is refused.
RestoresWithinReach ==
    ~Running /\ options.atomic /\ answer.committed =>
        \A old \in Specs \cup {given} :
            ValidateSpec(old) =>
                (Restores(current, old) <=>
                    /\ Expressible(current, old)
                    /\ InPlace(current.layers, old.layers)
                    /\ Unused(current, old)
                    /\ Timely(current, old))
=============================================================================
