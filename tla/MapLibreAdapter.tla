--------------------------- MODULE MapLibreAdapter ---------------------------
(***************************************************************************)
(* MapLibreAdapter under a MapRuntime: the patches of a committed batch    *)
(* reach a live map either one operation at a time (styleDiff.ts) or as a  *)
(* whole new style (transformer.ts), and a patch that fails is followed by *)
(* a reload of the last committed spec.                                    *)
(*                                                                         *)
(* The map of the MapLibre library is external: what it shows is a record  *)
(* of its sources, its layers, its camera and its interaction toggles.     *)
(***************************************************************************)
EXTENDS Commands

VARIABLES
    mapSpec,        \* MapRuntime.#spec, the last committed one
    adapterSpec,    \* MapLibreAdapter.#spec
    style,          \* #style
    map,            \* #map, or Absent
    phase,          \* where the runtime stands
    loaded          \* history: no patch of the view has come since the last load

adapterVars == <<mapSpec, adapterSpec, style, map, phase, loaded>>

(***************************************************************************)
(* transformMapSpecToMapLibreStyle                                         *)
(***************************************************************************)

\* Sources a MapSpec may have but the transformer has no runtime for.
RuntimeBlocked == {"flatgeobuf", "geoparquet", "geotiff"}

SourceFields(type) ==
    CASE type = "geojson" -> {"type", "data"}
      [] type = "raster" -> {"type", "tiles", "tileSize"}
      [] type = "vector" -> {"type", "tiles", "url", "minzoom", "maxzoom", "attribution"}

TransformSource(source) ==
    IF source.type = "pmtiles" THEN [type |-> "vector", url |-> source.url]
    ELSE Only(source, SourceFields(source.type))

MapLayerType(type) ==
    CASE type = "symbol-lite" -> "symbol"
      [] type = "fill-extrusion-lite" -> "fill-extrusion"
      [] OTHER -> type

TransformLayer(layer) ==
    With(Only(layer, {"id", "filter", "minzoom", "maxzoom", "layout", "paint"} \cup
                     (IF layer.type = "background" THEN {} ELSE {"source"})),
         "type", MapLayerType(layer.type))

Transformable(spec) ==
    /\ ValidateSpec(spec)
    /\ \A id \in DOMAIN spec.sources : spec.sources[id].type \notin RuntimeBlocked

CameraMembers == {"center", "zoom", "bearing", "pitch"}

StyleOf(spec) ==
    [sources |-> [id \in DOMAIN spec.sources |-> TransformSource(spec.sources[id])],
     layers |-> [i \in DOMAIN spec.layers |-> TransformLayer(spec.layers[i])],
     camera |-> Only(spec.view, CameraMembers)]

(***************************************************************************)
(* The live map.                                                           *)
(***************************************************************************)

Toggles(spec) == Member(spec, "interactions", << >>)

NewMap(spec) ==
    [sources |-> StyleOf(spec).sources, layers |-> StyleOf(spec).layers,
     camera |-> Merge(StyleOf(spec).camera,
                      [center |-> "origin", zoom |-> 0, bearing |-> 0, pitch |-> 0]),
     toggles |-> Toggles(spec)]

\* The library keeps a source that a layer uses.
RemoveSourceFrom(m, id) ==
    IF \E i \in DOMAIN m.layers : Has(m.layers[i], "source") /\ m.layers[i].source = id THEN m
    ELSE [m EXCEPT !.sources = Without(@, id)]

\* It calls on a layer by its id, whatever its position.
WithLayer(m, id, Change(_)) ==
    [m EXCEPT !.layers = [i \in DOMAIN @ |-> IF @[i].id = id THEN Change(@[i]) ELSE @[i]]]

\* A view given by its bounds alone.
FitsBounds(view) == Has(view, "bounds") /\ DOMAIN view \cap {"center", "zoom"} = {}

\* fitBounds for such a view, jumpTo for any other.
SynchronizeView(m, view) ==
    [m EXCEPT !.camera =
        IF FitsBounds(view)
        THEN With(Merge(Only(view, {"bearing", "pitch"}), Only(@, {"bearing", "pitch"})),
                  "bounds", view.bounds)
        ELSE Merge(Only(view, CameraMembers), @)]

(***************************************************************************)
(* applyIncrementalPatch: one operation after the other, each with the     *)
(* values of the final spec, as long as each is handled.                   *)
(***************************************************************************)

\* An operation that puts a layer in, takes one out or replaces one.
Structural(patch) ==
    \E i \in DOMAIN patch : patch[i].path[1] = "layers" /\ Len(patch[i].path) = 2

Touches(patch, member) == \E i \in DOMAIN patch : patch[i].path[1] = member

Refused(m) == [handled |-> FALSE, map |-> m]
Handled(m) == [handled |-> TRUE, map |-> m]

SourceOperation(m, o, spec) ==
    LET id == o.path[2]
        emptied == RemoveSourceFrom(m, id) IN
    IF o.op = "remove" THEN Handled(emptied)
    ELSE IF \/ ~Has(spec.sources, id)
            \/ spec.sources[id].type \notin {"geojson", "raster", "vector"}
    THEN Refused(m)
    ELSE IF Has(emptied.sources, id) THEN Refused(emptied)
    ELSE Handled([emptied EXCEPT !.sources =
                     With(@, id, TransformSource(spec.sources[id]))])

LayerOperation(m, o, spec) ==
    LET layer == spec.layers[o.path[2]]
        member == o.path[3]
        SetProperty(l) ==
            With(l, member, With(Member(l, member, << >>), o.path[4],
                                 layer[member][o.path[4]]))
        SetFilterOf(l) ==
            IF Has(layer, "filter") THEN With(l, "filter", layer.filter)
            ELSE Without(l, "filter") IN
    IF o.path[2] \notin DOMAIN spec.layers THEN Refused(m)
    ELSE CASE Len(o.path) = 4 /\ member \in {"paint", "layout"} ->
                  Handled(WithLayer(m, layer.id, SetProperty))
           [] Len(o.path) = 3 /\ member = "filter" ->
                  Handled(WithLayer(m, layer.id, SetFilterOf))
           [] OTHER -> Refused(m)

IncrementalOperation(m, o, spec) ==
    CASE o.path[1] \in {"view", "interactions", "revision"} -> Handled(m)
      [] o.path[1] = "sources" -> SourceOperation(m, o, spec)
      [] o.path[1] = "layers" -> LayerOperation(m, o, spec)
      [] OTHER -> Refused(m)

ApplyIncrementalPatch(m, patch, spec) ==
    LET done == FoldLeft(LAMBDA acc, o :
                             IF acc.handled THEN IncrementalOperation(acc.map, o, spec) ELSE acc,
                         Handled(m), patch) IN
    IF m = Absent \/ Structural(patch) THEN Refused(m)
    ELSE IF done.handled /\ Touches(patch, "view")
    THEN Handled(SynchronizeView(done.map, spec.view))
    ELSE done

\* Mutant of Rebuilt: a view that changed along with the layers is forgotten.
RebuiltWithoutView(m, patch, spec) ==
    IF m = Absent THEN Absent
    ELSE [m EXCEPT !.sources = StyleOf(spec).sources, !.layers = StyleOf(spec).layers,
                   !.toggles = Toggles(spec)]

\* setStyle, which leaves the camera alone.
Rebuilt(m, patch, spec) ==
    LET restyled == [m EXCEPT !.sources = StyleOf(spec).sources,
                              !.layers = StyleOf(spec).layers,
                              !.toggles = Toggles(spec)] IN
    IF m = Absent THEN Absent
    ELSE IF Touches(patch, "view") THEN SynchronizeView(restyled, spec.view)
    ELSE restyled

Toggled(m, patch, spec) ==
    IF Touches(patch, "interactions") THEN [m EXCEPT !.toggles = Toggles(spec)] ELSE m

(***************************************************************************)
(* The runtime and its adapter.                                            *)
(***************************************************************************)

\* MapRuntime.create loads the first spec, whose transformation must succeed.
AdapterInit ==
    /\ BatchInit
    /\ Transformable(given)
    /\ mapSpec = given
    /\ adapterSpec = given
    /\ style = StyleOf(given)
    /\ map = Absent
    /\ phase = "importing"
    /\ loaded = TRUE

\* #instantiateMap: maplibre-gl has been imported, or it could not be, or there
\* is no container: the adapter then goes on without a map. The constructor is
\* given no bounds.
InstantiateMap ==
    /\ phase = "importing"
    /\ map' \in {Absent, NewMap(adapterSpec)}
    /\ phase' = IF Running THEN "applying" ELSE "idle"
    /\ loaded' = TRUE
    /\ UNCHANGED <<batchVars, mapSpec, adapterSpec, style>>

\* The patches of the commands that took effect.
CommittedPatch ==
    IF answer.committed
    THEN FoldLeft(LAMBDA all, r : IF r.dryRun THEN all ELSE all \o r.patch, << >>, results)
    ELSE << >>

RunBatch == phase = "applying" /\ Running /\ BatchStep /\ UNCHANGED adapterVars

NothingToPatch ==
    /\ phase = "applying" /\ ~Running /\ CommittedPatch = << >>
    /\ phase' = "idle"
    /\ UNCHANGED <<batchVars, mapSpec, adapterSpec, style, map, loaded>>

\* adapter.applyPatch, which runs to its end at once: adapterSpec moves first,
\* the map is changed in place, and a spec that cannot be transformed is an error.
ApplyPatch ==
    LET patch == CommittedPatch
        spec == ApplyJsonPatch(adapterSpec, patch)
        step == ApplyIncrementalPatch(map, patch, spec) IN
    /\ phase = "applying" /\ ~Running /\ patch # << >>
    /\ adapterSpec' = spec
    /\ loaded' = (loaded /\ ~Touches(patch, "view"))
    /\ IF Transformable(spec)
       THEN /\ style' = StyleOf(spec)
            /\ map' = IF step.handled THEN Toggled(step.map, patch, spec)
                      ELSE Rebuilt(step.map, patch, spec)
            /\ mapSpec' = answer.spec
            /\ phase' = "idle"
       ELSE /\ map' = step.map
            /\ phase' = "reloading"
            /\ UNCHANGED <<style, mapSpec>>
    /\ UNCHANGED batchVars

\* load of the last committed spec: the old map is torn down before the import.
Reload ==
    /\ phase = "reloading"
    /\ adapterSpec' = mapSpec
    /\ style' = StyleOf(mapSpec)
    /\ map' = Absent
    /\ phase' = "importing"
    /\ UNCHANGED <<batchVars, mapSpec, loaded>>

NextBatch ==
    /\ phase = "idle"
    /\ NewBatch(mapSpec)
    /\ phase' = "applying"
    /\ UNCHANGED <<mapSpec, adapterSpec, style, map, loaded>>

Destroy ==
    /\ phase = "idle"
    /\ adapterSpec' = Absent /\ style' = Absent /\ map' = Absent
    /\ phase' = "destroyed"
    /\ UNCHANGED <<batchVars, mapSpec, loaded>>

AdapterNext ==
    \/ InstantiateMap
    \/ RunBatch
    \/ NothingToPatch
    \/ ApplyPatch
    \/ Reload
    \/ NextBatch
    \/ Destroy

AdapterSpec == AdapterInit /\ [][AdapterNext]_<<batchVars, adapterVars>>

(***************************************************************************)
(* Properties.                                                             *)
(***************************************************************************)

Shows(m, spec) ==
    /\ m.sources = StyleOf(spec).sources
    /\ m.layers = StyleOf(spec).layers
    /\ m.toggles = Toggles(spec)
    /\ \A name \in CameraMembers \cap DOMAIN spec.view : m.camera[name] = spec.view[name]

\* A camera that was fitted to the bounds of a view which gives nothing else.
Fitted(camera, view) ==
    FitsBounds(view) => /\ Has(camera, "bounds") /\ camera.bounds = view.bounds
                        /\ DOMAIN camera \cap {"center", "zoom"} = {}

\* Between two batches the adapter holds the committed spec, the style it hands
\* out is that spec's, and a live map shows it: the same sources, the same layers
\* in the same order with the same properties, the toggles, and a camera at every
\* center, zoom, bearing and pitch the view gives -- whether the patches went in
\* one operation at a time, by a whole style, or failed half way and were followed
\* by a reload. A view given by its bounds alone is fitted to, with one exception
\* that is the code's: load hands the library no bounds (adapter.ts:343-352), so
\* after the first load, or the reload after a failed patch, the map stands at
\* the origin until a patch touches the view.
MapShowsSpec ==
    phase = "idle" =>
        /\ adapterSpec = mapSpec
        /\ style = StyleOf(mapSpec)
        /\ map # Absent =>
               /\ Shows(map, mapSpec)
               /\ ~loaded => Fitted(map.camera, mapSpec.view)
=============================================================================
