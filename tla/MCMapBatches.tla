---------------------------- MODULE MCMapBatches ----------------------------
(***************************************************************************)
(* Two maps and the commands that meet on them, for MapLibreAdapter.       *)
(***************************************************************************)
EXTENDS MapLibreAdapter, DiffSpecs

\* A map of the plane whose revision has never been set.
PlainMap ==
    [view |-> [mode |-> "map2d", center |-> "c1", zoom |-> 3],
     sources |-> [s1 |-> [type |-> "geojson", data |-> "d1"]],
     layers |-> <<[id |-> "a", type |-> "fill", source |-> "s1", paint |-> [color |-> "red"]],
                  [id |-> "b", type |-> "background"]>>]

\* A map with a scene beside it, two revisions from the last.
SceneMap ==
    [view |-> [mode |-> "map2_5d", bearing |-> 1],
     sources |-> [s1 |-> [type |-> "pmtiles", url |-> "u1"]],
     layers |-> <<[id |-> "b", type |-> "background", paint |-> [color |-> "red"]],
                  [id |-> "a", type |-> "fill-extrusion-lite", source |-> "s1", filter |-> "f1"]>>,
     capabilities |-> [experimental |-> {"fill-extrusion-lite"}],
     extensions |-> [scene3d |-> [camera |-> "near", sources |-> [m1 |-> "model"]]],
     revision |-> 2]

MCSpecs == {PlainMap, SceneMap}

MCBatchSizes == <<1, 2, 1>>

Command(type, fields) == Merge(fields, [type |-> type, dryRun |-> FALSE, base |-> Absent])
Paint(id, value) == [id |-> id, member |-> "paint", value |-> value]
Tower == [id |-> "e", type |-> "fill-extrusion-lite", source |-> "s1"]

MCCommandSet ==
    {Command("addSource", [id |-> "s2", value |-> [type |-> "geojson", data |-> "d2"]]),
     Command("addSource", [id |-> "s3", value |-> [type |-> "flatgeobuf", url |-> "u3"]]),
     Command("removeSource", [id |-> "s2"]),
     Command("addLayer", [value |-> [id |-> "c", type |-> "symbol-lite", source |-> "s2"],
                          before |-> "b"]),
     Command("addLayer", [value |-> Tower, before |-> Absent]),
     Command("removeLayer", [id |-> "a"]),
     Command("setPaint", Paint("a", [color |-> "blue", width |-> "wide"])),
     Command("setPaint", Paint("c", [color |-> "blocked"])),
     [Command("setPaint", Paint("a", [color |-> "green"])) EXCEPT !.dryRun = TRUE],
     Command("setFilter", [id |-> "a", value |-> "f2"]),
     Command("setFilter", [id |-> "a", value |-> Absent]),
     Command("setLayerZoomRange", [id |-> "b", minzoom |-> 2, maxzoom |-> 5]),
     Command("reorderLayer", [id |-> "a", before |-> Absent]),
     [Command("setView", [value |-> [zoom |-> 5]]) EXCEPT !.base = 1],
     Command("setView", [value |-> [mode |-> "map2d"]]),
     Command("fitBounds", [value |-> "box"]),
     Command("setInteractions", [member |-> "interactions", value |-> [pan |-> FALSE]]),
     Command("setCapabilities", [member |-> "capabilities",
                                 value |-> [dimensions |-> {"2_5d"},
                                            experimental |-> {"fill-extrusion-lite"}]]),
     Command("setSceneCamera", [value |-> "far"]),
     Command("addSceneSource", [id |-> "m2", value |-> "model"]),
     Command("addSceneLayer", [value |-> [id |-> "l", type |-> "model", source |-> "m2"]]),
     Command("removeSceneSource", [id |-> "m2"]),
     Command("removeSceneLayer", [id |-> "l"]),
     Command("setSceneLayerVisibility", [id |-> "l", value |-> FALSE])}
=============================================================================
