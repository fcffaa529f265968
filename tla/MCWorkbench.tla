---------------------------- MODULE MCWorkbench ----------------------------
(***************************************************************************)
(* The Workbench server: the project requests (ExportService over          *)
(* WorkbenchService) and the session of the Studio (StudioSession over     *)
(* LegacyStore).  They share the process and no state, so a behaviour      *)
(* exercises one of them and leaves the other as it was.                   *)
(***************************************************************************)
EXTENDS ExportService, StudioSession

VARIABLE front      \* the one that gets the requests

sessionSide == <<storeVars, sessionVars>>
projectSide == <<serviceVars, exportVars>>

ServerInit ==
    /\ front \in {"session", "project"}
    /\ SessionInit /\ ServiceInit /\ ExportInit

ServerNext ==
    /\ UNCHANGED front
    /\ \/ front = "session" /\ SessionNext /\ UNCHANGED projectSide
       \/ front = "project" /\ ExportNext /\ UNCHANGED sessionSide

ServerSpec == ServerInit /\ [][ServerNext]_<<front, sessionSide, projectSide>>

ServerSymmetry ==
    Permutations(Clients) \cup Permutations(Browsers)
    \cup Permutations(Basemaps \ {DefaultBasemap})
=============================================================================
