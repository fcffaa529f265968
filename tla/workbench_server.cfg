CONSTANTS
    Browsers = {b1, b2}
    SourceIds = {s1}
    DataFiles = {f1}
    Urls = {u1}
    Targets = {t1}
    Nothing = Nothing
    MaxRevisions = 4
    MaxPlans = 1
    MaxPreviews = 2
    MaxAttachments = 2
    MaxCalls = 5
    MaxRestarts = 1
    Clients = {c1, c2}
    MapIds = {m1}
    Basemaps = {dark, light}
    DefaultBasemap = dark
    Absent = Absent
    Cap = 2
    MaxRequests = 4
    MaxCrashes = 1
SPECIFICATION ServerSpec
INVARIANTS
    AckedSavesKept
    EveryEditOnItsMap
    SessionHangsTogether
    AttachmentsIntact
    NoStrayData
    PlansApplyAsReviewed
    AnsweredStay
    ExportsAsReviewed
SYMMETRY ServerSymmetry
CHECK_DEADLOCK FALSE
