SPECIFICATION Spec
CONSTANTS
    Agents = {a1}
    Viewers = {v1, v2}
    NodeIDs = {"n1"}
    NodeID <- MCNodeID
    LabelKeys <- MCKeys
    LabelValues = {"web", "db"}
    LabelChoices <- MCLabels
    DiskStates <- MCDisks
    Backends = {"sqlite"}
    MaxRequests = 3
    MaxDisturbances = 2
    Disturbances = {"timeout", "othelaCrash", "edit", "registerError", "saveError", "readError"}
    Strings <- MCStrings
    NoManifest = NoManifest
    AbsentManifest = AbsentManifest
    BrokenManifest = BrokenManifest
    NoReply = NoReply
    NoJob = NoJob
    NoGroup = NoGroup
INVARIANTS
    DrainOrder
    ListingFaithful
PROPERTIES
    AtomicHandlers
    SignalledStops
CHECK_DEADLOCK FALSE
