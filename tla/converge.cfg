SPECIFICATION FairSpec
CONSTANTS
    a1 = a1
    a2 = a2
    Agents = {a1, a2}
    NodeIDs = {"n1", "n2"}
    NodeID <- MCNodeID
    LabelKeys <- MCKeys
    LabelValues <- MCValues
    LabelChoices <- MCLabels
    DiskStates <- TwoDisks
    Backends = {"sqlite"}
    MaxDisturbances = 2
    Disturbances = {"timeout", "agentCrash", "sigterm", "failure", "othelaCrash", "edit", "readError"}
    Strings <- MCStrings
    NoManifest = NoManifest
    AbsentManifest = AbsentManifest
    BrokenManifest = BrokenManifest
    NoReply = NoReply
    NoJob = NoJob
    NoGroup = NoGroup
INVARIANT
    AckedReportsDurable
PROPERTIES
    LedgerKept
    EventuallyConverged
    CancelledStops
