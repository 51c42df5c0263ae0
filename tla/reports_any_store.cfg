SPECIFICATION Spec
CONSTANTS
    a1 = a1
    a2 = a2
    Agents = {a1}
    NodeIDs = {"n1", "n2"}
    NodeID <- MCNodeID
    LabelKeys <- MCKeys
    LabelValues <- MCValues
    LabelChoices <- MCLabels
    DiskStates <- AllDisks
    Backends = {"sqlite", "memory"}
    MaxDisturbances = 3
    Disturbances = {"timeout", "agentCrash", "sigterm", "failure", "othelaCrash", "edit", "registerError", "saveError", "readError"}
    Strings <- MCStrings
    NoManifest = NoManifest
    AbsentManifest = AbsentManifest
    BrokenManifest = BrokenManifest
    NoReply = NoReply
    NoJob = NoJob
    NoGroup = NoGroup
INVARIANTS
    TypeOK
    ReportsFaithful
    OvertakenOnlyIfGivenUp
    SucceededJobNotRerun
