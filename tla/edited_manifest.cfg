SPECIFICATION FairSpec
CONSTANTS
    a1 = a1
    a2 = a2
    Agents = {a1}
    NodeIDs = {"n1", "n2"}
    NodeID <- MCNodeID
    LabelKeys <- MCKeys
    LabelValues <- MCValues
    LabelChoices <- MCLabels
    DiskStates <- TwoBranches
    Backends = {"sqlite"}
    MaxDisturbances = 2
    Disturbances = {"othelaCrash", "edit"}
    Strings <- MCStrings
    NoManifest = NoManifest
    AbsentManifest = AbsentManifest
    BrokenManifest = BrokenManifest
    NoReply = NoReply
    NoJob = NoJob
    NoGroup = NoGroup
PROPERTY
    EventuallyReconciled
