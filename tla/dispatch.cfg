SPECIFICATION Spec
CONSTANTS
    a1 = a1
    a2 = a2
    Agents = {a1, a2}
    NodeIDs = {"n1", "n2"}
    NodeID <- MCNodeID
    LabelKeys <- MCKeys
    LabelValues <- MCValues
    LabelChoices <- MCRelabelled
    DiskStates <- TwoDisks
    Backends = {"sqlite"}
    MaxDisturbances = 3
    Disturbances = {"sigterm", "othelaCrash", "edit", "readError"}
    Strings <- MCStrings
    NoManifest = NoManifest
    AbsentManifest = AbsentManifest
    BrokenManifest = BrokenManifest
    NoReply = NoReply
    NoJob = NoJob
    NoGroup = NoGroup
INVARIANTS
    JobsMatchLabels
    EnrolledWhilePolling
