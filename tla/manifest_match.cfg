SPECIFICATION Spec
CONSTANTS
    Strings <- MCStrings
    NoManifest = NoManifest
    LabelKeys <- MCKeys
    LabelValues = {"web", "db"}
    Manifests <- MCManifests
    Fields <- MCFields
    Defaults <- MCDefaults
    Durations = {"5s", "10s"}
    FieldValues <- MCFieldValues
    NoConfig = NoConfig
    MaxSettings = 3
INVARIANTS
    MatchIsSubset
    ValidIsMatchable
    ProvenanceTrue

    
CHECK_DEADLOCK FALSE
