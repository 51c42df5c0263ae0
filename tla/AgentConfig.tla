----------------------------- MODULE AgentConfig -----------------------------
(***************************************************************************)
(* LoadConfig of cmd/agent: the configuration of an agent, merged from     *)
(* defaults, environment, file and flags, together with the source that    *)
(* supplied each value. Scalar fields and labels are keys alike.           *)
(***************************************************************************)
EXTENDS Manifest

CONSTANTS Fields,     \* the scalar fields, pollInterval among them
          Defaults,   \* their defaults
          Durations,  \* the strings that time.ParseDuration accepts
          NoConfig    \* LoadConfig returns an error

Keys == Fields \cup LabelKeys

Sources == {"env", "file", "cli"}

ASSUME AgentConfigAssumption ==
    /\ "pollInterval" \in Fields /\ Fields \cap LabelKeys = {}
    /\ Defaults \in [Fields -> Strings]
    /\ Defaults["pollInterval"] \in Durations

(* What a source says is a function on the keys it mentions. A field that  *)
(* is mentioned with the empty string is not set, a label is.              *)
Counts(k, v) ==
    CASE k \in LabelKeys     -> TRUE
      [] k = "pollInterval"  -> v \in Durations
      [] OTHER               -> v # ""

\* config with what one source says on top of it.
Override(config, source, said) ==
    LET set == {k \in DOMAIN said : Counts(k, said[k])} IN
    [value |-> [k \in DOMAIN config.value \cup set |->
                  IF k \in set THEN said[k] ELSE config.value[k]],
     from  |-> [k \in DOMAIN config.from \cup set |->
                  IF k \in set THEN source ELSE config.from[k]]]

DefaultConfig == [value |-> Defaults, from |-> [f \in Fields |-> "default"]]

\* An interval that is no duration is ignored in the environment and on the
\* command line; in the file it is an error.
FileAccepted(said) ==
    "pollInterval" \in DOMAIN said => said["pollInterval"] \in Durations \cup {""}

\* Mutant: the environment outranks the file.
LoadConfigEnvOverFile(said) ==
    IF ~FileAccepted(said["file"]) THEN NoConfig
    ELSE Override(Override(Override(DefaultConfig, "file", said["file"]),
                           "env", said["env"]), "cli", said["cli"])

LoadConfig(said) ==
    IF ~FileAccepted(said["file"]) THEN NoConfig
    ELSE Override(Override(Override(DefaultConfig, "env", said["env"]),
                           "file", said["file"]), "cli", said["cli"])

\* The labels an agent with this configuration registers; without one there is
\* no agent.
ConfiguredLabels(config) ==
    IF config = NoConfig THEN NoLabels
    ELSE [k \in DOMAIN config.value \cap LabelKeys |-> config.value[k]]

=============================================================================
