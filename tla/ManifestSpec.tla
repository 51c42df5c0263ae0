---------------------------- MODULE ManifestSpec ----------------------------
(***************************************************************************)
(* A manifest facing one node that is configured setting by setting: the   *)
(* environment in which the operators of Manifest and AgentConfig are      *)
(* compared with what their names and comments promise.                    *)
(***************************************************************************)
EXTENDS AgentConfig, FiniteSets

CONSTANTS Manifests,    \* the manifests an operator may write, valid or not
          FieldValues,  \* what a source may say of a field
          MaxSettings   \* bound: settings of all sources

ASSUME ManifestsAssumption == Manifests \subseteq ManifestType /\ MaxSettings \in Nat

VARIABLES manifest,  \* the manifest on the table
          said       \* what each source of the node's configuration says

vars == <<manifest, said>>

config == LoadConfig(said)
labels == ConfiguredLabels(config)

Settings == UNION {{<<s, k>> : k \in DOMAIN said[s]} : s \in Sources}

Init == /\ manifest \in Manifests
        /\ said = [s \in Sources |-> [k \in {} |-> ""]]

\* One source says something of one more field or label.
Configure ==
    /\ Cardinality(Settings) < MaxSettings
    /\ \E s \in Sources : \E k \in Keys \ DOMAIN said[s] :
          \E v \in IF k \in Fields THEN FieldValues[k] ELSE LabelValues :
             said' = [said EXCEPT ![s] = [x \in DOMAIN @ \cup {k} |-> IF x = k THEN v ELSE @[x]]]
    /\ UNCHANGED manifest

Spec == Init /\ [][Configure]_vars

-----------------------------------------------------------------------------
(* A map seen as the set of its pairs, for the textbook meaning of subset. *)
Pairs(f) == {<<k, f[k]>> : k \in DOMAIN f}

\* The comment of MatchNodeGroups (parser.go:34), "all nodeGroups whose
\* nodeSelector is a subset of the given labels", with the one exception the
\* code makes: the empty selector matches nothing instead of everything.
MatchIsSubset ==
    LET l == labels IN
    MatchNodeGroups(manifest, l) =
        {g \in DOMAIN manifest.nodeGroups :
            LET selector == manifest.nodeGroups[g].nodeSelector
            IN  Pairs(selector) # {} /\ Pairs(selector) \subseteq Pairs(l)}

\* The comment of Validate (validation.go:17-20): a manifest that passes
\* cannot silently produce zero matches. Every group of a valid manifest is
\* matched by the node that carries exactly its selector.
ValidIsMatchable ==
    Validate(manifest) =>
        /\ manifest.nodeGroups # <<>>
        /\ \A g \in DOMAIN manifest.nodeGroups :
              g \in MatchNodeGroups(manifest, manifest.nodeGroups[g].nodeSelector)

\* "Should match if agent has more labels" (parser_test.go): a node never loses
\* a group it matched by a setting that overrides none of its labels, whichever
\* source it is made in.
MoreLabelsMatchMore ==
    [][ LET before == labels
            after  == labels'
        IN  Pairs(before) \subseteq Pairs(after)
            => MatchNodeGroups(manifest, before) \subseteq MatchNodeGroups(manifest, after) ]_vars

\* "CLI flags > YAML config > Environment variables > Defaults" (ADR-0001), for
\* every field and for each label by itself: a value is that of the highest source
\* that says anything usable of it, and the provenance names that source.
Rank == [default |-> 0, env |-> 1, file |-> 2, cli |-> 3]

ProvenanceTrue ==
    LET c == config IN
    c # NoConfig =>
        /\ DOMAIN c.from = DOMAIN c.value
        /\ \A k \in Keys, s \in Sources :
              k \in DOMAIN said[s] /\ Counts(k, said[s][k]) =>
                  /\ k \in DOMAIN c.value
                  /\ Rank[c.from[k]] >= Rank[s]
                  /\ c.from[k] = s => c.value[k] = said[s][k]
        /\ \A k \in DOMAIN c.from :
              IF c.from[k] = "default" THEN c.value[k] = Defaults[k]
                                       ELSE k \in DOMAIN said[c.from[k]]

=============================================================================
