------------------------------ MODULE Manifest ------------------------------
(***************************************************************************)
(* pkg/manifest: the helvilette.yml format, its validation, and the match  *)
(* of a manifest's node groups against the labels of a node.               *)
(*                                                                         *)
(* Strings stay strings, because the code gives one of them a meaning: ""  *)
(* is both "the field is missing" and Go's zero value of a map read.       *)
(***************************************************************************)
EXTENDS Naturals, Sequences

CONSTANTS Strings,      \* the strings of manifests, playbooks and jobs
          LabelKeys,    \* keys of node labels and of node selectors
          LabelValues,  \* their values, a set of strings
          NoManifest    \* the nil *manifest.Manifest

ASSUME StringsAssumption == "" \in Strings

\* Labels and selectors are Go maps: functions on the keys that are present.
Labels == UNION {[K -> LabelValues] : K \in SUBSET LabelKeys}

NoLabels == [k \in {} |-> ""]

\* What the theorems about matching suppose: no label has the value that Go also
\* reads for a key that is missing.
NoEmptyLabel == "" \notin LabelValues

\* spec.nodeGroups[i]; ansible.extra_vars is carried along with the group.
NodeGroup == [name : Strings, nodeSelector : Labels]

ManifestType ==
    [apiVersion : Strings, kind : Strings, name : Strings, repo : Strings,
     branch : Strings, playbook : Strings, nodeGroups : Seq(NodeGroup)]

-----------------------------------------------------------------------------
(* Matching.                                                               *)

\* labels[k] in Go: a missing key reads as the empty string.
Lookup(labels, k) == IF k \in DOMAIN labels THEN labels[k] ELSE ""

\* Mutants of isSubset: the guard on the empty selector dropped, and the two
\* arguments of the call swapped.
isSubsetNoGuard(selector, labels) ==
    \A k \in DOMAIN selector : Lookup(labels, k) = selector[k]
isSubsetSwapped(selector, labels) ==
    /\ DOMAIN labels # {}
    /\ \A k \in DOMAIN labels : Lookup(selector, k) = labels[k]

isSubset(selector, labels) ==
    /\ DOMAIN selector # {}
    /\ \A k \in DOMAIN selector : Lookup(labels, k) = selector[k]

\* MatchNodeGroups returns the matching groups in the order of the manifest;
\* the set of their positions carries the same information.
MatchNodeGroups(manifest, labels) ==
    {g \in DOMAIN manifest.nodeGroups :
        isSubset(manifest.nodeGroups[g].nodeSelector, labels)}

-----------------------------------------------------------------------------
(* Validation: each definition says when its Go namesake returns nil.      *)

SupportedAPIVersion == "helvilette.io/v1alpha1"
SupportedKind       == "PlaybookDeployment"

validateTypeMeta(m) ==
    /\ m.apiVersion = SupportedAPIVersion
    /\ m.kind = SupportedKind

validateSpec(m) ==
    /\ m.repo # ""
    /\ m.playbook # ""

\* Mutant: the empty nodeSelector is let through.
validateNodeGroupNameOnly(group) == group.name # ""

validateNodeGroup(group) ==
    /\ group.name # ""
    /\ DOMAIN group.nodeSelector # {}

validateNodeGroups(groups) ==
    /\ groups # <<>>
    /\ \A g \in DOMAIN groups : validateNodeGroup(groups[g])

Validate(m) ==
    /\ validateTypeMeta(m)
    /\ m.name # ""
    /\ validateSpec(m)
    /\ validateNodeGroups(m.nodeGroups)

=============================================================================
