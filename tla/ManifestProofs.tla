--------------------------- MODULE ManifestProofs ---------------------------
(***************************************************************************)
(* Matching and configuration, for every manifest, every set of labels and *)
(* everything the sources of a configuration may say.                      *)
(***************************************************************************)
EXTENDS ManifestSpec, TLAPS

-----------------------------------------------------------------------------
(* Matching. Go reads a missing label as the empty string: where no label  *)
(* is empty, a selector is met only by labels that are there.              *)

LEMMA LookupPresent ==
    ASSUME NEW l, NEW k \in DOMAIN l
    PROVE  Lookup(l, k) = l[k]
BY Zenon DEF Lookup

LEMMA LookupMissing ==
    ASSUME NoEmptyLabel, NEW l, NEW k, k \notin DOMAIN l
    PROVE  Lookup(l, k) \notin LabelValues
BY Zenon DEF Lookup, NoEmptyLabel

LEMMA SelectorValues ==
    ASSUME NEW selector \in Labels, NEW k \in DOMAIN selector
    PROVE  selector[k] \in LabelValues
BY DEF Labels

LEMMA SubsetOfPairs ==
    ASSUME NoEmptyLabel, NEW selector \in Labels, NEW l
    PROVE  isSubset(selector, l) <=> Pairs(selector) # {} /\ Pairs(selector) \subseteq Pairs(l)
<1>1. Pairs(selector) # {} <=> DOMAIN selector # {}
  BY DEF Pairs
<1>2. ASSUME NEW k \in DOMAIN selector
      PROVE  Lookup(l, k) = selector[k] <=> <<k, selector[k]>> \in Pairs(l)
  <2>1. CASE k \in DOMAIN l
    BY <2>1, LookupPresent DEF Pairs
  <2>2. CASE k \notin DOMAIN l
    <3>1. Lookup(l, k) # selector[k]
      BY <2>2, LookupMissing, SelectorValues
    <3> QED
      BY <2>2, <3>1 DEF Pairs
  <2> QED
    BY <2>1, <2>2
<1>3. Pairs(selector) \subseteq Pairs(l) <=>
          \A k \in DOMAIN selector : <<k, selector[k]>> \in Pairs(l)
  BY DEF Pairs
<1> QED
  BY <1>1, <1>2, <1>3 DEF isSubset

LEMMA GroupSelector ==
    ASSUME NEW m \in ManifestType, NEW g \in DOMAIN m.nodeGroups
    PROVE  m.nodeGroups[g].nodeSelector \in Labels
<1>1. m.nodeGroups \in Seq(NodeGroup)
  BY DEF ManifestType
<1>2. m.nodeGroups[g] \in NodeGroup
  BY <1>1
<1> QED
  BY <1>2 DEF NodeGroup

LEMMA MatchedGroups ==
    ASSUME NoEmptyLabel, NEW m \in ManifestType, NEW l
    PROVE  MatchNodeGroups(m, l) =
               {g \in DOMAIN m.nodeGroups :
                   /\ Pairs(m.nodeGroups[g].nodeSelector) # {}
                   /\ Pairs(m.nodeGroups[g].nodeSelector) \subseteq Pairs(l)}
BY GroupSelector, SubsetOfPairs DEF MatchNodeGroups

ManifestTyped == manifest \in ManifestType

LEMMA ManifestStays == Spec => []ManifestTyped
<1>1. Init => ManifestTyped
  BY ManifestsAssumption DEF Init, ManifestTyped
<1>2. ManifestTyped /\ [Configure]_vars => ManifestTyped'
  BY DEF ManifestTyped, Configure, vars
<1> QED
  BY <1>1, <1>2, PTL DEF Spec

\* MatchNodeGroups returns "all nodeGroups whose nodeSelector is a subset of the
\* given labels" (parser.go:34) and is not empty, whatever the labels are.
THEOREM MatchCorrect ==
    ASSUME NoEmptyLabel
    PROVE  Spec => []MatchIsSubset
<1>1. ManifestTyped => MatchIsSubset
  BY MatchedGroups DEF ManifestTyped, MatchIsSubset
<1> QED
  BY <1>1, ManifestStays, PTL

\* A node whose labels become more matches all that it matched.
THEOREM MatchMonotone ==
    ASSUME NoEmptyLabel
    PROVE  Spec => MoreLabelsMatchMore
<1>1. ManifestTyped /\ [Configure]_vars =>
          [ LET before == labels
                after  == labels'
            IN  Pairs(before) \subseteq Pairs(after)
                => MatchNodeGroups(manifest, before) \subseteq MatchNodeGroups(manifest, after)
          ]_vars
  BY MatchedGroups DEF ManifestTyped
<1> QED
  BY <1>1, ManifestStays, PTL DEF Spec, MoreLabelsMatchMore

-----------------------------------------------------------------------------
(* Validation.                                                             *)

LEMMA ValidGroup ==
    ASSUME NEW group, validateNodeGroup(group)
    PROVE  DOMAIN group.nodeSelector # {}
BY Zenon DEF validateNodeGroup

\* A manifest that Validate lets through matches some node: each of its groups is
\* matched by the labels its selector asks for, empty values included.
THEOREM ValidMatches == Spec => []ValidIsMatchable
<1>1. ValidIsMatchable
  <2> SUFFICES ASSUME Validate(manifest)
               PROVE  /\ manifest.nodeGroups # <<>>
                      /\ \A g \in DOMAIN manifest.nodeGroups :
                            isSubset(manifest.nodeGroups[g].nodeSelector,
                                     manifest.nodeGroups[g].nodeSelector)
    BY DEF ValidIsMatchable, MatchNodeGroups
  <2>1. validateNodeGroups(manifest.nodeGroups)
    BY Zenon DEF Validate
  <2>2. /\ manifest.nodeGroups # <<>>
        /\ \A g \in DOMAIN manifest.nodeGroups :
              DOMAIN manifest.nodeGroups[g].nodeSelector # {}
    BY <2>1, ValidGroup DEF validateNodeGroups
  <2> QED
    BY <2>2, LookupPresent DEF isSubset
<1> QED
  BY <1>1, PTL

-----------------------------------------------------------------------------
(* Configuration. A value is that of the last source, in the order they    *)
(* are applied, that says something usable of its key.                     *)

\* What a source says of k counts.
Says(s, k) == k \in DOMAIN said[s] /\ Counts(k, said[s][k])

LEMMA OverrideEffect ==
    ASSUME NEW c, DOMAIN c.from = DOMAIN c.value, NEW s
    PROVE  LET o == Override(c, s, said[s]) IN
           /\ DOMAIN o.from = DOMAIN o.value
           /\ \A k : k \in DOMAIN o.value <=> k \in DOMAIN c.value \/ Says(s, k)
           /\ \A k \in DOMAIN o.value :
                 IF Says(s, k)
                 THEN o.from[k] = s /\ o.value[k] = said[s][k]
                 ELSE k \in DOMAIN c.value /\ o.from[k] = c.from[k] /\ o.value[k] = c.value[k]
BY DEF Override, Says

\* CLI flags over the file over the environment over the defaults, key by key.
THEOREM ProvenanceCorrect == Spec => []ProvenanceTrue
<1>1. ProvenanceTrue
  <2> DEFINE d == DefaultConfig
             e == Override(d, "env", said["env"])
             f == Override(e, "file", said["file"])
             c == Override(f, "cli", said["cli"])
  <2> SUFFICES ASSUME config # NoConfig
               PROVE  /\ DOMAIN config.from = DOMAIN config.value
                      /\ \A k \in Keys, s \in Sources :
                            Says(s, k) =>
                              /\ k \in DOMAIN config.value
                              /\ Rank[config.from[k]] >= Rank[s]
                              /\ config.from[k] = s => config.value[k] = said[s][k]
                      /\ \A k \in DOMAIN config.from :
                            IF config.from[k] = "default"
                            THEN config.value[k] = Defaults[k]
                            ELSE k \in DOMAIN said[config.from[k]]
    BY DEF ProvenanceTrue, Says
  <2>1. config = c
    BY DEF config, LoadConfig
  <2>2. /\ DOMAIN d.from = DOMAIN d.value
        /\ \A k \in DOMAIN d.value : d.from[k] = "default" /\ d.value[k] = Defaults[k]
    BY AgentConfigAssumption DEF DefaultConfig
  <2> HIDE DEF d
  <2>3. /\ DOMAIN e.from = DOMAIN e.value
        /\ \A k : k \in DOMAIN e.value <=> k \in DOMAIN d.value \/ Says("env", k)
        /\ \A k \in DOMAIN e.value :
              IF Says("env", k)
              THEN e.from[k] = "env" /\ e.value[k] = said["env"][k]
              ELSE k \in DOMAIN d.value /\ e.from[k] = d.from[k] /\ e.value[k] = d.value[k]
    BY <2>2, OverrideEffect
  <2> HIDE DEF e
  <2>4. /\ DOMAIN f.from = DOMAIN f.value
        /\ \A k : k \in DOMAIN f.value <=> k \in DOMAIN e.value \/ Says("file", k)
        /\ \A k \in DOMAIN f.value :
              IF Says("file", k)
              THEN f.from[k] = "file" /\ f.value[k] = said["file"][k]
              ELSE k \in DOMAIN e.value /\ f.from[k] = e.from[k] /\ f.value[k] = e.value[k]
    BY <2>3, OverrideEffect
  <2> HIDE DEF f
  <2>5. /\ DOMAIN c.from = DOMAIN c.value
        /\ \A k : k \in DOMAIN c.value <=> k \in DOMAIN f.value \/ Says("cli", k)
        /\ \A k \in DOMAIN c.value :
              IF Says("cli", k)
              THEN c.from[k] = "cli" /\ c.value[k] = said["cli"][k]
              ELSE k \in DOMAIN f.value /\ c.from[k] = f.from[k] /\ c.value[k] = f.value[k]
    BY <2>4, OverrideEffect
  <2> HIDE DEF c
  <2>6. /\ Rank["default"] = 0 /\ Rank["env"] = 1 /\ Rank["file"] = 2 /\ Rank["cli"] = 3
    BY DEF Rank
  <2>7. ASSUME NEW k, NEW s \in Sources, Says(s, k)
        PROVE  /\ k \in DOMAIN c.value
               /\ Rank[c.from[k]] >= Rank[s]
               /\ c.from[k] = s => c.value[k] = said[s][k]
    BY <2>3, <2>4, <2>5, <2>6, <2>7 DEF Sources
  <2>8. ASSUME NEW k \in DOMAIN c.from
        PROVE  IF c.from[k] = "default" THEN c.value[k] = Defaults[k]
                                        ELSE k \in DOMAIN said[c.from[k]]
    BY <2>2, <2>3, <2>4, <2>5, <2>8 DEF Says
  <2> QED
    BY <2>1, <2>5, <2>7, <2>8
<1> QED
  BY <1>1, PTL

=============================================================================
