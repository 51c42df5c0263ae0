------------------------------ MODULE MCManifest ------------------------------
(* Values for the constants of ManifestSpec: manifests with up to two groups, *)
(* and settings of two labels, a plain field and the poll interval.           *)
EXTENDS ManifestSpec

MCStrings == STRING

MCKeys == {"role", "env"}

MCGroups == [name : {"", "g"}, nodeSelector : Labels]

\* A second group asks for nothing, for a role, or for a database server.
MCSecond == [name : {"h"}, nodeSelector : {NoLabels, [k \in {"role"} |-> "web"],
                                           [k \in {"role", "env"} |-> "db"]}]

MCGroupLists == {<<>>} \cup {<<g>> : g \in MCGroups}
                \cup {<<g, h>> : g \in MCGroups, h \in MCSecond}

MCFields   == {"nodeID", "pollInterval"}
MCDefaults == [f \in MCFields |-> IF f = "nodeID" THEN "hostname" ELSE "5s"]
MCFieldValues == [f \in MCFields |-> IF f = "nodeID" THEN {"", "n1"} ELSE {"10s", "soon"}]

\* Well-typed headers with any list of groups, and one manifest for every
\* field that Validate rejects.
MCManifests ==
    LET Header(api, kind, name, repo, playbook, groups) ==
            [apiVersion |-> api, kind |-> kind, name |-> name, repo |-> repo,
             branch |-> "main", playbook |-> playbook, nodeGroups |-> groups]
        One == <<[name |-> "g", nodeSelector |-> [k \in {"role"} |-> "web"]]>>
    IN  {Header(SupportedAPIVersion, SupportedKind, "fleet", "git", "site.yml", gs) :
            gs \in MCGroupLists}
        \cup
        {Header(api, kind, name, repo, playbook, One) :
            api \in {SupportedAPIVersion, "apps/v1"}, kind \in {SupportedKind, "Deployment"},
            name \in {"", "fleet"}, repo \in {"", "git"}, playbook \in {"", "site.yml"}}
=============================================================================
