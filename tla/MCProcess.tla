------------------------------ MODULE MCProcess ------------------------------
(* Values for the constants of Process: an agent that may be relabelled, and *)
(* a playbook directory that is rewritten.                                   *)
EXTENDS Process

MCStrings == STRING

MCKeys == {"role"}

As(role) == [k \in {"role"} |-> role]

MCNodeID == [a \in Agents |-> "n1"]

MCLabels == {As("web"), As("db")}

Site(branch) ==
    [apiVersion |-> SupportedAPIVersion, kind |-> SupportedKind, name |-> "fleet",
     repo |-> "git", branch |-> branch, playbook |-> "site.yml",
     nodeGroups |-> <<[name |-> "web", nodeSelector |-> As("web")]>>]

Holding(entries) == [state |-> "ok", entries |-> entries]

Playbook(id, manifest) == [id |-> id, manifest |-> manifest, readable |-> TRUE]

\* Two playbooks, one of which is removed as the other moves; nothing readable.
MCDisks ==
    {Holding(<<Playbook("site", Site("main")), Playbook("plain", AbsentManifest)>>),
     Holding(<<Playbook("site", Site("v2"))>>),
     [state |-> "unreadable", entries |-> <<>>]}
=============================================================================
