----------------------------- MODULE MCHelvilette -----------------------------
(* Values for the constants of Helvilette: a web node and a db node, and the *)
(* playbook directories an operator moves between.                           *)
EXTENDS Helvilette

CONSTANTS a1, a2

MCStrings == STRING

MCKeys   == {"role", "env"}
MCValues == {"web", "db"}

Web == [k \in {"role"} |-> "web"]
Db  == [k \in {"role"} |-> "db"]
WebInDb == [k \in {"role", "env"} |-> IF k = "role" THEN "web" ELSE "db"]

MCNodeID == [a \in Agents |-> IF a = a1 THEN "n1" ELSE "n2"]
MCLabels == [a \in Agents |-> IF a = a1 THEN {Web} ELSE {Db}]

\* The web node may come back as a db node.
MCRelabelled == [MCLabels EXCEPT ![a1] = {Web, Db}]

Group(name, selector) == [name |-> name, nodeSelector |-> selector]

Manifest(branch, groups) ==
    [apiVersion |-> SupportedAPIVersion, kind |-> SupportedKind, name |-> "fleet",
     repo |-> "git", branch |-> branch, playbook |-> "site.yml", nodeGroups |-> groups]

Playbook(id, manifest) == [id |-> id, manifest |-> manifest, readable |-> TRUE]

Holding(entries) == [state |-> "ok", entries |-> entries]

WebSite  == Manifest("main", <<Group("web", Web)>>)
Site     == Manifest("main", <<Group("edge", WebInDb), Group("web", Web), Group("db", Db)>>)
Rejected == [Site EXCEPT !.apiVersion = "apps/v1"]

Absent     == [state |-> "absent", entries |-> <<>>]
Unreadable == [state |-> "unreadable", entries |-> <<>>]

\* A job for the web node only; jobs for both, the playbooks in another order.
TwoDisks == {Holding(<<Playbook("nginx", WebSite)>>),
             Holding(<<Playbook("nginx", WebSite), Playbook("site", Site)>>)}

OneDisk == {Holding(<<Playbook("site", Site)>>)}

\* The same playbook and groups, moved to another branch.
TwoBranches ==
    {Holding(<<Playbook("site", [Site EXCEPT !.branch = branch])>>) : branch \in {"main", "v2"}}

RejectedDisk == {Holding(<<Playbook("site", Rejected)>>)}

\* One directory for every outcome of a start.
AllDisks ==
    TwoDisks \cup {Absent, Unreadable, Holding(<<>>)}
    \cup {Holding(<<Playbook("plain", AbsentManifest)>>),
          Holding(<<[id |-> "plain", manifest |-> BrokenManifest, readable |-> FALSE]>>),
          Holding(<<Playbook("plain", Rejected), Playbook("site", Site)>>)}
=============================================================================
