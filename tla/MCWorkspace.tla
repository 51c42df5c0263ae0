----------------------------- MODULE MCWorkspace -----------------------------
(* Values for the constants of Workspace: one repository with two branches   *)
(* and a tag, and the jobs that may be pointed at it.                        *)
EXTENDS Workspace

MCWorkDir == [r \in Repos \cup {NoRepo} |-> IF r = NoRepo THEN "workspace" ELSE "nginx"]

MCRemotes ==
    {[ref \in {Heads("main"), Heads("dev"), <<"tags", "v1">>} |-> 1]}

JobOn(version, extra) == [repo |-> "git/nginx", version |-> version, vars |-> extra]

\* A tag, a branch under the name of its remote, the default branch, no version,
\* and no repository.
MCJobs ==
    {JobOn(<<"v1">>, "web"), JobOn(<<"origin", "dev">>, NoVars), JobOn(<<"main">>, NoVars),
     JobOn(<<>>, NoVars), [repo |-> NoRepo, version |-> <<>>, vars |-> "web"]}

\* Only the default branch.
OnMain == {JobOn(<<"main">>, NoVars)}
==============================================================================
