------------------------------ MODULE Workspace ------------------------------
(***************************************************************************)
(* ExecutePlaybook in detail: pkg/git's EnsureRepo, the extra vars file and *)
(* ansible-playbook, on the files an agent keeps in its workspace, against *)
(* remote repositories that move. A job is asked for again until it has    *)
(* succeeded, as the poll loop does.                                       *)
(*                                                                         *)
(* What go-git does inside a call is external. The history of a remote is  *)
(* a line of commits 1, 2, ... that is never rewritten.                    *)
(***************************************************************************)
EXTENDS Integers, SequencesExt

CONSTANTS Repos,            \* repository URLs
          NoRepo,           \* a job without RepoURL: it brings its playbook, or names a path
          WorkDir,          \* the directory a URL is cloned to: its base name
          Remotes,          \* what a remote may hold at the start
          DefaultBranch,    \* the branch the HEAD of every remote names
          Jobs,             \* what Othela may ask for
          NoJob,
          NoVars,           \* a job without extra vars; no extra vars file
          Torn,             \* a worktree or a file whose writing was interrupted
          MaxCommits,       \* bound: commits of one remote
          MaxDisturbances,  \* bound: disturbances in one behaviour
          Disturbances      \* the kinds of disturbance that may happen

DisturbanceKinds ==
    {"network",    \* a clone, fetch or pull fails
     "disk",       \* MkdirAll or WriteFile fails
     "playbook",   \* ansible-playbook exits with an error
     "kill",       \* the agent dies, but not in a clone
     "killClone",  \* the agent dies in a clone
     "assign"}     \* Othela answers with another job

Dirs == {WorkDir[r] : r \in Repos \cup {NoRepo}}

(* References are paths below refs/: <<"heads", "main">>, <<"tags", "v1">> *)
(* and, in a copy, <<"remotes", "origin", "main">>. The version of a job   *)
(* is a path, too: a name, <<"origin", name>>, or empty.                   *)
Heads(b)   == <<"heads", b>>
IsTag(ref) == ref[1] = "tags"

ASSUME WorkspaceAssumption ==
    /\ DOMAIN WorkDir = Repos \cup {NoRepo}
    /\ \A rem \in Remotes :
          /\ Heads(DefaultBranch) \in DOMAIN rem
          /\ \A ref \in DOMAIN rem :
                ref \in {<<"tags", ref[2]>>, Heads(ref[2])} /\ rem[ref] \in 1..MaxCommits
    /\ \A j \in Jobs :
          \/ j.repo \in Repos \cup {NoRepo} /\ j.version = <<>>
          \/ j.repo \in Repos /\ j.version \in {<<Last(j.version)>>, <<"origin", Last(j.version)>>}
    /\ NoJob \notin Jobs /\ NoRepo \notin Repos
    /\ MaxCommits \in Nat /\ MaxDisturbances \in Nat
    /\ Disturbances \subseteq DisturbanceKinds

VARIABLES remote,    \* the commit of every reference of every remote
          copy,      \* the working copy in each directory
          varsFile,  \* .helvilette_extra_vars.json in each directory
          wanted,    \* the job Othela answers polls with
          done,      \* lastJobID
          step,      \* where ExecutePlaybook is
          named,     \* history: the commits the job's version named since it began
          run,       \* history: the run of ansible-playbook under way
          latest,    \* history: the commit the last run of each version saw
          budget     \* disturbances that may still happen

vars == <<remote, copy, varsFile, wanted, done, step, named, run, latest, budget>>

\* What no step between the first and the last of an execution changes.
asked == <<remote, wanted, done>>

history == <<named, run, latest>>

(* A working copy. stage: nothing there, a directory that is no repository *)
(* with a remote, or a repository. head: HEAD is the local default branch, *)
(* a branch without commits, or detached. at: its commit; tree: the commit *)
(* the files are those of.                                                 *)
Copy(stage, url, refs, head, at, tree) ==
    [stage |-> stage, url |-> url, refs |-> refs, head |-> head, at |-> at, tree |-> tree]

NoCopy == Copy("absent", NoRepo, <<>>, "unborn", 0, 0)

dir == WorkDir[wanted.repo]

SetCopy(c) == copy' = [copy EXCEPT ![dir] = c]

Goto(there) == step' = there

Spend(kind) ==
    /\ kind \in Disturbances
    /\ budget > 0
    /\ budget' = budget - 1

\* A call fails for a reason of its own: ExecutePlaybook returns "Failed", and
\* the job will be asked for again.
Fails(kind) == Spend(kind) /\ Goto("idle") /\ UNCHANGED copy

\* The execution is over.
Forget == named' = {} /\ run' = NoJob /\ UNCHANGED latest

-----------------------------------------------------------------------------
(* Versions.                                                               *)

\* The rules of ResolveRevision, in their order: the first with a hit wins.
Rules(version) == <<<<"tags">> \o version, <<"heads">> \o version, <<"remotes">> \o version>>

Resolved(refs, version) ==
    LET hits == {i \in 1..3 : Rules(version)[i] \in DOMAIN refs}
    IN  {refs[Rules(version)[i]] : i \in {h \in hits : \A k \in hits : h <= k}}

\* The names fetched references are stored under.
Tracking(ref) == IF IsTag(ref) THEN ref ELSE <<"remotes", "origin", ref[2]>>

FromRemote(rem) ==
    [t \in {Tracking(ref) : ref \in DOMAIN rem} |->
        rem[IF IsTag(t) THEN t ELSE Heads(t[3])]]

\* The references of f, and those of g that f does not have.
Over(f, g) == [ref \in DOMAIN f \cup DOMAIN g |-> IF ref \in DOMAIN f THEN f[ref] ELSE g[ref]]

\* Mutant: without Force and AllTags a tag that is known stays where it is.
FetchedUnforced(refs, rem) == Over(refs, FromRemote(rem))

\* Tags and remote branches become what the remote has; local branches stay.
Fetched(refs, rem) == Over(FromRemote(rem), refs)

\* The local branch that a clone makes, and a pull moves on.
AtDefault(n, refs) == Over([ref \in {Heads(DefaultBranch)} |-> n], refs)

\* The commits the version of a job names at its remote: those of a branch or a
\* tag of that name.
NamedBy(job, rems) ==
    IF job.repo = NoRepo THEN {}
    ELSE LET rem  == rems[job.repo]
             name == IF job.version = <<>> THEN DefaultBranch ELSE Last(job.version)
         IN  {rem[ref] : ref \in {<<"tags", name>>, Heads(name)} \cap DOMAIN rem}

-----------------------------------------------------------------------------
(* The outside: Othela, the repositories, and the end of the process.      *)

Assign ==
    /\ step = "idle"
    /\ Spend("assign")
    /\ wanted' \in Jobs \ {wanted}
    /\ UNCHANGED <<remote, copy, varsFile, done, step, history>>

\* A branch gains a commit, or a tag is moved to the latest one.
Push(r) ==
    LET newest == Max({remote[r][ref] : ref \in DOMAIN remote[r]}) IN
    /\ \E ref \in DOMAIN remote[r], n \in 1..MaxCommits :
          /\ n = (IF IsTag(ref) THEN newest ELSE newest + 1)
          /\ remote' = [remote EXCEPT ![r][ref] = n]
    /\ named' = IF step = "idle" THEN named ELSE named \cup NamedBy(wanted, remote')
    /\ UNCHANGED <<copy, varsFile, wanted, done, step, run, latest, budget>>

\* What a clone makes.
Cloned(url) ==
    LET tip == remote[url][Heads(DefaultBranch)]
    IN  Copy("repo", url, AtDefault(tip, Fetched(<<>>, remote[url])),
             "branch", tip, tip)

\* HEAD becomes the commit itself, and every file is reset to it.
\* Mutant: the files are reset first, to the HEAD of before.
ResetFirst(c, n) == [c EXCEPT !.head = "detached", !.at = n, !.tree = c.at]
CheckedOut(c, n) == [c EXCEPT !.head = "detached", !.at = n, !.tree = n]

\* What the death of the agent may leave of the step it was in. A clone leaves a
\* directory, a repository with its remote, one with the remote's references, or
\* one whose files are not all there.
TornCopies ==
    LET c    == copy[dir]
        Made == [c EXCEPT !.stage = "repo", !.url = wanted.repo]
    IN
    CASE step = "repo" /\ c.stage = "absent" ->
            {c, [c EXCEPT !.stage = "dir"], Made,
             [Made EXCEPT !.refs = Fetched(<<>>, remote[wanted.repo])],
             [Cloned(wanted.repo) EXCEPT !.tree = Torn]}
      [] step = "repo" /\ c.stage = "repo" ->
            {c, [c EXCEPT !.refs = Fetched(@, remote[c.url])]}
      [] step = "checkout" ->
            {c} \cup (IF wanted.version = <<>>
                      THEN {[c EXCEPT !.at = remote[c.url][Heads(DefaultBranch)], !.tree = Torn]}
                      ELSE {[CheckedOut(c, n) EXCEPT !.tree = Torn] :
                               n \in Resolved(c.refs, wanted.version)})
      [] OTHER -> {c}

\* lastJobID is gone with the process, the files are not.
Kill ==
    /\ Spend(IF step = "repo" /\ copy[dir].stage = "absent" THEN "killClone" ELSE "kill")
    /\ \E c \in TornCopies : SetCopy(c)
    /\ varsFile' \in {varsFile} \cup
          (IF step = "vars" THEN {[varsFile EXCEPT ![dir] = Torn]} ELSE {})
    /\ done' = NoJob
    /\ Goto("idle")
    /\ Forget
    /\ UNCHANGED <<remote, wanted>>

-----------------------------------------------------------------------------
(* ExecutePlaybook.                                                        *)

\* A poll brings a job that has not succeeded in this process. Without a URL the
\* content is written to the workspace, or the playbook is on the node already.
Begin ==
    /\ step = "idle"
    /\ wanted # done
    /\ named' = NamedBy(wanted, remote)
    /\ \/ Goto(IF wanted.repo = NoRepo THEN "vars" ELSE "repo") /\ UNCHANGED <<copy, budget>>
       \/ Fails("disk")
    /\ UNCHANGED <<asked, varsFile, run, latest>>

\* A clone that fails takes its directory with it.
Clone ==
    /\ step = "repo"
    /\ copy[dir].stage = "absent"
    /\ \/ SetCopy(Cloned(wanted.repo)) /\ Goto("checkout") /\ UNCHANGED budget
       \/ Fails("network")
    /\ UNCHANGED <<asked, varsFile, history>>

\* Mutant: "already up to date" is taken for an error.
AfterFetchStrict(news) == IF news THEN "checkout" ELSE "idle"

AfterFetch(news) == "checkout"

\* The fetch is from the remote the copy was cloned from, whatever the job says.
OpenAndFetch ==
    LET c    == copy[dir]
        refs == Fetched(c.refs, remote[c.url])
    IN
    /\ step = "repo"
    /\ \/ /\ c.stage = "repo"
          /\ SetCopy([c EXCEPT !.refs = refs])
          /\ Goto(AfterFetch(refs # c.refs))
          /\ UNCHANGED budget
       \/ c.stage = "repo" /\ Fails("network")
       \/ c.stage = "dir" /\ Goto("idle") /\ UNCHANGED <<copy, budget>>
    /\ UNCHANGED <<asked, varsFile, history>>

CheckoutVersion ==
    LET commits == Resolved(copy[dir].refs, wanted.version) IN
    /\ step = "checkout"
    /\ wanted.version # <<>>
    /\ \/ \E n \in commits : SetCopy(CheckedOut(copy[dir], n)) /\ Goto("vars")
       \/ commits = {} /\ Goto("idle") /\ UNCHANGED copy
    /\ UNCHANGED <<asked, varsFile, history, budget>>

\* Pull fetches again. Without news it leaves a HEAD that contains the tip of the
\* default branch as it is; otherwise it goes forward to the tip, or fails if that
\* is not forward, or where an interrupted checkout left changed files.
PullLatest ==
    LET c    == copy[dir]
        tip  == remote[c.url][Heads(DefaultBranch)]
        refs == Fetched(c.refs, remote[c.url])
        at   == [c EXCEPT !.at = tip, !.refs =
                    IF c.head = "branch" THEN AtDefault(tip, refs) ELSE refs]
    IN
    /\ step = "checkout"
    /\ wanted.version = <<>>
    /\ \/ /\ UNCHANGED budget
          /\ CASE tip <= c.at /\ refs = c.refs -> Goto("vars") /\ UNCHANGED copy
               [] tip < c.at /\ refs # c.refs  -> Goto("idle") /\ SetCopy([c EXCEPT !.refs = refs])
               [] OTHER -> \/ Goto("vars") /\ SetCopy([at EXCEPT !.tree = tip])
                           \/ c.tree = Torn /\ Goto("idle") /\ SetCopy(at)
       \/ Fails("network")
    /\ UNCHANGED <<asked, varsFile, history>>

\* The extra vars file is written and ansible-playbook started on it. The error
\* of WriteFile is dropped: the file may be as before, or cut off.
StartAnsible ==
    /\ step = "vars"
    /\ \E wrote \in BOOLEAN :
          /\ IF wrote THEN UNCHANGED budget ELSE wanted.vars # NoVars /\ Spend("disk")
          /\ varsFile' \in IF wanted.vars = NoVars THEN {varsFile}
                           ELSE IF wrote THEN {[varsFile EXCEPT ![dir] = wanted.vars]}
                           ELSE {varsFile, [varsFile EXCEPT ![dir] = Torn]}
          /\ run' = [job |-> wanted, commit |-> copy[dir].tree,
                     wrote |-> wrote,
                     vars |-> IF wanted.vars = NoVars THEN NoVars ELSE varsFile'[dir]]
    /\ latest' = [latest EXCEPT ![<<wanted.repo, wanted.version>>] = run'.commit]
    /\ Goto("running")
    /\ UNCHANGED <<asked, copy, named>>

\* An extra vars file that is missing or cut off makes ansible-playbook fail.
FinishAnsible ==
    LET readable == wanted.vars # NoVars => varsFile[dir] \notin {NoVars, Torn} IN
    /\ step = "running"
    /\ \/ readable /\ done' = wanted /\ UNCHANGED budget
       \/ /\ IF readable THEN Spend("playbook") ELSE UNCHANGED budget
          /\ UNCHANGED done
    /\ Goto("idle")
    /\ Forget
    /\ UNCHANGED <<remote, copy, varsFile, wanted>>

-----------------------------------------------------------------------------
Init ==
    /\ remote \in [Repos -> Remotes]
    /\ copy = [d \in Dirs |-> NoCopy]
    /\ varsFile = [d \in Dirs |-> NoVars]
    /\ wanted \in Jobs
    /\ done = NoJob
    /\ step = "idle"
    /\ named = {}
    /\ run = NoJob
    /\ latest = [v \in {<<j.repo, j.version>> : j \in Jobs} |-> 0]
    /\ budget = MaxDisturbances

Execute ==
    \/ Begin \/ Clone \/ OpenAndFetch \/ CheckoutVersion \/ PullLatest
    \/ StartAnsible \/ FinishAnsible

Next == Execute \/ Assign \/ Kill \/ \E r \in Repos : Push(r)

Spec == Init /\ [][Next]_vars

\* The agent polls on, and its playbooks terminate; nothing else is fair.
FairSpec == Spec /\ WF_vars(Execute)

-----------------------------------------------------------------------------
\* A run on a tag or a remote branch sees the files of a commit which that name
\* had at the job's repository at some moment since the execution began, whatever
\* was checked out, interrupted or fetched before, and it is given the extra vars
\* of its own job, or none, unless they could not be written.
RunsItsJob ==
    run # NoJob =>
        /\ run.job.version \notin {<<>>, <<DefaultBranch>>} => run.commit \in named
        /\ run.wrote => run.vars = run.job.vars

\* A run of a version never sees an older commit than the last run of it did, not
\* even where the version is a branch and the copy does not follow it.
NeverOlder ==
    [][\A v \in DOMAIN latest :
           v[2] # <<>> /\ Torn \notin {latest[v], latest'[v]} => latest'[v] >= latest[v]]_vars

\* What a killed clone may leave behind for good: a directory that is no
\* repository, or a repository without the branch the job asks for.
Stranded ==
    \/ copy[dir].stage = "dir"
    \/ /\ copy[dir].stage = "repo"
       /\ wanted.version = <<DefaultBranch>>
       /\ Heads(DefaultBranch) \notin DOMAIN copy[dir].refs

\* Once the failures cease a job is executed with success, whatever the attempts
\* before it left in the workspace, a killed clone excepted.
EventuallyExecuted == <>[](done = wanted \/ Stranded)

\* "The git repository is cloned locally and updated to the specified version"
\* (clone.go:11): also where the version is a branch, or none.
UpdatedToVersion ==
    run # NoJob /\ run.job.repo # NoRepo => run.commit \in named

=============================================================================
