------------------------------- MODULE Othela -------------------------------
(***************************************************************************)
(* cmd/othela with pkg/playbook and pkg/storage: the control plane. It     *)
(* reads its playbook directory once, when it starts, and then answers     *)
(* registrations, polls and reports. Each handler is one action; that its  *)
(* interleaving its steps with others makes no difference is what Process  *)
(* shows (AtomicHandlers).                                                 *)
(***************************************************************************)
EXTENDS Exchange, Manifest

CONSTANTS NodeIDs,          \* node identifiers
          NodeID,           \* the identifier each agent is configured with
          DiskStates,       \* what the playbook directory may hold
          Backends,         \* the stores a start of Othela may end up with
          AbsentManifest,   \* the directory has no helvilette.yml
          BrokenManifest    \* helvilette.yml is not readable YAML

(* A playbook directory. "absent" makes NewLoader fail, "unreadable" makes *)
(* Scan fail. Entries are the subdirectories that hold a playbook.yml, in  *)
(* the order of os.ReadDir; readable says whether Load can read that file. *)
Entry == [id : Strings, manifest : ManifestType \cup {AbsentManifest, BrokenManifest},
          readable : BOOLEAN]
Disk == [state : {"ok", "absent", "unreadable"}, entries : Seq(Entry)]

DefaultRepo == "default-repo"  \* HELV_TEST_REPO_URL or the git-server URL

ASSUME OthelaAssumption ==
    /\ NodeID \in [Agents -> NodeIDs]
    /\ DiskStates \subseteq Disk
    /\ Backends \subseteq {"sqlite", "memory"}
    /\ {DefaultRepo, "main", "playbook.yml"} \subseteq Strings

\* No two entries of a directory have the same name.
ASSUME DirectoryAssumption ==
    \A d \in DiskStates : \A i, j \in DOMAIN d.entries :
        d.entries[i].id = d.entries[j].id => i = j

VARIABLES disk,         \* the playbook directory
          catalog,      \* Server.playbooks
          currentJob,   \* Server.currentJob
          backend,      \* the kind of store this process opened
          nodeStore,    \* the nodes table or map of each backend
          reportStore,  \* the reports table or slice of each backend
          starts        \* how often Othela started; stands for time.Now().Unix()

othelaVars == <<disk, catalog, currentJob, backend, nodeStore, reportStore, starts>>

-----------------------------------------------------------------------------
(* Start: scan, keep the catalogue, choose the fallback job.               *)

\* A manifest that cannot be read or fails Validate counts as no manifest.
loadManifest(m) ==
    IF m \in {AbsentManifest, BrokenManifest} THEN NoManifest
    ELSE IF Validate(m) THEN m ELSE NoManifest

Scan(entries) ==
    [i \in DOMAIN entries |->
        [id |-> entries[i].id, manifest |-> loadManifest(entries[i].manifest)]]

ScannedCatalog == IF disk.state = "ok" THEN Scan(disk.entries) ELSE <<>>

FallbackJob(now) ==
    LET first == disk.entries[1] IN
    CASE disk.state = "absent" -> EmptyJob
      [] disk.state = "ok" /\ disk.entries # <<>> /\ first.readable ->
            Job(PlaybookID(first.id), DefaultRepo, "main", "playbook.yml", NoGroup)
      [] OTHER -> Job(MockID(now), "", "", "", NoGroup)

\* The process starts: NewSQLiteStore succeeds or Othela falls back to memory,
\* whose content is new; the playbook directory is read once.
OthelaStart ==
    /\ ~up
    /\ up' = TRUE
    /\ starts' = starts + 1
    /\ catalog' = ScannedCatalog
    /\ currentJob' = FallbackJob(starts')
    /\ \E b \in Backends : backend' = b
    /\ nodeStore' = [nodeStore EXCEPT !["memory"] = [n \in {} |-> NoLabels]]
    /\ reportStore' = [reportStore EXCEPT !["memory"] = <<>>]
    /\ UNCHANGED <<disk, inflight, reply, budget>>

\* The process dies with the requests it has not answered, and with those of
\* its answers that had not left it.
OthelaCrash ==
    /\ up
    /\ Spend("othelaCrash")
    /\ up' = FALSE
    /\ inflight' = {}
    /\ catalog' = <<>>
    /\ currentJob' = EmptyJob
    /\ \E lost \in SUBSET Agents :
          reply' = [a \in Agents |-> IF a \in lost THEN NoReply ELSE reply[a]]
    /\ UNCHANGED <<disk, backend, nodeStore, reportStore, starts>>

\* The operator edits the playbook directory; a running Othela is not told.
EditPlaybooks ==
    /\ Spend("edit")
    /\ disk' \in DiskStates \ {disk}
    /\ UNCHANGED <<up, inflight, reply, catalog, currentJob, backend, nodeStore,
                   reportStore, starts>>

-----------------------------------------------------------------------------
(* Matching: the first playbook with a matching group, and its first such. *)

\* The least element of a set of positions, as a set: none if S is empty.
First(S) == {i \in S : \A j \in S : i <= j}

MatchingPlaybooks(labels) ==
    {i \in DOMAIN catalog :
        /\ catalog[i].manifest # NoManifest
        /\ MatchNodeGroups(catalog[i].manifest, labels) # {}}

GroupJob(pb, g) ==
    LET m     == pb.manifest
        group == m.nodeGroups[g]
    IN  Job(GroupID(pb.id, group.name),
            IF m.repo = "" THEN DefaultRepo ELSE m.repo,
            m.branch, m.playbook, group)

\* currentJob is dispatched only where no playbook has a manifest at all.
HasManifests == \E i \in DOMAIN catalog : catalog[i].manifest # NoManifest

FallbackAllowed == currentJob.id # EmptyID /\ ~HasManifests

\* Mutant: the first group of the manifest instead of the first that matches.
GroupsTakenFirst(pb, labels) == {1}

GroupsTaken(pb, labels) == First(MatchNodeGroups(pb.manifest, labels))

MatchedJobs(labels) ==
    UNION {{GroupJob(catalog[i], g) : g \in GroupsTaken(catalog[i], labels)} :
              i \in First(MatchingPlaybooks(labels))}

\* The job a poll with these labels is answered with, as a set of one element.
JobsFor(labels) ==
    IF MatchingPlaybooks(labels) # {} THEN MatchedJobs(labels)
    ELSE IF FallbackAllowed THEN {currentJob} ELSE {NoJob}

-----------------------------------------------------------------------------
(* Stores. SQLite operations may fail, those of the memory store never do. *)

StoreFails(kind) == backend = "sqlite" /\ Spend(kind)

IsRegistered(node) == node \in DOMAIN nodeStore[backend]

Put(f, k, v) == [x \in DOMAIN f \cup {k} |-> IF x = k THEN v ELSE f[x]]

\* A stored report: its node and job are those of the run it names.
Stored(r) == [agent |-> r.agent, run |-> r.run, status |-> r.status]

\* Mutants of SaveReport: newest first; into the memory store that
\* NewServerWithConfig falls back to; one row per node, as in the nodes table.
SaveReportPrepend(r) ==
    reportStore' = [reportStore EXCEPT ![backend] = <<Stored(r)>> \o @]
SaveReportMemory(r) ==
    reportStore' = [reportStore EXCEPT !["memory"] = Append(@, Stored(r))]
SaveReportUpsert(r) ==
    LET Other(s) == s.agent # r.agent
    IN  reportStore' = [reportStore EXCEPT
                            ![backend] = Append(SelectSeq(@, Other), Stored(r))]

SaveReport(r) ==
    reportStore' = [reportStore EXCEPT ![backend] = Append(@, Stored(r))]

-----------------------------------------------------------------------------
(* Handlers.                                                               *)

\* The error of Register is not looked at: the answer is 200 either way.
HandleRegister(r) ==
    /\ r.kind = "register"
    /\ \/ /\ nodeStore' = [nodeStore EXCEPT ![backend] = Put(@, NodeID[r.agent], r.labels)]
          /\ UNCHANGED budget
       \/ /\ StoreFails("registerError")
          /\ UNCHANGED nodeStore
    /\ Answer(r, 200, NoJob)
    /\ UNCHANGED reportStore

\* IsRegistered reads an error as "not registered"; an error of GetLabels is
\* dropped, which leaves the node without labels.
HandleSync(r) ==
    LET node == NodeID[r.agent]
        Dispatch(labels) ==
            \E job \in JobsFor(labels) :
                Answer(r, IF job = NoJob THEN 204 ELSE 200, job)
    IN
    /\ r.kind = "sync"
    /\ \/ /\ ~IsRegistered(node)
          /\ Answer(r, 403, NoJob)
          /\ UNCHANGED budget
       \/ /\ IsRegistered(node)
          /\ Dispatch(nodeStore[backend][node])
          /\ UNCHANGED budget
       \/ /\ StoreFails("readError")
          /\ Answer(r, 403, NoJob)
       \/ /\ IsRegistered(node)
          /\ StoreFails("readError")
          /\ Dispatch(NoLabels)
    /\ UNCHANGED <<nodeStore, reportStore>>

\* The error of Save is logged and the answer is 200 all the same.
HandleReport(r) ==
    /\ r.kind = "report"
    /\ \/ /\ SaveReport(r)
          /\ UNCHANGED budget
       \/ /\ StoreFails("saveError")
          /\ UNCHANGED reportStore
    /\ Answer(r, 200, NoJob)
    /\ UNCHANGED nodeStore

Handle(r) ==
    /\ up
    /\ HandleRegister(r) \/ HandleSync(r) \/ HandleReport(r)
    /\ UNCHANGED <<up, disk, catalog, currentJob, backend, starts>>

Serve == \E r \in inflight : Handle(r)

OthelaInit ==
    /\ disk \in DiskStates
    /\ catalog = <<>>
    /\ currentJob = EmptyJob
    /\ backend \in Backends
    /\ nodeStore = [b \in {"sqlite", "memory"} |-> [n \in {} |-> NoLabels]]
    /\ reportStore = [b \in {"sqlite", "memory"} |-> <<>>]
    /\ starts = 0

=============================================================================
