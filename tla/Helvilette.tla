------------------------------ MODULE Helvilette ------------------------------
(***************************************************************************)
(* The fleet: Othela and its agents, composed. The properties below are    *)
(* about what no single handler shows: which job a node ends up running,   *)
(* how often, and what becomes of its report, while either side crashes,   *)
(* restarts, or stops waiting.                                             *)
(***************************************************************************)
EXTENDS Othela, Agent

ASSUME LabelsAssumption == LabelChoices \in [Agents -> SUBSET Labels]

vars == <<exchangeVars, othelaVars, agentVars>>

Init == ExchangeInit /\ OthelaInit /\ AgentInit

OthelaNext ==
    /\ OthelaStart \/ OthelaCrash \/ EditPlaybooks \/ Serve
    /\ UNCHANGED agentVars

AgentNext(a) == AgentStep(a) /\ UNCHANGED othelaVars

Next == OthelaNext \/ \E a \in Agents : AgentNext(a)

Spec == Init /\ [][Next]_vars

-----------------------------------------------------------------------------
(* Fairness. Both binaries run under "restart: unless-stopped"; net/http   *)
(* serves a connection it has accepted and the client reads the answer; a  *)
(* playbook terminates (ansible-playbook runs without a timeout, so this   *)
(* is an assumption about the playbooks). select chooses at random among   *)
(* the ready cases, so a done context is seen sooner or later: strong      *)
(* fairness, because the agent is busy in between. Nothing obliges Othela  *)
(* to serve an orphan, and disturbances have no fairness.                  *)
Progress(a) ==
    \/ StartAgent(a)
    \/ SendRegister(a) \/ ReceiveRegister(a) \/ RegisterFails(a)
    \/ Poll(a) \/ ReceiveJob(a) \/ PollFails(a)
    \/ FinishRun(a) \/ ReceiveReport(a) \/ ReportFails(a)

ServeAgent(a) == \E r \in Pending(a) : Handle(r)

Fairness ==
    /\ WF_vars(OthelaStart /\ UNCHANGED agentVars)
    /\ \A a \in Agents :
          /\ WF_vars(ServeAgent(a) /\ UNCHANGED agentVars)
          /\ WF_vars(Progress(a) /\ UNCHANGED othelaVars)
          /\ SF_vars(StopAgent(a) /\ UNCHANGED othelaVars)

FairSpec == Spec /\ Fairness

-----------------------------------------------------------------------------
(* Types.                                                                  *)

JobID == {EmptyID} \cup ({"group"} \X Strings \X Strings)
                   \cup ({"playbook"} \X Strings)
                   \cup ({"mock"} \X Nat)

Dispatched ==
    [id : JobID, repo : Strings, version : Strings, path : Strings,
     group : NodeGroup \cup {NoGroup}]

RegisterRequest == [kind : {"register"}, agent : Agents, labels : Labels, orphan : Nat]
SyncRequest     == [kind : {"sync"}, agent : Agents, orphan : Nat]
ReportRequest   == [kind : {"report"}, agent : Agents, run : Nat,
                    status : {"Success", "Failed"}, orphan : Nat]

Reply == [code : {200, 204, 403}, job : Dispatched \cup {NoJob}]

Run == [job : Dispatched, status : RunStatus, life : Nat, report : ReportStatus]

StoredReport == [agent : Agents, run : Nat, status : {"Success", "Failed"}]

CatalogEntry == [id : Strings, manifest : ManifestType \cup {NoManifest}]

ExchangeTypeOK ==
    /\ up \in BOOLEAN
    /\ inflight \subseteq RegisterRequest \cup SyncRequest \cup ReportRequest
    /\ reply \in [Agents -> Reply \cup {NoReply}]
    /\ budget \in 0..MaxDisturbances

NodeMap(f) == DOMAIN f \subseteq NodeIDs /\ \A n \in DOMAIN f : f[n] \in Labels

OthelaTypeOK ==
    /\ disk \in DiskStates
    /\ catalog \in Seq(CatalogEntry)
    /\ currentJob \in Dispatched
    /\ backend \in Backends
    /\ DOMAIN nodeStore = {"sqlite", "memory"}
    /\ \A b \in DOMAIN nodeStore : NodeMap(nodeStore[b])
    /\ reportStore \in [{"sqlite", "memory"} -> Seq(StoredReport)]
    /\ starts \in Nat

AgentTypeOK ==
    /\ pc \in [Agents -> PC]
    /\ labels \in [Agents -> Labels]
    /\ lastJobID \in [Agents -> JobID]
    /\ cancelled \in [Agents -> BOOLEAN]
    /\ life \in [Agents -> Nat]
    /\ runs \in [Agents -> Seq(Run)]

TypeOK == ExchangeTypeOK /\ OthelaTypeOK /\ AgentTypeOK

-----------------------------------------------------------------------------
(* Reports.                                                                *)

Reported(b, i) == <<reportStore[b][i].agent, reportStore[b][i].run>>

\* The report store never holds two reports of one execution, and what it holds
\* is the status that execution ended with: SendReport makes a single attempt,
\* and an attempt given up on is served at most once, however late.
ReportsFaithful ==
    \A b \in {"sqlite", "memory"} : \A i \in DOMAIN reportStore[b] :
        LET s == reportStore[b][i] IN
        /\ s.run \in DOMAIN runs[s.agent]
        /\ s.status = runs[s.agent][s.run].status
        /\ \A j \in DOMAIN reportStore[b] : Reported(b, i) = Reported(b, j) => i = j

\* List returns the reports in insertion order (storage.go). A node's reports
\* come in the order of its executions, except that a report its agent gave up
\* on may be overtaken by later ones.
OvertakenOnlyIfGivenUp ==
    \A b \in {"sqlite", "memory"} : \A i, j \in DOMAIN reportStore[b] :
        LET s == reportStore[b][i]
            t == reportStore[b][j]
        IN  i < j /\ s.agent = t.agent /\ t.run < s.run
                => runs[t.agent][t.run].report = "givenUp"

\* With SQLite and no failing Save, a report the agent was told is received is
\* in the store, across every restart of Othela.
AckedReportsDurable ==
    \A a \in Agents : \A i \in DOMAIN runs[a] :
        runs[a][i].report = "acked" =>
            \E k \in DOMAIN reportStore["sqlite"] : Reported("sqlite", k) = <<a, i>>

(* The executions and reports of the fleet as a RunLedger.                 *)
StartedRuns == UNION {{<<a, i>> : i \in DOMAIN runs[a]} : a \in Agents}

Ledger ==
    INSTANCE RunLedger WITH
        started <- StartedRuns,
        running <- {e \in StartedRuns : runs[e[1]][e[2]].status = "Running"},
        pending <- {[run |-> <<r.agent, r.run>>, status |-> r.status] :
                       r \in {q \in inflight : q.kind = "report"}},
        book    <- [i \in DOMAIN reportStore["sqlite"] |->
                      [run    |-> Reported("sqlite", i),
                       status |-> reportStore["sqlite"][i].status]]

\* With SQLite the fleet keeps the promise of RunLedger: at most one outcome per
\* execution, the true one, in a book that only grows.
LedgerKept == Ledger!Spec

-----------------------------------------------------------------------------
(* Dispatch.                                                               *)

\* A process executes no job of a group whose selector its labels do not satisfy
\* (README.md:178), although Othela matches against what it stored at the last
\* registration of the node and the poll that follows may be any time later.
JobsMatchLabels ==
    \A a \in Agents : \A i \in DOMAIN runs[a] :
        LET run == runs[a][i] IN
        run.life = life[a] /\ run.job.group # NoGroup
            => isSubset(run.job.group.nodeSelector, labels[a])

\* An agent polls only while Othela knows its node, and under the labels the
\* agent really has: registration happens once per process, before the first
\* poll, and a restart of Othela does not undo it.
EnrolledWhilePolling ==
    \A a \in Agents :
        pc[a] \in {"idle", "syncing", "running", "reporting"} =>
            /\ NodeID[a] \in DOMAIN nodeStore["sqlite"]
            /\ nodeStore["sqlite"][NodeID[a]] = labels[a]

\* Within one process a job that succeeded is not executed again unless another
\* job succeeded in between, whatever the polls, failures and reports were.
SucceededJobNotRerun ==
    \A a \in Agents : \A i, j \in DOMAIN runs[a] :
        LET first == runs[a][i]
            again == runs[a][j]
        IN  /\ i < j
            /\ first.life = again.life
            /\ first.status = "Success"
            /\ first.job.id = again.job.id
            => \E k \in (i + 1)..(j - 1) :
                  /\ runs[a][k].status = "Success"
                  /\ runs[a][k].job.id # first.job.id

-----------------------------------------------------------------------------
(* Liveness.                                                               *)

\* The job of the running Othela for a, if there is one, is the last that this
\* process of a executed, with success.
Converged(a) ==
    /\ up
    /\ pc[a] # "down"
    /\ \A job \in JobsFor(labels[a]) :
          job # NoJob =>
            /\ runs[a] # <<>>
            /\ runs[a][LastRun(a)].life = life[a]
            /\ runs[a][LastRun(a)].status = "Success"
            /\ runs[a][LastRun(a)].job.id = job.id

\* "Desired-state reconciliation loop" (README.md:106): once the disturbances
\* cease, every node has executed the job of its labels and stays there.
EventuallyConverged == <>[](\A a \in Agents : Converged(a))

\* An agent that is asked to stop does stop, wherever the signal finds it.
CancelledStops == \A a \in Agents : cancelled[a] ~> pc[a] = "down"

-----------------------------------------------------------------------------
(* Sentences of the documentation that the code does not keep: each is     *)
(* checked by a run of its own that finds a counterexample.                *)

\* README.md:182-184: a rejected manifest's playbook is never dispatched.
RejectedNeverDispatched ==
    \A e \in DOMAIN disk.entries :
        LET entry == disk.entries[e] IN
        entry.manifest # AbsentManifest /\ loadManifest(entry.manifest) = NoManifest
            => \A a \in Agents : \A i \in DOMAIN runs[a] :
                  runs[a][i].job.id # PlaybookID(entry.id)

\* README.md:106, "desired-state reconciliation loop": when the disturbances are
\* over and Othela has read the playbook directory as it is, the last execution
\* on each node is of the job as the manifest now states it.
Reconciled(a) ==
    catalog = ScannedCatalog =>
        \A job \in JobsFor(labels[a]) :
            job # NoJob => runs[a] # <<>> /\ runs[a][LastRun(a)].job = job

EventuallyReconciled == <>[](\A a \in Agents : up /\ Reconciled(a))

=============================================================================
