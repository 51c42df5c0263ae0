-------------------------------- MODULE Agent --------------------------------
(***************************************************************************)
(* cmd/agent: one action per step of an agent's main goroutine between two *)
(* points where it waits. The agent keeps its last successful job in       *)
(* memory only; runs is the history of the playbook executions it started. *)
(***************************************************************************)
EXTENDS Exchange, Sequences

CONSTANT LabelChoices  \* the labels each agent may be configured with

VARIABLES pc,         \* where the main goroutine is
          labels,     \* config.Labels of the running process
          lastJobID,  \* the job of the last run that succeeded
          cancelled,  \* ctx is done
          life,       \* how many processes the agent has been
          runs        \* every execution, in order

agentVars == <<pc, labels, lastJobID, cancelled, life, runs>>

PC == {"down", "register", "registering", "idle", "syncing", "running", "reporting"}

(* A run. status: "Running", the status ExecutePlaybook returned, or       *)
(* "Unknown" when the agent died first. report: what its agent knows of    *)
(* the delivery of its report.                                             *)
RunStatus    == {"Running", "Success", "Failed", "Unknown"}
ReportStatus == {"none", "sending", "acked", "givenUp"}
NewRun(a, job) ==
    [job |-> job, status |-> "Running", life |-> life[a], report |-> "none"]

LastRun(a) == Len(runs[a])

Goto(a, there) == pc' = [pc EXCEPT ![a] = there]

\* The last run of a gets this status and report.
SetRun(a, status, report) ==
    LET run == [runs[a][LastRun(a)] EXCEPT !.status = status, !.report = report]
    IN  runs' = [runs EXCEPT ![a] = [runs[a] EXCEPT ![LastRun(a)] = run]]

-----------------------------------------------------------------------------
\* A process starts: NewAgent, up to the first attempt to register.
StartAgent(a) ==
    /\ pc[a] = "down"
    /\ Goto(a, "register")
    /\ \E l \in LabelChoices[a] : labels' = [labels EXCEPT ![a] = l]
    /\ lastJobID' = [lastJobID EXCEPT ![a] = EmptyID]
    /\ cancelled' = [cancelled EXCEPT ![a] = FALSE]
    /\ life' = [life EXCEPT ![a] = @ + 1]
    /\ UNCHANGED <<runs, exchangeVars>>

\* RegisterNode: one attempt, unless the context is done.
SendRegister(a) ==
    /\ pc[a] = "register"
    /\ ~cancelled[a]
    /\ Send(Register(a, labels[a]))
    /\ Goto(a, "registering")
    /\ UNCHANGED <<labels, lastJobID, cancelled, life, runs, up, reply, budget>>

\* 200 ends RegisterNode, anything else is retried after 5 s.
ReceiveRegister(a) ==
    /\ pc[a] = "registering"
    /\ reply[a] # NoReply
    /\ Goto(a, IF reply[a].code = 200 THEN "idle" ELSE "register")
    /\ Consume(a)
    /\ UNCHANGED <<labels, lastJobID, cancelled, life, runs, up, inflight, budget>>

\* Mutant: the agent goes on to poll after a failed attempt.
RegisterFailsGoOn(a) ==
    /\ pc[a] = "registering"
    /\ RequestError(a)
    /\ Goto(a, "idle")
    /\ UNCHANGED <<labels, lastJobID, cancelled, life, runs, up>>

RegisterFails(a) ==
    /\ pc[a] = "registering"
    /\ RequestError(a)
    /\ Goto(a, "register")
    /\ UNCHANGED <<labels, lastJobID, cancelled, life, runs, up>>

\* A tick of the poll timer. A done context does not stop it: select takes
\* either case when both are ready.
Poll(a) ==
    /\ pc[a] = "idle"
    /\ Send(Sync(a))
    /\ Goto(a, "syncing")
    /\ UNCHANGED <<labels, lastJobID, cancelled, life, runs, up, reply, budget>>

PollFails(a) ==
    /\ pc[a] = "syncing"
    /\ RequestError(a)
    /\ Goto(a, "idle")
    /\ UNCHANGED <<labels, lastJobID, cancelled, life, runs, up>>

\* ProcessJob, up to the execution: no job and the last successful job again
\* are no work.
\* Mutant: the comparison with lastJobID is dropped.
NewWorkAlways(a, answer) == answer.code = 200

NewWork(a, answer) ==
    /\ answer.code = 200
    /\ answer.job.id # lastJobID[a]

ReceiveJob(a) ==
    /\ pc[a] = "syncing"
    /\ reply[a] # NoReply
    /\ IF NewWork(a, reply[a])
       THEN /\ runs' = [runs EXCEPT ![a] = Append(@, NewRun(a, reply[a].job))]
            /\ Goto(a, "running")
       ELSE /\ Goto(a, "idle")
            /\ UNCHANGED runs
    /\ Consume(a)
    /\ UNCHANGED <<labels, lastJobID, cancelled, life, up, inflight, budget>>

\* What lastJobID becomes when the execution of job ends with status.
\* Mutant: a failed job counts as done, too.
JobDoneEvenFailed(a, job, status) == job.id

JobDone(a, job, status) ==
    IF status = "Success" THEN job.id ELSE lastJobID[a]

\* ExecutePlaybook returns; its one attempt to report is sent at once.
FinishRun(a) ==
    LET run == runs[a][LastRun(a)] IN
    /\ pc[a] = "running"
    /\ \E status \in {"Success", "Failed"} :
          /\ IF status = "Failed" THEN Spend("failure") ELSE UNCHANGED budget
          /\ lastJobID' = [lastJobID EXCEPT ![a] = JobDone(a, run.job, status)]
          /\ SetRun(a, status, "sending")
          /\ Send(Report(a, LastRun(a), status))
    /\ Goto(a, "reporting")
    /\ UNCHANGED <<labels, cancelled, life, up, reply>>

\* SendReport returns: the report is never sent again, whatever the answer.
ReceiveReport(a) ==
    /\ pc[a] = "reporting"
    /\ reply[a] # NoReply
    /\ SetRun(a, runs[a][LastRun(a)].status,
                 IF reply[a].code = 200 THEN "acked" ELSE "givenUp")
    /\ Goto(a, "idle")
    /\ Consume(a)
    /\ UNCHANGED <<labels, lastJobID, cancelled, life, up, inflight, budget>>

\* Mutant: a report that timed out is sent again.
ReportFailsResend(a) ==
    /\ pc[a] = "reporting"
    /\ IF Pending(a) # {}
       THEN /\ Spend("timeout")
            /\ inflight' = inflight \cup {[r EXCEPT !.orphan = budget] : r \in Pending(a)}
            /\ UNCHANGED <<reply, pc, runs>>
       ELSE /\ RequestError(a)
            /\ SetRun(a, runs[a][LastRun(a)].status, "givenUp")
            /\ Goto(a, "idle")
    /\ UNCHANGED <<labels, lastJobID, cancelled, life, up>>

ReportFails(a) ==
    /\ pc[a] = "reporting"
    /\ RequestError(a)
    /\ SetRun(a, runs[a][LastRun(a)].status, "givenUp")
    /\ Goto(a, "idle")
    /\ UNCHANGED <<labels, lastJobID, cancelled, life, up>>

-----------------------------------------------------------------------------
\* SIGINT or SIGTERM cancels the context; nothing else sees it at once.
Cancel(a) ==
    /\ pc[a] # "down"
    /\ ~cancelled[a]
    /\ Spend("sigterm")
    /\ cancelled' = [cancelled EXCEPT ![a] = TRUE]
    /\ UNCHANGED <<pc, labels, lastJobID, life, runs, up, inflight, reply>>

\* Run returns ctx.Err(), at the two places that look at the context.
\* Mutant: the poll loop does not look at the context.
StopAgentUnregistered(a) ==
    /\ pc[a] = "register"
    /\ cancelled[a]
    /\ Goto(a, "down")
    /\ UNCHANGED <<labels, lastJobID, cancelled, life, runs, exchangeVars>>

StopAgent(a) ==
    /\ pc[a] \in {"register", "idle"}
    /\ cancelled[a]
    /\ Goto(a, "down")
    /\ UNCHANGED <<labels, lastJobID, cancelled, life, runs, exchangeVars>>

\* The process dies, and what it was doing with it. A request it had sent
\* stays on its way.
CrashAgent(a) ==
    /\ pc[a] # "down"
    /\ Spend("agentCrash")
    /\ Abandon(a)
    /\ CASE pc[a] = "running"   -> SetRun(a, "Unknown", "none")
         [] pc[a] = "reporting" -> SetRun(a, runs[a][LastRun(a)].status, "givenUp")
         [] OTHER               -> UNCHANGED runs
    /\ Goto(a, "down")
    /\ UNCHANGED <<labels, lastJobID, cancelled, life, up>>

AgentStep(a) ==
    \/ StartAgent(a)
    \/ SendRegister(a) \/ ReceiveRegister(a) \/ RegisterFails(a)
    \/ Poll(a) \/ ReceiveJob(a) \/ PollFails(a)
    \/ FinishRun(a) \/ ReceiveReport(a) \/ ReportFails(a)
    \/ Cancel(a) \/ StopAgent(a) \/ CrashAgent(a)

AgentInit ==
    /\ pc = [a \in Agents |-> "down"]
    /\ labels \in {f \in [Agents -> UNION {LabelChoices[a] : a \in Agents}] :
                      \A a \in Agents : f[a] \in LabelChoices[a]}
    /\ lastJobID = [a \in Agents |-> EmptyID]
    /\ cancelled = [a \in Agents |-> FALSE]
    /\ life = [a \in Agents |-> 0]
    /\ runs = [a \in Agents |-> <<>>]

=============================================================================
