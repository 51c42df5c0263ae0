------------------------------ MODULE Exchange ------------------------------
(***************************************************************************)
(* The HTTP exchanges between the agents and Othela: net/http as           *)
(* cmd/agent/main.go uses it. An agent is sequential and waits for at most *)
(* one answer; a request it gave up on (10 s client timeout) or left       *)
(* behind by crashing is an orphan, which Othela may still serve later, in *)
(* any order with the agent's next requests.                               *)
(***************************************************************************)
EXTENDS Integers

CONSTANTS Agents,           \* the agent processes
          MaxDisturbances,  \* bound: how many disturbances one behaviour holds
          Disturbances,     \* the kinds of disturbance that may happen
          NoReply,          \* no answer is waiting for the agent
          NoJob,            \* a nil job, a 204 answer
          NoGroup           \* a job that comes from no node group

DisturbanceKinds ==
    {"timeout",        \* the agent's HTTP client gives up on an answer
     "agentCrash",     \* an agent process dies
     "sigterm",        \* an agent is asked to stop
     "failure",        \* ExecutePlaybook ends with status Failed
     "othelaCrash",    \* the Othela process dies
     "edit",           \* the operator changes the playbook directory
     "registerError",  \* NodeStore.Register fails
     "saveError",      \* ReportStore.Save fails
     "readError"}      \* IsRegistered or GetLabels fails

ASSUME ExchangeAssumption ==
    /\ MaxDisturbances \in Nat
    /\ Disturbances \subseteq DisturbanceKinds

VARIABLES up,        \* Othela accepts connections
          inflight,  \* requests sent and not yet served
          reply,     \* the answer on its way to each agent
          budget     \* disturbances that may still happen

exchangeVars == <<up, inflight, reply, budget>>

-----------------------------------------------------------------------------
(* Jobs. An identifier is kept as the parts its string is made of:         *)
(* "job-<id>-<group>", "job-<id>" and "job-<unix time>".                   *)
EmptyID          == <<>>
GroupID(pb, g)   == <<"group", pb, g>>
PlaybookID(pb)   == <<"playbook", pb>>
MockID(t)        == <<"mock", t>>

\* group stands for the extra vars: those of the node group, or none.
Job(id, repo, version, path, group) ==
    [id |-> id, repo |-> repo, version |-> version, path |-> path, group |-> group]

EmptyJob == Job(EmptyID, "", "", "", NoGroup)

-----------------------------------------------------------------------------
\* One disturbance happens.
Spend(kind) ==
    /\ kind \in Disturbances
    /\ budget > 0
    /\ budget' = budget - 1

(* A request carries what its handler reads: the labels of a registration, *)
(* the run and the status of a report. orphan is 0 while the agent waits   *)
(* for the answer, and afterwards the budget at the moment it stopped      *)
(* waiting, which no two orphans share.                                    *)
Register(a, labels) ==
    [kind |-> "register", agent |-> a, labels |-> labels, orphan |-> 0]
Sync(a) ==
    [kind |-> "sync", agent |-> a, orphan |-> 0]

\* Mutant: the report is put together before the status is known.
ReportEarly(a, run, status) ==
    [kind |-> "report", agent |-> a, run |-> run, status |-> "Running", orphan |-> 0]

Report(a, run, status) ==
    [kind |-> "report", agent |-> a, run |-> run, status |-> status, orphan |-> 0]

Response(code, job) == [code |-> code, job |-> job]

\* The request agent a waits for an answer to, if it has not been served.
Pending(a) == {r \in inflight : r.agent = a /\ r.orphan = 0}

\* The connection is refused when Othela is down: nothing is in flight then.
Send(r) == inflight' = IF up THEN inflight \cup {r} ELSE inflight

\* A handler serves r. Nobody reads the answer to an orphan.
Answer(r, code, job) ==
    /\ inflight' = inflight \ {r}
    /\ reply' = IF r.orphan = 0
                THEN [reply EXCEPT ![r.agent] = Response(code, job)]
                ELSE reply

\* The agent has read its answer.
Consume(a) == reply' = [reply EXCEPT ![a] = NoReply]

\* The agent stops waiting. The request, if Othela has yet to serve it, stays
\* in flight; the answer, if it was on its way, is lost.
Abandon(a) ==
    /\ inflight' = (inflight \ Pending(a))
                   \cup {[r EXCEPT !.orphan = budget] : r \in Pending(a)}
    /\ reply' = [reply EXCEPT ![a] = NoReply]

(* The HTTP client returns an error: refused or reset connections need no  *)
(* disturbance, they come from Othela being down; a timeout is one.        *)
Disconnected(a) ==
    /\ Pending(a) = {}
    /\ reply[a] = NoReply
    /\ UNCHANGED <<inflight, reply, budget>>

Timeout(a) ==
    /\ Pending(a) # {} \/ reply[a] # NoReply
    /\ Spend("timeout")
    /\ Abandon(a)

RequestError(a) == Disconnected(a) \/ Timeout(a)

ExchangeInit ==
    /\ up = FALSE
    /\ inflight = {}
    /\ reply = [a \in Agents |-> NoReply]
    /\ budget = MaxDisturbances

=============================================================================
