--------------------------- MODULE DispatchProofs ---------------------------
(***************************************************************************)
(* Which job a node is given, for any number of agents, playbooks and      *)
(* labels: an agent polls only while Othela knows it under the labels it   *)
(* really has, and so executes only jobs of groups that select it.         *)
(***************************************************************************)
EXTENDS LedgerProofs

(* What these facts depend on, and the code does not provide by itself:    *)
(* no two agents are configured with one identifier, and no registration   *)
(* of a process that is gone can be served after those of the next, unless *)
(* it carries the same labels.                                             *)
OwnIdentity == \A a, b \in Agents : NodeID[a] = NodeID[b] => a = b

NothingAbandoned == Disturbances \cap {"timeout", "agentCrash"} = {}

FixedLabels == \A a \in Agents : \A k, l \in LabelChoices[a] : k = l

-----------------------------------------------------------------------------
(* Enrolment. A registration in flight, or answered and not yet heard of,  *)
(* carries the labels of the process that is there now.                    *)

RegistrationsCurrent ==
    \A r \in inflight : r.kind = "register" => r.labels = labels[r.agent]

LabelsChosen == \A a \in Agents : labels[a] \in LabelChoices[a]

OrphansExplained == NothingAbandoned => \A r \in inflight : r.orphan = 0

Enrolled(a) ==
    /\ NodeID[a] \in DOMAIN nodeStore["sqlite"]
    /\ nodeStore["sqlite"][NodeID[a]] = labels[a]

AnswerEnrolled ==
    \A a \in Agents :
        pc[a] = "registering" /\ reply[a] # NoReply /\ reply[a].code = 200 => Enrolled(a)

EnrolledInv ==
    /\ RegistrationsCurrent /\ LabelsChosen /\ OrphansExplained
    /\ AnswerEnrolled /\ EnrolledWhilePolling

\* Where a request in flight comes from.
LEMMA AgentStepRequests ==
    ASSUME TypeInv, NEW a \in Agents, AgentStep(a), NEW r \in inflight'
    PROVE  \/ r \in inflight
           \/ /\ pc[a] # "down" /\ r.agent = a /\ r.orphan = 0
              /\ r.kind = "register" => r.labels = labels[a]
           \/ /\ pc[a] # "down" /\ ~NothingAbandoned
              /\ \E q \in Pending(a) : r = [q EXCEPT !.orphan = budget]
<1>1. Abandon(a) =>
          r \in inflight \/ \E q \in Pending(a) : r = [q EXCEPT !.orphan = budget]
  BY DEF Abandon
<1>2. RequestError(a) =>
          \/ r \in inflight
          \/ ~NothingAbandoned /\ \E q \in Pending(a) : r = [q EXCEPT !.orphan = budget]
  BY <1>1 DEF RequestError, Disconnected, Timeout, Spend, NothingAbandoned
<1>3. CASE SendRegister(a)
  BY <1>3 DEF SendRegister, Send, Register
<1>4. CASE Poll(a)
  BY <1>4 DEF Poll, Send, Sync
<1>5. CASE FinishRun(a)
  BY <1>5 DEF FinishRun, Send, Report
<1>6. CASE RegisterFails(a) \/ PollFails(a) \/ ReportFails(a)
  BY <1>2, <1>6 DEF RegisterFails, PollFails, ReportFails
<1>7. CASE CrashAgent(a)
  BY <1>1, <1>7 DEF CrashAgent, Spend, NothingAbandoned
<1>8. CASE UNCHANGED inflight
  BY <1>8
<1> QED
  BY <1>3, <1>4, <1>5, <1>6, <1>7, <1>8
     DEF AgentStep, StartAgent, ReceiveRegister, ReceiveJob, ReceiveReport, Cancel,
         StopAgent, exchangeVars

\* Only a start changes the labels of an agent and the number of its process.
LEMMA ProcessStays ==
    ASSUME NEW a \in Agents, AgentStep(a), ~StartAgent(a)
    PROVE  UNCHANGED <<labels, life>>
BY DEF AgentStep, SendRegister, ReceiveRegister, RegisterFails, Poll, ReceiveJob, PollFails,
       FinishRun, ReceiveReport, ReportFails, Cancel, StopAgent, CrashAgent

LEMMA AgentStepRegistrations ==
    ASSUME NothingAbandoned \/ FixedLabels,
           TypeInv, RegistrationsCurrent, LabelsChosen, OrphansExplained,
           NEW a \in Agents, AgentStep(a)
    PROVE  RegistrationsCurrent' /\ LabelsChosen' /\ OrphansExplained'
<1>1. ExchangeTypeOK /\ AgentTypeOK /\ inflight \subseteq Request /\ budget \in Nat
  BY ExchangeAssumption DEF TypeInv, TypeOK, ExchangeTypeOK, Request
<1>2. \A q \in Pending(a) :
          /\ [q EXCEPT !.orphan = budget].kind = q.kind
          /\ [q EXCEPT !.orphan = budget].agent = q.agent
          /\ q.kind = "register" => [q EXCEPT !.orphan = budget].labels = q.labels
  <2> TAKE q \in Pending(a)
  <2>1. q \in Request
    BY <1>1 DEF Pending
  <2> QED
    BY <1>1, <2>1, OrphanedRequest
<1>3. OrphansExplained'
  BY AgentStepRequests DEF OrphansExplained
<1>4. CASE StartAgent(a)
  <2>1. pc[a] = "down" /\ UNCHANGED inflight
    BY <1>4 DEF StartAgent, exchangeVars
  <2>2. PICK l \in LabelChoices[a] : labels' = [labels EXCEPT ![a] = l]
    BY <1>4 DEF StartAgent
  <2>3. labels'[a] = l /\ \A b \in Agents : b # a => labels'[b] = labels[b]
    BY <1>1, <2>2 DEF AgentTypeOK
  <2>4. LabelsChosen'
    BY <2>3 DEF LabelsChosen
  <2>5. \A r \in inflight : labels'[r.agent] = labels[r.agent]
    <3> SUFFICES ASSUME NEW r \in inflight
                 PROVE  labels'[r.agent] = labels[r.agent]
      OBVIOUS
    <3>1. r.agent \in Agents
      BY <1>1, RequestFields
    <3>2. CASE NothingAbandoned
      <4>1. r.agent # a
        BY <2>1, <3>2, NonePending DEF OrphansExplained
      <4> QED
        BY <2>3, <3>1, <4>1
    <3>3. CASE FixedLabels
      BY <2>3, <3>1, <3>3 DEF FixedLabels, LabelsChosen
    <3> QED
      BY <3>2, <3>3
  <2> QED
    BY <1>3, <2>1, <2>4, <2>5 DEF RegistrationsCurrent
<1>5. CASE ~StartAgent(a)
  <2>1. UNCHANGED labels
    BY <1>5, ProcessStays
  <2>2. ASSUME NEW r \in inflight', r.kind = "register"
        PROVE  r.labels = labels[r.agent]
    <3>1. CASE r \in inflight \/ (r.agent = a /\ r.labels = labels[a])
      BY <2>2, <3>1 DEF RegistrationsCurrent
    <3>2. CASE \E q \in Pending(a) : r = [q EXCEPT !.orphan = budget]
      <4>1. PICK q \in Pending(a) : r = [q EXCEPT !.orphan = budget]
        BY <3>2
      <4>2. q \in inflight /\ q.kind = "register" /\ r.agent = q.agent /\ r.labels = q.labels
        BY <1>2, <2>2, <4>1 DEF Pending
      <4> QED
        BY <4>2 DEF RegistrationsCurrent
    <3> QED
      BY <2>2, <3>1, <3>2, AgentStepRequests
  <2> QED
    BY <1>3, <2>1, <2>2 DEF RegistrationsCurrent, LabelsChosen
<1> QED
  BY <1>4, <1>5

Polling == {"idle", "syncing", "running", "reporting"}

\* An agent begins to poll on the answer 200 to its registration.
LEMMA PollingBefore ==
    ASSUME TypeInv, NEW a \in Agents, AgentStep(a), pc'[a] \in Polling
    PROVE  \/ pc[a] \in Polling
           \/ pc[a] = "registering" /\ reply[a] # NoReply /\ reply[a].code = 200
<1>1. AgentTypeOK
  BY DEF TypeInv, TypeOK
<1> QED
  BY <1>1
     DEF Polling, AgentTypeOK, AgentStep, StartAgent, SendRegister, ReceiveRegister,
         RegisterFails, Poll, ReceiveJob, PollFails, FinishRun, ReceiveReport, ReportFails,
         Cancel, StopAgent, CrashAgent, Goto

LEMMA AgentStepEnrolled ==
    ASSUME NothingAbandoned \/ FixedLabels,
           TypeInv, EnrolledInv, NEW a \in Agents, AgentNext(a)
    PROVE  EnrolledInv'
<1>1. AgentStep(a) /\ UNCHANGED nodeStore
  BY DEF AgentNext, othelaVars
<1>2. RegistrationsCurrent' /\ LabelsChosen' /\ OrphansExplained'
  BY <1>1, AgentStepRegistrations DEF EnrolledInv
<1>3. CASE Cancel(a)
  BY <1>1, <1>2, <1>3
     DEF Cancel, EnrolledInv, AnswerEnrolled, EnrolledWhilePolling, Enrolled
<1>4. CASE ~Cancel(a)
  <2>1. \A b \in Agents : b # a =>
            reply'[b] = reply[b] /\ pc'[b] = pc[b] /\ labels'[b] = labels[b]
    BY <1>1, <1>4, AgentStepAnswers
  <2>2. AnswerEnrolled'
    BY <1>1, <1>4, <2>1, AgentStepAnswers DEF EnrolledInv, AnswerEnrolled, Enrolled
  <2>3. EnrolledWhilePolling'
    <3> SUFFICES ASSUME NEW b \in Agents, pc'[b] \in Polling
                 PROVE  /\ NodeID[b] \in DOMAIN nodeStore["sqlite"]
                        /\ nodeStore["sqlite"][NodeID[b]] = labels'[b]
      BY <1>1 DEF EnrolledWhilePolling, Polling
    <3>1. CASE b # a
      BY <2>1, <3>1 DEF EnrolledInv, EnrolledWhilePolling, Polling
    <3>2. CASE b = a
      <4>1. Enrolled(a)
        BY <1>1, <3>2, PollingBefore
           DEF EnrolledInv, EnrolledWhilePolling, AnswerEnrolled, Enrolled, Polling
      <4>2. ~StartAgent(a)
        BY <3>2 DEF StartAgent, Goto, Polling, TypeInv, TypeOK, AgentTypeOK
      <4> QED
        BY <1>1, <3>2, <4>1, <4>2, ProcessStays DEF Enrolled
    <3> QED
      BY <3>1, <3>2
  <2> QED
    BY <1>2, <2>2, <2>3 DEF EnrolledInv
<1> QED
  BY <1>3, <1>4

\* What a handler answers, and to whom.
LEMMA ServedAnswer ==
    ASSUME TypeInv, NEW r \in inflight, NEW code, NEW job, Answer(r, code, job)
    PROVE  /\ r.agent \in Agents
           /\ inflight' \subseteq inflight
           /\ \A a \in Agents : reply'[a] # reply[a] =>
                 /\ a = r.agent /\ r.orphan = 0
                 /\ pc[a] = WaitingPC(r.kind)
                 /\ reply'[a].code = code /\ reply'[a].job = job
<1>1. r.agent \in Agents /\ reply \in [Agents -> Reply \cup {NoReply}]
  BY RequestFields DEF TypeInv, TypeOK, ExchangeTypeOK, Request
<1> QED
  BY <1>1 DEF Answer, Response, TypeInv, Protocol, PendingAwaited

LEMMA OthelaStepEnrolled ==
    ASSUME Backends = {"sqlite"}, "registerError" \notin Disturbances, OwnIdentity,
           TypeInv, EnrolledInv, OthelaNext
    PROVE  EnrolledInv'
<1>1. OthelaTypeOK /\ UNCHANGED agentVars /\ backend = "sqlite"
  BY DEF TypeInv, TypeOK, OthelaNext, OthelaTypeOK
<1>2. ASSUME inflight' \subseteq inflight,
             \A a \in Agents : Enrolled(a) => Enrolled(a)',
             \A a \in Agents :
                 pc[a] = "registering" /\ reply'[a] # NoReply /\ reply'[a].code = 200
                     => reply'[a] = reply[a] \/ Enrolled(a)'
      PROVE  EnrolledInv'
  <2>1. AnswerEnrolled'
    BY <1>1, <1>2 DEF EnrolledInv, AnswerEnrolled, agentVars
  <2>2. EnrolledWhilePolling'
    BY <1>1, <1>2 DEF EnrolledInv, EnrolledWhilePolling, Enrolled, agentVars
  <2> QED
    BY <1>1, <1>2, <2>1, <2>2
       DEF EnrolledInv, RegistrationsCurrent, LabelsChosen, OrphansExplained, agentVars
<1>3. ASSUME nodeStore'["sqlite"] = nodeStore["sqlite"]
      PROVE  \A a \in Agents : Enrolled(a) => Enrolled(a)'
  BY <1>1, <1>3 DEF Enrolled, agentVars
<1>4. CASE OthelaStart \/ EditPlaybooks
  BY <1>1, <1>2, <1>3, <1>4 DEF OthelaStart, EditPlaybooks, OthelaTypeOK
<1>5. CASE OthelaCrash
  BY <1>2, <1>3, <1>5 DEF OthelaCrash
<1>6. ASSUME NEW r \in inflight, HandleSync(r) \/ HandleReport(r)
      PROVE  EnrolledInv'
  <2>1. PICK code, job : Answer(r, code, job)
    BY <1>6 DEF HandleSync, HandleReport
  <2>2. WaitingPC(r.kind) # "registering"
    BY <1>6 DEF HandleSync, HandleReport, WaitingPC
  <2> QED
    BY <1>2, <1>3, <1>6, <2>1, <2>2, ServedAnswer DEF HandleSync, HandleReport
<1>7. ASSUME NEW r \in inflight, HandleRegister(r)
      PROVE  EnrolledInv'
  <2> DEFINE known == nodeStore["sqlite"]
             n     == NodeID[r.agent]
  <2>1. nodeStore' = [nodeStore EXCEPT !["sqlite"] = Put(known, n, r.labels)]
    BY <1>1, <1>7 DEF HandleRegister, StoreFails, Spend
  <2>2. nodeStore'["sqlite"] = Put(known, n, r.labels)
    BY <1>1, <2>1 DEF OthelaTypeOK
  <2>3. r.agent \in Agents /\ r.labels = labels[r.agent] /\ Answer(r, 200, NoJob)
    BY <1>7, ServedAnswer DEF HandleRegister, EnrolledInv, RegistrationsCurrent
  <2>4. Enrolled(r.agent)'
    BY <1>1, <2>2, <2>3 DEF Enrolled, Put, agentVars
  <2>5. \A a \in Agents : Enrolled(a) => Enrolled(a)'
    BY <1>1, <2>2, <2>3, <2>4 DEF Enrolled, Put, OwnIdentity, agentVars
  <2> QED
    BY <1>2, <2>3, <2>4, <2>5, ServedAnswer
<1> QED
  BY <1>4, <1>5, <1>6, <1>7 DEF OthelaNext, Serve, Handle

LEMMA InitEnrolled == Init => EnrolledInv
BY DEF Init, ExchangeInit, AgentInit, EnrolledInv, RegistrationsCurrent, LabelsChosen,
       OrphansExplained, AnswerEnrolled, EnrolledWhilePolling

LEMMA NextEnrolled ==
    ASSUME Backends = {"sqlite"}, "registerError" \notin Disturbances, OwnIdentity,
           NothingAbandoned \/ FixedLabels
    PROVE  TypeInv /\ EnrolledInv /\ [Next]_vars => EnrolledInv'
<1> SUFFICES ASSUME TypeInv, EnrolledInv, [Next]_vars
             PROVE  EnrolledInv'
  OBVIOUS
<1>1. CASE Next
  BY <1>1, OthelaStepEnrolled, AgentStepEnrolled DEF Next
<1>2. CASE UNCHANGED vars
  BY <1>2
     DEF vars, exchangeVars, othelaVars, agentVars, EnrolledInv, RegistrationsCurrent,
         LabelsChosen, OrphansExplained, AnswerEnrolled, EnrolledWhilePolling, Enrolled
<1> QED
  BY <1>1, <1>2

\* Registering once per process is enough, across restarts of Othela, as long as
\* the database keeps what Register was called with and the last registration to
\* be served is one of the process that polls.
THEOREM EnrolmentCorrect ==
    ASSUME Backends = {"sqlite"}, "registerError" \notin Disturbances, OwnIdentity,
           NothingAbandoned \/ FixedLabels
    PROVE  Spec => []EnrolledWhilePolling
<1>1. EnrolledInv => EnrolledWhilePolling
  BY DEF EnrolledInv
<1> QED
  BY <1>1, InitType, NextType, InitEnrolled, NextEnrolled, PTL DEF Spec

-----------------------------------------------------------------------------
(* Matching. A job answered to a poll is of a group that the labels of the *)
(* polling process satisfy, because these are the labels matched against.  *)

Selected(job, l) == job.group # NoGroup => isSubset(job.group.nodeSelector, l)

AnswerSelected ==
    \A a \in Agents :
        pc[a] = "syncing" /\ reply[a] # NoReply /\ reply[a].code = 200
            => Selected(reply[a].job, labels[a])

MatchInv == currentJob.group = NoGroup /\ AnswerSelected /\ JobsMatchLabels

LEMMA JobsForSelects ==
    ASSUME currentJob.group = NoGroup, NEW l, NEW job \in JobsFor(l), job # NoJob
    PROVE  Selected(job, l)
<1>1. CASE job \in MatchedJobs(l)
  <2>1. PICK i \in First(MatchingPlaybooks(l)) :
            \E g \in GroupsTaken(catalog[i], l) : job = GroupJob(catalog[i], g)
    BY <1>1 DEF MatchedJobs
  <2>2. PICK g \in GroupsTaken(catalog[i], l) : job = GroupJob(catalog[i], g)
    BY <2>1
  <2>3. job.group = catalog[i].manifest.nodeGroups[g]
    BY <2>2 DEF GroupJob, Job
  <2>4. isSubset(catalog[i].manifest.nodeGroups[g].nodeSelector, l)
    BY DEF GroupsTaken, First, MatchNodeGroups
  <2> QED
    BY <2>3, <2>4 DEF Selected
<1>2. CASE job = currentJob
  BY <1>2 DEF Selected
<1> QED
  BY <1>1, <1>2 DEF JobsFor

\* A node without labels is in no group, unless a selector asks for an empty value.
LEMMA NoLabelsUnselected ==
    ASSUME NoEmptyLabel, NEW selector \in Labels
    PROVE  ~isSubset(selector, NoLabels)
<1> SUFFICES ASSUME isSubset(selector, NoLabels)
             PROVE  FALSE
  OBVIOUS
<1>1. PICK k \in DOMAIN selector : Lookup(NoLabels, k) = selector[k]
  BY DEF isSubset
<1>2. DOMAIN NoLabels = {}
  BY DEF NoLabels
<1>3. selector[k] = ""
  BY <1>1, <1>2 DEF Lookup
<1>4. selector[k] \in LabelValues
  BY DEF Labels
<1> QED
  BY <1>3, <1>4 DEF NoEmptyLabel

LEMMA FallbackUngrouped ==
    ASSUME NEW now
    PROVE  FallbackJob(now).group = NoGroup
BY DEF FallbackJob, EmptyJob, Job

\* Executions are never altered but in their outcome, and begin on an answer.
LEMMA RunBefore ==
    ASSUME FleetInv, NEW a \in Agents, AgentStep(a), NEW b \in Agents, NEW i \in DOMAIN runs'[b]
    PROVE  \/ i \in DOMAIN runs[b] /\ SameRun(runs'[b][i], runs[b][i])
           \/ /\ b = a /\ ReceiveJob(a) /\ reply[a].code = 200
              /\ runs'[b][i] = NewRun(a, reply[a].job)
<1>1. /\ AgentTypeOK /\ runs \in [Agents -> Seq(Run)]
      /\ pc[a] \in {"running", "reporting"} => runs[a] # <<>>
      /\ pc[a] = "reporting" => runs[a][LastRun(a)].status \in RunStatus
  <2>1. AgentTypeOK /\ (pc[a] \in {"running", "reporting"} => runs[a] # <<>>)
    BY DEF FleetInv, TypeInv, TypeOK, Protocol, RunUnderWay
  <2> QED
    BY <2>1, LastRunTyped DEF AgentTypeOK
<1>2. CASE UNCHANGED runs
  BY <1>2 DEF SameRun
<1>3. ASSUME NEW status \in RunStatus, NEW report \in ReportStatus,
             pc[a] \in {"running", "reporting"}, SetRun(a, status, report)
      PROVE  i \in DOMAIN runs[b] /\ SameRun(runs'[b][i], runs[b][i])
  BY <1>1, <1>3, SetRunEffect DEF SameRun
<1>4. CASE FinishRun(a)
  BY <1>3, <1>4 DEF FinishRun, RunStatus, ReportStatus
<1>5. CASE ReceiveReport(a) \/ ReportFails(a)
  BY <1>1, <1>3, <1>5 DEF ReceiveReport, ReportFails, ReportStatus
<1>6. CASE CrashAgent(a)
  BY <1>1, <1>2, <1>3, <1>6 DEF CrashAgent, RunStatus, ReportStatus
<1>7. CASE ReceiveJob(a) /\ NewWork(a, reply[a])
  <2> DEFINE run == NewRun(a, reply[a].job)
  <2>1. reply[a].job \in Dispatched /\ life[a] \in Nat /\ runs[a] \in Seq(Run)
    BY <1>1, <1>7
       DEF FleetInv, TypeInv, TypeOK, AgentTypeOK, Protocol, JobAnswered, ReceiveJob, NewWork
  <2>2. run \in Run
    BY <2>1 DEF NewRun, Run, RunStatus, ReportStatus
  <2>3. runs' = [runs EXCEPT ![a] = Append(runs[a], run)]
    BY <1>7 DEF ReceiveJob
  <2> HIDE DEF run
  <2>4. /\ DOMAIN runs'[a] = DOMAIN runs[a] \cup {Len(runs[a]) + 1}
        /\ \A k \in DOMAIN runs[a] : runs'[a][k] = runs[a][k]
        /\ runs'[a][Len(runs[a]) + 1] = run
        /\ \A c \in Agents : c # a => runs'[c] = runs[c]
    BY <1>1, <2>1, <2>2, <2>3, SeqAppend
  <2>5. (i \in DOMAIN runs[b] /\ runs'[b][i] = runs[b][i]) \/ (b = a /\ runs'[b][i] = run)
    BY <2>4
  <2> QED
    BY <1>7, <2>5 DEF SameRun, NewWork, run
<1> QED
  BY <1>2, <1>4, <1>5, <1>6, <1>7
     DEF AgentStep, StartAgent, SendRegister, ReceiveRegister, RegisterFails, Poll,
         ReceiveJob, PollFails, Cancel, StopAgent

LEMMA AgentStepMatch ==
    ASSUME FleetInv, LifeBound, MatchInv, NEW a \in Agents, AgentNext(a)
    PROVE  MatchInv'
<1>1. TypeInv /\ AgentTypeOK /\ AgentStep(a) /\ UNCHANGED currentJob
  BY DEF FleetInv, TypeInv, TypeOK, AgentNext, othelaVars
<1>2. AnswerSelected'
  <2>1. CASE Cancel(a)
    BY <2>1 DEF Cancel, MatchInv, AnswerSelected, Selected
  <2>2. CASE ~Cancel(a)
    BY <1>1, <2>2, AgentStepAnswers DEF MatchInv, AnswerSelected, Selected
  <2> QED
    BY <2>1, <2>2
<1>3. JobsMatchLabels'
  <2> SUFFICES ASSUME NEW b \in Agents, NEW i \in DOMAIN runs'[b],
                      runs'[b][i].life = life'[b]
               PROVE  Selected(runs'[b][i].job, labels'[b])
    BY DEF JobsMatchLabels, Selected
  <2>1. CASE i \in DOMAIN runs[b] /\ SameRun(runs'[b][i], runs[b][i])
    <3>1. life'[b] = life[b] /\ labels'[b] = labels[b]
      <4>1. CASE StartAgent(a)
        <5>1. runs[b][i].life <= life[b] /\ runs[b][i].life \in Nat /\ life[b] \in Nat
          BY <1>1, <2>1, HistoryTyped DEF LifeBound
        <5>2. b # a
          <6>1. life'[a] = life[a] + 1
            BY <1>1, <4>1 DEF StartAgent, AgentTypeOK
          <6>2. runs[b][i].life = life'[b]
            BY <2>1 DEF SameRun
          <6> QED
            BY <5>1, <6>1, <6>2
        <5>3. ~Cancel(a)
          BY <4>1 DEF StartAgent, Cancel
        <5> QED
          BY <1>1, <5>2, <5>3, AgentStepAnswers
      <4>2. CASE ~StartAgent(a)
        BY <1>1, <4>2, ProcessStays
      <4> QED
        BY <4>1, <4>2
    <3> QED
      BY <2>1, <3>1 DEF SameRun, MatchInv, JobsMatchLabels, Selected
  <2>2. CASE b = a /\ ReceiveJob(a) /\ reply[a].code = 200
             /\ runs'[b][i] = NewRun(a, reply[a].job)
    <3>1. Selected(reply[a].job, labels[a]) /\ labels'[a] = labels[a]
      BY <2>2 DEF ReceiveJob, MatchInv, AnswerSelected
    <3>2. runs'[b][i].job = reply[a].job
      BY <2>2 DEF NewRun
    <3> QED
      BY <2>2, <3>1, <3>2
  <2> QED
    BY <1>1, <2>1, <2>2, RunBefore
<1> QED
  BY <1>1, <1>2, <1>3 DEF MatchInv

LEMMA OthelaStepMatch ==
    ASSUME Backends = {"sqlite"}, NoEmptyLabel \/ "readError" \notin Disturbances,
           TypeInv, EnrolledInv, MatchInv, OthelaNext
    PROVE  MatchInv'
<1>1. OthelaTypeOK /\ UNCHANGED agentVars /\ backend = "sqlite"
  BY DEF TypeInv, TypeOK, OthelaNext, OthelaTypeOK
<1>2. ASSUME currentJob'.group = NoGroup,
             \A a \in Agents :
                 pc[a] = "syncing" /\ reply'[a] # NoReply /\ reply'[a].code = 200
                     => reply'[a] = reply[a] \/ Selected(reply'[a].job, labels[a])
      PROVE  MatchInv'
  <2>1. AnswerSelected'
    <3> SUFFICES ASSUME NEW a \in Agents,
                        pc[a] = "syncing", reply'[a] # NoReply, reply'[a].code = 200
                 PROVE  Selected(reply'[a].job, labels[a])
      BY <1>1 DEF AnswerSelected, Selected, agentVars
    <3>1. CASE reply'[a] = reply[a]
      BY <3>1 DEF MatchInv, AnswerSelected
    <3> QED
      BY <1>2, <3>1
  <2>2. JobsMatchLabels'
    BY <1>1 DEF MatchInv, JobsMatchLabels, agentVars
  <2> QED
    BY <1>2, <2>1, <2>2 DEF MatchInv
<1>3. CASE OthelaStart
  BY <1>2, <1>3, FallbackUngrouped DEF OthelaStart
<1>4. CASE OthelaCrash
  BY <1>2, <1>4 DEF OthelaCrash, EmptyJob, Job
<1>5. CASE EditPlaybooks
  BY <1>2, <1>5 DEF EditPlaybooks, MatchInv
<1>6. CASE Serve
  <2>1. PICK r \in inflight : HandleRegister(r) \/ HandleSync(r) \/ HandleReport(r)
    BY <1>6 DEF Serve, Handle
  <2>2. currentJob'.group = NoGroup
    BY <1>6 DEF Serve, Handle, MatchInv
  <2>3. CASE HandleRegister(r) \/ HandleReport(r)
    <3>1. PICK code, job : Answer(r, code, job)
      BY <2>3 DEF HandleRegister, HandleReport
    <3>2. WaitingPC(r.kind) # "syncing"
      BY <2>3 DEF HandleRegister, HandleReport, WaitingPC
    <3> QED
      BY <1>2, <2>2, <3>1, <3>2, ServedAnswer
  <2>4. CASE HandleSync(r)
    <3> DEFINE stored == nodeStore["sqlite"][NodeID[r.agent]]
    <3>1. ASSUME NEW code, NEW job, Answer(r, code, job),
                 code = 200 /\ pc[r.agent] = "syncing" => Selected(job, labels[r.agent])
          PROVE  MatchInv'
      BY <1>2, <2>2, <3>1, ServedAnswer DEF Selected
    <3>2. CASE Answer(r, 403, NoJob)
      BY <3>1, <3>2
    <3>3. CASE \E job \in JobsFor(stored) : Answer(r, IF job = NoJob THEN 204 ELSE 200, job)
      <4>1. PICK job \in JobsFor(stored) : Answer(r, IF job = NoJob THEN 204 ELSE 200, job)
        BY <3>3
      <4>2. pc[r.agent] = "syncing" => stored = labels[r.agent]
        BY <4>1, ServedAnswer DEF EnrolledInv, EnrolledWhilePolling
      <4>3. job # NoJob => Selected(job, stored)
        BY <4>1, JobsForSelects DEF MatchInv
      <4> QED
        BY <3>1, <4>1, <4>2, <4>3
    <3>4. CASE /\ "readError" \in Disturbances
               /\ \E job \in JobsFor(NoLabels) :
                     Answer(r, IF job = NoJob THEN 204 ELSE 200, job)
      <4>1. PICK job \in JobsFor(NoLabels) : Answer(r, IF job = NoJob THEN 204 ELSE 200, job)
        BY <3>4
      <4>2. job # NoJob => Selected(job, NoLabels) /\ job \in Dispatched
        BY <1>1, <4>1, JobsForSelects, JobsForType, NoLabelsType DEF MatchInv, OthelaTypeOK
      <4>3. job # NoJob => job.group = NoGroup
        <5>1. job # NoJob /\ job.group # NoGroup => job.group.nodeSelector \in Labels
          BY <4>2 DEF Dispatched, NodeGroup
        <5> QED
          BY <3>4, <4>2, <5>1, NoLabelsUnselected DEF Selected
      <4> QED
        BY <3>1, <4>1, <4>3 DEF Selected
    <3> QED
      BY <1>1, <2>4, <3>2, <3>3, <3>4 DEF HandleSync, StoreFails, Spend
  <2> QED
    BY <2>1, <2>3, <2>4
<1> QED
  BY <1>3, <1>4, <1>5, <1>6 DEF OthelaNext

LEMMA InitMatch == Init => MatchInv
<1> SUFFICES ASSUME Init
             PROVE  MatchInv
  OBVIOUS
<1>1. currentJob.group = NoGroup
  BY DEF Init, OthelaInit, EmptyJob, Job
<1>2. AnswerSelected
  BY DEF Init, AgentInit, AnswerSelected
<1>3. JobsMatchLabels
  BY DEF Init, AgentInit, JobsMatchLabels
<1> QED
  BY <1>1, <1>2, <1>3 DEF MatchInv

LEMMA NextMatch ==
    ASSUME Backends = {"sqlite"}, NoEmptyLabel \/ "readError" \notin Disturbances
    PROVE  FleetInv /\ RepeatInv /\ EnrolledInv /\ MatchInv /\ [Next]_vars => MatchInv'
<1> SUFFICES ASSUME FleetInv, RepeatInv, EnrolledInv, MatchInv, [Next]_vars
             PROVE  MatchInv'
  OBVIOUS
<1>1. CASE Next
  BY <1>1, OthelaStepMatch, AgentStepMatch DEF Next, FleetInv, RepeatInv
<1>2. CASE UNCHANGED vars
  BY <1>2
     DEF vars, exchangeVars, othelaVars, agentVars, MatchInv, AnswerSelected, JobsMatchLabels,
         Selected
<1> QED
  BY <1>1, <1>2

\* "Only matching agents receive the deployment" (README.md:178): what is matched
\* at a poll are the stored labels of the node, and these are the labels of the
\* process that polls and later executes. An error of GetLabels, which matches a
\* node against no labels at all, selects no group as long as no selector asks for
\* an empty value, which Go reads out of a map that lacks the key.
THEOREM DispatchCorrect ==
    ASSUME Backends = {"sqlite"}, "registerError" \notin Disturbances, OwnIdentity,
           NothingAbandoned \/ FixedLabels,
           NoEmptyLabel \/ "readError" \notin Disturbances
    PROVE  Spec => []JobsMatchLabels
<1>1. MatchInv => JobsMatchLabels
  BY DEF MatchInv
<1>2. FleetInv => TypeInv
  BY DEF FleetInv
<1> QED
  BY <1>1, <1>2, FleetInit, FleetNext, InitRepeat, NextRepeat, InitEnrolled, NextEnrolled,
     InitMatch, NextMatch, PTL DEF Spec

=============================================================================
