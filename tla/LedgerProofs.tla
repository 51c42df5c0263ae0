---------------------------- MODULE LedgerProofs ----------------------------
(***************************************************************************)
(* What becomes of executions and their reports, for any number of agents, *)
(* playbooks, labels and disturbances: the fleet implements RunLedger, a   *)
(* report is overtaken only if its agent gave up on it, an acknowledged    *)
(* report stays stored, and a job that succeeded is not repeated.          *)
(***************************************************************************)
EXTENDS HelviletteProofs

FleetInv == TypeInv /\ ReportInv

LEMMA FleetInit == Init => FleetInv
BY InitType, InitReports DEF FleetInv

LEMMA FleetNext == FleetInv /\ [Next]_vars => FleetInv'
BY NextType, NextReports DEF FleetInv

-----------------------------------------------------------------------------
(* Refinement of RunLedger. The state of the ledger under its mapping, and *)
(* its four actions as steps of that state.                                *)

UnderWay == {e \in StartedRuns : runs[e[1]][e[2]].status = "Running"}

OnTheWay ==
    {[run |-> <<r.agent, r.run>>, status |-> r.status] :
        r \in {q \in inflight : q.kind = "report"}}

Book ==
    [i \in DOMAIN reportStore["sqlite"] |->
        [run |-> Reported("sqlite", i), status |-> reportStore["sqlite"][i].status]]

LEMMA LedgerBegin ==
    ASSUME NEW e, e \notin StartedRuns,
           StartedRuns' = StartedRuns \cup {e},
           UnderWay' = UnderWay \cup {e},
           OnTheWay' = OnTheWay,
           Book' = Book
    PROVE  Ledger!Next
<1>1. Ledger!Begin(e) /\ e \in StartedRuns'
  BY DEF Ledger!Begin, UnderWay, OnTheWay, Book
<1> QED
  BY <1>1 DEF Ledger!Next

LEMMA LedgerFinish ==
    ASSUME NEW e \in UnderWay, NEW status,
           StartedRuns' = StartedRuns,
           UnderWay' = UnderWay \ {e},
           OnTheWay' = OnTheWay \cup {[run |-> e, status |-> status]},
           Book' = Book
    PROVE  Ledger!Next
<1> DEFINE o == [run |-> e, status |-> status]
<1>1. Ledger!Finish(o.run, o.status)
  BY DEF Ledger!Finish, Ledger!Outcome, UnderWay, OnTheWay, Book
<1>2. o \in OnTheWay'
  OBVIOUS
<1> HIDE DEF o
<1> QED
  BY <1>1, <1>2 DEF Ledger!Next, OnTheWay

LEMMA LedgerRecord ==
    ASSUME NEW o \in OnTheWay,
           StartedRuns' = StartedRuns,
           UnderWay' = UnderWay,
           OnTheWay' = OnTheWay \ {o},
           Book' = Append(Book, o)
    PROVE  Ledger!Next
<1>1. Ledger!Record(o)
  BY DEF Ledger!Record, UnderWay, OnTheWay, Book
<1> QED
  BY <1>1 DEF Ledger!Next, OnTheWay

LEMMA LedgerLose ==
    ASSUME StartedRuns' = StartedRuns,
           UnderWay' \subseteq UnderWay,
           OnTheWay' \subseteq OnTheWay,
           Book' = Book
    PROVE  Ledger!Next
<1>1. Ledger!Lose
  BY DEF Ledger!Lose, UnderWay, OnTheWay, Book
<1> QED
  BY <1>1 DEF Ledger!Next

-----------------------------------------------------------------------------
(* How the steps of the fleet move that state.                             *)


LEMMA StartedPair ==
    ASSUME NEW e \in StartedRuns
    PROVE  /\ e = <<e[1], e[2]>>
           /\ e[1] \in Agents
           /\ e[2] \in DOMAIN runs[e[1]]
BY DEF StartedRuns

\* Executions whose history did not change are where they were.
LEMMA RunsStay ==
    ASSUME UNCHANGED runs
    PROVE  StartedRuns' = StartedRuns /\ UnderWay' = UnderWay
BY DEF StartedRuns, UnderWay

LEMMA ReportsStay ==
    ASSUME ReportsDescend
    PROVE  OnTheWay' \subseteq OnTheWay
<1> SUFFICES ASSUME NEW r \in inflight', r.kind = "report"
             PROVE  [run |-> <<r.agent, r.run>>, status |-> r.status] \in OnTheWay
  BY DEF OnTheWay
<1>1. PICK q \in inflight : SameReport(r, q)
  BY DEF ReportsDescend
<1> QED
  BY <1>1 DEF SameReport, OnTheWay

LEMMA BookStays ==
    ASSUME reportStore'["sqlite"] = reportStore["sqlite"]
    PROVE  Book' = Book
BY DEF Book, Reported

\* A step that only loses reports, if anything.
LEMMA QuietStep ==
    ASSUME UNCHANGED runs, ReportsDescend, reportStore'["sqlite"] = reportStore["sqlite"]
    PROVE  Ledger!Next
BY RunsStay, ReportsStay, BookStays, LedgerLose

\* An update of the last run of an agent.
LEMMA SetRunMoves ==
    ASSUME AgentTypeOK, NEW a \in Agents, runs[a] # <<>>,
           NEW status \in RunStatus, NEW report \in ReportStatus,
           SetRun(a, status, report)
    PROVE  /\ StartedRuns' = StartedRuns
           /\ <<a, LastRun(a)>> \in StartedRuns
           /\ <<a, LastRun(a)>> \in UnderWay' <=> status = "Running"
           /\ \A e \in StartedRuns :
                 e # <<a, LastRun(a)>> => (e \in UnderWay' <=> e \in UnderWay)
<1>1. /\ \A b \in Agents : DOMAIN runs'[b] = DOMAIN runs[b]
      /\ LastRun(a) \in DOMAIN runs[a]
      /\ \A b \in Agents : \A i \in DOMAIN runs[b] :
            <<b, i>> # <<a, LastRun(a)>> => runs'[b][i] = runs[b][i]
      /\ runs'[a][LastRun(a)].status = status
  BY SetRunEffect DEF AgentTypeOK
<1>2. StartedRuns' = StartedRuns /\ <<a, LastRun(a)>> \in StartedRuns
  BY <1>1 DEF StartedRuns
<1>3. <<a, LastRun(a)>> \in UnderWay' <=> status = "Running"
  BY <1>1, <1>2 DEF UnderWay
<1>4. ASSUME NEW e \in StartedRuns, e # <<a, LastRun(a)>>
      PROVE  e \in UnderWay' <=> e \in UnderWay
  <2>1. runs'[e[1]][e[2]] = runs[e[1]][e[2]]
    BY <1>1, <1>4, StartedPair
  <2> QED
    BY <1>2, <1>4, <2>1 DEF UnderWay
<1> QED
  BY <1>2, <1>3, <1>4

\* An agent that dies or hears of its report loses an execution at most.
LEMMA SettledStep ==
    ASSUME AgentTypeOK, NEW a \in Agents, runs[a] # <<>>,
           NEW status \in RunStatus, NEW report \in ReportStatus,
           SetRun(a, status, report),
           status \in {"Unknown", runs[a][LastRun(a)].status},
           ReportsDescend, reportStore'["sqlite"] = reportStore["sqlite"]
    PROVE  Ledger!Next
<1>1. StartedRuns' = StartedRuns
  BY SetRunMoves
<1>2. UnderWay' \subseteq UnderWay
  <2>1. UnderWay' \subseteq StartedRuns
    BY <1>1 DEF UnderWay
  <2>2. <<a, LastRun(a)>> \in UnderWay' => <<a, LastRun(a)>> \in UnderWay
    BY SetRunMoves DEF UnderWay
  <2> QED
    BY <2>1, <2>2, SetRunMoves
<1> QED
  BY <1>1, <1>2, ReportsStay, BookStays, LedgerLose

LEMMA LastRunTyped ==
    ASSUME AgentTypeOK, NEW a \in Agents, runs[a] # <<>>
    PROVE  /\ LastRun(a) \in DOMAIN runs[a]
           /\ LastRun(a) \in Nat
           /\ DOMAIN runs[a] = 1..LastRun(a)
           /\ runs[a][LastRun(a)] \in Run
           /\ runs[a][LastRun(a)].status \in RunStatus
<1>1. runs[a] \in Seq(Run)
  BY DEF AgentTypeOK
<1>2. LastRun(a) \in DOMAIN runs[a] /\ LastRun(a) \in Nat /\ DOMAIN runs[a] = 1..LastRun(a)
  BY <1>1 DEF LastRun
<1>3. runs[a][LastRun(a)] \in Run
  BY <1>1, <1>2
<1> QED
  BY <1>2, <1>3 DEF Run

-----------------------------------------------------------------------------
(* The steps of an agent.                                                  *)

LEMMA FinishRunLedger ==
    ASSUME FleetInv, NEW a \in Agents, FinishRun(a), UNCHANGED reportStore
    PROVE  Ledger!Next
<1> DEFINE n == LastRun(a)
<1>1. AgentTypeOK /\ runs[a] # <<>> /\ runs[a][n].status = "Running"
  BY DEF FleetInv, TypeInv, TypeOK, Protocol, RunUnderWay, ReportInv, RunningIsRunning,
         FinishRun
<1>2. PICK status \in {"Success", "Failed"} :
          SetRun(a, status, "sending") /\ Send(Report(a, n, status))
  BY DEF FinishRun
<1>3. /\ StartedRuns' = StartedRuns
      /\ <<a, n>> \in StartedRuns
      /\ <<a, n>> \notin UnderWay'
      /\ \A e \in StartedRuns : e # <<a, n>> => (e \in UnderWay' <=> e \in UnderWay)
  BY <1>1, <1>2, SetRunMoves DEF RunStatus, ReportStatus
<1>4. <<a, n>> \in UnderWay
  BY <1>1, <1>3 DEF UnderWay
<1>5. UnderWay' = UnderWay \ {<<a, n>>}
  <2>1. UnderWay \subseteq StartedRuns /\ UnderWay' \subseteq StartedRuns
    BY <1>3 DEF UnderWay
  <2> QED
    BY <1>3, <2>1
<1>6. Book' = Book
  BY BookStays
<1>7. CASE up
  <2> DEFINE r == Report(a, n, status)
  <2>1. inflight' = inflight \cup {r}
    BY <1>2, <1>7 DEF Send
  <2>2. r.kind = "report" /\ r.agent = a /\ r.run = n /\ r.status = status
    BY DEF Report
  <2> HIDE DEF r, n
  <2>3. OnTheWay' = OnTheWay \cup {[run |-> <<a, n>>, status |-> status]}
    BY <2>1, <2>2 DEF OnTheWay
  <2> QED
    BY <1>3, <1>4, <1>5, <1>6, <2>3, LedgerFinish
<1>8. CASE ~up
  <2>1. inflight' = inflight
    BY <1>2, <1>8 DEF Send
  <2>2. OnTheWay' = OnTheWay
    BY <2>1 DEF OnTheWay
  <2> QED
    BY <1>3, <1>5, <1>6, <2>2, LedgerLose
<1> QED
  BY <1>7, <1>8

LEMMA ReceiveJobLedger ==
    ASSUME FleetInv, NEW a \in Agents, ReceiveJob(a), NewWork(a, reply[a]),
           UNCHANGED reportStore
    PROVE  Ledger!Next
<1> DEFINE run == NewRun(a, reply[a].job)
           n   == LastRun(a) + 1
<1>1. runs \in [Agents -> Seq(Run)] /\ reply[a].job \in Dispatched /\ life[a] \in Nat
  BY DEF FleetInv, TypeInv, TypeOK, AgentTypeOK, Protocol, JobAnswered, ReceiveJob, NewWork
<1>2. run \in Run /\ run.status = "Running"
  BY <1>1 DEF NewRun, Run, RunStatus, ReportStatus
<1> HIDE DEF run
<1>3. runs' = [runs EXCEPT ![a] = Append(runs[a], run)]
  BY DEF ReceiveJob, run
<1>4. runs[a] \in Seq(Run)
  BY <1>1
<1>5. /\ DOMAIN runs'[a] = DOMAIN runs[a] \cup {n}
      /\ n \notin DOMAIN runs[a]
      /\ runs'[a][n] = run
      /\ \A i \in DOMAIN runs[a] : runs'[a][i] = runs[a][i]
      /\ \A b \in Agents : b # a => runs'[b] = runs[b]
  BY <1>1, <1>2, <1>3, <1>4, SeqAppend DEF LastRun
<1> HIDE DEF n
<1>6. <<a, n>> \notin StartedRuns /\ StartedRuns' = StartedRuns \cup {<<a, n>>}
  BY <1>5 DEF StartedRuns
<1>7. \A e \in StartedRuns : runs'[e[1]][e[2]] = runs[e[1]][e[2]]
  BY <1>5, StartedPair
<1>8. UnderWay' = UnderWay \cup {<<a, n>>}
  BY <1>2, <1>5, <1>6, <1>7 DEF UnderWay
<1>9. OnTheWay' = OnTheWay /\ Book' = Book
  BY BookStays DEF ReceiveJob, OnTheWay
<1> QED
  BY <1>6, <1>8, <1>9, LedgerBegin

\* What an agent's step other than the end of an execution does to reports in
\* flight: they go, or stay with the word they bring.
LEMMA AgentStepDescends ==
    ASSUME FleetInv, NEW a \in Agents, AgentStep(a), ~FinishRun(a)
    PROVE  ReportsDescend
<1>1. ExchangeTypeOK /\ SentOnce /\ budget \in Nat
  BY ExchangeAssumption DEF FleetInv, TypeInv, TypeOK, ExchangeTypeOK, ReportInv
<1>2. ASSUME NEW r, r.kind # "report", inflight' \subseteq inflight \cup {r}
      PROVE  ReportsDescend
  BY <1>2 DEF ReportsDescend, SameReport
<1>3. CASE SendRegister(a)
  <2>1. Register(a, labels[a]).kind # "report"
    BY DEF Register
  <2> QED
    BY <1>2, <1>3, <2>1 DEF SendRegister, Send
<1>4. CASE Poll(a)
  <2>1. Sync(a).kind # "report"
    BY DEF Sync
  <2> QED
    BY <1>2, <1>4, <2>1 DEF Poll, Send
<1>5. CASE RegisterFails(a) \/ PollFails(a) \/ ReportFails(a)
  BY <1>1, <1>5, RequestErrorReports DEF RegisterFails, PollFails, ReportFails
<1>6. CASE CrashAgent(a)
  BY <1>1, <1>6, AbandonReports DEF CrashAgent
<1>7. CASE UNCHANGED inflight
  BY <1>7 DEF ReportsDescend, SameReport
<1> QED
  BY <1>3, <1>4, <1>5, <1>6, <1>7
     DEF AgentStep, StartAgent, ReceiveRegister, ReceiveJob, ReceiveReport, Cancel,
         StopAgent, exchangeVars

LEMMA AgentStepLedger ==
    ASSUME FleetInv, NEW a \in Agents, AgentNext(a)
    PROVE  Ledger!Next
<1>1. /\ AgentTypeOK
      /\ pc[a] \in {"running", "reporting"} => runs[a] # <<>>
      /\ UNCHANGED reportStore
  BY DEF FleetInv, TypeInv, TypeOK, Protocol, RunUnderWay, AgentNext, othelaVars
<1>2. AgentStep(a)
  BY DEF AgentNext
<1>3. CASE FinishRun(a)
  BY <1>1, <1>3, FinishRunLedger
<1>4. CASE ~FinishRun(a)
  <2>1. ReportsDescend
    BY <1>2, <1>4, AgentStepDescends
  <2>2. CASE UNCHANGED runs
    BY <1>1, <2>1, <2>2, QuietStep
  <2>3. CASE ReceiveJob(a) /\ NewWork(a, reply[a])
    BY <1>1, <2>3, ReceiveJobLedger
  <2>4. ASSUME NEW report \in ReportStatus, pc[a] = "reporting",
               SetRun(a, runs[a][LastRun(a)].status, report)
        PROVE  Ledger!Next
    <3>1. runs[a][LastRun(a)].status \in RunStatus
      BY <1>1, <2>4, LastRunTyped
    <3> QED
      BY <1>1, <2>1, <2>4, <3>1, SettledStep
  <2>5. CASE ReceiveReport(a) \/ ReportFails(a)
    BY <2>4, <2>5 DEF ReceiveReport, ReportFails, ReportStatus
  <2>6. CASE CrashAgent(a)
    <3>1. CASE pc[a] = "running"
      BY <1>1, <2>1, <2>6, <3>1, SettledStep DEF CrashAgent, RunStatus, ReportStatus
    <3>2. CASE pc[a] = "reporting"
      BY <2>4, <2>6, <3>2 DEF CrashAgent, ReportStatus
    <3>3. CASE pc[a] \notin {"running", "reporting"}
      BY <2>2, <2>6, <3>3 DEF CrashAgent
    <3> QED
      BY <3>1, <3>2, <3>3
  <2> QED
    BY <1>2, <1>4, <2>2, <2>3, <2>5, <2>6
       DEF AgentStep, StartAgent, SendRegister, ReceiveRegister, RegisterFails, Poll,
           ReceiveJob, PollFails, Cancel, StopAgent
<1> QED
  BY <1>3, <1>4

-----------------------------------------------------------------------------
(* The steps of Othela.                                                    *)

LEMMA SeqEqual ==
    ASSUME NEW S, NEW s \in Seq(S), NEW t \in Seq(S), Len(s) = Len(t),
           \A i \in 1..Len(s) : s[i] = t[i]
    PROVE  s = t
OBVIOUS

LEMMA BookType ==
    ASSUME TypeOK
    PROVE  Book \in Seq([run : Agents \X Nat, status : Final])
<1>1. reportStore["sqlite"] \in Seq(StoredReport)
  BY DEF TypeOK, OthelaTypeOK
<1>2. \A i \in DOMAIN reportStore["sqlite"] :
          /\ Reported("sqlite", i) \in Agents \X Nat
          /\ reportStore["sqlite"][i].status \in Final
  BY StoredFields DEF Reported
<1>3. Book \in [1..Len(reportStore["sqlite"]) -> [run : Agents \X Nat, status : Final]]
  BY <1>1, <1>2, SeqElement DEF Book
<1> QED
  BY <1>1, <1>3, SeqElement, SeqIntro

\* A report that is saved goes from the way into the book.
LEMMA SaveReportLedger ==
    ASSUME FleetInv, NEW r \in inflight, r.kind = "report", backend = "sqlite",
           SaveReport(r), inflight' = inflight \ {r}, UNCHANGED agentVars
    PROVE  Ledger!Next
<1> DEFINE o == [run |-> <<r.agent, r.run>>, status |-> r.status]
           T == [run : Agents \X Nat, status : Final]
           old == reportStore["sqlite"]
<1>1. TypeOK /\ OthelaTypeOK /\ r \in ReportRequest
  BY RequestFields DEF FleetInv, TypeInv, TypeOK, ExchangeTypeOK, Request
<1>2. o \in OnTheWay /\ o \in T
  BY <1>1, ReportFields DEF OnTheWay
<1>3. OnTheWay' = OnTheWay \ {o}
  <2>1. \A q \in inflight : q.kind = "report" /\ q # r
            => <<q.agent, q.run>> # <<r.agent, r.run>>
    BY DEF FleetInv, ReportInv, SentOnce
  <2> QED
    BY <2>1 DEF OnTheWay
<1>4. old \in Seq(StoredReport) /\ Stored(r) \in StoredReport
  BY <1>1, StoredType DEF OthelaTypeOK
<1>5. /\ reportStore'["sqlite"] = Append(old, Stored(r))
      /\ Stored(r).agent = r.agent /\ Stored(r).run = r.run /\ Stored(r).status = r.status
  BY <1>1, SaveReportEffect DEF Stored
<1> HIDE DEF o, T
<1>6. /\ DOMAIN reportStore'["sqlite"] = 1..(Len(old) + 1)
      /\ \A i \in 1..Len(old) : reportStore'["sqlite"][i] = old[i]
      /\ reportStore'["sqlite"][Len(old) + 1] = Stored(r)
      /\ DOMAIN old = 1..Len(old) /\ Len(old) \in Nat
  BY <1>4, <1>5
<1>7. /\ DOMAIN Book' = 1..(Len(old) + 1)
      /\ \A i \in 1..Len(old) : Book'[i] = Book[i]
      /\ Book'[Len(old) + 1] = o
  <2>1. \A i \in DOMAIN old :
            Book[i] = [run |-> <<old[i].agent, old[i].run>>, status |-> old[i].status]
    BY DEF Book, Reported
  <2> DEFINE new == reportStore'["sqlite"]
  <2>2. /\ DOMAIN Book' = DOMAIN new
        /\ \A i \in DOMAIN new :
              Book'[i] = [run |-> <<new[i].agent, new[i].run>>, status |-> new[i].status]
    BY DEF Book, Reported
  <2>3. /\ DOMAIN new = 1..(Len(old) + 1)
        /\ \A i \in 1..Len(old) : i \in DOMAIN old /\ i \in DOMAIN new /\ new[i] = old[i]
        /\ Len(old) + 1 \in DOMAIN new /\ new[Len(old) + 1] = Stored(r)
    BY <1>6
  <2> HIDE DEF old, new
  <2>4. \A i \in 1..Len(old) : Book'[i] = Book[i]
    BY <2>1, <2>2, <2>3
  <2>5. Book'[Len(old) + 1] = o
    BY <1>5, <2>2, <2>3 DEF o
  <2> QED
    BY <2>2, <2>3, <2>4, <2>5
<1>8. Book \in Seq(T) /\ Len(Book) = Len(old)
  <2>1. Book \in Seq(T)
    BY <1>1, BookType DEF T
  <2>2. DOMAIN Book = 1..Len(old)
    BY <1>6 DEF Book
  <2> QED
    BY <1>6, <2>1, <2>2
<1>9. Book' \in Seq(T)
  <2>1. Book' = [i \in 1..(Len(old) + 1) |-> Book'[i]]
    BY <1>6 DEF Book, Reported
  <2>2. \A i \in 1..Len(old) : Book[i] \in T
    BY <1>8
  <2>3. \A i \in 1..(Len(old) + 1) : Book'[i] \in T
    BY <1>2, <1>6, <1>7, <2>2
  <2>4. Book' \in [1..(Len(old) + 1) -> T]
    BY <2>1, <2>3
  <2> QED
    BY <1>6, <2>4, SeqIntro
<1>10. Book' = Append(Book, o)
  <2>1. /\ Append(Book, o) \in Seq(T)
        /\ Len(Append(Book, o)) = Len(old) + 1
        /\ \A i \in 1..Len(old) : Append(Book, o)[i] = Book[i]
        /\ Append(Book, o)[Len(old) + 1] = o
    <3>1. DOMAIN Book = 1..Len(old)
      BY <1>8
    <3> QED
      BY <1>2, <1>8, <3>1, SeqAppend
  <2>2. Len(Book') = Len(old) + 1
    BY <1>6, <1>7, <1>9
  <2> HIDE DEF old
  <2> QED
    BY <1>6, <1>7, <1>9, <2>1, <2>2, SeqEqual
<1> QED
  BY <1>2, <1>3, <1>10, RunsStay, LedgerRecord DEF agentVars

LEMMA OthelaStepLedger ==
    ASSUME FleetInv, OthelaNext
    PROVE  Ledger!Next
<1>1. OthelaTypeOK /\ UNCHANGED <<agentVars, runs>>
  BY DEF FleetInv, TypeInv, TypeOK, OthelaNext, agentVars
<1>2. ASSUME inflight' \subseteq inflight, reportStore'["sqlite"] = reportStore["sqlite"]
      PROVE  Ledger!Next
  BY <1>1, <1>2, QuietStep DEF ReportsDescend, SameReport
<1>3. CASE OthelaStart \/ OthelaCrash \/ EditPlaybooks
  BY <1>1, <1>2, <1>3 DEF OthelaStart, OthelaCrash, EditPlaybooks, OthelaTypeOK
<1>4. CASE Serve
  <2>1. PICK r \in inflight : HandleRegister(r) \/ HandleSync(r) \/ HandleReport(r)
    BY <1>4 DEF Serve, Handle
  <2>2. inflight' = inflight \ {r}
    BY <2>1 DEF HandleRegister, HandleSync, HandleReport, Answer
  <2>3. CASE UNCHANGED reportStore
    BY <1>2, <2>2, <2>3
  <2>4. CASE r.kind = "report" /\ SaveReport(r)
    <3>1. CASE backend = "sqlite"
      BY <1>1, <2>2, <2>4, <3>1, SaveReportLedger
    <3>2. CASE backend # "sqlite"
      BY <1>1, <1>2, <2>2, <2>4, <3>2 DEF SaveReport, OthelaTypeOK
    <3> QED
      BY <3>1, <3>2
  <2> QED
    BY <2>1, <2>3, <2>4 DEF HandleRegister, HandleSync, HandleReport
<1> QED
  BY <1>3, <1>4 DEF OthelaNext

\* Whichever store Othela ends up with and whatever is lost, delayed, restarted
\* or refused, the executions and the SQLite reports of the fleet behave as a
\* RunLedger: an execution begins and ends once, and its outcome enters the book
\* at most once, after the end, to stay there.
THEOREM FleetKeepsLedger == Spec => LedgerKept
<1>1. Init => Ledger!Init
  BY DEF Init, ExchangeInit, OthelaInit, AgentInit, Ledger!Init, StartedRuns
<1>2. FleetInv /\ [Next]_vars => [Ledger!Next]_(Ledger!ledgerVars)
  <2> SUFFICES ASSUME FleetInv, [Next]_vars
               PROVE  [Ledger!Next]_(Ledger!ledgerVars)
    OBVIOUS
  <2>1. CASE Next
    BY <2>1, OthelaStepLedger, AgentStepLedger DEF Next
  <2>2. CASE UNCHANGED vars
    BY <2>2
       DEF vars, exchangeVars, othelaVars, agentVars, Ledger!ledgerVars, StartedRuns, Reported
  <2> QED
    BY <2>1, <2>2
<1> QED
  BY <1>1, <1>2, FleetInit, FleetNext, PTL DEF Spec, LedgerKept, Ledger!Spec

-----------------------------------------------------------------------------
(* Order of the stored reports. A report is overtaken only after its agent *)
(* gave up on it, because an agent that waits has executed nothing since,  *)
(* and an orphan is marked as given up.                                    *)

SentOrGivenUp ==
    \A r \in inflight : r.kind = "report" =>
        IF r.orphan = 0 THEN r.run = LastRun(r.agent)
                        ELSE runs[r.agent][r.run].report = "givenUp"

ReportStage ==
    \A a \in Agents :
        /\ pc[a] = "running" => runs[a][LastRun(a)].report = "none"
        /\ pc[a] = "reporting" => runs[a][LastRun(a)].report = "sending"

DeliveryInv == SentOrGivenUp /\ ReportStage /\ OvertakenOnlyIfGivenUp

\* What a step of agent a leaves of the reports in flight, unless it sends one:
\* it abandons those it waited for, if any.
OnlyAbandoned(a) ==
    \A r \in inflight' : r.kind = "report" =>
        \/ r \in inflight /\ (r.orphan = 0 => r.agent # a)
        \/ \E q \in Pending(a) : SameReport(r, q) /\ r.orphan # 0

GivenUpStays ==
    \A b \in Agents : \A i \in DOMAIN runs[b] :
        runs[b][i].report = "givenUp" =>
            i \in DOMAIN runs'[b] /\ runs'[b][i].report = "givenUp"

LEMMA AbandonLeaves ==
    ASSUME ExchangeTypeOK, NEW a \in Agents, budget > 0, Abandon(a)
    PROVE  OnlyAbandoned(a)
<1>1. inflight \subseteq Request /\ budget \in Nat /\ budget # 0
  BY ExchangeAssumption DEF ExchangeTypeOK, Request
<1> SUFFICES ASSUME NEW r \in inflight', r.kind = "report"
             PROVE  \/ r \in inflight /\ (r.orphan = 0 => r.agent # a)
                    \/ \E q \in Pending(a) : SameReport(r, q) /\ r.orphan # 0
  BY DEF OnlyAbandoned
<1>2. CASE r \in inflight \ Pending(a)
  BY <1>2 DEF Pending
<1>3. CASE \E q \in Pending(a) : r = [q EXCEPT !.orphan = budget]
  <2>1. PICK q \in Pending(a) : r = [q EXCEPT !.orphan = budget]
    BY <1>3
  <2>2. q \in Request
    BY <1>1 DEF Pending
  <2>3. r.orphan # 0 /\ SameReport(r, q)
    BY <1>1, <2>1, <2>2, OrphanedRequest DEF SameReport
  <2> QED
    BY <2>3
<1> QED
  BY <1>2, <1>3 DEF Abandon

LEMMA RequestErrorLeaves ==
    ASSUME ExchangeTypeOK, NEW a \in Agents, RequestError(a)
    PROVE  OnlyAbandoned(a)
<1>1. CASE Disconnected(a)
  BY <1>1 DEF Disconnected, Pending, OnlyAbandoned
<1>2. CASE Timeout(a)
  BY <1>2, SpendEffect, AbandonLeaves DEF Timeout
<1> QED
  BY <1>1, <1>2 DEF RequestError

\* An agent that is not waiting, or has its answer, has no request pending.
LEMMA NonePending ==
    ASSUME TypeInv, NEW a \in Agents,
           pc[a] \notin {"registering", "syncing", "reporting"} \/ reply[a] # NoReply
    PROVE  Pending(a) = {} /\ \A r \in inflight : r.orphan = 0 => r.agent # a
<1>1. \A r \in inflight : r.kind \in {"register", "sync", "report"}
  BY RequestFields DEF TypeInv, TypeOK, ExchangeTypeOK, Request
<1> QED
  BY <1>1 DEF TypeInv, Protocol, PendingAwaited, WaitingPC, Pending

LEMMA AgentStepLeaves ==
    ASSUME TypeInv, NEW a \in Agents, AgentStep(a), ~FinishRun(a), ~Cancel(a)
    PROVE  OnlyAbandoned(a)
<1>1. ExchangeTypeOK
  BY DEF TypeInv, TypeOK
<1>2. ASSUME NEW r, r.kind # "report", inflight' \subseteq inflight \cup {r},
             \A q \in inflight : q.orphan = 0 => q.agent # a
      PROVE  OnlyAbandoned(a)
  BY <1>2 DEF OnlyAbandoned
<1>3. CASE SendRegister(a)
  <2>1. Register(a, labels[a]).kind # "report"
    BY DEF Register
  <2> QED
    BY <1>2, <1>3, <2>1, NonePending DEF SendRegister, Send
<1>4. CASE Poll(a)
  <2>1. Sync(a).kind # "report"
    BY DEF Sync
  <2> QED
    BY <1>2, <1>4, <2>1, NonePending DEF Poll, Send
<1>5. CASE RegisterFails(a) \/ PollFails(a) \/ ReportFails(a)
  BY <1>1, <1>5, RequestErrorLeaves DEF RegisterFails, PollFails, ReportFails
<1>6. CASE CrashAgent(a)
  BY <1>1, <1>6, SpendEffect, AbandonLeaves DEF CrashAgent
<1>7. CASE /\ UNCHANGED inflight
           /\ pc[a] \notin {"registering", "syncing", "reporting"} \/ reply[a] # NoReply
  BY <1>7, NonePending DEF OnlyAbandoned
<1>8. CASE StartAgent(a) \/ StopAgent(a)
  BY <1>7, <1>8 DEF StartAgent, StopAgent, exchangeVars
<1>9. CASE ReceiveRegister(a) \/ ReceiveJob(a) \/ ReceiveReport(a)
  BY <1>7, <1>9 DEF ReceiveRegister, ReceiveJob, ReceiveReport
<1> QED
  BY <1>3, <1>4, <1>5, <1>6, <1>8, <1>9 DEF AgentStep

\* Once stored the order stands: no report is taken back.
LEMMA OrderKept ==
    ASSUME TypeOK, ReportsFaithful, OvertakenOnlyIfGivenUp, GivenUpStays,
           UNCHANGED reportStore
    PROVE  OvertakenOnlyIfGivenUp'
<1> SUFFICES ASSUME NEW b \in {"sqlite", "memory"},
                    NEW i \in DOMAIN reportStore[b], NEW j \in DOMAIN reportStore[b],
                    i < j, reportStore[b][i].agent = reportStore[b][j].agent,
                    reportStore[b][j].run < reportStore[b][i].run
             PROVE  runs'[reportStore[b][j].agent][reportStore[b][j].run].report = "givenUp"
  BY DEF OvertakenOnlyIfGivenUp
<1>1. /\ reportStore[b][j].agent \in Agents
      /\ reportStore[b][j].run \in DOMAIN runs[reportStore[b][j].agent]
  BY StoredFields DEF ReportsFaithful
<1>2. runs[reportStore[b][j].agent][reportStore[b][j].run].report = "givenUp"
  BY DEF OvertakenOnlyIfGivenUp
<1> QED
  BY <1>1, <1>2 DEF GivenUpStays

\* Only executions that are under way or being reported are updated.
LEMMA SetRunGivenUp ==
    ASSUME AgentTypeOK, ReportStage, NEW a \in Agents, pc[a] \in {"running", "reporting"},
           runs[a] # <<>>, NEW status \in RunStatus, NEW report \in ReportStatus,
           SetRun(a, status, report)
    PROVE  /\ GivenUpStays
           /\ \A b \in Agents : b # a => runs'[b] = runs[b]
           /\ LastRun(a)' = LastRun(a)
           /\ runs'[a][LastRun(a)].report = report
<1>1. runs[a][LastRun(a)].report # "givenUp"
  BY DEF ReportStage
<1>2. runs \in [Agents -> Seq(Run)]
  BY DEF AgentTypeOK
<1>3. /\ \A b \in Agents : DOMAIN runs'[b] = DOMAIN runs[b]
      /\ \A b \in Agents : Len(runs'[b]) = Len(runs[b])
      /\ \A b \in Agents : \A i \in DOMAIN runs[b] :
            <<b, i>> # <<a, LastRun(a)>> => runs'[b][i] = runs[b][i]
      /\ runs'[a][LastRun(a)].report = report
  BY <1>2, SetRunEffect
<1>4. GivenUpStays
  BY <1>1, <1>3 DEF GivenUpStays
<1> QED
  BY <1>2, <1>3, <1>4 DEF SetRun, LastRun

\* An agent that abandons its report marks it, and no other agent is concerned.
LEMMA SentKept ==
    ASSUME FleetInv, SentOrGivenUp, NEW a \in Agents, OnlyAbandoned(a), GivenUpStays,
           \A b \in Agents : b # a => runs'[b] = runs[b],
           \A q \in Pending(a) : q.kind = "report" =>
               runs'[a][LastRun(a)].report = "givenUp"
    PROVE  SentOrGivenUp'
<1> SUFFICES ASSUME NEW r \in inflight', r.kind = "report"
             PROVE  IF r.orphan = 0 THEN r.run = Len(runs'[r.agent])
                                    ELSE runs'[r.agent][r.run].report = "givenUp"
  BY DEF SentOrGivenUp, LastRun
<1>1. TypeOK /\ SentIsFinal
  BY DEF FleetInv, TypeInv, ReportInv
<1>2. CASE r \in inflight /\ (r.orphan = 0 => r.agent # a)
  <2>1. r.agent \in Agents /\ r.run \in DOMAIN runs[r.agent]
    BY <1>1, <1>2, ReportFields DEF SentIsFinal
  <2> QED
    BY <1>2, <2>1 DEF SentOrGivenUp, GivenUpStays, LastRun
<1>3. CASE \E q \in Pending(a) : SameReport(r, q) /\ r.orphan # 0
  <2>1. PICK q \in Pending(a) : SameReport(r, q) /\ r.orphan # 0
    BY <1>3
  <2>2. q \in inflight /\ q.agent = a /\ q.run = LastRun(a)
    BY <2>1 DEF Pending, SameReport, SentOrGivenUp
  <2> QED
    BY <2>1, <2>2 DEF SameReport
<1> QED
  BY <1>2, <1>3 DEF OnlyAbandoned

\* A step of agent a that changes no execution and does not leave a report
\* abandoned.
LEMMA UnconcernedStep ==
    ASSUME FleetInv, DeliveryInv, NEW a \in Agents,
           OnlyAbandoned(a), UNCHANGED <<runs, reportStore>>,
           pc[a] # "reporting" \/ reply[a] # NoReply,
           NEW there \in PC \ {"running", "reporting"}, pc' = [pc EXCEPT ![a] = there]
    PROVE  DeliveryInv'
<1>1. TypeOK /\ ReportsFaithful /\ AgentTypeOK
  BY DEF FleetInv, TypeInv, TypeOK, ReportInv
<1>2. GivenUpStays
  BY DEF GivenUpStays
<1>3. \A q \in Pending(a) : q.kind # "report"
  BY DEF Pending, FleetInv, TypeInv, Protocol, PendingAwaited, WaitingPC
<1>4. SentOrGivenUp'
  BY <1>2, <1>3, SentKept DEF DeliveryInv
<1>5. ReportStage'
  BY <1>1 DEF DeliveryInv, ReportStage, AgentTypeOK, LastRun
<1> QED
  BY <1>1, <1>2, <1>4, <1>5, OrderKept DEF DeliveryInv

\* A step in which agent a settles the execution it had, and what it knows of
\* its report.
LEMMA SettlingStep ==
    ASSUME FleetInv, DeliveryInv, NEW a \in Agents,
           OnlyAbandoned(a), UNCHANGED reportStore,
           pc[a] \in {"running", "reporting"},
           NEW status \in RunStatus, NEW report \in ReportStatus,
           SetRun(a, status, report),
           \A q \in Pending(a) : q.kind = "report" => report = "givenUp",
           NEW there \in PC \ {"running", "reporting"}, pc' = [pc EXCEPT ![a] = there]
    PROVE  DeliveryInv'
<1>1. TypeOK /\ ReportsFaithful /\ AgentTypeOK /\ runs[a] # <<>>
  BY DEF FleetInv, TypeInv, TypeOK, ReportInv, Protocol, RunUnderWay
<1>2. /\ GivenUpStays
      /\ \A b \in Agents : b # a => runs'[b] = runs[b]
      /\ LastRun(a)' = LastRun(a)
      /\ runs'[a][LastRun(a)].report = report
  BY <1>1, SetRunGivenUp DEF DeliveryInv
<1>3. SentOrGivenUp'
  BY <1>2, SentKept DEF DeliveryInv
<1>4. ReportStage'
  BY <1>1, <1>2 DEF DeliveryInv, ReportStage, AgentTypeOK, LastRun
<1> QED
  BY <1>1, <1>2, <1>3, <1>4, OrderKept DEF DeliveryInv

LEMMA ReceiveJobDelivery ==
    ASSUME FleetInv, DeliveryInv, NEW a \in Agents, ReceiveJob(a), UNCHANGED reportStore
    PROVE  DeliveryInv'
<1>1. /\ TypeOK /\ ReportsFaithful /\ AgentTypeOK
      /\ OnlyAbandoned(a)
  <2>1. TypeInv /\ TypeOK /\ ReportsFaithful /\ AgentTypeOK
    BY DEF FleetInv, TypeInv, TypeOK, ReportInv
  <2>2. ~FinishRun(a) /\ ~Cancel(a)
    BY <2>1 DEF AgentTypeOK, ReceiveJob, FinishRun, Cancel
  <2> QED
    BY <2>1, <2>2, AgentStepLeaves DEF AgentStep
<1>2. CASE NewWork(a, reply[a])
  <2> DEFINE run == NewRun(a, reply[a].job)
  <2>1. run.report = "none"
    BY DEF NewRun
  <2>2. runs \in [Agents -> Seq(Run)] /\ reply[a].job \in Dispatched /\ life[a] \in Nat
    BY <1>2 DEF FleetInv, TypeInv, TypeOK, AgentTypeOK, Protocol, JobAnswered, ReceiveJob,
                NewWork
  <2>3. run \in Run
    BY <2>2 DEF NewRun, Run, RunStatus, ReportStatus
  <2> HIDE DEF run
  <2>4. runs' = [runs EXCEPT ![a] = Append(runs[a], run)]
    BY <1>2 DEF ReceiveJob, run
  <2>5. runs[a] \in Seq(Run)
    BY <2>2
  <2>6. /\ \A b \in Agents : b # a => runs'[b] = runs[b]
        /\ \A i \in DOMAIN runs[a] : i \in DOMAIN runs'[a] /\ runs'[a][i] = runs[a][i]
        /\ runs'[a][LastRun(a)'] = run
    BY <2>2, <2>3, <2>4, <2>5, SeqAppend DEF LastRun
  <2>7. GivenUpStays
    BY <2>6 DEF GivenUpStays
  <2>8. Pending(a) = {}
    BY NonePending DEF FleetInv, ReceiveJob
  <2>9. SentOrGivenUp'
    BY <1>1, <2>6, <2>7, <2>8, SentKept DEF DeliveryInv
  <2>10. ReportStage'
    <3>1. pc' = [pc EXCEPT ![a] = "running"]
      BY <1>2 DEF ReceiveJob, Goto
    <3> QED
      BY <1>1, <2>1, <2>6, <3>1 DEF DeliveryInv, ReportStage, AgentTypeOK, LastRun
  <2> QED
    BY <1>1, <2>7, <2>9, <2>10, OrderKept DEF DeliveryInv
<1>3. CASE ~NewWork(a, reply[a])
  BY <1>1, <1>3, UnconcernedStep DEF ReceiveJob, Goto, PC
<1> QED
  BY <1>2, <1>3

LEMMA FinishRunDelivery ==
    ASSUME FleetInv, DeliveryInv, NEW a \in Agents, FinishRun(a), UNCHANGED reportStore
    PROVE  DeliveryInv'
<1>1. /\ TypeOK /\ ReportsFaithful /\ AgentTypeOK /\ SentIsFinal /\ runs[a] # <<>>
      /\ TypeInv
  BY DEF FleetInv, TypeInv, TypeOK, ReportInv, Protocol, RunUnderWay, FinishRun
<1>2. PICK status \in {"Success", "Failed"} :
          SetRun(a, status, "sending") /\ Send(Report(a, LastRun(a), status))
  BY DEF FinishRun
<1>3. /\ GivenUpStays
      /\ \A b \in Agents : b # a => runs'[b] = runs[b]
      /\ LastRun(a)' = LastRun(a)
      /\ runs'[a][LastRun(a)].report = "sending"
  BY <1>1, <1>2, SetRunGivenUp DEF DeliveryInv, FinishRun, RunStatus, ReportStatus
<1> DEFINE new == Report(a, LastRun(a), status)
<1>4. /\ inflight' \subseteq inflight \cup {new}
      /\ new.agent = a /\ new.run = LastRun(a) /\ new.orphan = 0
  BY <1>2 DEF Send, Report
<1> HIDE DEF new
<1>5. SentOrGivenUp'
  <2> SUFFICES ASSUME NEW r \in inflight', r.kind = "report"
               PROVE  IF r.orphan = 0 THEN r.run = Len(runs'[r.agent])
                                      ELSE runs'[r.agent][r.run].report = "givenUp"
    BY DEF SentOrGivenUp, LastRun
  <2>1. CASE r = new
    BY <1>3, <1>4, <2>1 DEF LastRun
  <2>2. CASE r \in inflight
    <3>1. r.agent \in Agents /\ r.run \in DOMAIN runs[r.agent]
      BY <1>1, <2>2, ReportFields DEF SentIsFinal
    <3>2. Len(runs'[r.agent]) = Len(runs[r.agent])
      BY <1>3, <3>1 DEF LastRun
    <3> QED
      BY <1>3, <2>2, <3>1, <3>2 DEF DeliveryInv, SentOrGivenUp, GivenUpStays, LastRun
  <2> QED
    BY <1>4, <2>1, <2>2
<1>6. ReportStage'
  BY <1>1, <1>3 DEF DeliveryInv, ReportStage, AgentTypeOK, LastRun, FinishRun, Goto
<1> QED
  BY <1>1, <1>3, <1>5, <1>6, OrderKept DEF DeliveryInv

LEMMA AgentStepDelivery ==
    ASSUME FleetInv, DeliveryInv, NEW a \in Agents, AgentNext(a)
    PROVE  DeliveryInv'
<1>1. /\ TypeInv /\ TypeOK /\ ExchangeTypeOK /\ AgentTypeOK
      /\ pc[a] \in {"running", "reporting"} => runs[a] # <<>>
      /\ UNCHANGED reportStore
      /\ AgentStep(a)
  BY DEF FleetInv, TypeInv, TypeOK, Protocol, RunUnderWay, AgentNext, othelaVars
<1>2. CASE FinishRun(a)
  BY <1>1, <1>2, FinishRunDelivery
<1>3. CASE Cancel(a)
  <2>1. UNCHANGED <<pc, runs, inflight, reportStore>>
    BY <1>1, <1>3 DEF Cancel
  <2> QED
    BY <2>1
       DEF DeliveryInv, SentOrGivenUp, ReportStage, OvertakenOnlyIfGivenUp, LastRun
<1>4. CASE ~FinishRun(a) /\ ~Cancel(a)
  <2>1. OnlyAbandoned(a)
    BY <1>1, <1>4, AgentStepLeaves
  <2>2. CASE \/ StartAgent(a) \/ SendRegister(a) \/ ReceiveRegister(a) \/ RegisterFails(a)
             \/ Poll(a) \/ PollFails(a) \/ StopAgent(a)
    <3>1. PICK there \in PC \ {"running", "reporting"} : pc' = [pc EXCEPT ![a] = there]
      BY <2>2
         DEF StartAgent, SendRegister, ReceiveRegister, RegisterFails, Poll, PollFails,
             StopAgent, Goto, PC
    <3>2. UNCHANGED runs /\ pc[a] # "reporting"
      BY <2>2
         DEF StartAgent, SendRegister, ReceiveRegister, RegisterFails, Poll, PollFails,
             StopAgent
    <3> QED
      BY <1>1, <2>1, <3>1, <3>2, UnconcernedStep
  <2>3. CASE ReceiveJob(a)
    BY <1>1, <2>3, ReceiveJobDelivery
  <2>4. CASE ReceiveReport(a)
    <3>1. PICK report \in {"acked", "givenUp"} :
              SetRun(a, runs[a][LastRun(a)].status, report)
      BY <2>4 DEF ReceiveReport
    <3>2. Pending(a) = {}
      BY <1>1, <2>4, NonePending DEF ReceiveReport
    <3>3. runs[a][LastRun(a)].status \in RunStatus
      BY <1>1, <2>4, LastRunTyped DEF ReceiveReport
    <3> QED
      BY <1>1, <2>1, <2>4, <3>1, <3>2, <3>3, SettlingStep
         DEF ReceiveReport, Goto, PC, ReportStatus
  <2>5. CASE ReportFails(a)
    <3>1. runs[a][LastRun(a)].status \in RunStatus
      BY <1>1, <2>5, LastRunTyped DEF ReportFails
    <3> QED
      BY <1>1, <2>1, <2>5, <3>1, SettlingStep DEF ReportFails, Goto, PC, ReportStatus
  <2>6. CASE CrashAgent(a)
    <3>1. CASE pc[a] = "running"
      <4>1. Pending(a) = {}
        BY <1>1, <3>1, NonePending
      <4> QED
        BY <1>1, <2>1, <2>6, <3>1, <4>1, SettlingStep
           DEF CrashAgent, Goto, PC, RunStatus, ReportStatus
    <3>2. CASE pc[a] = "reporting"
      <4>1. runs[a][LastRun(a)].status \in RunStatus
        BY <1>1, <3>2, LastRunTyped
      <4> QED
        BY <1>1, <2>1, <2>6, <3>2, <4>1, SettlingStep DEF CrashAgent, Goto, PC, ReportStatus
    <3>3. CASE pc[a] \notin {"running", "reporting"}
      BY <1>1, <2>1, <2>6, <3>3, UnconcernedStep DEF CrashAgent, Goto, PC
    <3> QED
      BY <3>1, <3>2, <3>3
  <2> QED
    BY <1>1, <1>4, <2>2, <2>3, <2>4, <2>5, <2>6 DEF AgentStep
<1> QED
  BY <1>2, <1>3, <1>4

\* A stored report is the last of its agent's or has been given up on: nothing
\* in the store is of a later execution.
LEMMA SaveReportDelivery ==
    ASSUME FleetInv, DeliveryInv, NEW r \in inflight, r.kind = "report", SaveReport(r),
           UNCHANGED agentVars
    PROVE  OvertakenOnlyIfGivenUp'
<1> DEFINE old == reportStore[backend]
           n   == Len(old)
<1>1. TypeOK /\ OthelaTypeOK /\ AgentTypeOK /\ r \in ReportRequest /\ ReportsFaithful
  BY RequestFields
     DEF FleetInv, TypeInv, TypeOK, ExchangeTypeOK, Request, ReportInv
<1>2. /\ backend \in {"sqlite", "memory"}
      /\ reportStore'[backend] = Append(old, Stored(r))
      /\ \A b \in {"sqlite", "memory"} : b # backend => reportStore'[b] = reportStore[b]
  BY <1>1, SaveReportEffect
<1>3. Stored(r) \in StoredReport /\ old \in Seq(StoredReport)
  BY <1>1, <1>2, StoredType DEF OthelaTypeOK
<1>4. /\ DOMAIN reportStore'[backend] = DOMAIN old \cup {n + 1}
      /\ \A i \in DOMAIN old : i \in 1..n /\ reportStore'[backend][i] = old[i]
      /\ reportStore'[backend][n + 1] = Stored(r)
      /\ n \in Nat
  BY <1>2, <1>3, SeqAppend
<1>5. Stored(r).agent = r.agent /\ Stored(r).run = r.run /\ r.agent \in Agents
  BY <1>1, ReportFields DEF Stored
<1> HIDE DEF Stored, old, n
<1> SUFFICES ASSUME NEW b \in {"sqlite", "memory"},
                    NEW i \in DOMAIN reportStore'[b], NEW j \in DOMAIN reportStore'[b],
                    i < j, reportStore'[b][i].agent = reportStore'[b][j].agent,
                    reportStore'[b][j].run < reportStore'[b][i].run
             PROVE  runs[reportStore'[b][j].agent][reportStore'[b][j].run].report = "givenUp"
  BY DEF OvertakenOnlyIfGivenUp, agentVars
<1>6. CASE b # backend
  BY <1>2, <1>6 DEF DeliveryInv, OvertakenOnlyIfGivenUp
<1>7. CASE b = backend
  <2>1. i \in DOMAIN old /\ reportStore'[b][i] = old[i]
    BY <1>4, <1>7
  <2>2. CASE j \in DOMAIN old
    <3>1. reportStore'[b][j] = old[j]
      BY <1>4, <1>7, <2>2
    <3> QED
      BY <1>7, <2>1, <2>2, <3>1 DEF DeliveryInv, OvertakenOnlyIfGivenUp, old
  <2>3. CASE j = n + 1
    <3>1. reportStore'[b][j].agent = r.agent /\ reportStore'[b][j].run = r.run
      BY <1>4, <1>5, <1>7, <2>3
    <3>2. old[i].run \in DOMAIN runs[r.agent]
      BY <1>1, <1>7, <2>1, <3>1 DEF ReportsFaithful, old
    <3>3. old[i].run <= LastRun(r.agent)
      <4>1. runs[r.agent] \in Seq(Run)
        BY <1>1, <1>5 DEF AgentTypeOK
      <4> QED
        BY <3>2, <4>1 DEF LastRun
    <3>4. r.orphan # 0
      <4>1. LastRun(r.agent) \in Nat /\ old[i].run \in Nat
        <5>1. runs[r.agent] \in Seq(Run)
          BY <1>1, <1>5 DEF AgentTypeOK
        <5> QED
          BY <3>2, <5>1 DEF LastRun
      <4> QED
        BY <2>1, <3>1, <3>3, <4>1 DEF DeliveryInv, SentOrGivenUp
    <3> QED
      BY <3>1, <3>4 DEF DeliveryInv, SentOrGivenUp
  <2> QED
    BY <1>4, <1>7, <2>2, <2>3
<1> QED
  BY <1>6, <1>7

LEMMA OthelaStepDelivery ==
    ASSUME FleetInv, DeliveryInv, OthelaNext
    PROVE  DeliveryInv'
<1>1. OthelaTypeOK /\ UNCHANGED agentVars
  BY DEF FleetInv, TypeInv, TypeOK, OthelaNext
<1>2. ASSUME inflight' \subseteq inflight, OvertakenOnlyIfGivenUp'
      PROVE  DeliveryInv'
  BY <1>1, <1>2 DEF DeliveryInv, SentOrGivenUp, ReportStage, LastRun, agentVars
<1>3. UNCHANGED reportStore => OvertakenOnlyIfGivenUp'
  BY <1>1 DEF DeliveryInv, OvertakenOnlyIfGivenUp, agentVars
<1>4. CASE OthelaStart
  <2>1. \A b \in {"sqlite", "memory"} :
            reportStore'[b] = reportStore[b] \/ DOMAIN reportStore'[b] = {}
    BY <1>1, <1>4 DEF OthelaStart, OthelaTypeOK
  <2>2. OvertakenOnlyIfGivenUp'
    <3> SUFFICES ASSUME NEW b \in {"sqlite", "memory"},
                        NEW i \in DOMAIN reportStore'[b], NEW j \in DOMAIN reportStore'[b],
                        i < j, reportStore'[b][i].agent = reportStore'[b][j].agent,
                        reportStore'[b][j].run < reportStore'[b][i].run
                 PROVE  runs[reportStore'[b][j].agent][reportStore'[b][j].run].report
                            = "givenUp"
      BY <1>1 DEF OvertakenOnlyIfGivenUp, agentVars
    <3> QED
      BY <2>1 DEF DeliveryInv, OvertakenOnlyIfGivenUp
  <2> QED
    BY <1>2, <1>4, <2>2 DEF OthelaStart
<1>5. CASE OthelaCrash \/ EditPlaybooks
  BY <1>2, <1>3, <1>5 DEF OthelaCrash, EditPlaybooks
<1>6. CASE Serve
  <2>1. PICK r \in inflight : HandleRegister(r) \/ HandleSync(r) \/ HandleReport(r)
    BY <1>6 DEF Serve, Handle
  <2>2. inflight' \subseteq inflight
    BY <2>1 DEF HandleRegister, HandleSync, HandleReport, Answer
  <2>3. CASE UNCHANGED reportStore
    BY <1>2, <1>3, <2>2, <2>3
  <2>4. CASE r.kind = "report" /\ SaveReport(r)
    BY <1>1, <1>2, <2>2, <2>4, SaveReportDelivery
  <2> QED
    BY <2>1, <2>3, <2>4 DEF HandleRegister, HandleSync, HandleReport
<1> QED
  BY <1>4, <1>5, <1>6 DEF OthelaNext

LEMMA InitDelivery == Init => DeliveryInv
BY DEF Init, ExchangeInit, OthelaInit, AgentInit, DeliveryInv, SentOrGivenUp, ReportStage,
       OvertakenOnlyIfGivenUp

LEMMA NextDelivery == FleetInv /\ DeliveryInv /\ [Next]_vars => DeliveryInv'
<1> SUFFICES ASSUME FleetInv, DeliveryInv, [Next]_vars
             PROVE  DeliveryInv'
  OBVIOUS
<1>1. CASE Next
  BY <1>1, OthelaStepDelivery, AgentStepDelivery DEF Next
<1>2. CASE UNCHANGED vars
  BY <1>2
     DEF vars, exchangeVars, othelaVars, agentVars, DeliveryInv, SentOrGivenUp, ReportStage,
         OvertakenOnlyIfGivenUp, LastRun
<1> QED
  BY <1>1, <1>2

\* List gives the reports of a node in the order of its executions, but for those
\* whose agent stopped waiting: SendReport holds ProcessJob up until it returns,
\* so the next execution, and its report, come after the answer.
THEOREM OvertakenCorrect == Spec => []OvertakenOnlyIfGivenUp
<1>1. DeliveryInv => OvertakenOnlyIfGivenUp
  BY DEF DeliveryInv
<1> QED
  BY <1>1, FleetInit, FleetNext, InitDelivery, NextDelivery, PTL DEF Spec

-----------------------------------------------------------------------------
(* Repetition. The last successful job of a process is the last one in its *)
(* history that succeeded, so that any other that did is followed by one.  *)

LifeBound == \A a \in Agents : \A i \in DOMAIN runs[a] : runs[a][i].life <= life[a]

Succeeded(a, i) == runs[a][i].status = "Success"

SuccessRemembered ==
    \A a \in Agents : \A i \in DOMAIN runs[a] :
        /\ runs[a][i].life = life[a]
        /\ Succeeded(a, i)
        /\ runs[a][i].job.id # lastJobID[a]
        => \E k \in (i + 1)..LastRun(a) :
              Succeeded(a, k) /\ runs[a][k].job.id # runs[a][i].job.id

RepeatInv == LifeBound /\ SuccessRemembered /\ SucceededJobNotRerun

\* What every run keeps once it has begun.
SameRun(run, old) == run.job = old.job /\ run.life = old.life

SameHistories ==
    \A b \in Agents :
        /\ DOMAIN runs'[b] = DOMAIN runs[b]
        /\ LastRun(b)' = LastRun(b)
        /\ \A i \in DOMAIN runs[b] : SameRun(runs'[b][i], runs[b][i])

LEMMA HistoryTyped ==
    ASSUME AgentTypeOK, NEW a \in Agents
    PROVE  /\ LastRun(a) \in Nat
           /\ DOMAIN runs[a] = 1..LastRun(a)
           /\ life[a] \in Nat
           /\ \A i \in DOMAIN runs[a] : runs[a][i].life \in Nat
<1>1. runs[a] \in Seq(Run) /\ life[a] \in Nat
  BY DEF AgentTypeOK
<1>2. \A i \in DOMAIN runs[a] : runs[a][i] \in Run
  BY <1>1, SeqElement
<1> QED
  BY <1>1, <1>2 DEF LastRun, Run

\* A history in which nothing but the outcome of the last run may have changed.
LEMMA HistoryKept ==
    ASSUME AgentTypeOK, LifeBound, SucceededJobNotRerun,
           SameHistories, UNCHANGED life,
           \A b \in Agents : \A i \in DOMAIN runs[b] :
               /\ Succeeded(b, i) => Succeeded(b, i)'
               /\ Succeeded(b, i)' /\ i < LastRun(b) => Succeeded(b, i)
    PROVE  LifeBound' /\ SucceededJobNotRerun'
<1>1. LifeBound'
  BY DEF LifeBound, SameHistories, SameRun
<1>2. SucceededJobNotRerun'
  <2> SUFFICES ASSUME NEW a \in Agents, NEW i \in DOMAIN runs'[a], NEW j \in DOMAIN runs'[a],
                      i < j, runs'[a][i].life = runs'[a][j].life,
                      runs'[a][i].status = "Success",
                      runs'[a][i].job.id = runs'[a][j].job.id
               PROVE  \E k \in (i + 1)..(j - 1) :
                         /\ runs'[a][k].status = "Success"
                         /\ runs'[a][k].job.id # runs'[a][i].job.id
    BY DEF SucceededJobNotRerun
  <2>1. /\ i \in DOMAIN runs[a] /\ SameRun(runs'[a][i], runs[a][i])
        /\ j \in DOMAIN runs[a] /\ SameRun(runs'[a][j], runs[a][j])
    BY DEF SameHistories
  <2>2. LastRun(a) \in Nat /\ DOMAIN runs[a] = 1..LastRun(a)
    BY HistoryTyped
  <2>3. runs[a][i].status = "Success"
    BY <2>1, <2>2 DEF Succeeded
  <2>4. PICK k \in (i + 1)..(j - 1) :
            runs[a][k].status = "Success" /\ runs[a][k].job.id # runs[a][i].job.id
    BY <2>1, <2>3 DEF SucceededJobNotRerun, SameRun
  <2>5. k \in DOMAIN runs[a] /\ SameRun(runs'[a][k], runs[a][k])
    BY <2>1, <2>2 DEF SameHistories
  <2>6. runs'[a][k].status = "Success"
    BY <2>4, <2>5 DEF Succeeded
  <2> QED
    BY <2>1, <2>4, <2>5, <2>6 DEF SameRun
<1> QED
  BY <1>1, <1>2

\* No process forgets its last success, and none succeeds.
LEMMA NoSuccess ==
    ASSUME AgentTypeOK, RepeatInv, SameHistories, UNCHANGED <<life, lastJobID>>,
           \A b \in Agents : \A i \in DOMAIN runs[b] : Succeeded(b, i)' <=> Succeeded(b, i)
    PROVE  RepeatInv'
<1>1. LifeBound' /\ SucceededJobNotRerun'
  BY HistoryKept DEF RepeatInv
<1>2. SuccessRemembered'
  <2> SUFFICES ASSUME NEW a \in Agents, NEW i \in DOMAIN runs'[a],
                      runs'[a][i].life = life[a], Succeeded(a, i)',
                      runs'[a][i].job.id # lastJobID[a]
               PROVE  \E k \in (i + 1)..LastRun(a) :
                         Succeeded(a, k)' /\ runs'[a][k].job.id # runs'[a][i].job.id
    BY DEF SuccessRemembered, SameHistories
  <2>1. i \in DOMAIN runs[a] /\ SameRun(runs'[a][i], runs[a][i]) /\ Succeeded(a, i)
    BY DEF SameHistories
  <2>2. PICK k \in (i + 1)..LastRun(a) :
            Succeeded(a, k) /\ runs[a][k].job.id # runs[a][i].job.id
    BY <2>1 DEF RepeatInv, SuccessRemembered, SameRun
  <2>3. k \in DOMAIN runs[a] /\ SameRun(runs'[a][k], runs[a][k])
    BY <2>1, HistoryTyped DEF SameHistories
  <2> QED
    BY <2>1, <2>2, <2>3 DEF SameRun
<1> QED
  BY <1>1, <1>2 DEF RepeatInv

LEMMA SetRunHistory ==
    ASSUME AgentTypeOK, NEW a \in Agents, runs[a] # <<>>,
           NEW status \in RunStatus, NEW report \in ReportStatus,
           SetRun(a, status, report)
    PROVE  /\ SameHistories
           /\ runs'[a][LastRun(a)].status = status
           /\ LastRun(a) \in DOMAIN runs[a]
           /\ \A b \in Agents : \A i \in DOMAIN runs[b] :
                 <<b, i>> # <<a, LastRun(a)>> => (Succeeded(b, i)' <=> Succeeded(b, i))
BY SetRunEffect DEF AgentTypeOK, SameHistories, SameRun, LastRun, Succeeded

\* A run that did not succeed, and still has not, or has been told of its report.
LEMMA SetRunRepeat ==
    ASSUME AgentTypeOK, RepeatInv, NEW a \in Agents, runs[a] # <<>>,
           NEW status \in RunStatus, NEW report \in ReportStatus,
           SetRun(a, status, report),
           status = "Success" <=> Succeeded(a, LastRun(a)),
           UNCHANGED <<life, lastJobID>>
    PROVE  RepeatInv'
BY SetRunHistory, NoSuccess DEF Succeeded

LEMMA FinishRunRepeat ==
    ASSUME FleetInv, RepeatInv, NEW a \in Agents, FinishRun(a)
    PROVE  RepeatInv'
<1> DEFINE n == LastRun(a)
<1>1. AgentTypeOK /\ runs[a] # <<>> /\ ~Succeeded(a, n)
  BY DEF FleetInv, TypeInv, TypeOK, Protocol, RunUnderWay, ReportInv, RunningIsRunning,
         FinishRun, Succeeded
<1>2. PICK status \in {"Success", "Failed"} :
          /\ lastJobID' = [lastJobID EXCEPT ![a] = JobDone(a, runs[a][n].job, status)]
          /\ SetRun(a, status, "sending")
  BY DEF FinishRun
<1>3. UNCHANGED life
  BY DEF FinishRun
<1>4. CASE status = "Failed"
  <2>1. lastJobID' = lastJobID
    BY <1>1, <1>2, <1>4 DEF JobDone, AgentTypeOK
  <2> QED
    BY <1>1, <1>2, <1>3, <1>4, <2>1, SetRunRepeat DEF RunStatus, ReportStatus
<1>5. CASE status = "Success"
  <2>1. /\ SameHistories
        /\ runs'[a][n].status = "Success"
        /\ n \in DOMAIN runs[a]
        /\ \A b \in Agents : \A i \in DOMAIN runs[b] :
              <<b, i>> # <<a, n>> => (Succeeded(b, i)' <=> Succeeded(b, i))
    BY <1>1, <1>2, <1>5, SetRunHistory DEF RunStatus, ReportStatus
  <2>2. LifeBound' /\ SucceededJobNotRerun'
    <3>1. \A b \in Agents : \A i \in DOMAIN runs[b] :
              /\ Succeeded(b, i) => Succeeded(b, i)'
              /\ Succeeded(b, i)' /\ i < LastRun(b) => Succeeded(b, i)
      BY <1>1, <2>1, HistoryTyped
    <3> QED
      BY <1>1, <1>3, <2>1, <3>1, HistoryKept DEF RepeatInv
  <2>3. /\ lastJobID'[a] = runs[a][n].job.id
        /\ \A b \in Agents : b # a => lastJobID'[b] = lastJobID[b]
    BY <1>1, <1>2, <1>5 DEF JobDone, AgentTypeOK
  <2>4. SuccessRemembered'
    <3> SUFFICES ASSUME NEW b \in Agents, NEW i \in DOMAIN runs'[b],
                        runs'[b][i].life = life[b], runs'[b][i].status = "Success",
                        runs'[b][i].job.id # lastJobID'[b]
                 PROVE  \E k \in (i + 1)..LastRun(b) :
                           /\ runs'[b][k].status = "Success"
                           /\ runs'[b][k].job.id # runs'[b][i].job.id
      BY <1>3, <2>1 DEF SuccessRemembered, SameHistories, Succeeded
    <3>1. i \in DOMAIN runs[b] /\ SameRun(runs'[b][i], runs[b][i])
      BY <2>1 DEF SameHistories
    <3>2. LastRun(b) \in Nat /\ DOMAIN runs[b] = 1..LastRun(b)
      BY <1>1, HistoryTyped
    <3>3. CASE b = a
      <4>1. SameRun(runs'[a][n], runs[a][n])
        BY <2>1 DEF SameHistories
      <4>2. runs'[a][n].job.id = lastJobID'[a]
        BY <2>3, <4>1 DEF SameRun
      <4>3. i # n /\ n \in (i + 1)..n
        BY <3>1, <3>2, <3>3, <4>2
      <4> QED
        BY <2>1, <3>3, <4>2, <4>3
    <3>4. CASE b # a
      <4>1. Succeeded(b, i)
        BY <2>1, <3>1, <3>4 DEF Succeeded
      <4>2. PICK k \in (i + 1)..LastRun(b) :
                Succeeded(b, k) /\ runs[b][k].job.id # runs[b][i].job.id
        <5>1. runs[b][i].life = life[b] /\ runs[b][i].job.id # lastJobID[b]
          BY <2>3, <3>1, <3>4 DEF SameRun
        <5> QED
          BY <3>1, <4>1, <5>1 DEF RepeatInv, SuccessRemembered
      <4>3. k \in DOMAIN runs[b] /\ SameRun(runs'[b][k], runs[b][k])
        BY <2>1, <3>1, <3>2 DEF SameHistories
      <4> QED
        BY <2>1, <3>1, <3>4, <4>2, <4>3 DEF SameRun, Succeeded
    <3> QED
      BY <3>3, <3>4
  <2> QED
    BY <2>2, <2>4 DEF RepeatInv
<1> QED
  BY <1>2, <1>4, <1>5

LEMMA StartAgentRepeat ==
    ASSUME AgentTypeOK, RepeatInv, NEW a \in Agents, StartAgent(a)
    PROVE  RepeatInv'
<1>1. /\ UNCHANGED runs
      /\ life' = [life EXCEPT ![a] = life[a] + 1]
      /\ \A b \in Agents : b # a => lastJobID'[b] = lastJobID[b]
  BY DEF StartAgent, AgentTypeOK
<1>2. /\ life'[a] = life[a] + 1
      /\ \A b \in Agents : b # a => life'[b] = life[b]
  BY <1>1 DEF AgentTypeOK
<1>3. LifeBound'
  <2> SUFFICES ASSUME NEW b \in Agents, NEW i \in DOMAIN runs[b]
               PROVE  runs[b][i].life <= life'[b]
    BY <1>1 DEF LifeBound
  <2>1. runs[b][i].life <= life[b]
    BY DEF RepeatInv, LifeBound
  <2> QED
    BY <1>2, <2>1, HistoryTyped
<1>4. SuccessRemembered'
  <2> SUFFICES ASSUME NEW b \in Agents, NEW i \in DOMAIN runs[b],
                      runs[b][i].life = life'[b], Succeeded(b, i),
                      runs[b][i].job.id # lastJobID'[b]
               PROVE  \E k \in (i + 1)..LastRun(b) :
                         Succeeded(b, k) /\ runs[b][k].job.id # runs[b][i].job.id
    BY <1>1 DEF SuccessRemembered, Succeeded, LastRun
  <2>1. b # a
    <3>1. runs[b][i].life <= life[b]
      BY DEF RepeatInv, LifeBound
    <3> QED
      BY <1>2, <3>1, HistoryTyped
  <2> QED
    BY <1>1, <1>2, <2>1 DEF RepeatInv, SuccessRemembered
<1>5. SucceededJobNotRerun'
  BY <1>1 DEF RepeatInv, SucceededJobNotRerun
<1> QED
  BY <1>3, <1>4, <1>5 DEF RepeatInv

\* A new execution is of another job than the last that succeeded.
LEMMA ReceiveJobRepeat ==
    ASSUME FleetInv, RepeatInv, NEW a \in Agents, ReceiveJob(a), NewWork(a, reply[a])
    PROVE  RepeatInv'
<1> DEFINE run == NewRun(a, reply[a].job)
           n   == LastRun(a) + 1
<1>1. /\ AgentTypeOK /\ runs \in [Agents -> Seq(Run)]
      /\ reply[a].job \in Dispatched /\ life[a] \in Nat
      /\ UNCHANGED <<life, lastJobID>>
  BY DEF FleetInv, TypeInv, TypeOK, AgentTypeOK, Protocol, JobAnswered, ReceiveJob, NewWork
<1>2. /\ run \in Run /\ run.status # "Success" /\ run.life = life[a]
      /\ run.job.id # lastJobID[a]
  BY <1>1 DEF NewRun, Run, RunStatus, ReportStatus, NewWork
<1> HIDE DEF run
<1>3. runs' = [runs EXCEPT ![a] = Append(runs[a], run)]
  BY DEF ReceiveJob, run
<1>4. runs[a] \in Seq(Run)
  BY <1>1
<1>5. /\ DOMAIN runs'[a] = DOMAIN runs[a] \cup {n}
      /\ runs'[a][n] = run
      /\ Len(runs'[a]) = n
      /\ \A i \in DOMAIN runs[a] : runs'[a][i] = runs[a][i]
      /\ \A b \in Agents : b # a => runs'[b] = runs[b]
  BY <1>1, <1>2, <1>3, <1>4, SeqAppend DEF LastRun
<1>6. LastRun(a) \in Nat /\ DOMAIN runs[a] = 1..LastRun(a)
  BY <1>1, HistoryTyped
<1> HIDE DEF n
<1>7. LifeBound'
  <2> SUFFICES ASSUME NEW b \in Agents, NEW i \in DOMAIN runs'[b]
               PROVE  runs'[b][i].life <= life[b]
    BY <1>1 DEF LifeBound
  <2>1. CASE b = a /\ i = n
    BY <1>1, <1>2, <1>5, <2>1
  <2>2. CASE i \in DOMAIN runs[b] /\ runs'[b][i] = runs[b][i]
    BY <2>2 DEF RepeatInv, LifeBound
  <2> QED
    BY <1>5, <2>1, <2>2
<1>8. SuccessRemembered'
  <2> SUFFICES ASSUME NEW b \in Agents, NEW i \in DOMAIN runs'[b],
                      runs'[b][i].life = life[b], runs'[b][i].status = "Success",
                      runs'[b][i].job.id # lastJobID[b]
               PROVE  \E k \in (i + 1)..Len(runs'[b]) :
                         /\ runs'[b][k].status = "Success"
                         /\ runs'[b][k].job.id # runs'[b][i].job.id
    BY <1>1 DEF SuccessRemembered, Succeeded, LastRun
  <2>1. i \in DOMAIN runs[b] /\ runs'[b][i] = runs[b][i]
    BY <1>2, <1>5
  <2>2. PICK k \in (i + 1)..LastRun(b) :
            runs[b][k].status = "Success" /\ runs[b][k].job.id # runs[b][i].job.id
    BY <2>1 DEF RepeatInv, SuccessRemembered, Succeeded
  <2>3. k \in DOMAIN runs[b] /\ runs'[b][k] = runs[b][k]
    <3>1. k \in DOMAIN runs[b]
      BY <1>1, <2>1, <2>2, HistoryTyped
    <3> QED
      BY <1>5, <3>1
  <2>4. k \in (i + 1)..Len(runs'[b])
    <3>1. LastRun(b) \in Nat /\ i \in 1..LastRun(b)
      BY <1>1, <2>1, HistoryTyped
    <3>2. Len(runs'[b]) \in {LastRun(b), LastRun(b) + 1}
      BY <1>5 DEF LastRun, n
    <3> QED
      BY <2>2, <3>1, <3>2
  <2> QED
    BY <2>1, <2>2, <2>3, <2>4
<1>9. SucceededJobNotRerun'
  <2> SUFFICES ASSUME NEW b \in Agents, NEW i \in DOMAIN runs'[b], NEW j \in DOMAIN runs'[b],
                      i < j, runs'[b][i].life = runs'[b][j].life,
                      runs'[b][i].status = "Success",
                      runs'[b][i].job.id = runs'[b][j].job.id
               PROVE  \E k \in (i + 1)..(j - 1) :
                         /\ runs'[b][k].status = "Success"
                         /\ runs'[b][k].job.id # runs'[b][i].job.id
    BY DEF SucceededJobNotRerun
  <2>1. i \in DOMAIN runs[b] /\ runs'[b][i] = runs[b][i]
    BY <1>2, <1>5
  <2>2. LastRun(b) \in Nat /\ DOMAIN runs[b] = 1..LastRun(b)
    BY <1>1, HistoryTyped
  <2>3. CASE j \in DOMAIN runs[b] /\ runs'[b][j] = runs[b][j]
    <3>1. PICK k \in (i + 1)..(j - 1) :
              runs[b][k].status = "Success" /\ runs[b][k].job.id # runs[b][i].job.id
      BY <2>1, <2>3 DEF RepeatInv, SucceededJobNotRerun
    <3>2. k \in DOMAIN runs[b]
      BY <2>1, <2>2, <2>3
    <3> QED
      BY <1>5, <2>1, <3>1, <3>2
  <2>4. CASE b = a /\ j = n
    <3>1. runs[a][i].life = life[a] /\ runs[a][i].job.id # lastJobID[a]
      BY <1>2, <1>5, <2>1, <2>4
    <3>2. PICK k \in (i + 1)..LastRun(a) :
              runs[a][k].status = "Success" /\ runs[a][k].job.id # runs[a][i].job.id
      BY <2>1, <2>4, <3>1 DEF RepeatInv, SuccessRemembered, Succeeded
    <3>3. k \in DOMAIN runs[a] /\ k \in (i + 1)..(j - 1)
      BY <2>1, <2>2, <2>4, <3>2 DEF n
    <3> QED
      BY <1>5, <2>1, <2>4, <3>2, <3>3
  <2> QED
    BY <1>5, <2>3, <2>4
<1> QED
  BY <1>7, <1>8, <1>9 DEF RepeatInv

LEMMA AgentStepRepeat ==
    ASSUME FleetInv, RepeatInv, NEW a \in Agents, AgentStep(a)
    PROVE  RepeatInv'
<1>1. /\ AgentTypeOK /\ RunningIsRunning
      /\ pc[a] \in {"running", "reporting"} => runs[a] # <<>>
  BY DEF FleetInv, TypeInv, TypeOK, ReportInv, Protocol, RunUnderWay
<1>2. CASE StartAgent(a)
  BY <1>1, <1>2, StartAgentRepeat
<1>3. CASE FinishRun(a)
  BY <1>3, FinishRunRepeat
<1>4. CASE ReceiveJob(a) /\ NewWork(a, reply[a])
  BY <1>4, ReceiveJobRepeat
<1>5. CASE UNCHANGED <<runs, life, lastJobID>>
  BY <1>5
     DEF RepeatInv, LifeBound, SuccessRemembered, SucceededJobNotRerun, Succeeded, LastRun
<1>6. ASSUME NEW report \in ReportStatus, pc[a] = "reporting",
             SetRun(a, runs[a][LastRun(a)].status, report), UNCHANGED <<life, lastJobID>>
      PROVE  RepeatInv'
  <2>1. runs[a][LastRun(a)].status \in RunStatus
    BY <1>1, <1>6, LastRunTyped
  <2> QED
    BY <1>1, <1>6, <2>1, SetRunRepeat DEF Succeeded
<1>7. CASE ReceiveReport(a) \/ ReportFails(a)
  BY <1>6, <1>7 DEF ReceiveReport, ReportFails, ReportStatus
<1>8. CASE CrashAgent(a)
  <2>1. CASE pc[a] = "running"
    <3>1. ~Succeeded(a, LastRun(a))
      BY <1>1, <2>1 DEF RunningIsRunning, Succeeded
    <3> QED
      BY <1>1, <1>8, <2>1, <3>1, SetRunRepeat DEF CrashAgent, RunStatus, ReportStatus
  <2>2. CASE pc[a] = "reporting"
    BY <1>6, <1>8, <2>2 DEF CrashAgent, ReportStatus
  <2>3. CASE pc[a] \notin {"running", "reporting"}
    BY <1>5, <1>8, <2>3 DEF CrashAgent
  <2> QED
    BY <2>1, <2>2, <2>3
<1> QED
  BY <1>2, <1>3, <1>4, <1>5, <1>7, <1>8
     DEF AgentStep, SendRegister, ReceiveRegister, RegisterFails, Poll, ReceiveJob,
         PollFails, Cancel, StopAgent

LEMMA InitRepeat == Init => RepeatInv
BY DEF Init, AgentInit, RepeatInv, LifeBound, SuccessRemembered, SucceededJobNotRerun

LEMMA NextRepeat == FleetInv /\ RepeatInv /\ [Next]_vars => RepeatInv'
<1> SUFFICES ASSUME FleetInv, RepeatInv, [Next]_vars
             PROVE  RepeatInv'
  OBVIOUS
<1>1. CASE UNCHANGED agentVars
  BY <1>1
     DEF agentVars, RepeatInv, LifeBound, SuccessRemembered, SucceededJobNotRerun,
         Succeeded, LastRun
<1>2. CASE \E a \in Agents : AgentNext(a)
  BY <1>2, AgentStepRepeat DEF AgentNext
<1> QED
  BY <1>1, <1>2 DEF Next, OthelaNext, vars

\* A process that executed a job with success executes it again only after another
\* job succeeded, whatever Othela answers in between: a failure does not make it
\* forget its last success, and only a new process starts without one.
THEOREM RepeatCorrect == Spec => []SucceededJobNotRerun
<1>1. RepeatInv => SucceededJobNotRerun
  BY DEF RepeatInv
<1> QED
  BY <1>1, FleetInit, FleetNext, InitRepeat, NextRepeat, PTL DEF Spec

-----------------------------------------------------------------------------
(* Durability. With SQLite and no failing Save, the answer 200 to a report *)
(* that its agent still waits for is sent only when the report is stored.  *)

StoredRun(a, i) ==
    \E k \in DOMAIN reportStore["sqlite"] : Reported("sqlite", k) = <<a, i>>

AnswerStored ==
    \A a \in Agents :
        pc[a] = "reporting" /\ reply[a] # NoReply /\ reply[a].code = 200
            => StoredRun(a, LastRun(a))

DurableInv == AnswerStored /\ AckedReportsDurable

\* The table only grows.
BookGrows ==
    \A k \in DOMAIN reportStore["sqlite"] :
        /\ k \in DOMAIN reportStore'["sqlite"]
        /\ reportStore'["sqlite"][k] = reportStore["sqlite"][k]

LEMMA StoredStays ==
    ASSUME BookGrows, NEW a, NEW i, StoredRun(a, i)
    PROVE  \E k \in DOMAIN reportStore'["sqlite"] :
               <<reportStore'["sqlite"][k].agent, reportStore'["sqlite"][k].run>> = <<a, i>>
BY DEF BookGrows, StoredRun, Reported

\* A report becomes acknowledged in one way only.
LEMMA AckedBefore ==
    ASSUME FleetInv, NEW a \in Agents, AgentStep(a),
           NEW b \in Agents, NEW i \in DOMAIN runs'[b], runs'[b][i].report = "acked"
    PROVE  \/ i \in DOMAIN runs[b] /\ runs[b][i].report = "acked"
           \/ /\ b = a /\ i = LastRun(a)
              /\ pc[a] = "reporting" /\ reply[a] # NoReply /\ reply[a].code = 200
<1>1. /\ AgentTypeOK /\ runs \in [Agents -> Seq(Run)]
      /\ pc[a] \in {"running", "reporting"} => runs[a] # <<>>
  BY DEF FleetInv, TypeInv, TypeOK, AgentTypeOK, Protocol, RunUnderWay
<1>2. CASE UNCHANGED runs
  BY <1>2
<1>3. ASSUME NEW status \in RunStatus, NEW report \in ReportStatus,
             pc[a] \in {"running", "reporting"}, SetRun(a, status, report)
      PROVE  \/ i \in DOMAIN runs[b] /\ runs[b][i].report = "acked"
             \/ b = a /\ i = LastRun(a) /\ report = "acked"
  BY <1>1, <1>3, SetRunEffect
<1>4. pc[a] = "reporting" => runs[a][LastRun(a)].status \in RunStatus
  BY <1>1, LastRunTyped
<1>5. CASE FinishRun(a)
  BY <1>3, <1>5 DEF FinishRun, RunStatus, ReportStatus
<1>6. CASE ReceiveReport(a)
  <2>1. PICK report \in {"acked", "givenUp"} :
            /\ SetRun(a, runs[a][LastRun(a)].status, report)
            /\ report = "acked" => reply[a].code = 200
    BY <1>6 DEF ReceiveReport
  <2> QED
    BY <1>3, <1>4, <1>6, <2>1 DEF ReceiveReport, ReportStatus
<1>7. CASE ReportFails(a)
  BY <1>3, <1>4, <1>7 DEF ReportFails, ReportStatus
<1>8. CASE CrashAgent(a)
  BY <1>2, <1>3, <1>4, <1>8 DEF CrashAgent, RunStatus, ReportStatus
<1>9. CASE ReceiveJob(a) /\ NewWork(a, reply[a])
  <2> DEFINE run == NewRun(a, reply[a].job)
  <2>1. reply[a].job \in Dispatched /\ life[a] \in Nat /\ runs[a] \in Seq(Run)
    BY <1>1, <1>9
       DEF FleetInv, TypeInv, TypeOK, AgentTypeOK, Protocol, JobAnswered, ReceiveJob, NewWork
  <2>2. run \in Run /\ run.report # "acked"
    BY <2>1 DEF NewRun, Run, RunStatus, ReportStatus
  <2> HIDE DEF run
  <2>3. runs' = [runs EXCEPT ![a] = Append(runs[a], run)]
    BY <1>9 DEF ReceiveJob, run
  <2> QED
    BY <1>1, <2>1, <2>2, <2>3, SeqAppend
<1> QED
  BY <1>2, <1>5, <1>6, <1>7, <1>8, <1>9
     DEF AgentStep, StartAgent, SendRegister, ReceiveRegister, RegisterFails, Poll,
         ReceiveJob, PollFails, Cancel, StopAgent

LEMMA AgentStepDurable ==
    ASSUME FleetInv, DurableInv, NEW a \in Agents, AgentNext(a)
    PROVE  DurableInv'
<1>1. TypeInv /\ AgentStep(a) /\ UNCHANGED reportStore
  BY DEF FleetInv, AgentNext, othelaVars
<1>2. AnswerStored'
  <2>1. CASE Cancel(a)
    BY <1>1, <2>1
       DEF Cancel, DurableInv, AnswerStored, StoredRun, Reported, LastRun
  <2>2. CASE ~Cancel(a)
    <3> SUFFICES ASSUME NEW b \in Agents,
                        pc'[b] = "reporting", reply'[b] # NoReply, reply'[b].code = 200
                 PROVE  StoredRun(b, Len(runs'[b]))
      BY <1>1 DEF AnswerStored, StoredRun, Reported, LastRun
    <3>1. b # a /\ pc'[b] = pc[b] /\ reply'[b] = reply[b] /\ runs'[b] = runs[b]
      BY <1>1, <2>2, AgentStepAnswers
    <3> QED
      BY <3>1 DEF DurableInv, AnswerStored, LastRun
  <2> QED
    BY <2>1, <2>2
<1>3. AckedReportsDurable'
  <2> SUFFICES ASSUME NEW b \in Agents, NEW i \in DOMAIN runs'[b], runs'[b][i].report = "acked"
               PROVE  StoredRun(b, i)
    BY <1>1 DEF AckedReportsDurable, StoredRun, Reported
  <2> QED
    BY <1>1, AckedBefore DEF DurableInv, AckedReportsDurable, AnswerStored, StoredRun
<1> QED
  BY <1>2, <1>3 DEF DurableInv

LEMMA OthelaStepDurable ==
    ASSUME Backends = {"sqlite"}, "saveError" \notin Disturbances,
           FleetInv, DeliveryInv, DurableInv, OthelaNext
    PROVE  DurableInv'
<1>1. /\ TypeInv /\ ExchangeTypeOK /\ OthelaTypeOK /\ UNCHANGED agentVars
      /\ backend = "sqlite"
  BY DEF FleetInv, TypeInv, TypeOK, OthelaNext, OthelaTypeOK
<1>2. ASSUME BookGrows,
             \A a \in Agents :
                 pc[a] = "reporting" /\ reply'[a] # NoReply /\ reply'[a].code = 200 =>
                     \/ reply'[a] = reply[a]
                     \/ \E k \in DOMAIN reportStore'["sqlite"] :
                           <<reportStore'["sqlite"][k].agent, reportStore'["sqlite"][k].run>>
                               = <<a, LastRun(a)>>
      PROVE  DurableInv'
  <2>1. AnswerStored'
    <3> SUFFICES ASSUME NEW a \in Agents,
                        pc[a] = "reporting", reply'[a] # NoReply, reply'[a].code = 200
                 PROVE  \E k \in DOMAIN reportStore'["sqlite"] :
                           <<reportStore'["sqlite"][k].agent, reportStore'["sqlite"][k].run>>
                               = <<a, LastRun(a)>>
      BY <1>1 DEF AnswerStored, StoredRun, Reported, LastRun, agentVars
    <3>1. CASE reply'[a] = reply[a]
      BY <1>2, <3>1, StoredStays DEF DurableInv, AnswerStored
    <3> QED
      BY <1>2, <3>1
  <2>2. AckedReportsDurable'
    <3> SUFFICES ASSUME NEW a \in Agents, NEW i \in DOMAIN runs[a], runs[a][i].report = "acked"
                 PROVE  \E k \in DOMAIN reportStore'["sqlite"] :
                           <<reportStore'["sqlite"][k].agent, reportStore'["sqlite"][k].run>>
                               = <<a, i>>
      BY <1>1 DEF AckedReportsDurable, Reported, agentVars
    <3>1. StoredRun(a, i)
      BY DEF DurableInv, AckedReportsDurable, StoredRun
    <3> QED
      BY <1>2, <3>1, StoredStays
  <2> QED
    BY <2>1, <2>2 DEF DurableInv
<1>3. reportStore'["sqlite"] = reportStore["sqlite"] => BookGrows
  BY DEF BookGrows
<1>4. CASE OthelaStart \/ EditPlaybooks
  <2>1. reportStore'["sqlite"] = reportStore["sqlite"] /\ UNCHANGED reply
    BY <1>1, <1>4 DEF OthelaStart, EditPlaybooks, OthelaTypeOK
  <2> QED
    BY <1>2, <1>3, <2>1
<1>5. CASE OthelaCrash
  BY <1>2, <1>3, <1>5 DEF OthelaCrash
<1>6. CASE Serve
  <2>1. PICK r \in inflight : HandleRegister(r) \/ HandleSync(r) \/ HandleReport(r)
    BY <1>6 DEF Serve, Handle
  <2>2. r \in Request /\ r.agent \in Agents
    BY <1>1, RequestFields DEF ExchangeTypeOK, Request
  <2>3. PICK code, job : Answer(r, code, job)
    BY <2>1 DEF HandleRegister, HandleSync, HandleReport
  <2>4. \A a \in Agents : a # r.agent \/ r.orphan # 0 => reply'[a] = reply[a]
    BY <1>1, <2>2, <2>3 DEF Answer, ExchangeTypeOK
  <2>5. CASE HandleRegister(r) \/ HandleSync(r)
    <3>1. r.orphan = 0 => pc[r.agent] # "reporting"
      BY <1>1, <2>5
         DEF HandleRegister, HandleSync, TypeInv, Protocol, PendingAwaited, WaitingPC
    <3> QED
      BY <1>2, <1>3, <2>4, <2>5, <3>1 DEF HandleRegister, HandleSync
  <2>6. CASE HandleReport(r)
    <3> DEFINE old == reportStore["sqlite"]
    <3>1. r.kind = "report" /\ r \in ReportRequest /\ SaveReport(r)
      BY <2>2, <2>6, RequestFields DEF HandleReport, StoreFails, Spend
    <3>2. /\ reportStore'["sqlite"] = Append(old, Stored(r))
          /\ Stored(r) \in StoredReport /\ old \in Seq(StoredReport)
          /\ Stored(r).agent = r.agent /\ Stored(r).run = r.run
      BY <1>1, <3>1, SaveReportEffect, StoredType DEF OthelaTypeOK, Stored
    <3> HIDE DEF Stored, old
    <3>3. /\ DOMAIN reportStore'["sqlite"] = DOMAIN old \cup {Len(old) + 1}
          /\ \A k \in DOMAIN old : reportStore'["sqlite"][k] = old[k]
          /\ reportStore'["sqlite"][Len(old) + 1] = Stored(r)
      BY <3>2, SeqAppend
    <3>4. BookGrows
      BY <3>3 DEF BookGrows, old
    <3>5. r.orphan = 0 => r.run = LastRun(r.agent)
      BY <3>1 DEF DeliveryInv, SentOrGivenUp
    <3> QED
      BY <1>2, <2>4, <3>2, <3>3, <3>4, <3>5
  <2> QED
    BY <2>1, <2>5, <2>6
<1> QED
  BY <1>4, <1>5, <1>6 DEF OthelaNext

LEMMA InitDurable == Init => DurableInv
BY DEF Init, AgentInit, DurableInv, AnswerStored, AckedReportsDurable

LEMMA NextDurable ==
    ASSUME Backends = {"sqlite"}, "saveError" \notin Disturbances
    PROVE  FleetInv /\ DeliveryInv /\ DurableInv /\ [Next]_vars => DurableInv'
<1> SUFFICES ASSUME FleetInv, DeliveryInv, DurableInv, [Next]_vars
             PROVE  DurableInv'
  OBVIOUS
<1>1. CASE Next
  BY <1>1, OthelaStepDurable, AgentStepDurable DEF Next
<1>2. CASE UNCHANGED vars
  BY <1>2
     DEF vars, exchangeVars, othelaVars, agentVars, DurableInv, AnswerStored,
         AckedReportsDurable, StoredRun, Reported, LastRun
<1> QED
  BY <1>1, <1>2

\* Where Othela opened its SQLite database and no Save fails, an agent that was
\* answered 200 has its report in the database, through any number of crashes and
\* restarts: the handler answers after the insertion, and never deletes.
THEOREM AckedCorrect ==
    ASSUME Backends = {"sqlite"}, "saveError" \notin Disturbances
    PROVE  Spec => []AckedReportsDurable
<1>1. DurableInv => AckedReportsDurable
  BY DEF DurableInv
<1> QED
  BY <1>1, FleetInit, FleetNext, InitDelivery, NextDelivery, InitDurable, NextDurable,
     PTL DEF Spec

=============================================================================
