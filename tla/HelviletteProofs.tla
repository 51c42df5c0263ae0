--------------------------- MODULE HelviletteProofs ---------------------------
(***************************************************************************)
(* Theorems about Helvilette, for any number of agents, playbooks, labels  *)
(* and disturbances.                                                       *)
(***************************************************************************)
EXTENDS Helvilette, TLAPS

-----------------------------------------------------------------------------
(* Sequences.                                                              *)

LEMMA SeqElement ==
    ASSUME NEW S, NEW s \in Seq(S)
    PROVE  /\ Len(s) \in Nat
           /\ DOMAIN s = 1..Len(s)
           /\ \A i \in DOMAIN s : s[i] \in S
OBVIOUS

LEMMA SeqIntro ==
    ASSUME NEW S, NEW n \in Nat, NEW f \in [1..n -> S]
    PROVE  f \in Seq(S)
OBVIOUS

LEMMA SeqAppend ==
    ASSUME NEW S, NEW s \in Seq(S), NEW e \in S
    PROVE  /\ Append(s, e) \in Seq(S)
           /\ Len(Append(s, e)) = Len(s) + 1
           /\ DOMAIN Append(s, e) = DOMAIN s \cup {Len(s) + 1}
           /\ \A i \in DOMAIN s : Append(s, e)[i] = s[i]
           /\ Append(s, e)[Len(s) + 1] = e
OBVIOUS


-----------------------------------------------------------------------------
(* The operators of Othela keep to their types.                            *)

LEMMA LoadManifestType ==
    ASSUME NEW m \in ManifestType \cup {AbsentManifest, BrokenManifest}
    PROVE  loadManifest(m) \in ManifestType \cup {NoManifest}
BY DEF loadManifest

LEMMA ScanType ==
    ASSUME NEW entries \in Seq(Entry)
    PROVE  Scan(entries) \in Seq(CatalogEntry)
<1>1. \A i \in DOMAIN entries :
          [id |-> entries[i].id, manifest |-> loadManifest(entries[i].manifest)]
             \in CatalogEntry
  <2> TAKE i \in DOMAIN entries
  <2>1. entries[i] \in Entry
    OBVIOUS
  <2>2. /\ entries[i].id \in Strings
        /\ entries[i].manifest \in ManifestType \cup {AbsentManifest, BrokenManifest}
    BY <2>1 DEF Entry
  <2>3. loadManifest(entries[i].manifest) \in ManifestType \cup {NoManifest}
    BY <2>2, LoadManifestType
  <2> QED
    BY <2>2, <2>3 DEF CatalogEntry
<1>2. Scan(entries) \in [1..Len(entries) -> CatalogEntry]
  BY <1>1, SeqElement DEF Scan
<1> QED
  BY <1>2, SeqElement, SeqIntro

LEMMA ScannedCatalogType ==
    ASSUME disk \in Disk
    PROVE  ScannedCatalog \in Seq(CatalogEntry)
<1>1. disk.entries \in Seq(Entry)
  BY DEF Disk
<1> QED
  BY <1>1, ScanType DEF ScannedCatalog

LEMMA FallbackJobType ==
    ASSUME disk \in Disk, NEW now \in Nat
    PROVE  FallbackJob(now) \in Dispatched
<1>1. EmptyJob \in Dispatched
  BY StringsAssumption DEF EmptyJob, Job, EmptyID, Dispatched, JobID
<1>2. Job(MockID(now), "", "", "", NoGroup) \in Dispatched
  BY StringsAssumption DEF Job, MockID, Dispatched, JobID
<1>3. ASSUME disk.entries # <<>>
      PROVE  Job(PlaybookID(disk.entries[1].id), DefaultRepo, "main", "playbook.yml", NoGroup)
                \in Dispatched
  <2>1. disk.entries \in Seq(Entry)
    BY DEF Disk
  <2>2. 1 \in DOMAIN disk.entries
    BY <1>3, <2>1, SeqElement
  <2>3. disk.entries[1] \in Entry
    BY <2>1, <2>2
  <2>4. disk.entries[1].id \in Strings
    BY <2>3 DEF Entry
  <2> QED
    BY <2>4, OthelaAssumption DEF Job, PlaybookID, Dispatched, JobID
<1> QED
  BY <1>1, <1>2, <1>3 DEF FallbackJob

LEMMA GroupJobType ==
    ASSUME NEW pb \in CatalogEntry, pb.manifest \in ManifestType,
           NEW g \in DOMAIN pb.manifest.nodeGroups
    PROVE  GroupJob(pb, g) \in Dispatched
<1>1. pb.manifest.nodeGroups \in Seq(NodeGroup)
  BY DEF ManifestType
<1>2. pb.manifest.nodeGroups[g] \in NodeGroup
  BY <1>1, SeqElement
<1>3. GroupID(pb.id, pb.manifest.nodeGroups[g].name) \in JobID
  BY <1>2 DEF GroupID, JobID, CatalogEntry, NodeGroup
<1> QED
  BY <1>2, <1>3, OthelaAssumption DEF GroupJob, Job, Dispatched, ManifestType

LEMMA JobsForType ==
    ASSUME catalog \in Seq(CatalogEntry), currentJob \in Dispatched, NEW l \in Labels
    PROVE  JobsFor(l) \subseteq Dispatched \cup {NoJob}
<1>1. CASE MatchingPlaybooks(l) # {}
  <2> SUFFICES ASSUME NEW i \in First(MatchingPlaybooks(l)), NEW g \in GroupsTaken(catalog[i], l)
               PROVE  GroupJob(catalog[i], g) \in Dispatched
    BY <1>1 DEF JobsFor, MatchedJobs
  <2>1. i \in DOMAIN catalog /\ catalog[i].manifest # NoManifest
    BY DEF First, MatchingPlaybooks
  <2>2. catalog[i] \in CatalogEntry
    BY <2>1
  <2>3. catalog[i].manifest \in ManifestType
    BY <2>1, <2>2 DEF CatalogEntry
  <2>4. g \in DOMAIN catalog[i].manifest.nodeGroups
    BY DEF GroupsTaken, First, MatchNodeGroups
  <2> QED
    BY <2>2, <2>3, <2>4, GroupJobType
<1>2. CASE MatchingPlaybooks(l) = {}
  BY <1>2 DEF JobsFor
<1> QED
  BY <1>1, <1>2

-----------------------------------------------------------------------------
(* The type invariant is not inductive by itself: that the answer to a     *)
(* poll carries a job depends on which request it answers, and that a run  *)
(* can be ended on there being one.                                        *)

Request == RegisterRequest \cup SyncRequest \cup ReportRequest

\* Where an agent is while it waits for the answer to a request of this kind.
WaitingPC(kind) == CASE kind = "register" -> "registering"
                     [] kind = "sync"     -> "syncing"
                     [] kind = "report"   -> "reporting"

OnePending ==
    \A r, q \in inflight : r.orphan = 0 /\ q.orphan = 0 /\ r.agent = q.agent => r = q

PendingAwaited ==
    \A r \in inflight :
        r.orphan = 0 => pc[r.agent] = WaitingPC(r.kind) /\ reply[r.agent] = NoReply

ReplyAwaited ==
    \A a \in Agents :
        reply[a] # NoReply => pc[a] \in {"registering", "syncing", "reporting"}

JobAnswered ==
    \A a \in Agents :
        pc[a] = "syncing" /\ reply[a] # NoReply /\ reply[a].code = 200
            => reply[a].job \in Dispatched

RunUnderWay ==
    \A a \in Agents : pc[a] \in {"running", "reporting"} => runs[a] # <<>>

Protocol == OnePending /\ PendingAwaited /\ ReplyAwaited /\ JobAnswered /\ RunUnderWay

TypeInv == TypeOK /\ Protocol

-----------------------------------------------------------------------------
(* What the operators of Exchange and Agent do to a typed state.           *)

LEMMA RequestFields ==
    ASSUME NEW r \in Request
    PROVE  /\ r.kind \in {"register", "sync", "report"}
           /\ r.agent \in Agents
           /\ r.orphan \in Nat
           /\ r.kind = "register" => r \in RegisterRequest
           /\ r.kind = "sync" => r \in SyncRequest
           /\ r.kind = "report" => r \in ReportRequest
BY DEF Request, RegisterRequest, SyncRequest, ReportRequest

LEMMA OrphanedRequest ==
    ASSUME NEW r \in Request, NEW n \in Nat
    PROVE  /\ [r EXCEPT !.orphan = n] \in Request
           /\ [r EXCEPT !.orphan = n].orphan = n
           /\ [r EXCEPT !.orphan = n].kind = r.kind
           /\ [r EXCEPT !.orphan = n].agent = r.agent
           /\ r.kind = "report" =>
                 /\ [r EXCEPT !.orphan = n].run = r.run
                 /\ [r EXCEPT !.orphan = n].status = r.status
           /\ r.kind = "register" => [r EXCEPT !.orphan = n].labels = r.labels
<1>1. CASE r \in RegisterRequest
  BY <1>1 DEF Request, RegisterRequest
<1>2. CASE r \in SyncRequest
  BY <1>2 DEF Request, SyncRequest
<1>3. CASE r \in ReportRequest
  BY <1>3 DEF Request, ReportRequest
<1> QED
  BY <1>1, <1>2, <1>3 DEF Request

LEMMA AbandonEffect ==
    ASSUME ExchangeTypeOK, NEW a \in Agents, budget > 0, Abandon(a)
    PROVE  /\ inflight' \subseteq Request
           /\ \A r \in inflight' : r.orphan = 0 => r \in inflight /\ r.agent # a
           /\ reply' \in [Agents -> Reply \cup {NoReply}]
           /\ \A b \in Agents : reply'[b] = IF b = a THEN NoReply ELSE reply[b]
<1>1. inflight \subseteq Request /\ budget \in Nat \ {0}
  BY ExchangeAssumption DEF ExchangeTypeOK, Request
<1>2. ASSUME NEW r \in inflight'
      PROVE  r \in Request /\ (r.orphan = 0 => r \in inflight /\ r.agent # a)
  <2>1. CASE r \in inflight \ Pending(a)
    BY <1>1, <2>1 DEF Pending
  <2>2. CASE \E q \in Pending(a) : r = [q EXCEPT !.orphan = budget]
    <3>1. PICK q \in Pending(a) : r = [q EXCEPT !.orphan = budget]
      BY <2>2
    <3>2. q \in Request
      BY <1>1 DEF Pending
    <3> QED
      BY <1>1, <3>1, <3>2, OrphanedRequest
  <2> QED
    BY <2>1, <2>2 DEF Abandon
<1>3. reply' = [reply EXCEPT ![a] = NoReply]
  BY DEF Abandon
<1> QED
  BY <1>2, <1>3 DEF ExchangeTypeOK

LEMMA SpendEffect ==
    ASSUME ExchangeTypeOK, NEW kind, Spend(kind)
    PROVE  budget > 0 /\ budget' \in 0..MaxDisturbances
BY ExchangeAssumption DEF ExchangeTypeOK, Spend

LEMMA RequestErrorEffect ==
    ASSUME ExchangeTypeOK, NEW a \in Agents, RequestError(a)
    PROVE  /\ inflight' \subseteq Request
           /\ \A r \in inflight' : r.orphan = 0 => r \in inflight /\ r.agent # a
           /\ reply' \in [Agents -> Reply \cup {NoReply}]
           /\ \A b \in Agents : reply'[b] = IF b = a THEN NoReply ELSE reply[b]
           /\ budget' \in 0..MaxDisturbances
<1>1. CASE Disconnected(a)
  BY <1>1 DEF Disconnected, Pending, ExchangeTypeOK, Request
<1>2. CASE Timeout(a)
  BY <1>2, SpendEffect, AbandonEffect DEF Timeout
<1> QED
  BY <1>1, <1>2 DEF RequestError

LEMMA SetRunEffect ==
    ASSUME runs \in [Agents -> Seq(Run)], NEW a \in Agents, runs[a] # <<>>,
           NEW status \in RunStatus, NEW report \in ReportStatus,
           SetRun(a, status, report)
    PROVE  /\ runs' \in [Agents -> Seq(Run)]
           /\ \A b \in Agents : DOMAIN runs'[b] = DOMAIN runs[b]
           /\ \A b \in Agents : Len(runs'[b]) = Len(runs[b])
           /\ LastRun(a) \in DOMAIN runs[a]
           /\ \A b \in Agents : \A i \in DOMAIN runs[b] :
                 /\ runs'[b][i].job = runs[b][i].job
                 /\ runs'[b][i].life = runs[b][i].life
                 /\ <<b, i>> # <<a, LastRun(a)>> => runs'[b][i] = runs[b][i]
           /\ runs'[a][LastRun(a)].status = status
           /\ runs'[a][LastRun(a)].report = report
<1> DEFINE n == LastRun(a)
           run == [runs[a][n] EXCEPT !.status = status, !.report = report]
           new == [runs[a] EXCEPT ![n] = run]
<1>1. runs[a] \in Seq(Run) /\ n \in DOMAIN runs[a]
  <2>1. runs[a] \in Seq(Run)
    OBVIOUS
  <2> QED
    BY <2>1 DEF LastRun
<1>2. runs[a][n] \in Run
  BY <1>1
<1>3. /\ run \in Run
      /\ run.job = runs[a][n].job
      /\ run.life = runs[a][n].life
      /\ run.status = status
      /\ run.report = report
  BY <1>2 DEF Run
<1> HIDE DEF run
<1>4. /\ new \in Seq(Run)
      /\ Len(new) = Len(runs[a])
      /\ DOMAIN new = DOMAIN runs[a]
      /\ new[n] = run
      /\ \A i \in DOMAIN runs[a] : i # n => new[i] = runs[a][i]
  BY <1>1, <1>3
<1>5. runs' = [runs EXCEPT ![a] = new]
  BY DEF SetRun, run, n
<1> HIDE DEF new
<1>6. /\ runs' \in [Agents -> Seq(Run)]
      /\ runs'[a] = new
      /\ \A b \in Agents : b # a => runs'[b] = runs[b]
  BY <1>4, <1>5
<1> QED
  BY <1>1, <1>3, <1>4, <1>6

-----------------------------------------------------------------------------
(* Every step of an agent but Cancel leaves it without an answer to read   *)
(* and with at most one request to wait for: what that takes to preserve   *)
(* the type invariant, once for all of them.                               *)

LEMMA AgentMove ==
    ASSUME TypeInv, NEW a \in Agents, NEW there \in PC,
           UNCHANGED <<othelaVars, up>>,
           pc' = [pc EXCEPT ![a] = there],
           inflight' \subseteq Request,
           \A r \in inflight' : r.orphan = 0 =>
               \/ r \in inflight /\ r.agent # a
               \/ r.agent = a /\ there = WaitingPC(r.kind),
           \A r, q \in inflight' :
               r.orphan = 0 /\ q.orphan = 0 /\ r.agent = a /\ q.agent = a => r = q,
           reply' \in [Agents -> Reply \cup {NoReply}],
           \A b \in Agents : reply'[b] = IF b = a THEN NoReply ELSE reply[b],
           budget' \in 0..MaxDisturbances,
           labels' \in [Agents -> Labels],
           lastJobID' \in [Agents -> JobID],
           cancelled' \in [Agents -> BOOLEAN],
           life' \in [Agents -> Nat],
           runs' \in [Agents -> Seq(Run)],
           \A b \in Agents : b # a => runs'[b] = runs[b],
           there \in {"running", "reporting"} => runs'[a] # <<>>
    PROVE  TypeInv'
<1>1. TypeOK'
  BY DEF TypeInv, TypeOK, ExchangeTypeOK, OthelaTypeOK, NodeMap, AgentTypeOK, othelaVars, Request
<1>2. /\ pc'[a] = there
      /\ \A b \in Agents : b # a => pc'[b] = pc[b]
  BY DEF TypeInv, TypeOK, AgentTypeOK
<1>3. \A r \in inflight' : r.agent \in Agents
  BY RequestFields
<1>4. OnePending'
  BY <1>3 DEF TypeInv, Protocol, OnePending
<1>5. PendingAwaited'
  BY <1>2, <1>3 DEF TypeInv, Protocol, PendingAwaited
<1>6. ReplyAwaited'
  BY <1>2 DEF TypeInv, Protocol, ReplyAwaited
<1>7. JobAnswered'
  <2> SUFFICES ASSUME NEW b \in Agents, pc'[b] = "syncing",
                      reply'[b] # NoReply, reply'[b].code = 200
               PROVE  reply'[b].job \in Dispatched
    BY DEF JobAnswered
  <2>1. b # a /\ reply'[b] = reply[b] /\ pc'[b] = pc[b]
    BY <1>2
  <2> QED
    BY <2>1 DEF TypeInv, Protocol, JobAnswered
<1>8. RunUnderWay'
  BY <1>2 DEF TypeInv, Protocol, RunUnderWay
<1> QED
  BY <1>1, <1>4, <1>5, <1>6, <1>7, <1>8 DEF TypeInv, Protocol

\* A request is sent by an agent that was not waiting.
LEMMA SendEffect ==
    ASSUME TypeInv, NEW a \in Agents,
           pc[a] \notin {"registering", "syncing", "reporting"},
           NEW r \in Request, r.agent = a, Send(r)
    PROVE  /\ inflight' \subseteq Request
           /\ \A q \in inflight' : q.orphan = 0 => (q \in inflight /\ q.agent # a) \/ q = r
           /\ reply[a] = NoReply
<1>1. \A q \in inflight : q \in Request /\ q.kind \in {"register", "sync", "report"}
  BY RequestFields DEF TypeInv, TypeOK, ExchangeTypeOK, Request
<1>2. \A q \in inflight : q.orphan = 0 => q.agent # a
  BY <1>1 DEF TypeInv, Protocol, PendingAwaited, WaitingPC
<1>3. reply[a] = NoReply
  BY DEF TypeInv, Protocol, ReplyAwaited
<1> QED
  BY <1>1, <1>2, <1>3 DEF Send

LEMMA RequestTypes ==
    ASSUME NEW a \in Agents
    PROVE  /\ Sync(a) \in Request /\ Sync(a).agent = a /\ Sync(a).kind = "sync"
           /\ \A l \in Labels :
                 /\ Register(a, l) \in Request
                 /\ Register(a, l).agent = a
                 /\ Register(a, l).kind = "register"
           /\ \A n \in Nat, status \in {"Success", "Failed"} :
                 /\ Report(a, n, status) \in Request
                 /\ Report(a, n, status).agent = a
                 /\ Report(a, n, status).kind = "report"
BY DEF Request, RegisterRequest, SyncRequest, ReportRequest, Sync, Register, Report

\* An agent that reads its answer has no request pending.
LEMMA ConsumeEffect ==
    ASSUME TypeInv, NEW a \in Agents, reply[a] # NoReply, Consume(a)
    PROVE  /\ inflight \subseteq Request
           /\ \A q \in inflight : q.orphan = 0 => q.agent # a
           /\ reply' \in [Agents -> Reply \cup {NoReply}]
           /\ \A b \in Agents : reply'[b] = IF b = a THEN NoReply ELSE reply[b]
BY DEF TypeInv, TypeOK, ExchangeTypeOK, Protocol, PendingAwaited, Consume, Request

\* Setting only what an agent knows of its report keeps the type of runs.
LEMMA SetReportType ==
    ASSUME runs \in [Agents -> Seq(Run)], NEW a \in Agents, runs[a] # <<>>,
           NEW report \in ReportStatus,
           SetRun(a, runs[a][LastRun(a)].status, report)
    PROVE  /\ runs' \in [Agents -> Seq(Run)]
           /\ \A b \in Agents : b # a => runs'[b] = runs[b]
<1>1. runs[a] \in Seq(Run)
  OBVIOUS
<1>2. LastRun(a) \in DOMAIN runs[a]
  BY <1>1 DEF LastRun
<1>3. runs[a][LastRun(a)] \in Run
  BY <1>1, <1>2
<1>4. runs[a][LastRun(a)].status \in RunStatus
  BY <1>3 DEF Run
<1>5. runs' \in [Agents -> Seq(Run)]
  BY <1>4, SetRunEffect
<1> QED
  BY <1>5 DEF SetRun

-----------------------------------------------------------------------------
(* The steps of an agent.                                                  *)

LEMMA AgentStepType ==
    ASSUME TypeInv, NEW a \in Agents, AgentNext(a)
    PROVE  TypeInv'
<1>1. TypeOK /\ Protocol
  BY DEF TypeInv
<1>2. ExchangeTypeOK /\ OthelaTypeOK /\ AgentTypeOK
  BY <1>1 DEF TypeOK
<1>3. inflight \subseteq Request
  BY <1>2 DEF ExchangeTypeOK, Request
<1>4. UNCHANGED othelaVars
  BY DEF AgentNext
<1>5. CASE StartAgent(a)
  <2>1. \E l \in Labels : labels' = [labels EXCEPT ![a] = l]
    BY <1>5, LabelsAssumption DEF StartAgent
  <2>2. /\ labels' \in [Agents -> Labels]
        /\ life' \in [Agents -> Nat]
        /\ lastJobID' \in [Agents -> JobID]
        /\ cancelled' \in [Agents -> BOOLEAN]
    BY <1>2, <1>5, <2>1 DEF StartAgent, AgentTypeOK, JobID, EmptyID
  <2>3. /\ reply[a] = NoReply
        /\ \A r \in inflight : r.orphan = 0 => r.agent # a
    BY <1>1, <1>3, <1>5, RequestFields DEF StartAgent, Protocol, ReplyAwaited, PendingAwaited, WaitingPC
  <2> QED
    BY <1>2, <1>3, <1>4, <1>5, <2>2, <2>3, AgentMove
       DEF StartAgent, Goto, PC, ExchangeTypeOK, AgentTypeOK, exchangeVars
<1>6. CASE SendRegister(a)
  <2>1. Register(a, labels[a]) \in Request /\ Register(a, labels[a]).agent = a
        /\ Register(a, labels[a]).kind = "register"
    BY <1>2, RequestTypes DEF AgentTypeOK
  <2>2. /\ inflight' \subseteq Request
        /\ \A q \in inflight' : q.orphan = 0 =>
               (q \in inflight /\ q.agent # a) \/ q = Register(a, labels[a])
        /\ reply[a] = NoReply
    BY <1>6, <2>1, SendEffect DEF SendRegister
  <2>3. "registering" = WaitingPC(Register(a, labels[a]).kind)
    BY <2>1 DEF WaitingPC
  <2> HIDE DEF Register
  <2> QED
    BY <1>2, <1>4, <1>6, <2>1, <2>2, <2>3, AgentMove
       DEF SendRegister, Goto, PC, ExchangeTypeOK, AgentTypeOK
<1>7. CASE ReceiveRegister(a)
  <2>1. PICK there \in {"idle", "register"} : pc' = [pc EXCEPT ![a] = there]
    BY <1>7 DEF ReceiveRegister, Goto
  <2>2. /\ inflight' \subseteq Request
        /\ \A q \in inflight' : q.orphan = 0 => q.agent # a
        /\ reply' \in [Agents -> Reply \cup {NoReply}]
        /\ \A b \in Agents : reply'[b] = IF b = a THEN NoReply ELSE reply[b]
    BY <1>7, ConsumeEffect DEF ReceiveRegister
  <2>3. UNCHANGED <<labels, lastJobID, cancelled, life, runs, up, inflight, budget>>
    BY <1>7 DEF ReceiveRegister
  <2> QED
    BY <1>2, <1>4, <2>1, <2>2, <2>3, AgentMove DEF PC, ExchangeTypeOK, AgentTypeOK
<1>8. CASE RegisterFails(a)
  BY <1>2, <1>4, <1>8, RequestErrorEffect, AgentMove
     DEF RegisterFails, Goto, PC, AgentTypeOK
<1>9. CASE Poll(a)
  <2>1. Sync(a) \in Request /\ Sync(a).agent = a /\ Sync(a).kind = "sync"
    BY RequestTypes
  <2>2. /\ inflight' \subseteq Request
        /\ \A q \in inflight' : q.orphan = 0 =>
               (q \in inflight /\ q.agent # a) \/ q = Sync(a)
        /\ reply[a] = NoReply
    BY <1>9, <2>1, SendEffect DEF Poll
  <2>3. "syncing" = WaitingPC(Sync(a).kind)
    BY <2>1 DEF WaitingPC
  <2> QED
    BY <1>2, <1>4, <1>9, <2>1, <2>2, <2>3, AgentMove
       DEF Poll, Goto, PC, ExchangeTypeOK, AgentTypeOK
<1>10. CASE PollFails(a)
  BY <1>2, <1>4, <1>10, RequestErrorEffect, AgentMove
     DEF PollFails, Goto, PC, AgentTypeOK
<1>11. CASE ReceiveJob(a)
  <2>1. CASE NewWork(a, reply[a])
    <3>1. reply[a].job \in Dispatched
      BY <1>1, <1>11, <2>1 DEF ReceiveJob, NewWork, Protocol, JobAnswered
    <3>2. NewRun(a, reply[a].job) \in Run
      BY <1>2, <3>1 DEF NewRun, Run, RunStatus, ReportStatus, AgentTypeOK
    <3>3. Append(runs[a], NewRun(a, reply[a].job)) \in Seq(Run) \ {<<>>}
      <4>1. runs[a] \in Seq(Run)
        BY <1>2 DEF AgentTypeOK
      <4> QED
        BY <3>2, <4>1, SeqAppend
    <3>4. /\ runs' \in [Agents -> Seq(Run)]
          /\ runs'[a] # <<>>
          /\ \A b \in Agents : b # a => runs'[b] = runs[b]
      BY <1>2, <1>11, <2>1, <3>3 DEF ReceiveJob, AgentTypeOK
    <3>5. Goto(a, "running")
      BY <1>11, <2>1 DEF ReceiveJob
    <3> QED
      BY <1>2, <1>3, <1>4, <1>11, <3>4, <3>5, ConsumeEffect, AgentMove
         DEF ReceiveJob, Goto, PC, ExchangeTypeOK, AgentTypeOK
  <2>2. CASE ~NewWork(a, reply[a])
    <3>1. Goto(a, "idle") /\ UNCHANGED runs
      BY <1>11, <2>2 DEF ReceiveJob
    <3> QED
      BY <1>2, <1>3, <1>4, <1>11, <3>1, ConsumeEffect, AgentMove
         DEF ReceiveJob, Goto, PC, ExchangeTypeOK, AgentTypeOK
  <2> QED
    BY <2>1, <2>2
<1>12. CASE FinishRun(a)
  <2>1. PICK status \in {"Success", "Failed"} :
            /\ IF status = "Failed" THEN Spend("failure") ELSE UNCHANGED budget
            /\ lastJobID' = [lastJobID EXCEPT ![a] = JobDone(a, runs[a][LastRun(a)].job, status)]
            /\ SetRun(a, status, "sending")
            /\ Send(Report(a, LastRun(a), status))
    BY <1>12 DEF FinishRun
  <2>2. runs[a] # <<>>
    BY <1>1, <1>12 DEF FinishRun, Protocol, RunUnderWay
  <2>3. /\ runs' \in [Agents -> Seq(Run)]
        /\ runs'[a] # <<>>
        /\ \A b \in Agents : b # a => runs'[b] = runs[b]
        /\ LastRun(a) \in Nat
        /\ runs[a][LastRun(a)].job.id \in JobID
    <3>1. /\ runs \in [Agents -> Seq(Run)]
          /\ status \in RunStatus
          /\ "sending" \in ReportStatus
      BY <1>2 DEF AgentTypeOK, RunStatus, ReportStatus
    <3>2. /\ runs' \in [Agents -> Seq(Run)]
          /\ \A b \in Agents : Len(runs'[b]) = Len(runs[b])
          /\ LastRun(a) \in DOMAIN runs[a]
      BY <2>1, <2>2, <3>1, SetRunEffect
    <3>3. runs' = [runs EXCEPT ![a] = runs'[a]]
      BY <2>1, <3>1 DEF SetRun
    <3>4. runs[a][LastRun(a)] \in Run
      BY <3>1, <3>2
    <3>5. runs'[a] # <<>> /\ LastRun(a) \in Nat
      <4>1. runs[a] \in Seq(Run) /\ runs'[a] \in Seq(Run)
        BY <3>1, <3>2
      <4>2. Len(runs'[a]) = Len(runs[a])
        BY <3>2
      <4> QED
        BY <2>2, <4>1, <4>2 DEF LastRun
    <3>6. \A b \in Agents : b # a => runs'[b] = runs[b]
      BY <3>1, <3>3
    <3> QED
      BY <3>2, <3>4, <3>5, <3>6 DEF Run, Dispatched
  <2>4. /\ lastJobID' \in [Agents -> JobID]
        /\ budget' \in 0..MaxDisturbances
    BY <1>2, <2>1, <2>3, SpendEffect DEF JobDone, AgentTypeOK, ExchangeTypeOK
  <2>5. /\ Report(a, LastRun(a), status) \in Request
        /\ Report(a, LastRun(a), status).agent = a
        /\ Report(a, LastRun(a), status).kind = "report"
    BY <2>3, RequestTypes
  <2>6. /\ inflight' \subseteq Request
        /\ \A q \in inflight' : q.orphan = 0 =>
               (q \in inflight /\ q.agent # a) \/ q = Report(a, LastRun(a), status)
        /\ reply[a] = NoReply
    BY <1>12, <2>1, <2>5, SendEffect DEF FinishRun
  <2>7. "reporting" = WaitingPC(Report(a, LastRun(a), status).kind)
    BY <2>5 DEF WaitingPC
  <2>8. /\ pc' = [pc EXCEPT ![a] = "reporting"]
        /\ UNCHANGED <<labels, cancelled, life, up, reply>>
    BY <1>12 DEF FinishRun, Goto
  <2> HIDE DEF Report
  <2> QED
    BY <1>2, <1>4, <2>3, <2>4, <2>5, <2>6, <2>7, <2>8, AgentMove
       DEF PC, ExchangeTypeOK, AgentTypeOK
<1>13. CASE ReceiveReport(a)
  <2>1. PICK report \in {"acked", "givenUp"} :
            SetRun(a, runs[a][LastRun(a)].status, report)
    BY <1>13 DEF ReceiveReport
  <2>2. /\ runs' \in [Agents -> Seq(Run)]
        /\ \A b \in Agents : b # a => runs'[b] = runs[b]
    BY <1>1, <1>2, <1>13, <2>1, SetReportType
       DEF ReceiveReport, Protocol, RunUnderWay, AgentTypeOK, ReportStatus
  <2>3. /\ inflight' \subseteq Request
        /\ \A q \in inflight' : q.orphan = 0 => q.agent # a
        /\ reply' \in [Agents -> Reply \cup {NoReply}]
        /\ \A b \in Agents : reply'[b] = IF b = a THEN NoReply ELSE reply[b]
    BY <1>13, ConsumeEffect DEF ReceiveReport
  <2>4. /\ pc' = [pc EXCEPT ![a] = "idle"]
        /\ UNCHANGED <<labels, lastJobID, cancelled, life, up, inflight, budget>>
    BY <1>13 DEF ReceiveReport, Goto
  <2> QED
    BY <1>2, <1>4, <2>2, <2>3, <2>4, AgentMove DEF PC, ExchangeTypeOK, AgentTypeOK
<1>14. CASE ReportFails(a)
  <2>1. /\ runs' \in [Agents -> Seq(Run)]
        /\ \A b \in Agents : b # a => runs'[b] = runs[b]
    BY <1>1, <1>2, <1>14, SetReportType
       DEF ReportFails, Protocol, RunUnderWay, AgentTypeOK, ReportStatus
  <2> QED
    BY <1>2, <1>4, <1>14, <2>1, RequestErrorEffect, AgentMove
       DEF ReportFails, Goto, PC, AgentTypeOK
<1>15. CASE Cancel(a)
  <2>1. /\ cancelled' \in [Agents -> BOOLEAN]
        /\ budget' \in 0..MaxDisturbances
    BY <1>2, <1>15, SpendEffect DEF Cancel, AgentTypeOK
  <2> QED
    BY <1>1, <1>2, <1>4, <1>15, <2>1
       DEF Cancel, TypeInv, TypeOK, ExchangeTypeOK, OthelaTypeOK, NodeMap, AgentTypeOK,
           othelaVars, Protocol, OnePending, PendingAwaited, ReplyAwaited, JobAnswered,
           RunUnderWay
<1>16. CASE StopAgent(a)
  <2>1. /\ reply[a] = NoReply
        /\ \A r \in inflight : r.orphan = 0 => r.agent # a
    BY <1>1, <1>3, <1>16, RequestFields
       DEF StopAgent, Protocol, ReplyAwaited, PendingAwaited, WaitingPC
  <2> QED
    BY <1>2, <1>3, <1>4, <1>16, <2>1, AgentMove
       DEF StopAgent, Goto, PC, ExchangeTypeOK, AgentTypeOK, exchangeVars
<1>17. CASE CrashAgent(a)
  <2>1. /\ budget' \in 0..MaxDisturbances
        /\ inflight' \subseteq Request
        /\ \A r \in inflight' : r.orphan = 0 => r \in inflight /\ r.agent # a
        /\ reply' \in [Agents -> Reply \cup {NoReply}]
        /\ \A b \in Agents : reply'[b] = IF b = a THEN NoReply ELSE reply[b]
    BY <1>2, <1>17, SpendEffect, AbandonEffect DEF CrashAgent
  <2>2. /\ runs' \in [Agents -> Seq(Run)]
        /\ \A b \in Agents : b # a => runs'[b] = runs[b]
    <3>1. CASE pc[a] = "running"
      <4>1. SetRun(a, "Unknown", "none")
        BY <1>17, <3>1 DEF CrashAgent
      <4>2. runs[a] # <<>>
        BY <1>1, <3>1 DEF Protocol, RunUnderWay
      <4>3. runs \in [Agents -> Seq(Run)]
        BY <1>2 DEF AgentTypeOK
      <4>4. runs' \in [Agents -> Seq(Run)]
        BY <4>1, <4>2, <4>3, SetRunEffect DEF RunStatus, ReportStatus
      <4> QED
        BY <4>1, <4>3, <4>4 DEF SetRun
    <3>2. CASE pc[a] = "reporting"
      BY <1>1, <1>2, <1>17, <3>2, SetReportType
         DEF CrashAgent, Protocol, RunUnderWay, AgentTypeOK, ReportStatus
    <3>3. CASE pc[a] \notin {"running", "reporting"}
      BY <1>2, <1>17, <3>3 DEF CrashAgent, AgentTypeOK
    <3> QED
      BY <3>1, <3>2, <3>3
  <2> QED
    BY <1>2, <1>4, <1>17, <2>1, <2>2, AgentMove
       DEF CrashAgent, Goto, PC, AgentTypeOK
<1> QED
  BY <1>5, <1>6, <1>7, <1>8, <1>9, <1>10, <1>11, <1>12, <1>13, <1>14, <1>15, <1>16, <1>17
     DEF AgentNext, AgentStep

\* Only Cancel leaves an answer where it was: whatever else an agent does, it had
\* none, has read it, or does not wait for it any more.
LEMMA AgentStepAnswers ==
    ASSUME TypeInv, NEW a \in Agents, AgentStep(a), ~Cancel(a)
    PROVE  /\ reply'[a] = NoReply
           /\ \A b \in Agents : b # a =>
                 /\ reply'[b] = reply[b]
                 /\ pc'[b] = pc[b]
                 /\ labels'[b] = labels[b]
                 /\ life'[b] = life[b]
                 /\ runs'[b] = runs[b]
<1>1. ExchangeTypeOK /\ AgentTypeOK
  BY DEF TypeInv, TypeOK
<1>2. pc[a] \notin {"registering", "syncing", "reporting"} => reply[a] = NoReply
  BY DEF TypeInv, Protocol, ReplyAwaited
<1>3. Consume(a) => reply'[a] = NoReply /\ \A b \in Agents : b # a => reply'[b] = reply[b]
  BY <1>1 DEF Consume, ExchangeTypeOK
<1>4. Abandon(a) => reply'[a] = NoReply /\ \A b \in Agents : b # a => reply'[b] = reply[b]
  BY <1>1 DEF Abandon, ExchangeTypeOK
<1>5. RequestError(a) =>
          reply'[a] = NoReply /\ \A b \in Agents : b # a => reply'[b] = reply[b]
  BY <1>1, RequestErrorEffect
<1>6. \A status, report : SetRun(a, status, report) =>
          \A b \in Agents : b # a => runs'[b] = runs[b]
  BY <1>1 DEF SetRun, AgentTypeOK
<1>7. CASE StartAgent(a) \/ SendRegister(a) \/ ReceiveRegister(a) \/ RegisterFails(a)
  BY <1>1, <1>2, <1>3, <1>5, <1>7
     DEF StartAgent, SendRegister, ReceiveRegister, RegisterFails, Goto, AgentTypeOK,
         exchangeVars
<1>8. CASE Poll(a) \/ ReceiveJob(a) \/ PollFails(a)
  BY <1>1, <1>2, <1>3, <1>5, <1>8
     DEF Poll, ReceiveJob, PollFails, Goto, AgentTypeOK
<1>9. CASE FinishRun(a) \/ ReceiveReport(a) \/ ReportFails(a)
  BY <1>1, <1>2, <1>3, <1>5, <1>6, <1>9
     DEF FinishRun, ReceiveReport, ReportFails, Goto, AgentTypeOK
<1>10. CASE StopAgent(a) \/ CrashAgent(a)
  BY <1>1, <1>2, <1>4, <1>6, <1>10
     DEF StopAgent, CrashAgent, Goto, AgentTypeOK, exchangeVars
<1> QED
  BY <1>7, <1>8, <1>9, <1>10 DEF AgentStep

-----------------------------------------------------------------------------
(* The steps of Othela.                                                    *)

LEMMA AnswerMove ==
    ASSUME TypeInv, NEW r \in inflight,
           NEW code \in {200, 204, 403}, NEW job \in Dispatched \cup {NoJob},
           r.kind = "sync" /\ code = 200 => job \in Dispatched,
           Answer(r, code, job),
           UNCHANGED <<agentVars, up>>,
           budget' \in 0..MaxDisturbances,
           OthelaTypeOK'
    PROVE  TypeInv'
<1>1. /\ inflight \subseteq Request
      /\ reply \in [Agents -> Reply \cup {NoReply}]
  BY DEF TypeInv, TypeOK, ExchangeTypeOK, Request
<1>2. r \in Request /\ r.agent \in Agents /\ r.kind \in {"register", "sync", "report"}
  BY <1>1, RequestFields
<1>3. /\ Response(code, job) \in Reply
      /\ Response(code, job).code = code
      /\ Response(code, job).job = job
  BY DEF Response, Reply
<1> HIDE DEF Response
<1>4. /\ inflight' = inflight \ {r}
      /\ reply' \in [Agents -> Reply \cup {NoReply}]
      /\ r.orphan # 0 => reply' = reply
      /\ r.orphan = 0 => reply'[r.agent] = Response(code, job)
      /\ \A a \in Agents : a # r.agent => reply'[a] = reply[a]
  BY <1>1, <1>2, <1>3 DEF Answer
<1>5. TypeOK'
  BY <1>4 DEF TypeInv, TypeOK, ExchangeTypeOK, AgentTypeOK, agentVars
<1>6. OnePending'
  BY <1>4 DEF TypeInv, Protocol, OnePending
<1>7. PendingAwaited'
  <2> SUFFICES ASSUME NEW q \in inflight', q.orphan = 0
               PROVE  pc'[q.agent] = WaitingPC(q.kind) /\ reply'[q.agent] = NoReply
    BY DEF PendingAwaited
  <2>1. q \in inflight /\ q # r /\ q.agent \in Agents
    BY <1>1, <1>4, RequestFields
  <2>2. pc[q.agent] = WaitingPC(q.kind) /\ reply[q.agent] = NoReply
    BY <2>1 DEF TypeInv, Protocol, PendingAwaited
  <2>3. r.orphan # 0 \/ q.agent # r.agent
    BY <2>1 DEF TypeInv, Protocol, OnePending
  <2> QED
    BY <1>4, <2>1, <2>2, <2>3 DEF agentVars
<1>8. r.orphan = 0 => pc[r.agent] = WaitingPC(r.kind)
  BY DEF TypeInv, Protocol, PendingAwaited
<1>9. ReplyAwaited'
  <2> SUFFICES ASSUME NEW a \in Agents, reply'[a] # NoReply
               PROVE  pc[a] \in {"registering", "syncing", "reporting"}
    BY DEF ReplyAwaited, agentVars
  <2>1. CASE r.orphan = 0 /\ a = r.agent
    BY <1>2, <1>8, <2>1 DEF WaitingPC
  <2>2. CASE ~(r.orphan = 0 /\ a = r.agent)
    BY <1>4, <2>2 DEF TypeInv, Protocol, ReplyAwaited
  <2> QED
    BY <2>1, <2>2
<1>10. JobAnswered'
  <2> SUFFICES ASSUME NEW a \in Agents, pc[a] = "syncing",
                      reply'[a] # NoReply, reply'[a].code = 200
               PROVE  reply'[a].job \in Dispatched
    BY DEF JobAnswered, agentVars
  <2>1. CASE r.orphan = 0 /\ a = r.agent
    <3>1. r.kind = "sync"
      BY <1>2, <1>8, <2>1 DEF WaitingPC
    <3> QED
      BY <1>3, <1>4, <2>1, <3>1
  <2>2. CASE ~(r.orphan = 0 /\ a = r.agent)
    <3>1. reply'[a] = reply[a]
      BY <1>4, <2>2
    <3> QED
      BY <3>1 DEF TypeInv, Protocol, JobAnswered
  <2> QED
    BY <2>1, <2>2
<1>11. RunUnderWay'
  BY DEF TypeInv, Protocol, RunUnderWay, agentVars
<1> QED
  BY <1>5, <1>6, <1>7, <1>9, <1>10, <1>11 DEF TypeInv, Protocol

LEMMA PutType ==
    ASSUME NEW f, NodeMap(f), NEW n \in NodeIDs, NEW l \in Labels
    PROVE  NodeMap(Put(f, n, l))
BY DEF NodeMap, Put

LEMMA NoLabelsType == NoLabels \in Labels
<1>1. {} \in SUBSET LabelKeys /\ NoLabels \in [{} -> LabelValues]
  BY DEF NoLabels
<1> QED
  BY <1>1 DEF Labels

LEMMA HandleRegisterType ==
    ASSUME TypeInv, NEW r \in inflight, HandleRegister(r),
           UNCHANGED <<agentVars, up, disk, catalog, currentJob, backend, starts>>
    PROVE  TypeInv'
<1>1. ExchangeTypeOK /\ OthelaTypeOK /\ inflight \subseteq Request
  BY DEF TypeInv, TypeOK, ExchangeTypeOK, Request
<1>2. r \in RegisterRequest
  BY <1>1, RequestFields DEF HandleRegister
<1>3. budget' \in 0..MaxDisturbances
  BY <1>1, SpendEffect DEF HandleRegister, StoreFails, ExchangeTypeOK
<1>4. /\ DOMAIN nodeStore' = {"sqlite", "memory"}
      /\ \A b \in DOMAIN nodeStore' : NodeMap(nodeStore'[b])
  <2>1. CASE nodeStore' = [nodeStore EXCEPT ![backend] = Put(@, NodeID[r.agent], r.labels)]
    <3>1. NodeID[r.agent] \in NodeIDs /\ r.labels \in Labels
      BY <1>2, OthelaAssumption DEF RegisterRequest
    <3>2. /\ DOMAIN nodeStore = {"sqlite", "memory"}
          /\ \A b \in DOMAIN nodeStore : NodeMap(nodeStore[b])
          /\ backend \in DOMAIN nodeStore
      BY <1>1, OthelaAssumption DEF OthelaTypeOK
    <3>3. NodeMap(Put(nodeStore[backend], NodeID[r.agent], r.labels))
      BY <3>1, <3>2, PutType
    <3>4. \A b \in DOMAIN nodeStore :
              nodeStore'[b] = IF b = backend
                              THEN Put(nodeStore[backend], NodeID[r.agent], r.labels)
                              ELSE nodeStore[b]
      BY <2>1, <3>2
    <3>5. DOMAIN nodeStore' = {"sqlite", "memory"}
      BY <2>1, <3>2
    <3> QED
      BY <3>2, <3>3, <3>4, <3>5
  <2>2. CASE UNCHANGED nodeStore
    BY <1>1, <2>2 DEF OthelaTypeOK
  <2> QED
    BY <2>1, <2>2 DEF HandleRegister
<1>5. OthelaTypeOK'
  BY <1>1, <1>4 DEF HandleRegister, OthelaTypeOK, NodeMap
<1>6. r.kind # "sync" /\ Answer(r, 200, NoJob)
  BY DEF HandleRegister
<1> QED
  BY <1>3, <1>5, <1>6, AnswerMove

LEMMA HandleSyncType ==
    ASSUME TypeInv, NEW r \in inflight, HandleSync(r),
           UNCHANGED <<agentVars, up, disk, catalog, currentJob, backend, starts>>
    PROVE  TypeInv'
<1>1. ExchangeTypeOK /\ OthelaTypeOK /\ inflight \subseteq Request
  BY DEF TypeInv, TypeOK, ExchangeTypeOK, Request
<1>2. OthelaTypeOK'
  BY <1>1 DEF HandleSync, OthelaTypeOK, NodeMap
<1>3. budget' \in 0..MaxDisturbances
  BY <1>1, SpendEffect DEF HandleSync, StoreFails, ExchangeTypeOK
<1>4. ASSUME NEW l \in Labels, NEW job \in JobsFor(l),
             Answer(r, IF job = NoJob THEN 204 ELSE 200, job)
      PROVE  TypeInv'
  <2>1. job \in Dispatched \cup {NoJob}
    BY <1>1, JobsForType DEF OthelaTypeOK
  <2>2. CASE job = NoJob
    BY <1>2, <1>3, <1>4, <2>1, <2>2, AnswerMove
  <2>3. CASE job # NoJob
    BY <1>2, <1>3, <1>4, <2>1, <2>3, AnswerMove
  <2> QED
    BY <2>2, <2>3
<1>5. IsRegistered(NodeID[r.agent]) => nodeStore[backend][NodeID[r.agent]] \in Labels
  BY <1>1, OthelaAssumption DEF OthelaTypeOK, NodeMap, IsRegistered
<1>6. CASE Answer(r, 403, NoJob)
  BY <1>2, <1>3, <1>6, AnswerMove
<1>7. CASE /\ IsRegistered(NodeID[r.agent])
           /\ \E job \in JobsFor(nodeStore[backend][NodeID[r.agent]]) :
                 Answer(r, IF job = NoJob THEN 204 ELSE 200, job)
  BY <1>4, <1>5, <1>7
<1>8. CASE \E job \in JobsFor(NoLabels) :
              Answer(r, IF job = NoJob THEN 204 ELSE 200, job)
  BY <1>4, <1>8, NoLabelsType
<1> QED
  BY <1>6, <1>7, <1>8 DEF HandleSync

LEMMA StoredType ==
    ASSUME NEW r \in ReportRequest
    PROVE  Stored(r) \in StoredReport
BY DEF Stored, StoredReport, ReportRequest

LEMMA SaveReportEffect ==
    ASSUME OthelaTypeOK, NEW r \in ReportRequest, SaveReport(r)
    PROVE  /\ reportStore' \in [{"sqlite", "memory"} -> Seq(StoredReport)]
           /\ backend \in {"sqlite", "memory"}
           /\ reportStore'[backend] = Append(reportStore[backend], Stored(r))
           /\ \A b \in {"sqlite", "memory"} : b # backend => reportStore'[b] = reportStore[b]
<1>1. /\ reportStore \in [{"sqlite", "memory"} -> Seq(StoredReport)]
      /\ backend \in {"sqlite", "memory"}
  BY OthelaAssumption DEF OthelaTypeOK
<1>2. reportStore[backend] \in Seq(StoredReport)
  BY <1>1
<1>3. Append(reportStore[backend], Stored(r)) \in Seq(StoredReport)
  BY <1>2, StoredType, SeqAppend
<1>4. reportStore' = [reportStore EXCEPT ![backend] = Append(reportStore[backend], Stored(r))]
  BY DEF SaveReport
<1> QED
  BY <1>1, <1>3, <1>4

LEMMA HandleReportType ==
    ASSUME TypeInv, NEW r \in inflight, HandleReport(r),
           UNCHANGED <<agentVars, up, disk, catalog, currentJob, backend, starts>>
    PROVE  TypeInv'
<1>1. ExchangeTypeOK /\ OthelaTypeOK /\ inflight \subseteq Request
  BY DEF TypeInv, TypeOK, ExchangeTypeOK, Request
<1>2. r \in ReportRequest
  BY <1>1, RequestFields DEF HandleReport
<1>3. budget' \in 0..MaxDisturbances
  BY <1>1, SpendEffect DEF HandleReport, StoreFails, ExchangeTypeOK
<1>4. reportStore' \in [{"sqlite", "memory"} -> Seq(StoredReport)]
  BY <1>1, <1>2, SaveReportEffect DEF HandleReport, OthelaTypeOK
<1>5. OthelaTypeOK'
  BY <1>1, <1>4 DEF HandleReport, OthelaTypeOK, NodeMap
<1>6. r.kind # "sync" /\ Answer(r, 200, NoJob)
  BY DEF HandleReport
<1> QED
  BY <1>3, <1>5, <1>6, AnswerMove

LEMMA OthelaStepType ==
    ASSUME TypeInv, OthelaNext
    PROVE  TypeInv'
<1>1. ExchangeTypeOK /\ OthelaTypeOK /\ AgentTypeOK /\ Protocol
  BY DEF TypeInv, TypeOK
<1>2. UNCHANGED agentVars
  BY DEF OthelaNext
<1>3. disk \in Disk
  BY <1>1, OthelaAssumption DEF OthelaTypeOK
<1>4. CASE OthelaStart
  <2>1. /\ catalog' \in Seq(CatalogEntry)
        /\ currentJob' \in Dispatched
        /\ starts' \in Nat
    BY <1>1, <1>3, <1>4, ScannedCatalogType, FallbackJobType DEF OthelaStart, OthelaTypeOK
  <2>2. /\ DOMAIN nodeStore' = {"sqlite", "memory"}
        /\ \A b \in DOMAIN nodeStore' : NodeMap(nodeStore'[b])
    <3>1. NodeMap([n \in {} |-> NoLabels])
      BY DEF NodeMap
    <3>2. nodeStore' = [nodeStore EXCEPT !["memory"] = [n \in {} |-> NoLabels]]
      BY <1>4 DEF OthelaStart
    <3> QED
      BY <1>1, <3>1, <3>2 DEF OthelaTypeOK
  <2>3. /\ reportStore' \in [{"sqlite", "memory"} -> Seq(StoredReport)]
        /\ backend' \in Backends
        /\ UNCHANGED disk
    BY <1>1, <1>4 DEF OthelaStart, OthelaTypeOK
  <2>4. OthelaTypeOK'
    BY <1>1, <2>1, <2>2, <2>3 DEF OthelaTypeOK, NodeMap
  <2> QED
    BY <1>1, <1>2, <1>4, <2>4
       DEF OthelaStart, TypeInv, TypeOK, ExchangeTypeOK, AgentTypeOK, agentVars, Protocol,
           OnePending, PendingAwaited, ReplyAwaited, JobAnswered, RunUnderWay
<1>5. CASE OthelaCrash
  <2>1. PICK lost \in SUBSET Agents :
            reply' = [a \in Agents |-> IF a \in lost THEN NoReply ELSE reply[a]]
    BY <1>5 DEF OthelaCrash
  <2>2. /\ up' = FALSE
        /\ inflight' = {}
        /\ catalog' = <<>>
        /\ currentJob' = EmptyJob
        /\ UNCHANGED <<disk, backend, nodeStore, reportStore, starts>>
    BY <1>5 DEF OthelaCrash
  <2>3. currentJob' \in Dispatched
    BY <2>2, StringsAssumption DEF EmptyJob, Job, EmptyID, Dispatched, JobID
  <2>4. OthelaTypeOK'
    BY <1>1, <2>2, <2>3 DEF OthelaTypeOK, NodeMap
  <2>5. budget' \in 0..MaxDisturbances
    BY <1>1, <1>5, SpendEffect DEF OthelaCrash
  <2>6. TypeOK'
    BY <1>1, <1>2, <2>1, <2>2, <2>4, <2>5 DEF TypeOK, ExchangeTypeOK, AgentTypeOK, agentVars
  <2>7. \A a \in Agents : reply'[a] = NoReply \/ reply'[a] = reply[a]
    BY <2>1
  <2> QED
    BY <1>1, <1>2, <2>2, <2>6, <2>7
       DEF TypeInv, agentVars, Protocol,
           OnePending, PendingAwaited, ReplyAwaited, JobAnswered, RunUnderWay
<1>6. CASE EditPlaybooks
  <2>1. OthelaTypeOK'
    BY <1>1, <1>6 DEF EditPlaybooks, OthelaTypeOK, NodeMap
  <2>2. budget' \in 0..MaxDisturbances
    BY <1>1, <1>6, SpendEffect DEF EditPlaybooks
  <2> QED
    BY <1>1, <1>2, <1>6, <2>1, <2>2
       DEF EditPlaybooks, TypeInv, TypeOK, ExchangeTypeOK, AgentTypeOK, agentVars, Protocol,
           OnePending, PendingAwaited, ReplyAwaited, JobAnswered, RunUnderWay
<1>7. CASE Serve
  BY <1>2, <1>7, HandleRegisterType, HandleSyncType, HandleReportType DEF Serve, Handle
<1> QED
  BY <1>4, <1>5, <1>6, <1>7 DEF OthelaNext

-----------------------------------------------------------------------------
LEMMA InitType == Init => TypeInv
<1> SUFFICES ASSUME Init
             PROVE  TypeInv
  OBVIOUS
<1>1. ExchangeTypeOK
  <2>1. budget \in 0..MaxDisturbances
    BY ExchangeAssumption DEF Init, ExchangeInit
  <2>2. reply \in [Agents -> Reply \cup {NoReply}]
    BY DEF Init, ExchangeInit
  <2> QED
    BY <2>1, <2>2 DEF Init, ExchangeInit, ExchangeTypeOK
<1>2. OthelaTypeOK
  <2>1. currentJob \in Dispatched
    BY StringsAssumption DEF Init, OthelaInit, EmptyJob, Job, EmptyID, Dispatched, JobID
  <2> QED
    BY <2>1 DEF Init, OthelaInit, OthelaTypeOK, NodeMap
<1>3. AgentTypeOK
  <2>1. labels \in [Agents -> Labels]
    BY LabelsAssumption DEF Init, AgentInit
  <2> QED
    BY <2>1 DEF Init, AgentInit, AgentTypeOK, PC, JobID, EmptyID
<1>4. Protocol
  BY DEF Init, ExchangeInit, AgentInit, Protocol, OnePending, PendingAwaited, ReplyAwaited,
         JobAnswered, RunUnderWay
<1> QED
  BY <1>1, <1>2, <1>3, <1>4 DEF TypeInv, TypeOK

LEMMA NextType == TypeInv /\ [Next]_vars => TypeInv'
<1> SUFFICES ASSUME TypeInv, [Next]_vars
             PROVE  TypeInv'
  OBVIOUS
<1>1. CASE Next
  BY <1>1, OthelaStepType, AgentStepType DEF Next
<1>2. CASE UNCHANGED vars
  BY <1>2
     DEF vars, exchangeVars, othelaVars, agentVars, TypeInv, TypeOK, ExchangeTypeOK,
         OthelaTypeOK, NodeMap, AgentTypeOK, Protocol, OnePending, PendingAwaited,
         ReplyAwaited, JobAnswered, RunUnderWay
<1> QED
  BY <1>1, <1>2

\* The variables of the fleet keep their types, and so do jobs, requests and
\* answers on their way: in particular an agent starts an execution only on an
\* answer that carries a job, and ends one only if it started it.
THEOREM TypeCorrect == Spec => []TypeOK
<1>1. TypeInv => TypeOK
  BY DEF TypeInv
<1> QED
  BY <1>1, InitType, NextType, PTL DEF Spec

-----------------------------------------------------------------------------
(* Reports. What is stored was sent, what was sent belongs to an execution *)
(* that ended with that status, and there is one of each: in flight or in  *)
(* a store, never both.                                                    *)

Final == {"Success", "Failed"}

RunningIsRunning ==
    \A a \in Agents : pc[a] = "running" => runs[a][LastRun(a)].status = "Running"

SentOnce ==
    \A r, q \in inflight :
        r.kind = "report" /\ q.kind = "report" /\ r.agent = q.agent /\ r.run = q.run => r = q

SentIsFinal ==
    \A r \in inflight : r.kind = "report" =>
        /\ r.run \in DOMAIN runs[r.agent]
        /\ r.status = runs[r.agent][r.run].status

SentNotStored ==
    \A r \in inflight : r.kind = "report" =>
        \A b \in {"sqlite", "memory"} : \A i \in DOMAIN reportStore[b] :
            Reported(b, i) # <<r.agent, r.run>>

ReportInv == RunningIsRunning /\ SentOnce /\ SentIsFinal /\ SentNotStored /\ ReportsFaithful

\* A step lets the history of executions grow and no outcome change.
RunsExtend ==
    \A b \in Agents : \A i \in DOMAIN runs[b] :
        /\ i \in DOMAIN runs'[b]
        /\ runs[b][i].status # "Running" => runs'[b][i].status = runs[b][i].status

SameReport(r, q) ==
    q.kind = "report" /\ q.agent = r.agent /\ q.run = r.run /\ q.status = r.status

\* A step puts no report in flight that was not there before.
ReportsDescend ==
    \A r \in inflight' : r.kind = "report" => \E q \in inflight : SameReport(r, q)

LEMMA ReportFields ==
    ASSUME TypeOK, NEW r \in inflight, r.kind = "report"
    PROVE  /\ r.agent \in Agents
           /\ r.run \in Nat
           /\ r.status \in Final
<1>1. r \in ReportRequest
  BY RequestFields DEF TypeOK, ExchangeTypeOK, Request
<1> QED
  BY <1>1 DEF ReportRequest, Final

LEMMA StoredFields ==
    ASSUME TypeOK, NEW b \in {"sqlite", "memory"}, NEW i \in DOMAIN reportStore[b]
    PROVE  /\ reportStore[b][i] \in StoredReport
           /\ reportStore[b][i].agent \in Agents
           /\ reportStore[b][i].run \in Nat
           /\ reportStore[b][i].status \in Final
<1>1. reportStore[b] \in Seq(StoredReport)
  BY DEF TypeOK, OthelaTypeOK
<1>2. reportStore[b][i] \in StoredReport
  BY <1>1
<1> QED
  BY <1>2 DEF StoredReport, Final

\* What is stored stays true: the outcome of an execution does not change.
LEMMA StoredKept ==
    ASSUME TypeOK, ReportsFaithful, RunsExtend, UNCHANGED reportStore
    PROVE  ReportsFaithful'
<1> SUFFICES ASSUME NEW b \in {"sqlite", "memory"}, NEW i \in DOMAIN reportStore[b]
             PROVE  LET s == reportStore[b][i] IN
                    /\ s.run \in DOMAIN runs'[s.agent]
                    /\ s.status = runs'[s.agent][s.run].status
                    /\ \A j \in DOMAIN reportStore[b] : Reported(b, i) = Reported(b, j) => i = j
  BY DEF ReportsFaithful, Reported
<1>1. reportStore[b][i].agent \in Agents /\ reportStore[b][i].status \in Final
  BY StoredFields
<1>2. /\ reportStore[b][i].run \in DOMAIN runs[reportStore[b][i].agent]
      /\ reportStore[b][i].status = runs[reportStore[b][i].agent][reportStore[b][i].run].status
      /\ \A j \in DOMAIN reportStore[b] : Reported(b, i) = Reported(b, j) => i = j
  BY DEF ReportsFaithful
<1> QED
  BY <1>1, <1>2 DEF RunsExtend, Final

\* A step that sends no report keeps those in flight and those in the stores
\* apart and true.
LEMMA ReportsKept ==
    ASSUME TypeOK, ReportInv, RunsExtend, ReportsDescend, UNCHANGED reportStore
    PROVE  SentIsFinal' /\ SentNotStored' /\ ReportsFaithful'
<1>1. SentIsFinal'
  <2> SUFFICES ASSUME NEW r \in inflight', r.kind = "report"
               PROVE  /\ r.run \in DOMAIN runs'[r.agent]
                      /\ r.status = runs'[r.agent][r.run].status
    BY DEF SentIsFinal
  <2>1. PICK q \in inflight : SameReport(r, q)
    BY DEF ReportsDescend
  <2>2. /\ q.run \in DOMAIN runs[q.agent]
        /\ q.status = runs[q.agent][q.run].status
    BY <2>1 DEF ReportInv, SentIsFinal, SameReport
  <2>3. q.agent \in Agents /\ q.status \in Final
    BY <2>1, ReportFields DEF SameReport
  <2> QED
    BY <2>1, <2>2, <2>3 DEF RunsExtend, SameReport, Final
<1>2. SentNotStored'
  BY DEF ReportInv, SentNotStored, ReportsDescend, SameReport, Reported
<1>3. ReportsFaithful'
  BY StoredKept DEF ReportInv
<1> QED
  BY <1>1, <1>2, <1>3

LEMMA AbandonReports ==
    ASSUME ExchangeTypeOK, NEW a \in Agents, budget \in Nat, Abandon(a), SentOnce
    PROVE  SentOnce' /\ ReportsDescend
<1> DEFINE Left(q) == IF q \in Pending(a) THEN [q EXCEPT !.orphan = budget] ELSE q
<1>1. inflight \subseteq Request
  BY DEF ExchangeTypeOK, Request
<1>2. ASSUME NEW q \in inflight
      PROVE  /\ Left(q).kind = q.kind
             /\ Left(q).agent = q.agent
             /\ q.kind = "report" => Left(q).run = q.run /\ Left(q).status = q.status
  BY <1>1, <1>2, OrphanedRequest
<1>3. \A r \in inflight' : \E q \in inflight : r = Left(q)
  BY DEF Abandon, Pending
<1> HIDE DEF Left
<1>4. ReportsDescend
  BY <1>2, <1>3 DEF ReportsDescend, SameReport
<1>5. SentOnce'
  <2> SUFFICES ASSUME NEW r \in inflight', NEW q \in inflight',
                      r.kind = "report", q.kind = "report", r.agent = q.agent, r.run = q.run
               PROVE  r = q
    BY DEF SentOnce
  <2>1. PICK r0 \in inflight, q0 \in inflight : r = Left(r0) /\ q = Left(q0)
    BY <1>3
  <2>2. r0 = q0
    BY <1>2, <2>1 DEF SentOnce
  <2> QED
    BY <2>1, <2>2
<1> QED
  BY <1>4, <1>5

LEMMA RequestErrorReports ==
    ASSUME ExchangeTypeOK, NEW a \in Agents, RequestError(a), SentOnce
    PROVE  SentOnce' /\ ReportsDescend
<1>1. budget \in Nat
  BY ExchangeAssumption DEF ExchangeTypeOK
<1>2. CASE Disconnected(a)
  BY <1>2 DEF Disconnected, SentOnce, ReportsDescend, SameReport
<1>3. CASE Timeout(a)
  BY <1>1, <1>3, AbandonReports DEF Timeout
<1> QED
  BY <1>2, <1>3 DEF RequestError

\* A step that moves agent a elsewhere than into an execution.
LEMMA RunningKept ==
    ASSUME TypeOK, RunningIsRunning, NEW a \in Agents, NEW there \in PC \ {"running"},
           pc' = [pc EXCEPT ![a] = there],
           \A b \in Agents : b # a => runs'[b] = runs[b]
    PROVE  RunningIsRunning'
BY DEF TypeOK, AgentTypeOK, RunningIsRunning, LastRun

\* Ending a run that is under way, or setting what its agent knows of its report.
LEMMA SetRunExtends ==
    ASSUME AgentTypeOK, NEW a \in Agents, runs[a] # <<>>,
           NEW status \in RunStatus, NEW report \in ReportStatus,
           SetRun(a, status, report),
           runs[a][LastRun(a)].status \in {"Running", status}
    PROVE  RunsExtend /\ \A b \in Agents : b # a => runs'[b] = runs[b]
<1>1. runs \in [Agents -> Seq(Run)]
  BY DEF AgentTypeOK
<1>2. /\ \A b \in Agents : DOMAIN runs'[b] = DOMAIN runs[b]
      /\ \A b \in Agents : \A i \in DOMAIN runs[b] :
            <<b, i>> # <<a, LastRun(a)>> => runs'[b][i] = runs[b][i]
      /\ runs'[a][LastRun(a)].status = status
  BY <1>1, SetRunEffect
<1>3. RunsExtend
  BY <1>2 DEF RunsExtend
<1> QED
  BY <1>1, <1>3 DEF SetRun

LEMMA SetReportExtends ==
    ASSUME AgentTypeOK, NEW a \in Agents, runs[a] # <<>>, NEW report \in ReportStatus,
           SetRun(a, runs[a][LastRun(a)].status, report)
    PROVE  RunsExtend /\ \A b \in Agents : b # a => runs'[b] = runs[b]
<1>1. runs[a] \in Seq(Run)
  BY DEF AgentTypeOK
<1>2. LastRun(a) \in DOMAIN runs[a]
  BY <1>1 DEF LastRun
<1>3. runs[a][LastRun(a)] \in Run
  BY <1>1, <1>2
<1>4. runs[a][LastRun(a)].status \in RunStatus
  BY <1>3 DEF Run
<1> QED
  BY <1>4, SetRunExtends

\* The report of an execution is the first word on it: while it is under way
\* nothing about it is in flight or in a store.
LEMMA FinishRunReports ==
    ASSUME TypeInv, ReportInv, NEW a \in Agents, NEW status \in Final,
           pc[a] = "running",
           SetRun(a, status, "sending"),
           Send(Report(a, LastRun(a), status)),
           pc' = [pc EXCEPT ![a] = "reporting"],
           UNCHANGED reportStore
    PROVE  ReportInv'
<1> DEFINE n   == LastRun(a)
           new == Report(a, n, status)
<1>1. TypeOK /\ AgentTypeOK /\ runs[a] # <<>>
  BY DEF TypeInv, TypeOK, Protocol, RunUnderWay
<1>2. n \in DOMAIN runs[a] /\ runs[a][n].status = "Running"
  <2>1. runs[a] \in Seq(Run)
    BY <1>1 DEF AgentTypeOK
  <2> QED
    BY <1>1, <2>1 DEF ReportInv, RunningIsRunning, LastRun
<1>3. /\ new.kind = "report"
      /\ new.agent = a
      /\ new.run = n
      /\ new.status = status
  BY DEF Report
<1>4. inflight' \subseteq inflight \cup {new}
  BY DEF Send
<1> HIDE DEF new
<1>5. /\ DOMAIN runs'[a] = DOMAIN runs[a]
      /\ runs'[a][n].status = status
      /\ RunsExtend
      /\ \A b \in Agents : b # a => runs'[b] = runs[b]
  <2>1. /\ runs \in [Agents -> Seq(Run)]
        /\ status \in RunStatus
        /\ "sending" \in ReportStatus
    BY <1>1 DEF AgentTypeOK, RunStatus, ReportStatus, Final
  <2>2. DOMAIN runs'[a] = DOMAIN runs[a] /\ runs'[a][n].status = status
    BY <1>1, <2>1, SetRunEffect
  <2>3. runs[a][LastRun(a)].status \in {"Running", status}
    BY <1>2
  <2> QED
    BY <1>1, <2>1, <2>2, <2>3, SetRunExtends
<1>6. \A r \in inflight : r.kind = "report" => <<r.agent, r.run>> # <<a, n>>
  BY <1>1, <1>2, ReportFields DEF ReportInv, SentIsFinal, Final
<1>7. \A b \in {"sqlite", "memory"} : \A i \in DOMAIN reportStore[b] :
          Reported(b, i) # <<a, n>>
  BY <1>1, <1>2, StoredFields DEF ReportInv, ReportsFaithful, Reported, Final
<1>8. RunningIsRunning'
  BY <1>1, <1>5, RunningKept DEF ReportInv, PC
<1>9. SentOnce'
  BY <1>3, <1>4, <1>6 DEF ReportInv, SentOnce
<1>10. SentIsFinal'
  <2> SUFFICES ASSUME NEW r \in inflight', r.kind = "report"
               PROVE  /\ r.run \in DOMAIN runs'[r.agent]
                      /\ r.status = runs'[r.agent][r.run].status
    BY DEF SentIsFinal
  <2>1. CASE r = new
    BY <1>2, <1>3, <1>5, <2>1
  <2>2. CASE r \in inflight
    <3>1. r.agent \in Agents /\ r.status \in Final
      BY <1>1, <2>2, ReportFields
    <3> QED
      BY <1>5, <2>2, <3>1 DEF ReportInv, SentIsFinal, RunsExtend, Final
  <2> QED
    BY <1>4, <2>1, <2>2
<1>11. SentNotStored'
  <2> SUFFICES ASSUME NEW r \in inflight', r.kind = "report",
                      NEW b \in {"sqlite", "memory"}, NEW i \in DOMAIN reportStore[b]
               PROVE  Reported(b, i) # <<r.agent, r.run>>
    BY DEF SentNotStored, Reported
  <2> QED
    BY <1>3, <1>4, <1>7 DEF ReportInv, SentNotStored
<1>12. ReportsFaithful'
  BY <1>1, <1>5, StoredKept DEF ReportInv
<1> QED
  BY <1>8, <1>9, <1>10, <1>11, <1>12 DEF ReportInv

LEMMA AgentStepReports ==
    ASSUME TypeInv, ReportInv, NEW a \in Agents, AgentNext(a)
    PROVE  ReportInv'
<1>1. /\ TypeOK /\ ExchangeTypeOK /\ AgentTypeOK
      /\ pc[a] \in {"running", "reporting"} => runs[a] # <<>>
  BY DEF TypeInv, TypeOK, Protocol, RunUnderWay
<1>2. UNCHANGED reportStore
  BY DEF AgentNext, othelaVars
<1>3. ASSUME RunsExtend, ReportsDescend, SentOnce', RunningIsRunning'
      PROVE  ReportInv'
  BY <1>1, <1>2, <1>3, ReportsKept DEF ReportInv
<1>4. UNCHANGED runs => RunsExtend
  BY DEF RunsExtend
<1>5. ASSUME inflight' \subseteq inflight \/
                 (\E r : r.kind # "report" /\ inflight' \subseteq inflight \cup {r})
      PROVE  ReportsDescend /\ SentOnce'
  BY <1>5 DEF ReportsDescend, SameReport, ReportInv, SentOnce
<1>6. ASSUME NEW there \in PC \ {"running"}, pc' = [pc EXCEPT ![a] = there],
             \A b \in Agents : b # a => runs'[b] = runs[b]
      PROVE  RunningIsRunning'
  BY <1>1, <1>6, RunningKept DEF ReportInv
<1>7. CASE StartAgent(a)
  BY <1>3, <1>4, <1>5, <1>6, <1>7 DEF StartAgent, Goto, PC, exchangeVars
<1>8. CASE SendRegister(a)
  <2>1. Register(a, labels[a]).kind # "report"
    BY DEF Register
  <2>2. inflight' \subseteq inflight \cup {Register(a, labels[a])}
    BY <1>8 DEF SendRegister, Send
  <2> QED
    BY <1>3, <1>4, <1>5, <1>6, <1>8, <2>1, <2>2 DEF SendRegister, Goto, PC
<1>9. CASE ReceiveRegister(a)
  BY <1>3, <1>4, <1>5, <1>6, <1>9 DEF ReceiveRegister, Goto, PC
<1>10. CASE RegisterFails(a)
  <2>1. SentOnce' /\ ReportsDescend
    BY <1>1, <1>10, RequestErrorReports DEF RegisterFails, ReportInv
  <2> QED
    BY <1>3, <1>4, <1>6, <1>10, <2>1 DEF RegisterFails, Goto, PC
<1>11. CASE Poll(a)
  <2>1. Sync(a).kind # "report"
    BY DEF Sync
  <2>2. inflight' \subseteq inflight \cup {Sync(a)}
    BY <1>11 DEF Poll, Send
  <2> QED
    BY <1>3, <1>4, <1>5, <1>6, <1>11, <2>1, <2>2 DEF Poll, Goto, PC
<1>12. CASE PollFails(a)
  <2>1. SentOnce' /\ ReportsDescend
    BY <1>1, <1>12, RequestErrorReports DEF PollFails, ReportInv
  <2> QED
    BY <1>3, <1>4, <1>6, <1>12, <2>1 DEF PollFails, Goto, PC
<1>13. CASE ReceiveJob(a)
  <2>1. CASE NewWork(a, reply[a])
    <3> DEFINE run == NewRun(a, reply[a].job)
    <3>1. /\ runs \in [Agents -> Seq(Run)]
          /\ reply[a].job \in Dispatched
      BY <1>1, <1>13, <2>1 DEF AgentTypeOK, ReceiveJob, NewWork, TypeInv, Protocol, JobAnswered
    <3>2. run \in Run /\ run.status = "Running"
      BY <1>1, <3>1 DEF NewRun, Run, RunStatus, ReportStatus, AgentTypeOK
    <3> HIDE DEF run
    <3>3. runs' = [runs EXCEPT ![a] = Append(runs[a], run)]
      BY <1>13, <2>1 DEF ReceiveJob, run
    <3>4. runs[a] \in Seq(Run)
      BY <3>1
    <3>5. /\ \A b \in Agents : b # a => runs'[b] = runs[b]
          /\ runs'[a] = Append(runs[a], run)
      BY <3>1, <3>3
    <3>6. RunsExtend
      BY <3>2, <3>4, <3>5, SeqAppend DEF RunsExtend
    <3>7. RunningIsRunning'
      <4>1. runs'[a][LastRun(a)'].status = "Running"
        BY <3>2, <3>4, <3>5, SeqAppend DEF LastRun
      <4>2. \A b \in Agents : b # a => pc'[b] = pc[b]
        BY <1>1, <1>13 DEF ReceiveJob, Goto, AgentTypeOK
      <4> QED
        BY <3>5, <4>1, <4>2 DEF ReportInv, RunningIsRunning, LastRun
    <3> QED
      BY <1>3, <1>5, <1>13, <3>6, <3>7 DEF ReceiveJob
  <2>2. CASE ~NewWork(a, reply[a])
    BY <1>3, <1>4, <1>5, <1>6, <1>13, <2>2 DEF ReceiveJob, Goto, PC
  <2> QED
    BY <2>1, <2>2
<1>14. CASE FinishRun(a)
  BY <1>2, <1>14, FinishRunReports DEF FinishRun, Goto, Final
<1>15. CASE ReceiveReport(a)
  <2>1. PICK report \in {"acked", "givenUp"} :
            SetRun(a, runs[a][LastRun(a)].status, report)
    BY <1>15 DEF ReceiveReport
  <2>2. RunsExtend /\ \A b \in Agents : b # a => runs'[b] = runs[b]
    BY <1>1, <1>15, <2>1, SetReportExtends DEF ReceiveReport, ReportStatus
  <2> QED
    BY <1>3, <1>5, <1>6, <1>15, <2>2 DEF ReceiveReport, Goto, PC
<1>16. CASE ReportFails(a)
  <2>1. SentOnce' /\ ReportsDescend
    BY <1>1, <1>16, RequestErrorReports DEF ReportFails, ReportInv
  <2>2. RunsExtend /\ \A b \in Agents : b # a => runs'[b] = runs[b]
    BY <1>1, <1>16, SetReportExtends DEF ReportFails, ReportStatus
  <2> QED
    BY <1>3, <1>6, <1>16, <2>1, <2>2 DEF ReportFails, Goto, PC
<1>17. CASE Cancel(a)
  <2>1. RunningIsRunning'
    BY <1>17 DEF Cancel, ReportInv, RunningIsRunning, LastRun
  <2> QED
    BY <1>3, <1>4, <1>5, <1>17, <2>1 DEF Cancel
<1>18. CASE StopAgent(a)
  BY <1>3, <1>4, <1>5, <1>6, <1>18 DEF StopAgent, Goto, PC, exchangeVars
<1>19. CASE CrashAgent(a)
  <2>1. SentOnce' /\ ReportsDescend
    <3>1. budget \in Nat
      BY <1>1, ExchangeAssumption DEF ExchangeTypeOK
    <3> QED
      BY <1>1, <1>19, <3>1, AbandonReports DEF CrashAgent, ReportInv
  <2>2. RunsExtend /\ \A b \in Agents : b # a => runs'[b] = runs[b]
    <3>1. CASE pc[a] = "running"
      <4>1. SetRun(a, "Unknown", "none")
        BY <1>19, <3>1 DEF CrashAgent
      <4>2. runs[a][LastRun(a)].status = "Running"
        BY <3>1 DEF ReportInv, RunningIsRunning
      <4> QED
        BY <1>1, <3>1, <4>1, <4>2, SetRunExtends DEF RunStatus, ReportStatus
    <3>2. CASE pc[a] = "reporting"
      BY <1>1, <1>19, <3>2, SetReportExtends DEF CrashAgent, ReportStatus
    <3>3. CASE pc[a] \notin {"running", "reporting"}
      BY <1>4, <1>19, <3>3 DEF CrashAgent
    <3> QED
      BY <3>1, <3>2, <3>3
  <2> QED
    BY <1>3, <1>6, <1>19, <2>1, <2>2 DEF CrashAgent, Goto, PC
<1> QED
  BY <1>7, <1>8, <1>9, <1>10, <1>11, <1>12, <1>13, <1>14, <1>15, <1>16, <1>17, <1>18, <1>19
     DEF AgentNext, AgentStep

\* A report moves from flight into a store: it leaves the one as it enters the
\* other.
LEMMA SaveReportReports ==
    ASSUME TypeOK, ReportInv, NEW r \in inflight, r.kind = "report",
           SaveReport(r), inflight' = inflight \ {r}, UNCHANGED agentVars
    PROVE  ReportInv'
<1> DEFINE old == reportStore[backend]
           n   == Len(old)
<1>1. r \in ReportRequest /\ OthelaTypeOK
  BY RequestFields DEF TypeOK, ExchangeTypeOK, Request
<1>2. /\ backend \in {"sqlite", "memory"}
      /\ reportStore'[backend] = Append(old, Stored(r))
      /\ \A b \in {"sqlite", "memory"} : b # backend => reportStore'[b] = reportStore[b]
  BY <1>1, SaveReportEffect
<1>3. Stored(r) \in StoredReport /\ old \in Seq(StoredReport)
  BY <1>1, <1>2, StoredType DEF OthelaTypeOK
<1>4. /\ DOMAIN reportStore'[backend] = DOMAIN old \cup {n + 1}
      /\ \A i \in DOMAIN old : i # n + 1 /\ reportStore'[backend][i] = old[i]
      /\ reportStore'[backend][n + 1] = Stored(r)
  BY <1>2, <1>3, SeqAppend
<1>5. Stored(r).agent = r.agent /\ Stored(r).run = r.run /\ Stored(r).status = r.status
  BY DEF Stored
<1> HIDE DEF Stored, old, n
<1>6. ASSUME NEW b \in {"sqlite", "memory"}, NEW i \in DOMAIN reportStore'[b]
      PROVE  \/ i \in DOMAIN reportStore[b] /\ reportStore'[b][i] = reportStore[b][i]
             \/ b = backend /\ i = n + 1 /\ reportStore'[b][i] = Stored(r)
  BY <1>2, <1>4, <1>6 DEF old
<1>7. \A b \in {"sqlite", "memory"} : \A i \in DOMAIN reportStore[b] :
          <<reportStore[b][i].agent, reportStore[b][i].run>> # <<r.agent, r.run>>
  BY DEF ReportInv, SentNotStored, Reported
<1>8. SentOnce' /\ SentIsFinal' /\ RunningIsRunning'
  BY DEF ReportInv, SentOnce, SentIsFinal, RunningIsRunning, LastRun, agentVars
<1>9. SentNotStored'
  <2> SUFFICES ASSUME NEW q \in inflight', q.kind = "report",
                      NEW b \in {"sqlite", "memory"}, NEW i \in DOMAIN reportStore'[b]
               PROVE  <<reportStore'[b][i].agent, reportStore'[b][i].run>> # <<q.agent, q.run>>
    BY DEF SentNotStored, Reported
  <2>1. CASE i \in DOMAIN reportStore[b] /\ reportStore'[b][i] = reportStore[b][i]
    BY <2>1 DEF ReportInv, SentNotStored, Reported
  <2>2. CASE reportStore'[b][i] = Stored(r)
    BY <1>5, <2>2 DEF ReportInv, SentOnce
  <2> QED
    BY <1>6, <2>1, <2>2
<1>10. ReportsFaithful'
  <2> SUFFICES ASSUME NEW b \in {"sqlite", "memory"}, NEW i \in DOMAIN reportStore'[b]
               PROVE  LET s == reportStore'[b][i] IN
                      /\ s.run \in DOMAIN runs[s.agent]
                      /\ s.status = runs[s.agent][s.run].status
                      /\ \A j \in DOMAIN reportStore'[b] :
                            /\ reportStore'[b][i].agent = reportStore'[b][j].agent
                            /\ reportStore'[b][i].run = reportStore'[b][j].run
                            => i = j
    BY DEF ReportsFaithful, Reported, agentVars
  <2>1. CASE i \in DOMAIN reportStore[b] /\ reportStore'[b][i] = reportStore[b][i]
    <3>1. /\ reportStore[b][i].run \in DOMAIN runs[reportStore[b][i].agent]
          /\ reportStore[b][i].status
                = runs[reportStore[b][i].agent][reportStore[b][i].run].status
          /\ \A j \in DOMAIN reportStore[b] :
                /\ reportStore[b][i].agent = reportStore[b][j].agent
                /\ reportStore[b][i].run = reportStore[b][j].run
                => i = j
      BY <2>1 DEF ReportInv, ReportsFaithful, Reported
    <3> QED
      BY <1>5, <1>6, <1>7, <2>1, <3>1
  <2>2. CASE b = backend /\ i = n + 1 /\ reportStore'[b][i] = Stored(r)
    <3>1. r.run \in DOMAIN runs[r.agent] /\ r.status = runs[r.agent][r.run].status
      BY DEF ReportInv, SentIsFinal
    <3> QED
      BY <1>5, <1>6, <1>7, <2>2, <3>1
  <2> QED
    BY <1>6, <2>1, <2>2
<1> QED
  BY <1>8, <1>9, <1>10 DEF ReportInv

LEMMA OthelaStepReports ==
    ASSUME TypeInv, ReportInv, OthelaNext
    PROVE  ReportInv'
<1>1. TypeOK /\ UNCHANGED agentVars
  BY DEF TypeInv, OthelaNext
<1>2. ASSUME inflight' \subseteq inflight, UNCHANGED reportStore
      PROVE  ReportInv'
  <2>1. RunsExtend /\ ReportsDescend
    BY <1>1, <1>2 DEF RunsExtend, ReportsDescend, SameReport, agentVars
  <2>2. RunningIsRunning' /\ SentOnce'
    BY <1>1, <1>2 DEF ReportInv, RunningIsRunning, SentOnce, LastRun, agentVars
  <2> QED
    BY <1>1, <1>2, <2>1, <2>2, ReportsKept DEF ReportInv
<1>3. CASE OthelaStart
  <2>1. UNCHANGED inflight
    BY <1>3 DEF OthelaStart
  <2>2. \A b \in {"sqlite", "memory"} :
            reportStore'[b] = reportStore[b] \/ reportStore'[b] = <<>>
    BY <1>1, <1>3 DEF OthelaStart, TypeOK, OthelaTypeOK
  <2>3. RunningIsRunning' /\ SentOnce' /\ SentIsFinal'
    BY <1>1, <2>1 DEF ReportInv, RunningIsRunning, SentOnce, SentIsFinal, LastRun, agentVars
  <2>4. SentNotStored'
    BY <2>1, <2>2 DEF ReportInv, SentNotStored, Reported
  <2>5. ReportsFaithful'
    <3> SUFFICES ASSUME NEW b \in {"sqlite", "memory"}, NEW i \in DOMAIN reportStore'[b]
                 PROVE  LET s == reportStore'[b][i] IN
                        /\ s.run \in DOMAIN runs[s.agent]
                        /\ s.status = runs[s.agent][s.run].status
                        /\ \A j \in DOMAIN reportStore'[b] :
                              Reported(b, i)' = Reported(b, j)' => i = j
      BY <1>1 DEF ReportsFaithful, agentVars, Reported
    <3>1. reportStore'[b] = reportStore[b]
      BY <2>2
    <3> QED
      BY <3>1 DEF ReportInv, ReportsFaithful, Reported
  <2> QED
    BY <2>3, <2>4, <2>5 DEF ReportInv
<1>4. CASE OthelaCrash
  BY <1>2, <1>4 DEF OthelaCrash
<1>5. CASE EditPlaybooks
  BY <1>2, <1>5 DEF EditPlaybooks
<1>6. CASE Serve
  <2>1. PICK r \in inflight : HandleRegister(r) \/ HandleSync(r) \/ HandleReport(r)
    BY <1>6 DEF Serve, Handle
  <2>2. inflight' = inflight \ {r}
    BY <2>1 DEF HandleRegister, HandleSync, HandleReport, Answer
  <2>3. CASE UNCHANGED reportStore
    BY <1>2, <2>2, <2>3
  <2>4. CASE r.kind = "report" /\ SaveReport(r)
    BY <1>1, <2>2, <2>4, SaveReportReports
  <2> QED
    BY <2>1, <2>3, <2>4 DEF HandleRegister, HandleSync, HandleReport
<1> QED
  BY <1>3, <1>4, <1>5, <1>6 DEF OthelaNext

LEMMA InitReports == Init => ReportInv
BY DEF Init, ExchangeInit, OthelaInit, AgentInit, ReportInv, RunningIsRunning, SentOnce,
       SentIsFinal, SentNotStored, ReportsFaithful

LEMMA NextReports == TypeInv /\ ReportInv /\ [Next]_vars => ReportInv'
<1> SUFFICES ASSUME TypeInv, ReportInv, [Next]_vars
             PROVE  ReportInv'
  OBVIOUS
<1>1. CASE Next
  BY <1>1, OthelaStepReports, AgentStepReports DEF Next
<1>2. CASE UNCHANGED vars
  BY <1>2
     DEF vars, exchangeVars, othelaVars, agentVars, ReportInv, RunningIsRunning, SentOnce,
         SentIsFinal, SentNotStored, ReportsFaithful, Reported, LastRun
<1> QED
  BY <1>1, <1>2

\* Whatever is delayed, lost or restarted, and however many agents there are, a
\* report store holds at most one report of each execution, and it is the status
\* ExecutePlaybook returned.
THEOREM ReportsOnce == Spec => []ReportsFaithful
<1>1. ReportInv => ReportsFaithful
  BY DEF ReportInv
<1> QED
  BY <1>1, InitType, NextType, InitReports, NextReports, PTL DEF Spec

=============================================================================
