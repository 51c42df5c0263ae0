---------------------------- MODULE AtomicProofs ----------------------------
(***************************************************************************)
(* The steps of the Othela process are those of the Othela whose handlers  *)
(* are single steps, or are those of its clients.                          *)
(***************************************************************************)
EXTENDS ProcessProofs

RegisterRequest ==
    [kind : {"register"}, agent : Agents, labels : LabelChoices, orphan : Nat]
SyncRequest ==
    [kind : {"sync"}, agent : Agents, orphan : Nat]
ReportRequest ==
    [kind : {"report"}, agent : Agents, run : Nat, status : {"Success"}, orphan : Nat]

Request == RegisterRequest \cup SyncRequest \cup ReportRequest

Typed ==
    /\ budget \in Nat /\ sent \in Nat
    /\ inflight \subseteq Request
    /\ reply = [a \in Agents |-> reply[a]]
    /\ nodeStore = [b \in {"sqlite", "memory"} |-> nodeStore[b]]
    /\ backend \in {"sqlite", "memory"}

\* A client that waits for an answer waits for one; an orphan is known by the
\* disturbance that made it one.
OneWaits ==
    /\ \A r, q \in inflight :
          r.orphan = 0 /\ q.orphan = 0 /\ r.agent = q.agent => r = q
    /\ \A r \in inflight :
          IF r.orphan = 0 THEN reply[r.agent] = NoReply ELSE budget < r.orphan

\* A request has one handler at most, and is in flight until that has answered. A
\* node that a handler has found stays registered.
Handled ==
    /\ \A h, k \in handlers : h.req = k.req => h = k
    /\ \A h \in handlers :
          /\ h = Handler(h.req, h.at, h.answer)
          /\ h.req \in inflight
          /\ h.at = "known" => IsRegistered(NodeID[h.req.agent])
          /\ h.at = "answering" => h.answer = Response(h.answer.code, h.answer.job)

StopPaid == Stopping => "othelaCrash" \in Disturbances

HandlerInv == Typed /\ OneWaits /\ Handled /\ StopPaid /\ StopInv

-----------------------------------------------------------------------------
(* Requests.                                                               *)

LEMMA RequestFields ==
    ASSUME NEW r \in Request, NEW n \in Nat
    PROVE  /\ r.agent \in Agents /\ r.orphan \in Nat
           /\ [r EXCEPT !.orphan = n] \in Request
           /\ [r EXCEPT !.orphan = n].agent = r.agent
           /\ [r EXCEPT !.orphan = n].orphan = n
           /\ n = r.orphan => [r EXCEPT !.orphan = n] = r
           /\ r.orphan = 0 => [[r EXCEPT !.orphan = n] EXCEPT !.orphan = 0] = r
<1>1. CASE r \in RegisterRequest
  BY <1>1 DEF Request, RegisterRequest
<1>2. CASE r \in SyncRequest
  BY <1>2 DEF Request, SyncRequest
<1>3. CASE r \in ReportRequest
  BY <1>3 DEF Request, ReportRequest
<1> QED
  BY <1>1, <1>2, <1>3 DEF Request

LEMMA HandlerFields ==
    ASSUME NEW r, NEW at, NEW answer
    PROVE  /\ Handler(r, at, answer).req = r
           /\ Handler(r, at, answer).at = at
           /\ Handler(r, at, answer).answer = answer
BY DEF Handler

-----------------------------------------------------------------------------
(* Answers.                                                                *)

\* The answers to clients, those among them that the handlers in H hold.
AnswersIn(H, replies) ==
    [a \in Agents |->
        IF \E h \in H : h.req.agent = a /\ h.req.orphan = 0
        THEN (CHOOSE h \in H : h.req.agent = a /\ h.req.orphan = 0).answer
        ELSE replies[a]]

OneEach(H) ==
    \A h, k \in H :
        h.req.agent = k.req.agent /\ h.req.orphan = 0 /\ k.req.orphan = 0 => h = k

LEMMA AnswersAre == Answers = AnswersIn(Answering, reply) /\ Answers' = AnswersIn(Answering', reply')
BY DEF Answers, AnswersIn

LEMMA AnswersInOf ==
    ASSUME NEW H, NEW replies, OneEach(H), NEW a \in Agents
    PROVE  /\ \A h \in H : h.req.agent = a /\ h.req.orphan = 0 =>
                 AnswersIn(H, replies)[a] = h.answer
           /\ (\A h \in H : ~(h.req.agent = a /\ h.req.orphan = 0)) =>
                 AnswersIn(H, replies)[a] = replies[a]
<1>1. ASSUME NEW h \in H, h.req.agent = a, h.req.orphan = 0
      PROVE  AnswersIn(H, replies)[a] = h.answer
  <2>1. (CHOOSE k \in H : k.req.agent = a /\ k.req.orphan = 0) = h
    BY <1>1 DEF OneEach
  <2> QED
    BY <1>1, <2>1 DEF AnswersIn
<1>2. ASSUME \A h \in H : ~(h.req.agent = a /\ h.req.orphan = 0)
      PROVE  AnswersIn(H, replies)[a] = replies[a]
  BY <1>2 DEF AnswersIn
<1> QED
  BY <1>1, <1>2

LEMMA OneEachAnswering == HandlerInv => OneEach(Answering)
BY DEF HandlerInv, OneWaits, Handled, OneEach, Answering

\* When a handler comes to know its answer its request is served.
LEMMA Replied ==
    ASSUME HandlerInv, NEW h \in handlers, h.at # "answering", NEW code, NEW job,
           Replies(h, code, job), UNCHANGED <<inflight, reply>>
    PROVE  h.req \in Unserved /\ Coarse!Answer(h.req, code, job)
<1> DEFINE n == Handler(h.req, "answering", Response(code, job))
<1>1. /\ n.req = h.req /\ n.at = "answering" /\ n.answer = Response(code, job)
      /\ handlers' = (handlers \ {h}) \cup {n}
  BY HandlerFields DEF Replies, Becomes
<1> HIDE DEF n
<1>2. Answering' = Answering \cup {n}
  BY <1>1 DEF Answering
<1>3. h.req \in inflight /\ h.req \in Request /\ \A k \in Answering : k \in handlers /\ k.req # h.req
  BY DEF HandlerInv, Typed, Handled, Answering
<1>4. h.req \in Unserved
  BY <1>3 DEF Unserved
<1>5. Unserved' = Unserved \ {h.req}
  BY <1>1, <1>2 DEF Unserved
<1>6. h.req.agent \in Agents /\ h.req.orphan \in Nat
  BY <1>3, RequestFields
<1>7. OneEach(Answering) /\ OneEach(Answering \cup {n})
  <2>1. OneEach(Answering)
    BY OneEachAnswering
  <2>2. \A k \in Answering :
            k.req.agent = h.req.agent /\ k.req.orphan = 0 => h.req.orphan # 0
    BY <1>3 DEF HandlerInv, OneWaits, Handled
  <2> QED
    BY <1>1, <2>1, <2>2 DEF OneEach
<1>8. ASSUME NEW a \in Agents
      PROVE  Answers'[a] = IF h.req.agent = a /\ h.req.orphan = 0 THEN Response(code, job)
                                                                 ELSE Answers[a]
  <2>1. CASE h.req.agent = a /\ h.req.orphan = 0
    BY <1>1, <1>2, <1>7, <2>1, AnswersAre, AnswersInOf
  <2>2. CASE ~(h.req.agent = a /\ h.req.orphan = 0)
    <3>1. CASE \E k \in Answering : k.req.agent = a /\ k.req.orphan = 0
      BY <1>1, <1>2, <1>7, <2>2, <3>1, AnswersAre, AnswersInOf
    <3>2. CASE \A k \in Answering : ~(k.req.agent = a /\ k.req.orphan = 0)
      BY <1>1, <1>2, <1>7, <2>2, <3>2, AnswersAre, AnswersInOf
    <3> QED
      BY <3>1, <3>2
  <2> QED
    BY <2>1, <2>2
<1>9. Answers' = IF h.req.orphan = 0 THEN [Answers EXCEPT ![h.req.agent] = Response(code, job)]
                                     ELSE Answers
  <2>1. /\ Answers  = [a \in Agents |-> Answers[a]]
        /\ Answers' = [a \in Agents |-> Answers'[a]]
    BY DEF Answers
  <2> QED
    BY <1>6, <1>8, <2>1
<1> QED
  BY <1>4, <1>5, <1>9 DEF Coarse!Answer, Coarse!Response, Response

\* A handler that goes on stays the only one of its request.
LEMMA HandlerMoves ==
    ASSUME HandlerInv, NEW h \in handlers, NEW at, NEW answer, Becomes(h, at, answer),
           UNCHANGED inflight, \A node : IsRegistered(node) => IsRegistered(node)',
           at = "known" => IsRegistered(NodeID[h.req.agent]),
           at = "answering" => answer = Response(answer.code, answer.job)
    PROVE  Handled'
<1> DEFINE n == Handler(h.req, at, answer)
<1>1. /\ n.req = h.req /\ n.at = at /\ n.answer = answer
      /\ n = Handler(n.req, n.at, n.answer)
      /\ handlers' = (handlers \ {h}) \cup {n}
  BY HandlerFields DEF Becomes
<1> HIDE DEF n
<1>2. \A k, l \in handlers' : k.req = l.req => k = l
  BY <1>1 DEF HandlerInv, Handled
<1>3. ASSUME NEW k \in handlers'
      PROVE  /\ k = Handler(k.req, k.at, k.answer)
             /\ k.req \in inflight'
             /\ k.at = "known" => IsRegistered(NodeID[k.req.agent])'
             /\ k.at = "answering" => k.answer = Response(k.answer.code, k.answer.job)
  <2>1. CASE k \in handlers
    BY <2>1 DEF HandlerInv, Handled
  <2>2. CASE k = n
    BY <1>1, <2>2 DEF HandlerInv, Handled
  <2> QED
    BY <1>1, <2>1, <2>2
<1> QED
  BY <1>2, <1>3 DEF Handled

LEMMA ResponseFields ==
    ASSUME NEW code, NEW job
    PROVE  Response(code, job) = Response(Response(code, job).code, Response(code, job).job)
BY DEF Response

-----------------------------------------------------------------------------
(* What Othela computes does not depend on how its state is mapped.        *)

LEMMA SameJobs ==
    ASSUME NEW labels
    PROVE  Coarse!JobsFor(labels) = JobsFor(labels)
BY Zenon DEF JobsFor, MatchingPlaybooks, MatchNodeGroups, isSubset, Lookup, MatchedJobs, First,
       GroupsTaken, GroupJob, GroupID, Job, DefaultRepo, FallbackAllowed, HasManifests, EmptyID,
       Coarse!JobsFor, Coarse!MatchingPlaybooks, Coarse!MatchNodeGroups, Coarse!isSubset,
       Coarse!Lookup, Coarse!MatchedJobs, Coarse!First, Coarse!GroupsTaken, Coarse!GroupJob,
       Coarse!GroupID, Coarse!Job, Coarse!DefaultRepo, Coarse!FallbackAllowed,
       Coarse!HasManifests, Coarse!EmptyID

LEMMA SameNoLabels == Coarse!NoLabels = NoLabels
BY Zenon DEF NoLabels, Coarse!NoLabels

LEMMA SameStart ==
    ASSUME NEW now
    PROVE  /\ Coarse!ScannedCatalog = ScannedCatalog
           /\ Coarse!FallbackJob(now) = FallbackJob(now)
           /\ Coarse!EmptyJob = EmptyJob
<1>1. Coarse!ScannedCatalog = ScannedCatalog
  BY Zenon DEF ScannedCatalog, Scan, loadManifest, Validate, validateTypeMeta, validateSpec,
         validateNodeGroups, validateNodeGroup, SupportedAPIVersion, SupportedKind,
         Coarse!ScannedCatalog, Coarse!Scan, Coarse!loadManifest, Coarse!Validate,
         Coarse!validateTypeMeta, Coarse!validateSpec, Coarse!validateNodeGroups,
         Coarse!validateNodeGroup, Coarse!SupportedAPIVersion, Coarse!SupportedKind
<1>2. Coarse!EmptyJob = EmptyJob
  BY Zenon DEF EmptyJob, EmptyID, Job, Coarse!EmptyJob, Coarse!EmptyID, Coarse!Job
<1>3. Coarse!FallbackJob(now) = FallbackJob(now)
  BY Zenon DEF FallbackJob, EmptyJob, EmptyID, Job, PlaybookID, MockID, DefaultRepo,
         Coarse!FallbackJob, Coarse!EmptyJob, Coarse!EmptyID, Coarse!Job, Coarse!PlaybookID,
         Coarse!MockID, Coarse!DefaultRepo
<1> QED
  BY <1>1, <1>2, <1>3

\* A disturbance is one for both.
LEMMA SameSpend ==
    ASSUME budget \in Nat, UNCHANGED main, NEW kind, Spend(kind)
    PROVE  Coarse!Spend(kind)
BY DEF Spend, Coarse!Spend, Stopping

-----------------------------------------------------------------------------
(* A handler.                                                              *)

othelaView == <<othelaVars, main # "down", Unserved, Answers>>

\* The part of the invariant that only a client disturbs.
LEMMA Calm ==
    ASSUME HandlerInv, UNCHANGED <<inflight, reply, main>>, budget' \in Nat, budget' <= budget
    PROVE  OneWaits' /\ StopPaid'
<1>1. \A r \in inflight : r.orphan \in Nat
  BY RequestFields DEF HandlerInv, Typed
<1> QED
  BY <1>1 DEF HandlerInv, Typed, OneWaits, StopPaid, Stopping

\* The store write of a registration or a report is all of its handler.
LEMMA WriteStep ==
    ASSUME HandlerInv, NEW h \in handlers, WriteStore(h),
           UNCHANGED <<up, inflight, reply, disk, catalog, currentJob, backend, starts, stop,
                       scans, sent>>
    PROVE  /\ Typed' /\ OneWaits' /\ Handled' /\ StopPaid'
           /\ Coarse!Serve
<1> DEFINE r == h.req
<1>1. /\ h.at = "accepted" /\ Replies(h, 200, NoJob) /\ UNCHANGED main /\ main # "down"
      /\ \/ /\ r.kind = "register"
            /\ nodeStore' = [nodeStore EXCEPT ![backend] = Put(@, NodeID[r.agent], r.labels)]
            /\ UNCHANGED <<reportStore, budget>>
         \/ r.kind = "report" /\ SaveReport(r) /\ UNCHANGED <<nodeStore, budget>>
         \/ r.kind = "register" /\ StoreFails("registerError") /\ UNCHANGED <<nodeStore, reportStore>>
         \/ r.kind = "report" /\ StoreFails("saveError") /\ UNCHANGED <<nodeStore, reportStore>>
  BY DEF WriteStore, stop, HandlerInv, StopInv
<1>2. /\ budget' \in Nat /\ budget' <= budget
      /\ nodeStore' = [b \in {"sqlite", "memory"} |-> nodeStore'[b]]
      /\ \A node : IsRegistered(node) => IsRegistered(node)'
  <2>1. budget \in Nat /\ backend \in {"sqlite", "memory"}
        /\ nodeStore = [b \in {"sqlite", "memory"} |-> nodeStore[b]]
    BY DEF HandlerInv, Typed
  <2>2. budget' \in Nat /\ budget' <= budget
    BY <1>1, <2>1 DEF StoreFails, Spend
  <2>3. CASE UNCHANGED nodeStore
    BY <2>1, <2>2, <2>3 DEF IsRegistered
  <2>4. CASE nodeStore' = [nodeStore EXCEPT ![backend] = Put(@, NodeID[r.agent], r.labels)]
    <3>1. nodeStore' = [b \in {"sqlite", "memory"} |-> nodeStore'[b]]
      BY <2>1, <2>4
    <3>2. nodeStore'[backend] = Put(nodeStore[backend], NodeID[r.agent], r.labels)
      BY <2>1, <2>4
    <3>3. DOMAIN nodeStore[backend] \subseteq DOMAIN nodeStore'[backend]
      BY <3>2 DEF Put
    <3> QED
      BY <2>2, <3>1, <3>3 DEF IsRegistered
  <2> QED
    BY <1>1, <2>3, <2>4
<1>3. Typed'
  BY <1>2 DEF HandlerInv, Typed
<1>4. OneWaits' /\ StopPaid'
  BY <1>1, <1>2, Calm
<1>5. Handled'
  BY <1>1, <1>2, HandlerMoves, ResponseFields DEF Replies
<1>6. r \in Unserved /\ Coarse!Answer(r, 200, NoJob)
  BY <1>1, Replied
<1>7. Coarse!Handle(r)
  <2>1. CASE r.kind = "register"
    BY <1>1, <1>6, <2>1, SameSpend
       DEF Coarse!Handle, Coarse!HandleRegister, Coarse!Put, Put, Coarse!StoreFails,
           StoreFails, Stopping, HandlerInv, Typed
  <2>2. CASE r.kind = "report"
    BY <1>1, <1>6, <2>2, SameSpend
       DEF Coarse!Handle, Coarse!HandleReport, Coarse!SaveReport, SaveReport, Coarse!Stored,
           Stored, Coarse!StoreFails, StoreFails, Stopping, HandlerInv, Typed
  <2> QED
    BY <1>1, <2>1, <2>2
<1> QED
  BY <1>3, <1>4, <1>5, <1>6, <1>7 DEF Coarse!Serve

\* The first read of a sync changes nothing, or ends it; the second ends it, and the
\* node that the first one found is still there.
LEMMA ReadStep ==
    ASSUME HandlerInv, NEW h \in handlers, ReadStore(h),
           UNCHANGED <<up, inflight, reply, disk, catalog, currentJob, backend, starts, stop,
                       scans, sent>>
    PROVE  /\ Typed' /\ OneWaits' /\ Handled' /\ StopPaid'
           /\ [Coarse!Serve]_othelaView
<1> DEFINE r    == h.req
           node == NodeID[r.agent]
           Fails == StoreFails("readError")
           Dispatched(labels) ==
               \E job \in JobsFor(labels) : Replies(h, IF job = NoJob THEN 204 ELSE 200, job)
<1>1. /\ r.kind = "sync" /\ h.at # "answering"
      /\ UNCHANGED <<nodeStore, reportStore, main>> /\ main # "down"
      /\ \/ IsRegistered(node) /\ Becomes(h, "known", NoReply) /\ UNCHANGED budget
         \/ ~IsRegistered(node) /\ Replies(h, 403, NoJob) /\ UNCHANGED budget
         \/ Fails /\ Replies(h, 403, NoJob)
         \/ IsRegistered(node) /\ Dispatched(nodeStore[backend][node]) /\ UNCHANGED budget
         \/ IsRegistered(node) /\ Fails /\ Dispatched(NoLabels)
  BY DEF ReadStore, Dispatch, stop, HandlerInv, StopInv, Handled
<1>2. /\ budget \in Nat /\ budget' \in Nat /\ budget' <= budget
      /\ \A n : IsRegistered(n) => IsRegistered(n)'
  BY <1>1 DEF HandlerInv, Typed, StoreFails, Spend, IsRegistered
<1>3. Typed'
  BY <1>1, <1>2 DEF HandlerInv, Typed
<1>4. OneWaits' /\ StopPaid'
  BY <1>1, <1>2, Calm
<1>5. CASE IsRegistered(node) /\ Becomes(h, "known", NoReply) /\ UNCHANGED budget
  <2>1. Handled'
    BY <1>2, <1>5, HandlerMoves
  <2>2. Answering' = Answering
    BY <1>1, <1>5, HandlerFields DEF Becomes, Answering
  <2>3. Unserved' = Unserved /\ Answers' = Answers
    BY <2>2 DEF Unserved, Answers
  <2> QED
    BY <1>1, <1>3, <1>4, <2>1, <2>3 DEF othelaView, othelaVars
<1>6. ASSUME NEW code, NEW job, Replies(h, code, job)
      PROVE  Handled' /\ r \in Unserved /\ Coarse!Answer(r, code, job)
  <2>1. Handled'
    BY <1>2, <1>6, HandlerMoves, ResponseFields DEF Replies
  <2> QED
    BY <1>1, <1>6, <2>1, Replied
<1>7. Fails => Coarse!StoreFails("readError")
  BY <1>1, <1>2, SameSpend DEF StoreFails, Coarse!StoreFails
<1>8. UNCHANGED budget => UNCHANGED (budget + (IF Stopping THEN 1 ELSE 0))
  BY <1>1 DEF Stopping
<1>9. ASSUME NEW labels, Dispatched(labels)
      PROVE  /\ Handled' /\ r \in Unserved
             /\ \E job \in Coarse!JobsFor(labels) :
                   Coarse!Answer(r, IF job = NoJob THEN 204 ELSE 200, job)
  BY <1>6, <1>9, SameJobs
<1> HIDE DEF Fails
<1>10. CASE Replies(h, 403, NoJob) /\ (Fails \/ (~IsRegistered(node) /\ UNCHANGED budget))
  <2>1. Coarse!HandleSync(r)
    BY <1>1, <1>6, <1>7, <1>8, <1>10 DEF Coarse!HandleSync, Coarse!IsRegistered, IsRegistered
  <2> QED
    BY <1>1, <1>3, <1>4, <1>6, <1>10, <2>1 DEF Coarse!Serve, Coarse!Handle
<1>11. CASE IsRegistered(node) /\ Dispatched(nodeStore[backend][node]) /\ UNCHANGED budget
  <2> HIDE DEF Dispatched
  <2>1. Coarse!HandleSync(r)
    BY <1>1, <1>8, <1>9, <1>11 DEF Coarse!HandleSync, Coarse!IsRegistered, IsRegistered
  <2> QED
    BY <1>1, <1>3, <1>4, <1>9, <1>11, <2>1 DEF Coarse!Serve, Coarse!Handle
<1>12. CASE IsRegistered(node) /\ Fails /\ Dispatched(NoLabels)
  <2> HIDE DEF Dispatched
  <2>1. Coarse!HandleSync(r)
    BY <1>1, <1>7, <1>9, <1>12, SameNoLabels
       DEF Coarse!HandleSync, Coarse!IsRegistered, IsRegistered
  <2> QED
    BY <1>1, <1>3, <1>4, <1>9, <1>12, <2>1 DEF Coarse!Serve, Coarse!Handle
<1> QED
  BY <1>1, <1>5, <1>10, <1>11, <1>12

\* An answer that leaves was there for Othela before.
LEMMA AnswerStep ==
    ASSUME HandlerInv, NEW h \in handlers, h.at = "answering",
           Answer(h.req, h.answer.code, h.answer.job), handlers' = handlers \ {h},
           UNCHANGED <<up, budget, othelaVars, stop, scans, sent>>
    PROVE  /\ Typed' /\ OneWaits' /\ Handled' /\ StopPaid'
           /\ UNCHANGED othelaView
<1> DEFINE r == h.req
<1>1. r \in inflight /\ r.agent \in Agents /\ r.orphan \in Nat
  BY RequestFields DEF HandlerInv, Typed, Handled
<1>2. /\ inflight' = inflight \ {r}
      /\ reply' = IF r.orphan = 0 THEN [reply EXCEPT ![r.agent] = h.answer] ELSE reply
      /\ UNCHANGED <<nodeStore, backend, main>>
  BY DEF Answer, othelaVars, stop, HandlerInv, Handled
<1>3. /\ reply' = [a \in Agents |-> reply'[a]]
      /\ \A a \in Agents : reply'[a] = IF r.orphan = 0 /\ a = r.agent THEN h.answer ELSE reply[a]
  BY <1>1, <1>2 DEF HandlerInv, Typed
<1>4. Typed'
  BY <1>2, <1>3 DEF HandlerInv, Typed
<1>5. OneWaits'
  <2>1. \A q \in inflight' : q \in inflight /\ q.agent \in Agents /\ q # r
    BY <1>2, RequestFields DEF HandlerInv, Typed
  <2> QED
    BY <1>1, <1>3, <2>1 DEF HandlerInv, OneWaits
<1>6. Handled'
  BY <1>2 DEF HandlerInv, Handled, IsRegistered
<1>7. StopPaid'
  BY <1>2 DEF HandlerInv, StopPaid, Stopping
<1>8. Answering' = Answering \ {h} /\ h \in Answering
  BY DEF Answering
<1>9. Unserved' = Unserved
  BY <1>2, <1>8 DEF Unserved, HandlerInv, Handled, Answering
<1>10. OneEach(Answering) /\ OneEach(Answering')
  BY <1>8, OneEachAnswering DEF OneEach
<1>11. ASSUME NEW a \in Agents
       PROVE  Answers'[a] = Answers[a]
  <2>1. CASE r.agent = a /\ r.orphan = 0
    <3>1. \A k \in Answering' : ~(k.req.agent = a /\ k.req.orphan = 0)
      BY <1>8, <1>10, <2>1 DEF OneEach
    <3> QED
      BY <1>3, <1>8, <1>10, <2>1, <3>1, AnswersAre, AnswersInOf
  <2>2. CASE ~(r.agent = a /\ r.orphan = 0)
    <3>1. CASE \E k \in Answering : k.req.agent = a /\ k.req.orphan = 0
      BY <1>8, <1>10, <2>2, <3>1, AnswersAre, AnswersInOf
    <3>2. CASE \A k \in Answering : ~(k.req.agent = a /\ k.req.orphan = 0)
      BY <1>3, <1>8, <1>10, <2>2, <3>2, AnswersAre, AnswersInOf
    <3> QED
      BY <3>1, <3>2
  <2> QED
    BY <2>1, <2>2
<1>12. Answers' = Answers
  <2>1. /\ Answers  = [a \in Agents |-> Answers[a]]
        /\ Answers' = [a \in Agents |-> Answers'[a]]
    BY DEF Answers
  <2> QED
    BY <1>11, <2>1
<1> QED
  BY <1>2, <1>4, <1>5, <1>6, <1>7, <1>9, <1>12 DEF othelaView

LEMMA HandlerAtomic ==
    ASSUME HandlerInv, NEW h \in handlers, HandlerStep(h)
    PROVE  /\ Typed' /\ OneWaits' /\ Handled' /\ StopPaid'
           /\ [Coarse!Serve]_othelaView
BY WriteStep, ReadStep, AnswerStep DEF HandlerStep

-----------------------------------------------------------------------------
(* The main goroutine, and the operator.                                   *)

\* A step that leaves requests and answers alone.
LEMMA SameView ==
    ASSUME UNCHANGED <<inflight, reply, handlers>>
    PROVE  UNCHANGED <<Unserved, Answers>>
BY DEF Unserved, Answers, Answering

LEMMA StartAtomic ==
    ASSUME HandlerInv, Start
    PROVE  /\ Typed' /\ OneWaits' /\ Handled' /\ StopPaid'
           /\ Coarse!OthelaStart
<1>1. /\ main = "down" /\ main' = "serving" /\ handlers = {} /\ handlers' = {}
      /\ UNCHANGED <<inflight, reply, budget, sent>>
  BY DEF Start, OthelaStart, HandlerInv, StopInv
<1>2. Typed'
  <2>1. backend' \in {"sqlite", "memory"}
    BY OthelaAssumption DEF Start, OthelaStart
  <2>2. nodeStore' = [b \in {"sqlite", "memory"} |-> nodeStore'[b]]
    BY DEF Start, OthelaStart, HandlerInv, Typed
  <2> QED
    BY <1>1, <2>1, <2>2 DEF HandlerInv, Typed
<1>3. OneWaits' /\ Handled' /\ StopPaid'
  BY <1>1 DEF HandlerInv, OneWaits, Handled, StopPaid, Stopping
<1>4. UNCHANGED <<Unserved, Answers>> /\ UNCHANGED (budget + (IF Stopping THEN 1 ELSE 0))
  BY <1>1, SameView DEF Stopping
<1>5. Coarse!OthelaStart
  BY <1>1, <1>4, SameStart, SameNoLabels DEF Start, OthelaStart, Coarse!OthelaStart
<1> QED
  BY <1>2, <1>3, <1>5

\* The end of the process is a crash for Othela: the answers that handlers had not
\* sent are lost with it.
LEMMA DieAtomic ==
    ASSUME HandlerInv, Die, main # "down", "othelaCrash" \in Disturbances,
           IF Stopping THEN budget' = budget ELSE budget > 0 /\ budget' = budget - 1
    PROVE  /\ Typed' /\ OneWaits' /\ Handled' /\ StopPaid'
           /\ Coarse!OthelaCrash
<1>1. /\ main' = "down" /\ handlers' = {} /\ inflight' = {}
      /\ UNCHANGED <<disk, backend, nodeStore, reportStore, starts, sent>>
  BY DEF Die
<1>2. PICK lost \in SUBSET Agents :
          reply' = [a \in Agents |-> IF a \in lost THEN NoReply ELSE reply[a]]
  BY DEF Die
<1>3. Typed' /\ OneWaits' /\ Handled' /\ StopPaid'
  <2>1. reply' = [a \in Agents |-> reply'[a]]
    BY <1>2
  <2>2. budget \in Nat /\ budget' \in Nat
    BY DEF HandlerInv, Typed
  <2>3. Typed'
    BY <1>1, <2>1, <2>2 DEF HandlerInv, Typed
  <2> QED
    BY <1>1, <2>3 DEF OneWaits, Handled, StopPaid, Stopping
<1> DEFINE held == {a \in Agents : \E h \in Answering : h.req.agent = a /\ h.req.orphan = 0}
<1>4. Unserved' = {} /\ Answering' = {}
  BY <1>1 DEF Unserved, Answering
<1>5. Answers' = [a \in Agents |-> IF a \in lost \cup held THEN NoReply ELSE Answers[a]]
  <2>1. ASSUME NEW a \in Agents
        PROVE  Answers'[a] = IF a \in lost \cup held THEN NoReply ELSE Answers[a]
    <3>1. Answers'[a] = reply'[a]
      BY <1>4 DEF Answers
    <3>2. a \in held => reply[a] = NoReply
      BY DEF HandlerInv, OneWaits, Handled, Answering
    <3>3. a \notin held => Answers[a] = reply[a]
      BY DEF Answers
    <3> QED
      BY <1>2, <3>1, <3>2, <3>3
  <2>2. Answers' = [a \in Agents |-> Answers'[a]]
    BY DEF Answers
  <2> QED
    BY <2>1, <2>2
<1>6. Coarse!Spend("othelaCrash")
  BY <1>1 DEF Coarse!Spend, HandlerInv, Typed, Stopping
<1>7. lost \cup held \in SUBSET Agents
  OBVIOUS
<1> HIDE DEF held
<1>8. Coarse!OthelaCrash
  BY <1>1, <1>4, <1>5, <1>6, <1>7, SameStart DEF Die, Coarse!OthelaCrash
<1> QED
  BY <1>3, <1>8

LEMMA MainAtomic ==
    ASSUME HandlerInv, Signal \/ Crash \/ MainStep
    PROVE  /\ Typed' /\ OneWaits' /\ Handled' /\ StopPaid'
           /\ [Coarse!OthelaCrash \/ ClientMove]_othelaView
<1>1. CASE Signal
  <2>1. /\ "othelaCrash" \in Disturbances /\ budget' = budget - 1 /\ budget > 0
        /\ main # "down" /\ main' # "down"
        /\ UNCHANGED <<inflight, reply, othelaVars, handlers, sent>>
    BY <1>1 DEF Signal, Spend, scans
  <2>2. \A r \in inflight : r.orphan \in Nat
    BY RequestFields DEF HandlerInv, Typed
  <2>3. Typed' /\ OneWaits' /\ Handled' /\ StopPaid'
    BY <2>1, <2>2
       DEF HandlerInv, Typed, OneWaits, Handled, StopPaid, Stopping, IsRegistered, othelaVars
  <2> QED
    BY <2>1, <2>3, SameView DEF othelaView
<1>2. CASE Shutdown
  <2>1. /\ main = "signalled" /\ main' = "draining"
        /\ inflight' = {h.req : h \in handlers}
        /\ UNCHANGED <<reply, budget, othelaVars, handlers, sent>>
    BY <1>2 DEF Shutdown, scans
  <2>2. inflight' \subseteq inflight
    BY <2>1 DEF HandlerInv, Handled
  <2>3. Typed' /\ OneWaits' /\ Handled' /\ StopPaid'
    BY <2>1, <2>2
       DEF HandlerInv, Typed, OneWaits, Handled, StopPaid, Stopping, IsRegistered, othelaVars
  <2>4. Unserved' \subseteq Unserved /\ Answers' = Answers
    BY <2>1, <2>2 DEF Unserved, Answers, Answering
  <2> QED
    BY <2>1, <2>3, <2>4 DEF ClientMove, Answers
<1>3. CASE Drained
  <2>1. /\ main = "draining" /\ main' = "closed"
        /\ UNCHANGED <<exchangeVars, othelaVars, handlers, sent>>
    BY <1>3 DEF Drained, scans
  <2>2. Typed' /\ OneWaits' /\ Handled' /\ StopPaid'
    BY <2>1
       DEF HandlerInv, Typed, OneWaits, Handled, StopPaid, Stopping, IsRegistered, othelaVars,
           exchangeVars
  <2> QED
    BY <2>1, <2>2, SameView DEF othelaView, exchangeVars
<1>4. CASE Exit \/ DrainTimeout
  <2>1. Die /\ UNCHANGED budget /\ Stopping /\ main # "down"
    BY <1>4 DEF Exit, DrainTimeout, Stopping
  <2> QED
    BY <2>1, DieAtomic DEF HandlerInv, StopPaid
<1>5. CASE Crash
  <2>1. Die /\ ~Stopping /\ main # "down" /\ "othelaCrash" \in Disturbances
        /\ budget > 0 /\ budget' = budget - 1
    BY <1>5 DEF Crash, Spend, Stopping
  <2> QED
    BY <2>1, DieAtomic
<1> QED
  BY <1>1, <1>2, <1>3, <1>4, <1>5 DEF MainStep

LEMMA EditAtomic ==
    ASSUME HandlerInv, Edit
    PROVE  /\ Typed' /\ OneWaits' /\ Handled' /\ StopPaid'
           /\ Coarse!EditPlaybooks
<1>1. /\ Spend("edit") /\ disk' \in DiskStates \ {disk}
      /\ UNCHANGED <<up, inflight, reply, catalog, currentJob, backend, nodeStore, reportStore,
                     starts, main, handlers, sent>>
  BY DEF Edit, EditPlaybooks, stop
<1>2. budget \in Nat /\ budget' \in Nat /\ budget' <= budget
  BY <1>1 DEF HandlerInv, Typed, Spend
<1>3. Typed' /\ Handled'
  BY <1>1, <1>2 DEF HandlerInv, Typed, Handled, IsRegistered
<1>4. OneWaits' /\ StopPaid'
  BY <1>1, <1>2, Calm
<1>5. Coarse!Spend("edit") /\ UNCHANGED <<Unserved, Answers>>
  BY <1>1, <1>2, SameSpend, SameView
<1> QED
  BY <1>1, <1>3, <1>4, <1>5 DEF Coarse!EditPlaybooks

-----------------------------------------------------------------------------
(* The clients.                                                            *)

\* A handler begins, which Othela does not see.
LEMMA AcceptAtomic ==
    ASSUME HandlerInv, NEW r \in inflight, Accept(r)
    PROVE  /\ Typed' /\ OneWaits' /\ Handled' /\ StopPaid'
           /\ UNCHANGED othelaView
<1> DEFINE n == Handler(r, "accepted", NoReply)
<1>1. /\ n.req = r /\ n.at = "accepted" /\ n = Handler(n.req, n.at, n.answer)
      /\ handlers' = handlers \cup {n}
      /\ \A h \in handlers : h.req # r
      /\ UNCHANGED <<exchangeVars, othelaVars, main, sent>>
  BY HandlerFields DEF Accept, stop
<1> HIDE DEF n
<1>2. Typed' /\ OneWaits' /\ StopPaid'
  BY <1>1
     DEF HandlerInv, Typed, OneWaits, StopPaid, Stopping, exchangeVars, othelaVars
<1>3. Handled'
  BY <1>1 DEF HandlerInv, Handled, IsRegistered, exchangeVars, othelaVars
<1>4. Answering' = Answering
  BY <1>1 DEF Answering
<1>5. UNCHANGED <<Unserved, Answers>>
  BY <1>1, <1>4 DEF Unserved, Answers, exchangeVars
<1> QED
  BY <1>1, <1>2, <1>3, <1>5 DEF othelaView

LEMMA ScanAtomic ==
    ASSUME HandlerInv, NEW v \in Viewers, BeginScan(v) \/ Inspect(v) \/ EndScan(v)
    PROVE  /\ Typed' /\ OneWaits' /\ Handled' /\ StopPaid'
           /\ UNCHANGED othelaView
<1>1. /\ UNCHANGED <<exchangeVars, othelaVars, main, handlers>>
      /\ sent' \in Nat
  BY DEF BeginScan, Inspect, EndScan, stop, HandlerInv, Typed
<1>2. Typed' /\ OneWaits' /\ Handled' /\ StopPaid'
  BY <1>1
     DEF HandlerInv, Typed, OneWaits, Handled, StopPaid, Stopping, IsRegistered, othelaVars,
         exchangeVars
<1> QED
  BY <1>1, <1>2, SameView DEF othelaView, exchangeVars

LEMMA AskAtomic ==
    ASSUME HandlerInv, NEW a \in Agents, Ask(a)
    PROVE  /\ Typed' /\ OneWaits' /\ Handled' /\ StopPaid'
           /\ ClientMove
<1>1. /\ Pending(a) = {} /\ reply[a] = NoReply /\ sent' = sent + 1
      /\ UNCHANGED <<reply, budget, othelaVars, main, handlers>>
      /\ \E r \in {Sync(a), Report(a, sent', "Success")} \cup {Register(a, l) : l \in LabelChoices} :
            inflight' = inflight \cup {r}
  BY DEF Ask, Send, stop
<1>2. sent' \in Nat
  BY <1>1 DEF HandlerInv, Typed
<1>3. PICK r : /\ r \in {Sync(a), Report(a, sent', "Success")}
                         \cup {Register(a, l) : l \in LabelChoices}
               /\ inflight' = inflight \cup {r}
  BY <1>1
<1>4. r \in Request /\ r.agent = a /\ r.orphan = 0
  BY <1>2, <1>3
     DEF Sync, Report, Register, Request, SyncRequest, ReportRequest, RegisterRequest
<1>5. \A q \in inflight : q.orphan = 0 => q.agent # a
  BY <1>1 DEF Pending
<1>6. Typed' /\ StopPaid'
  BY <1>1, <1>2, <1>3, <1>4 DEF HandlerInv, Typed, StopPaid, Stopping, othelaVars
<1>7. OneWaits'
  BY <1>1, <1>3, <1>4, <1>5 DEF HandlerInv, OneWaits
<1>8. Handled'
  BY <1>1, <1>3 DEF HandlerInv, Handled, IsRegistered, othelaVars
<1>9. Answers' = Answers /\ Unserved' \subseteq Unserved \cup {r}
  BY <1>1, <1>3 DEF Answers, Unserved, Answering
<1>10. ClientMove
  BY <1>1, <1>4, <1>9 DEF ClientMove
<1> QED
  BY <1>6, <1>7, <1>8, <1>10

\* A client that reads its answer: no handler holds one for it.
LEMMA ConsumeAtomic ==
    ASSUME HandlerInv, NEW a \in Agents, Receive(a), Consume(a), reply[a] # NoReply,
           UNCHANGED <<inflight, budget>>
    PROVE  /\ Typed' /\ OneWaits' /\ Handled' /\ StopPaid'
           /\ ClientMove
<1>1. /\ reply' = [reply EXCEPT ![a] = NoReply]
      /\ handlers' = {[h EXCEPT !.req.orphan = IF h.req \in inflight' THEN @ ELSE budget] :
                         h \in handlers}
      /\ UNCHANGED <<up, othelaVars, main, sent>>
  BY DEF Receive, Consume, stop
<1>2. ASSUME NEW h \in handlers
      PROVE  [h EXCEPT !.req.orphan = IF h.req \in inflight' THEN @ ELSE budget] = h
  <2>1. h = Handler(h.req, h.at, h.answer) /\ h.req \in inflight' /\ h.req \in Request
    BY DEF HandlerInv, Handled, Typed
  <2>2. [h.req EXCEPT !.orphan = h.req.orphan] = h.req
    BY <2>1, RequestFields
  <2>3. [h EXCEPT !.req = h.req] = h
    BY <2>1 DEF Handler
  <2> QED
    BY <2>1, <2>2, <2>3
<1>3. handlers' = handlers
  BY <1>1, <1>2
<1>4. /\ reply' = [b \in Agents |-> reply'[b]]
      /\ \A b \in Agents : reply'[b] = IF b = a THEN NoReply ELSE reply[b]
  BY <1>1 DEF HandlerInv, Typed
<1>5. Typed' /\ StopPaid' /\ Handled'
  BY <1>1, <1>3, <1>4
     DEF HandlerInv, Typed, StopPaid, Stopping, Handled, IsRegistered, othelaVars
<1>6. OneWaits'
  BY <1>4, RequestFields DEF HandlerInv, OneWaits, Typed
<1>7. Unserved' = Unserved /\ Answering' = Answering
  BY <1>3 DEF Unserved, Answering
<1>8. \A b \in Agents : Answers'[b] \in {Answers[b], NoReply}
  BY <1>4, <1>7 DEF Answers
<1> QED
  BY <1>1, <1>5, <1>6, <1>7, <1>8 DEF ClientMove

\* A client that gives up: its request becomes an orphan, in its handler, too, and
\* the answer that may have been there is lost.
LEMMA TimeoutAtomic ==
    ASSUME HandlerInv, NEW a \in Agents, Receive(a), Timeout(a)
    PROVE  /\ Typed' /\ OneWaits' /\ Handled' /\ StopPaid'
           /\ ClientMove
<1> DEFINE Left(r)   == IF r \in Pending(a) THEN [r EXCEPT !.orphan = budget] ELSE r
           Moved(h)  == Handler(Left(h.req), h.at, h.answer)
<1>1. /\ budget \in Nat \ {0} /\ budget' = budget - 1
      /\ inflight' = (inflight \ Pending(a))
                        \cup {[r EXCEPT !.orphan = budget] : r \in Pending(a)}
      /\ reply' = [reply EXCEPT ![a] = NoReply]
      /\ handlers' = {[h EXCEPT !.req.orphan = IF h.req \in inflight' THEN @ ELSE budget] :
                         h \in handlers}
      /\ UNCHANGED <<up, othelaVars, main, sent>>
  BY DEF Receive, Timeout, Abandon, Spend, stop, HandlerInv, Typed
<1>2. ASSUME NEW r \in inflight
      PROVE  /\ r \in Request /\ r.agent \in Agents /\ r.orphan \in Nat
             /\ r \in Pending(a) <=> r.agent = a /\ r.orphan = 0
             /\ Left(r) \in Request /\ Left(r).agent = r.agent
             /\ Left(r).orphan = IF r \in Pending(a) THEN budget ELSE r.orphan
             /\ r \in Pending(a) => [Left(r) EXCEPT !.orphan = 0] = r
  BY <1>1, <1>2, RequestFields DEF HandlerInv, Typed, Pending
<1>3. Pending(a) \subseteq inflight
  BY DEF Pending
<1>4. /\ \A r \in inflight : Left(r) \in inflight'
      /\ \A q \in inflight' : \E r \in inflight : q = Left(r)
  BY <1>1, <1>3
<1>5. \A r, q \in inflight : Left(r) = Left(q) => r = q
  <2> SUFFICES ASSUME NEW r \in inflight, NEW q \in inflight, Left(r) = Left(q)
               PROVE  r = q
    OBVIOUS
  <2>1. CASE r \in Pending(a) /\ q \in Pending(a)
    BY <1>2, <2>1 DEF HandlerInv, OneWaits
  <2>2. CASE r \notin Pending(a) /\ q \notin Pending(a)
    BY <2>2
  <2>3. \A x \in inflight : x \notin Pending(a) => x.orphan # budget
    BY <1>1, <1>2 DEF HandlerInv, OneWaits
  <2>4. Left(r).orphan = Left(q).orphan
    OBVIOUS
  <2> HIDE DEF Left
  <2> QED
    BY <1>2, <2>1, <2>2, <2>3, <2>4
<1>6. ASSUME NEW h \in handlers
      PROVE  /\ h.req \in inflight
             /\ [h EXCEPT !.req.orphan = IF h.req \in inflight' THEN @ ELSE budget] = Moved(h)
  <2>1. h = Handler(h.req, h.at, h.answer) /\ h.req \in inflight /\ h.req \in Request
    BY DEF HandlerInv, Handled, Typed
  <2>2. h.req \in inflight' <=> h.req \notin Pending(a)
    <3>1. h.req \in Pending(a) => h.req.orphan = 0
      BY DEF Pending
    <3>2. \A r \in Pending(a) : [r EXCEPT !.orphan = budget].orphan = budget
      BY <1>1, <1>3, RequestFields DEF HandlerInv, Typed
    <3> QED
      BY <1>1, <2>1, <3>1, <3>2
  <2>3. [h.req EXCEPT !.orphan = IF h.req \in inflight' THEN h.req.orphan ELSE budget]
           = Left(h.req)
    BY <2>1, <2>2, RequestFields
  <2> HIDE DEF Left
  <2>4. \A r : [h EXCEPT !.req = r] = Handler(r, h.at, h.answer)
    BY <2>1 DEF Handler
  <2> QED
    BY <2>1, <2>3, <2>4
<1>7. ASSUME NEW h \in handlers
      PROVE  /\ Moved(h).req = Left(h.req) /\ Moved(h).at = h.at
             /\ Moved(h).answer = h.answer
  BY HandlerFields
<1> HIDE DEF Left, Moved
<1>8. handlers' = {Moved(h) : h \in handlers}
  BY <1>1, <1>6
<1>9. /\ reply' = [b \in Agents |-> reply'[b]]
      /\ \A b \in Agents : reply'[b] = IF b = a THEN NoReply ELSE reply[b]
  BY <1>1 DEF HandlerInv, Typed
<1>10. Typed' /\ StopPaid'
  <2>1. inflight' \subseteq Request /\ budget' \in Nat
    BY <1>1, <1>2, <1>4
  <2> QED
    BY <1>1, <1>9, <2>1 DEF HandlerInv, Typed, StopPaid, Stopping, othelaVars
<1>11. OneWaits'
  <2>1. ASSUME NEW r \in inflight, NEW q \in inflight,
               Left(r).orphan = 0, Left(q).orphan = 0, Left(r).agent = Left(q).agent
        PROVE  r = q
    BY <1>1, <1>2, <2>1 DEF HandlerInv, OneWaits
  <2>2. ASSUME NEW r \in inflight
        PROVE  IF Left(r).orphan = 0 THEN reply'[Left(r).agent] = NoReply
                                     ELSE budget' < Left(r).orphan
    <3>1. CASE Left(r).orphan = 0
      BY <1>1, <1>2, <1>9, <3>1 DEF HandlerInv, OneWaits
    <3>2. CASE Left(r).orphan # 0
      BY <1>1, <1>2, <3>2 DEF HandlerInv, OneWaits
    <3> QED
      BY <3>1, <3>2
  <2> QED
    BY <1>4, <2>1, <2>2 DEF OneWaits
<1>12. Handled'
  <2>1. ASSUME NEW h \in handlers
        PROVE  /\ Moved(h) = Handler(Moved(h).req, Moved(h).at, Moved(h).answer)
               /\ Moved(h).req \in inflight'
               /\ Moved(h).at = "known" =>
                     NodeID[Moved(h).req.agent] \in DOMAIN nodeStore'[backend']
               /\ Moved(h).at = "answering" =>
                     Moved(h).answer = Response(Moved(h).answer.code, Moved(h).answer.job)
    <3>1. Moved(h) = Handler(Moved(h).req, Moved(h).at, Moved(h).answer)
      BY <1>7 DEF Moved
    <3>2. Moved(h).req \in inflight' /\ Moved(h).req.agent = h.req.agent
      BY <1>2, <1>4, <1>6, <1>7
    <3>3. h.at = "known" => NodeID[h.req.agent] \in DOMAIN nodeStore'[backend']
      BY <1>1 DEF HandlerInv, Handled, IsRegistered, othelaVars
    <3>4. h.at = "answering" => h.answer = Response(h.answer.code, h.answer.job)
      BY DEF HandlerInv, Handled
    <3> QED
      BY <1>7, <3>1, <3>2, <3>3, <3>4
  <2>2. \A h, k \in handlers : Moved(h).req = Moved(k).req => h = k
    BY <1>5, <1>6, <1>7 DEF HandlerInv, Handled
  <2>3. \A k, l \in handlers' : k.req = l.req => k = l
    BY <1>8, <2>2
  <2>4. \A k \in handlers' : \E h \in handlers : k = Moved(h)
    BY <1>8
  <2> QED
    BY <2>1, <2>3, <2>4 DEF Handled, IsRegistered
<1>13. Answering' = {Moved(h) : h \in Answering}
  BY <1>7, <1>8 DEF Answering
<1>14. Answering \subseteq handlers /\ OneEach(Answering)
  BY OneEachAnswering DEF Answering
<1>15. OneEach(Answering')
  <2>1. ASSUME NEW h \in Answering, NEW k \in Answering,
               Moved(h).req.agent = Moved(k).req.agent,
               Moved(h).req.orphan = 0, Moved(k).req.orphan = 0
        PROVE  h = k
    BY <1>1, <1>2, <1>6, <1>7, <1>14, <2>1 DEF OneEach
  <2> QED
    BY <1>13, <2>1 DEF OneEach
<1>16. ASSUME NEW b \in Agents
       PROVE  Answers'[b] \in {Answers[b], NoReply}
  <2>1. CASE b = a
    <3>1. \A h \in Answering : ~(Moved(h).req.agent = a /\ Moved(h).req.orphan = 0)
      BY <1>1, <1>2, <1>6, <1>7, <1>14
    <3>2. Answers'[a] = reply'[a]
      BY <1>13, <1>15, <3>1, AnswersAre, AnswersInOf
    <3> QED
      BY <1>9, <2>1, <3>2
  <2>2. CASE b # a
    <3>1. \A h \in Answering : h.req.agent = b => Moved(h).req = h.req
      BY <1>2, <1>6, <1>7, <1>14, <2>2 DEF Left
    <3>2. \A h \in Answering : Moved(h).req.agent = h.req.agent
      BY <1>2, <1>6, <1>7, <1>14
    <3>3. CASE \E h \in Answering : h.req.agent = b /\ h.req.orphan = 0
      <4>1. PICK h \in Answering : h.req.agent = b /\ h.req.orphan = 0
        BY <3>3
      <4>2. Answers[b] = h.answer
        BY <1>14, <4>1, AnswersAre, AnswersInOf
      <4>3. Moved(h) \in Answering' /\ Moved(h).req = h.req /\ Moved(h).answer = h.answer
        BY <1>7, <1>13, <1>14, <3>1, <4>1
      <4>4. Answers'[b] = h.answer
        BY <1>15, <4>1, <4>3, AnswersAre, AnswersInOf
      <4> QED
        BY <4>2, <4>4
    <3>4. CASE \A h \in Answering : ~(h.req.agent = b /\ h.req.orphan = 0)
      <4>1. Answers[b] = reply[b]
        BY <1>14, <3>4, AnswersAre, AnswersInOf
      <4>2. \A h \in Answering' : ~(h.req.agent = b /\ h.req.orphan = 0)
        BY <1>13, <3>1, <3>2, <3>4
      <4>3. Answers'[b] = reply'[b]
        BY <1>15, <4>2, AnswersAre, AnswersInOf
      <4> QED
        BY <1>9, <2>2, <4>1, <4>3
    <3> QED
      BY <3>3, <3>4
  <2> QED
    BY <2>1, <2>2
<1>17. ASSUME NEW q \in Unserved' \ Unserved
       PROVE  q.orphan = 0 \/ [q EXCEPT !.orphan = 0] \in Unserved
  <2>1. PICK r \in inflight : q = Left(r)
    BY <1>4 DEF Unserved
  <2>2. r \in Unserved
    <3> SUFFICES ASSUME NEW h \in Answering, r = h.req
                 PROVE  FALSE
      BY DEF Unserved
    <3>1. Moved(h) \in Answering' /\ Moved(h).req = q
      BY <1>7, <1>13, <1>14, <2>1
    <3> QED
      BY <3>1 DEF Unserved
  <2>3. r \in Pending(a)
    BY <2>1, <2>2 DEF Left
  <2> QED
    BY <1>2, <2>1, <2>2, <2>3
<1> QED
  BY <1>1, <1>10, <1>11, <1>12, <1>16, <1>17 DEF ClientMove

-----------------------------------------------------------------------------
LEMMA HandlerInit == Init => HandlerInv
BY OthelaAssumption, ExchangeAssumption, StopInit
   DEF Init, ExchangeInit, OthelaInit, HandlerInv, Typed, OneWaits, Handled, StopPaid, Stopping

ProcessStep ==
    Coarse!OthelaStart \/ Coarse!OthelaCrash \/ Coarse!EditPlaybooks \/ Coarse!Serve \/ ClientMove

LEMMA HandlerNext ==
    ASSUME HandlerInv, [Next]_vars
    PROVE  HandlerInv' /\ [ProcessStep]_othelaView
<1> DEFINE Good == Typed' /\ OneWaits' /\ Handled' /\ StopPaid' /\ [ProcessStep]_othelaView
<1>1. Start => Good
  BY StartAtomic DEF ProcessStep
<1>2. Signal \/ Crash \/ MainStep => Good
  BY MainAtomic DEF ProcessStep
<1>3. Edit => Good
  BY EditAtomic DEF ProcessStep
<1>4. ASSUME NEW r \in inflight
      PROVE  Accept(r) => Good
  BY AcceptAtomic
<1>5. ASSUME NEW h \in handlers
      PROVE  HandlerStep(h) => Good
  BY HandlerAtomic DEF ProcessStep
<1>6. ASSUME NEW v \in Viewers
      PROVE  BeginScan(v) \/ Inspect(v) \/ EndScan(v) => Good
  BY ScanAtomic
<1>7. ASSUME NEW a \in Agents
      PROVE  Ask(a) \/ Receive(a) => Good
  BY AskAtomic, ConsumeAtomic, TimeoutAtomic DEF Receive, ProcessStep
<1>8. UNCHANGED vars => Good
  <2> SUFFICES ASSUME UNCHANGED vars
               PROVE  Good
    OBVIOUS
  <2>1. UNCHANGED <<exchangeVars, othelaVars, main, handlers, sent>>
    BY DEF vars, stop
  <2>2. Typed' /\ OneWaits' /\ Handled' /\ StopPaid'
    BY <2>1
       DEF HandlerInv, Typed, OneWaits, Handled, StopPaid, Stopping, IsRegistered, othelaVars,
           exchangeVars
  <2> QED
    BY <2>1, <2>2, SameView DEF othelaView, exchangeVars
<1>9. StopInv'
  BY StopNext DEF HandlerInv
<1> HIDE DEF Good
<1>10. Good
  BY <1>1, <1>2, <1>3, <1>4, <1>5, <1>6, <1>7, <1>8 DEF Next
<1> QED
  BY <1>9, <1>10 DEF Good, HandlerInv

\* Every step of the process is one that Othela takes, whose handlers are atomic, or
\* one of its clients: what a handler found in its first read of the store is still
\* so at the second, nobody waits for two answers, and a shutdown, even one that is
\* cut short, is a crash at its last step.
THEOREM HandlersAtomic == Spec => AtomicHandlers
<1>1. HandlerInv /\ [Next]_vars => HandlerInv' /\ [ProcessStep]_othelaView
  BY HandlerNext
<1>2. HandlerInv /\ [Next]_vars =>
          [ \/ Coarse!OthelaStart \/ Coarse!OthelaCrash \/ Coarse!EditPlaybooks
            \/ Coarse!Serve \/ ClientMove ]_<<othelaVars, main # "down", Unserved, Answers>>
  BY <1>1 DEF ProcessStep, othelaView
<1> QED
  BY <1>1, <1>2, HandlerInit, PTL DEF Spec, AtomicHandlers

=============================================================================
