------------------------------ MODULE Process ------------------------------
(***************************************************************************)
(* The Othela process in detail: its main goroutine, from the signal to    *)
(* the end of the graceful shutdown, one goroutine per request, and the    *)
(* scans of GET /playbooks, which share the loader. Clients ask for        *)
(* anything at any time. The module shows that Othela, whose handlers are  *)
(* single steps, is a fair picture of the process.                         *)
(***************************************************************************)
EXTENDS Othela, FiniteSets, Functions

CONSTANTS Viewers,      \* clients of GET /playbooks
          LabelChoices, \* the labels an agent may register
          MaxRequests   \* bound: requests in one behaviour

ASSUME ProcessAssumption == MaxRequests \in Nat /\ LabelChoices \subseteq Labels

VARIABLES main,      \* where the main goroutine is
          ready,     \* Server.ready
          open,      \* the SQLite store is open
          handlers,  \* the goroutines of accepted requests
          scan,      \* the scan of each viewer's request
          shared,    \* Loader.playbooks
          sent       \* requests so far

stop  == <<main, ready, open>>
scans == <<scan, shared>>
vars  == <<exchangeVars, othelaVars, stop, handlers, scans, sent>>

(* A handler: "accepted", "known" (a sync that found its node), and        *)
(* "answering". Its request stays in inflight until the answer leaves.     *)
Handler(r, at, answer) == [req |-> r, at |-> at, answer |-> answer]

Becomes(h, at, answer) ==
    handlers' = (handlers \ {h}) \cup {Handler(h.req, at, answer)}

Replies(h, code, job) == Becomes(h, "answering", Response(code, job))

(* A scan: the names ReadDir returned that are still to be inspected,      *)
(* whether Stat has found the first of them, the result, and, as history,  *)
(* the directory as it was while the scan lasted.                          *)
NoScan == [left |-> <<>>, stat |-> FALSE, found |-> <<>>, seen |-> {}]

Scanning(v) == scan[v].seen # {}

-----------------------------------------------------------------------------
(* Handlers.                                                               *)

Accept(r) ==
    /\ up
    /\ \A h \in handlers : h.req # r
    /\ handlers' = handlers \cup {Handler(r, "accepted", NoReply)}
    /\ UNCHANGED <<exchangeVars, othelaVars, stop, scans, sent>>

\* The one store write of a registration or a report.
WriteStore(h) ==
    LET r == h.req IN
    /\ h.at = "accepted"
    /\ \/ /\ r.kind = "register"
          /\ nodeStore' = [nodeStore EXCEPT ![backend] = Put(@, NodeID[r.agent], r.labels)]
          /\ UNCHANGED <<reportStore, budget>>
       \/ r.kind = "report" /\ SaveReport(r) /\ UNCHANGED <<nodeStore, budget>>
       \/ /\ \/ r.kind = "register" /\ StoreFails("registerError")
             \/ r.kind = "report" /\ StoreFails("saveError")
          /\ UNCHANGED <<nodeStore, reportStore>>
    /\ Replies(h, 200, NoJob)

Dispatch(h, labels) ==
    \E job \in JobsFor(labels) : Replies(h, IF job = NoJob THEN 204 ELSE 200, job)

\* Mutant: GetLabels first, IsRegistered second.
ReadStoreLabelsFirst(h) ==
    LET node == NodeID[h.req.agent] IN
    /\ h.req.kind = "sync"
    /\ \/ /\ h.at = "accepted"
          /\ \E job \in JobsFor(IF IsRegistered(node) THEN nodeStore[backend][node] ELSE NoLabels) :
                Becomes(h, "known", Response(IF job = NoJob THEN 204 ELSE 200, job))
       \/ /\ h.at = "known"
          /\ IF IsRegistered(node) THEN Becomes(h, "answering", h.answer)
                                   ELSE Replies(h, 403, NoJob)
    /\ UNCHANGED <<budget, nodeStore, reportStore>>

\* The two store reads of a sync, each of which may fail.
ReadStore(h) ==
    LET node == NodeID[h.req.agent] IN
    /\ h.req.kind = "sync"
    /\ \/ /\ h.at = "accepted"
          /\ \/ IsRegistered(node) /\ Becomes(h, "known", NoReply) /\ UNCHANGED budget
             \/ ~IsRegistered(node) /\ Replies(h, 403, NoJob) /\ UNCHANGED budget
             \/ StoreFails("readError") /\ Replies(h, 403, NoJob)
       \/ /\ h.at = "known"
          /\ \/ Dispatch(h, nodeStore[backend][node]) /\ UNCHANGED budget
             \/ StoreFails("readError") /\ Dispatch(h, NoLabels)
    /\ UNCHANGED <<nodeStore, reportStore>>

HandlerStep(h) ==
    \/ /\ WriteStore(h) \/ ReadStore(h)
       /\ UNCHANGED <<up, inflight, reply, disk, catalog, currentJob, backend, starts, stop,
                      scans, sent>>
    \/ /\ h.at = "answering"
       /\ Answer(h.req, h.answer.code, h.answer.job)
       /\ handlers' = handlers \ {h}
       /\ UNCHANGED <<up, budget, othelaVars, stop, scans, sent>>

-----------------------------------------------------------------------------
(* GET /playbooks.                                                         *)

\* Without a loader the answer is 503, with an unreadable directory 500. Scan
\* replaces the map before it reads the directory.
BeginScan(v) ==
    /\ up
    /\ currentJob # EmptyJob
    /\ ~Scanning(v)
    /\ sent < MaxRequests
    /\ sent' = sent + 1
    /\ shared' = {}
    /\ IF disk.state = "ok"
       THEN scan' = [scan EXCEPT ![v] =
               [NoScan EXCEPT !.left = [i \in DOMAIN disk.entries |-> disk.entries[i].id],
                              !.seen = {disk}]]
       ELSE UNCHANGED scan
    /\ UNCHANGED <<exchangeVars, othelaVars, stop, handlers>>

\* Stat, then the manifest, of one name, in the directory as it is by now.
Inspect(v) ==
    LET s    == scan[v]
        id   == Head(s.left)
        here == {e \in Range(Scan(disk.entries)) : disk.state = "ok" /\ e.id = id}
        item == IF here = {} THEN [id |-> id, manifest |-> NoManifest] ELSE CHOOSE e \in here : TRUE
    IN
    /\ s.left # <<>>
    /\ IF ~s.stat /\ here # {}
       THEN scan' = [scan EXCEPT ![v].stat = TRUE] /\ UNCHANGED shared
       ELSE /\ scan' = [scan EXCEPT ![v].stat = FALSE,
                                    ![v].left = Tail(@),
                                    ![v].found = IF s.stat THEN Append(@, item) ELSE @]
            /\ shared' = IF s.stat THEN {e \in shared : e.id # id} \cup {item} ELSE shared
    /\ UNCHANGED <<exchangeVars, othelaVars, stop, handlers, sent>>

\* Mutant: the answer is put together from the map of the loader.
ListingOfMap(v) == CHOOSE s \in [1..Cardinality(shared) -> shared] : Range(s) = shared

Listing(v) == scan[v].found

EndScan(v) ==
    /\ Scanning(v)
    /\ scan[v].left = <<>>
    /\ scan' = [scan EXCEPT ![v] = NoScan]
    /\ UNCHANGED <<exchangeVars, othelaVars, stop, handlers, shared, sent>>

-----------------------------------------------------------------------------
(* The main goroutine.                                                     *)

Start ==
    /\ main = "down"
    /\ OthelaStart
    /\ main' = "serving"
    /\ ready' = TRUE
    /\ open' = (backend' = "sqlite")
    /\ shared' = IF disk.state = "ok" THEN Range(ScannedCatalog) ELSE {}
    /\ UNCHANGED <<handlers, scan, sent>>

\* SIGTERM, and readiness is withdrawn while requests are still accepted.
Signal ==
    /\ main = "serving"
    /\ Spend("othelaCrash")
    /\ main' = "signalled"
    /\ ready' = FALSE
    /\ UNCHANGED <<up, inflight, reply, othelaVars, open, handlers, scans, sent>>

\* Shutdown closes the listener, and connections nobody has accepted with it.
Shutdown ==
    /\ main = "signalled"
    /\ main' = "draining"
    /\ up' = FALSE
    /\ inflight' = {h.req : h \in handlers}
    /\ UNCHANGED <<reply, budget, othelaVars, ready, open, handlers, scans, sent>>

\* No request is left: Shutdown returns and the store is closed.
Drained ==
    /\ main = "draining"
    /\ handlers = {} /\ \A v \in Viewers : ~Scanning(v)
    /\ main' = "closed"
    /\ open' = FALSE
    /\ UNCHANGED <<exchangeVars, othelaVars, ready, handlers, scans, sent>>

\* The process ends with all that was in it; answers on their way may be lost.
Die ==
    /\ main' = "down" /\ ready' = FALSE /\ open' = FALSE /\ up' = FALSE
    /\ handlers' = {} /\ inflight' = {} /\ shared' = {}
    /\ scan' = [v \in Viewers |-> NoScan]
    /\ catalog' = <<>> /\ currentJob' = EmptyJob
    /\ \E lost \in SUBSET Agents :
          reply' = [a \in Agents |-> IF a \in lost THEN NoReply ELSE reply[a]]
    /\ UNCHANGED <<disk, backend, nodeStore, reportStore, starts, sent>>

Exit == main = "closed" /\ Die /\ UNCHANGED budget

\* After 15 s log.Fatalf ends the process, before the stores are closed.
\* Mutants: the shutdown goes on instead; there is no deadline.
DrainTimeoutGoesOn ==
    /\ main = "draining"
    /\ main' = "closed"
    /\ open' = FALSE
    /\ UNCHANGED <<exchangeVars, othelaVars, ready, handlers, scans, sent>>
DrainWithoutTimeout == FALSE

DrainTimeout == main = "draining" /\ Die /\ UNCHANGED budget

\* A kill, ListenAndServe failing, or the Go runtime finding two scans writing
\* the loader's map at once.
Crash == main = "serving" /\ Spend("othelaCrash") /\ Die

MainStep == Shutdown \/ Drained \/ Exit \/ DrainTimeout

-----------------------------------------------------------------------------
(* The outside.                                                            *)

Edit ==
    /\ EditPlaybooks
    /\ scan' = [v \in Viewers |->
                  IF Scanning(v) THEN [scan[v] EXCEPT !.seen = @ \cup {disk'}] ELSE scan[v]]
    /\ UNCHANGED <<stop, handlers, shared, sent>>

Ask(a) ==
    /\ up
    /\ Pending(a) = {} /\ reply[a] = NoReply
    /\ sent < MaxRequests
    /\ sent' = sent + 1
    /\ \E r \in {Sync(a), Report(a, sent', "Success")} \cup {Register(a, l) : l \in LabelChoices} :
          Send(r)
    /\ UNCHANGED <<up, reply, budget, othelaVars, stop, handlers, scans>>

\* The agent reads its answer, or gives up on it: its handler runs on.
Receive(a) ==
    /\ \/ reply[a] # NoReply /\ Consume(a) /\ UNCHANGED <<inflight, budget>>
       \/ Timeout(a)
    /\ handlers' = {[h EXCEPT !.req.orphan = IF h.req \in inflight' THEN @ ELSE budget] :
                       h \in handlers}
    /\ UNCHANGED <<up, othelaVars, stop, scans, sent>>

-----------------------------------------------------------------------------
Init ==
    /\ ExchangeInit /\ OthelaInit
    /\ main = "down" /\ ready = FALSE /\ open = FALSE
    /\ handlers = {} /\ shared = {} /\ sent = 0
    /\ scan = [v \in Viewers |-> NoScan]

Next ==
    \/ Start \/ Signal \/ Crash \/ MainStep \/ Edit
    \/ \E r \in inflight : Accept(r)
    \/ \E h \in handlers : HandlerStep(h)
    \/ \E v \in Viewers : BeginScan(v) \/ Inspect(v) \/ EndScan(v)
    \/ \E a \in Agents : Ask(a) \/ Receive(a)

\* Fair is only the main goroutine: nothing obliges a handler to come to its end.
Spec == Init /\ [][Next]_vars /\ WF_vars(MainStep)

-----------------------------------------------------------------------------
(* The process as Othela sees it: a request is served, for Othela, when    *)
(* its handler knows the answer.                                           *)

Answering == {h \in handlers : h.at = "answering"}

Unserved == inflight \ {h.req : h \in Answering}

Answers ==
    [a \in Agents |->
        IF \E h \in Answering : h.req.agent = a /\ h.req.orphan = 0
        THEN (CHOOSE h \in Answering : h.req.agent = a /\ h.req.orphan = 0).answer
        ELSE reply[a]]

\* A stop spends its disturbance at the signal, and is over at the exit.
Stopping == main \in {"signalled", "draining", "closed"}

Coarse == INSTANCE Othela WITH
    up       <- main # "down",
    inflight <- Unserved,
    reply    <- Answers,
    budget   <- budget + (IF Stopping THEN 1 ELSE 0)

\* A client sends, reads or gives up, or a request is lost before it is accepted:
\* nothing that Othela keeps changes and no answer appears.
ClientMove ==
    /\ UNCHANGED othelaVars
    /\ \A a \in Agents : Answers'[a] \in {Answers[a], NoReply}
    /\ \A r \in Unserved' \ Unserved : r.orphan = 0 \/ [r EXCEPT !.orphan = 0] \in Unserved

\* Every step of the process is one of Othela's, or a client's: a handler that
\* reads and writes the store in several steps, among others, while the process
\* is being stopped, has the effect of a handler that is a single step.
AtomicHandlers ==
    [][ \/ Coarse!OthelaStart \/ Coarse!OthelaCrash \/ Coarse!EditPlaybooks
        \/ Coarse!Serve \/ ClientMove ]_<<othelaVars, main # "down", Unserved, Answers>>

\* No handler meets a closed store ("Close storage backends", main.go:123), and
\* connections are refused only after readiness was withdrawn.
DrainOrder ==
    /\ handlers # {} /\ backend = "sqlite" => open
    /\ ~up => ~ready

\* GET /playbooks lists the directory as it is, unless it changed meanwhile, and
\* whatever other requests do to the loader's map.
ListingFaithful ==
    \A v \in Viewers : Scanning(v) /\ scan[v].left = <<>> =>
        \A d \in scan[v].seen : scan[v].seen = {d} => Listing(v) = Scan(d.entries)

\* An Othela that is told to stop does stop, even if a handler never ends.
SignalledStops == Stopping ~> main = "down"

=============================================================================
