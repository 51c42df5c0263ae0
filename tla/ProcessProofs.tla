---------------------------- MODULE ProcessProofs ----------------------------
(***************************************************************************)
(* The Othela process: its graceful shutdown, its listings, and why it may *)
(* be taken for the Othela whose handlers are single steps. For any number *)
(* of agents, of clients that list, and of requests.                       *)
(***************************************************************************)
EXTENDS Process, TLAPS

-----------------------------------------------------------------------------
(* The shutdown.                                                           *)

\* What each place of the main goroutine stands for.
StopInv ==
    /\ up    <=> main \in {"serving", "signalled"}
    /\ ready <=> main = "serving"
    /\ handlers # {} => main \in {"serving", "signalled", "draining"}
    /\ main \in {"serving", "signalled", "draining"} /\ backend = "sqlite" => open

LEMMA StopInit == Init => StopInv
BY DEF Init, ExchangeInit, StopInv

\* A handler goes on with the store it has begun with.
LEMMA HandlerKeeps ==
    ASSUME NEW h \in handlers, HandlerStep(h)
    PROVE  UNCHANGED <<up, main, ready, open, backend>>
BY DEF HandlerStep, WriteStore, ReadStore, Answer, stop, othelaVars

LEMMA StopNext == StopInv /\ [Next]_vars => StopInv'
<1> SUFFICES ASSUME StopInv, [Next]_vars
             PROVE  StopInv'
  OBVIOUS
<1>1. CASE Start
  BY <1>1 DEF StopInv, Start, OthelaStart
<1>2. CASE Signal
  BY <1>2 DEF StopInv, Signal, othelaVars
<1>3. CASE Crash \/ Exit \/ DrainTimeout
  BY <1>3 DEF StopInv, Crash, Exit, DrainTimeout, Die
<1>4. CASE Shutdown
  BY <1>4 DEF StopInv, Shutdown, othelaVars
<1>5. CASE Drained
  BY <1>5 DEF StopInv, Drained, othelaVars, exchangeVars
<1>6. CASE Edit
  BY <1>6 DEF StopInv, Edit, EditPlaybooks, stop
<1>7. ASSUME NEW r \in inflight, Accept(r)
      PROVE  StopInv'
  BY <1>7 DEF StopInv, Accept, exchangeVars, othelaVars, stop
<1>8. ASSUME NEW h \in handlers, HandlerStep(h)
      PROVE  StopInv'
  BY <1>8, HandlerKeeps DEF StopInv
<1>9. ASSUME NEW v \in Viewers, BeginScan(v) \/ Inspect(v) \/ EndScan(v)
      PROVE  StopInv'
  BY <1>9 DEF StopInv, BeginScan, Inspect, EndScan, exchangeVars, othelaVars, stop
<1>10. ASSUME NEW a \in Agents, Ask(a)
       PROVE  StopInv'
  BY <1>10 DEF StopInv, Ask, othelaVars, stop
<1>11. ASSUME NEW a \in Agents, Receive(a)
       PROVE  StopInv'
  <2>1. UNCHANGED <<up, othelaVars, stop>> /\ (handlers = {} => handlers' = {})
    BY <1>11 DEF Receive
  <2> QED
    BY <2>1 DEF StopInv, othelaVars, stop
<1>12. CASE UNCHANGED vars
  BY <1>12 DEF StopInv, vars, exchangeVars, othelaVars, stop
<1> QED
  BY <1>1, <1>2, <1>3, <1>4, <1>5, <1>6, <1>7, <1>8, <1>9, <1>10, <1>11, <1>12
     DEF Next, MainStep

\* No handler meets a closed store, and connections are refused only once readiness
\* has been withdrawn: main.go lets the server drain before the deferred Close, and
\* the deadline that cuts the drain short takes the handlers with it.
THEOREM DrainCorrect == Spec => []DrainOrder
<1>1. StopInv => DrainOrder
  BY DEF StopInv, DrainOrder
<1> QED
  BY <1>1, StopInit, StopNext, PTL DEF Spec

-----------------------------------------------------------------------------
(* The listings.                                                           *)

Item == [id : Strings, manifest : ManifestType \cup {NoManifest}]

ScanState == [left : Seq(Strings), stat : BOOLEAN, found : Seq(Item), seen : SUBSET DiskStates]

\* The first entries of directory d have been found, and the rest are left.
Progress(left, found, d) ==
    /\ d.state = "ok"
    /\ Len(d.entries) = Len(found) + Len(left)
    /\ \A i \in 1..Len(found) : found[i] = Scan(d.entries)[i]
    /\ \A i \in 1..Len(left) : left[i] = d.entries[Len(found) + i].id

\* A scan that has seen one directory only is in the one there is now.
OnTrack(s) ==
    s.seen # {} => /\ disk \in s.seen
                   /\ \A d \in s.seen : s.seen = {d} => Progress(s.left, s.found, d)

ListInv ==
    /\ disk \in DiskStates
    /\ scan \in [Viewers -> ScanState]
    /\ \A v \in Viewers : OnTrack(scan[v])

LEMMA ScanItems ==
    ASSUME NEW d \in DiskStates
    PROVE  /\ d.entries \in Seq(Entry)
           /\ Scan(d.entries) \in Seq(Item)
           /\ Len(Scan(d.entries)) = Len(d.entries)
           /\ \A i \in 1..Len(d.entries) :
                 /\ d.entries[i].id \in Strings
                 /\ Scan(d.entries)[i] \in Item
                 /\ Scan(d.entries)[i].id = d.entries[i].id
<1>1. d.entries \in Seq(Entry)
  BY OthelaAssumption DEF Disk
<1>2. DOMAIN d.entries = 1..Len(d.entries) /\ Len(d.entries) \in Nat
  BY <1>1
<1>3. ASSUME NEW i \in 1..Len(d.entries)
      PROVE  /\ d.entries[i].id \in Strings
             /\ Scan(d.entries)[i] \in Item
             /\ Scan(d.entries)[i].id = d.entries[i].id
  <2>1. d.entries[i] \in Entry
    BY <1>1, <1>2
  <2>2. /\ d.entries[i].id \in Strings
        /\ d.entries[i].manifest \in ManifestType \cup {AbsentManifest, BrokenManifest}
    BY <2>1 DEF Entry
  <2>3. loadManifest(d.entries[i].manifest) \in ManifestType \cup {NoManifest}
    BY <2>2 DEF loadManifest
  <2>4. Scan(d.entries)[i]
           = [id |-> d.entries[i].id, manifest |-> loadManifest(d.entries[i].manifest)]
    BY <1>2 DEF Scan
  <2> QED
    BY <2>2, <2>3, <2>4 DEF Item
<1>4. Scan(d.entries) \in [1..Len(d.entries) -> Item]
  BY <1>2, <1>3 DEF Scan
<1>5. Scan(d.entries) \in Seq(Item) /\ Len(Scan(d.entries)) = Len(d.entries)
  <2> DEFINE s == Scan(d.entries)
  <2> SUFFICES ASSUME s \in [1..Len(d.entries) -> Item]
               PROVE  s \in Seq(Item) /\ Len(s) = Len(d.entries)
    BY <1>4
  <2> HIDE DEF s
  <2> QED
    BY <1>2
<1> QED
  BY <1>1, <1>3, <1>5

\* A name is that of one entry only.
LEMMA OneOfAName ==
    ASSUME NEW d \in DiskStates, NEW k \in 1..Len(d.entries)
    PROVE  {e \in Range(Scan(d.entries)) : e.id = d.entries[k].id} = {Scan(d.entries)[k]}
<1>1. Range(Scan(d.entries)) = {Scan(d.entries)[i] : i \in 1..Len(d.entries)}
  <2>1. DOMAIN Scan(d.entries) = 1..Len(d.entries)
    BY ScanItems DEF Scan
  <2> QED
    BY <2>1 DEF Range
<1>2. \A i \in 1..Len(d.entries) :
          /\ Scan(d.entries)[i].id = d.entries[i].id
          /\ d.entries[i].id = d.entries[k].id => i = k
  <2>1. DOMAIN d.entries = 1..Len(d.entries)
    BY ScanItems
  <2> QED
    BY <2>1, ScanItems, DirectoryAssumption
<1> QED
  BY <1>1, <1>2

\* A step that replaces the scan of one viewer at most.
LEMMA OneScan ==
    ASSUME ListInv, NEW v \in Viewers, NEW s \in ScanState,
           UNCHANGED disk, scan' = [scan EXCEPT ![v] = s], OnTrack(s)
    PROVE  ListInv'
<1>1. scan' \in [Viewers -> ScanState] /\ \A w \in Viewers : scan'[w] = IF w = v THEN s ELSE scan[w]
  BY DEF ListInv
<1>2. \A w \in Viewers : OnTrack(scan'[w])
  BY <1>1 DEF ListInv
<1> QED
  BY <1>1, <1>2 DEF ListInv, OnTrack

LEMMA ListUnchanged ==
    ASSUME ListInv, UNCHANGED <<disk, scan>>
    PROVE  ListInv'
BY DEF ListInv, OnTrack

LEMMA NoScanState ==
    /\ NoScan \in ScanState /\ NoScan.seen = {}
    /\ OnTrack(NoScan)
BY DEF NoScan, ScanState, OnTrack

LEMMA BeginList ==
    ASSUME ListInv, NEW v \in Viewers, BeginScan(v)
    PROVE  ListInv'
<1>1. UNCHANGED disk
  BY DEF BeginScan, othelaVars
<1>2. CASE disk.state = "ok"
  <2> DEFINE ids == [i \in DOMAIN disk.entries |-> disk.entries[i].id]
             s   == [left |-> ids, stat |-> FALSE, found |-> <<>>, seen |-> {disk}]
  <2>1. disk \in DiskStates /\ scan \in [Viewers -> ScanState]
    BY DEF ListInv
  <2>2. DOMAIN disk.entries = 1..Len(disk.entries) /\ Len(disk.entries) \in Nat
    BY <2>1, ScanItems
  <2>3. ids \in [1..Len(disk.entries) -> Strings]
    BY <2>1, <2>2, ScanItems
  <2>4. ids \in Seq(Strings) /\ Len(ids) = Len(disk.entries)
    <3> HIDE DEF ids
    <3> QED
      BY <2>2, <2>3
  <2>5. \A i \in 1..Len(ids) : ids[i] = disk.entries[i].id
    BY <2>2, <2>4
  <2>6. scan' = [scan EXCEPT ![v] = s]
    BY <1>2 DEF BeginScan, NoScan
  <2> HIDE DEF ids
  <2>7. s \in ScanState
    BY <2>1, <2>4 DEF ScanState
  <2>8. OnTrack(s)
    BY <1>2, <2>2, <2>4, <2>5 DEF OnTrack, Progress
  <2> HIDE DEF s
  <2> QED
    BY <1>1, <2>6, <2>7, <2>8, OneScan
<1>3. CASE disk.state # "ok"
  BY <1>1, <1>3, ListUnchanged DEF BeginScan
<1> QED
  BY <1>2, <1>3

\* The first of the entries that are left comes next.
LEMMA FindNext ==
    ASSUME NEW d, NEW left \in Seq(Strings), NEW found \in Seq(Item), left # <<>>,
           Len(d.entries) \in Nat, Progress(left, found, d), NEW item \in Item,
           item = Scan(d.entries)[Len(found) + 1]
    PROVE  Progress(Tail(left), Append(found, item), d)
<1> DEFINE list    == Scan(d.entries)
           entries == d.entries
<1>1. /\ Len(entries) = Len(found) + Len(left) /\ item = list[Len(found) + 1]
      /\ \A i \in 1..Len(found) : found[i] = list[i]
      /\ \A i \in 1..Len(left) : left[i] = entries[Len(found) + i].id
  BY DEF Progress
<1> HIDE DEF list, entries
<1>2. /\ Len(left) \in Nat \ {0} /\ Len(found) \in Nat
      /\ Len(Append(found, item)) = Len(found) + 1
      /\ Len(Tail(left)) = Len(left) - 1
  OBVIOUS
<1>3. \A i \in 1..Len(Append(found, item)) : Append(found, item)[i] = list[i]
  BY <1>1
<1>4. ASSUME NEW i \in 1..Len(Tail(left))
      PROVE  Tail(left)[i] = entries[Len(Append(found, item)) + i].id
  <2>1. i + 1 \in 1..Len(left) /\ Tail(left)[i] = left[i + 1]
    OBVIOUS
  <2>2. left[i + 1] = entries[Len(found) + (i + 1)].id
    BY <1>1, <2>1
  <2>3. Len(found) + (i + 1) = Len(Append(found, item)) + i
    BY <1>2
  <2> QED
    BY <2>1, <2>2, <2>3
<1>5. Len(entries) = Len(Append(found, item)) + Len(Tail(left))
  BY <1>1, <1>2
<1> QED
  BY <1>3, <1>4, <1>5 DEF Progress, list, entries

LEMMA ScanUpdate ==
    ASSUME NEW s \in ScanState, NEW stat \in BOOLEAN, NEW left \in Seq(Strings),
           NEW found \in Seq(Item)
    PROVE  [s EXCEPT !.stat = stat, !.left = left, !.found = found]
              = [left |-> left, stat |-> stat, found |-> found, seen |-> s.seen]
<1> DEFINE s1 == [s EXCEPT !.stat = stat]
           s2 == [s1 EXCEPT !.left = left]
           s3 == [s2 EXCEPT !.found = found]
<1>1. s1 = [left |-> s.left, stat |-> stat, found |-> s.found, seen |-> s.seen]
  BY DEF ScanState
<1>2. s1 \in ScanState
  BY <1>1 DEF ScanState
<1> HIDE DEF s1
<1>3. s2 = [left |-> left, stat |-> stat, found |-> s.found, seen |-> s.seen]
  BY <1>1, <1>2 DEF ScanState
<1>4. s2 \in ScanState
  BY <1>2, <1>3 DEF ScanState
<1> HIDE DEF s2
<1>5. s3 = [left |-> left, stat |-> stat, found |-> found, seen |-> s.seen]
  BY <1>3, <1>4 DEF ScanState
<1> QED
  BY <1>5 DEF s1, s2, s3

\* In a directory that stays as it is the next name is found, and listed for what
\* it is.
LEMMA InspectList ==
    ASSUME ListInv, NEW v \in Viewers, Inspect(v)
    PROVE  ListInv'
<1> DEFINE s     == scan[v]
           left  == s.left
           found == s.found
           here  == {e \in Range(Scan(disk.entries)) : disk.state = "ok" /\ e.id = Head(left)}
           item  == IF here = {} THEN [id |-> Head(left), manifest |-> NoManifest]
                                 ELSE CHOOSE e \in here : TRUE
           more  == IF s.stat THEN Append(found, item) ELSE found
           next  == [left |-> Tail(left), stat |-> FALSE, found |-> more, seen |-> s.seen]
<1>1. disk \in DiskStates /\ scan \in [Viewers -> ScanState] /\ s \in ScanState /\ OnTrack(s)
  BY DEF ListInv
<1>2. /\ UNCHANGED disk
      /\ left # <<>>
      /\ \/ scan' = [scan EXCEPT ![v] = [s EXCEPT !.stat = TRUE]]
         \/ /\ s.stat \/ here = {}
            /\ scan' = [scan EXCEPT ![v] =
                           [s EXCEPT !.stat = FALSE, !.left = Tail(left), !.found = more]]
  BY DEF Inspect, othelaVars
<1>3. left \in Seq(Strings) /\ found \in Seq(Item) /\ Head(left) \in Strings
  <2>1. left \in Seq(Strings) /\ found \in Seq(Item)
    BY <1>1 DEF ScanState
  <2> HIDE DEF left
  <2> QED
    BY <1>2, <2>1
<1>4. item \in Item
  <2>1. Scan(disk.entries) \in Seq(Item)
    BY <1>1, ScanItems
  <2>2. Range(Scan(disk.entries)) \subseteq Item
    BY <2>1 DEF Range
  <2> QED
    BY <1>3, <2>2 DEF Item
<1>5. [s EXCEPT !.stat = FALSE, !.left = Tail(left), !.found = more] = next
  <2> HIDE DEF s, left, found, item
  <2>1. Tail(left) \in Seq(Strings) /\ more \in Seq(Item)
    BY <1>2, <1>3, <1>4
  <2> HIDE DEF more
  <2> QED
    BY <1>1, <2>1, ScanUpdate
<1>6. s.seen = {disk} => Progress(left, found, disk)
  BY <1>1 DEF OnTrack
<1>7. s.seen # {} => disk \in s.seen
  BY <1>1 DEF OnTrack
<1>8. CASE scan' = [scan EXCEPT ![v] = [s EXCEPT !.stat = TRUE]]
  <2>1. [s EXCEPT !.stat = TRUE] \in ScanState /\ OnTrack([s EXCEPT !.stat = TRUE])
    BY <1>1 DEF ScanState, OnTrack
  <2> QED
    BY <1>2, <1>8, <2>1, OneScan
<1> HIDE DEF left, found, item, more
<1>9. CASE (s.stat \/ here = {}) /\ scan' = [scan EXCEPT ![v] = next]
  <2>1. next \in ScanState
    BY <1>1, <1>2, <1>3, <1>4 DEF ScanState, more
  <2>2. ASSUME s.seen = {disk}
        PROVE  Progress(Tail(left), more, disk)
    <3>1. /\ disk.state = "ok"
          /\ Len(disk.entries) = Len(found) + Len(left) /\ Len(disk.entries) \in Nat
          /\ \A i \in 1..Len(found) : found[i] = Scan(disk.entries)[i]
          /\ \A i \in 1..Len(left) : left[i] = disk.entries[Len(found) + i].id
      BY <1>1, <1>6, <2>2, ScanItems DEF Progress
    <3>2. /\ Len(found) + 1 \in 1..Len(disk.entries)
          /\ Head(left) = disk.entries[Len(found) + 1].id
      BY <1>2, <1>3, <3>1
    <3>3. here = {Scan(disk.entries)[Len(found) + 1]}
      BY <1>1, <3>1, <3>2, OneOfAName
    <3>4. item = Scan(disk.entries)[Len(found) + 1] /\ more = Append(found, item)
      BY <1>9, <3>3 DEF item, more
    <3> HIDE DEF here
    <3> QED
      BY <1>2, <1>3, <1>4, <1>6, <2>2, <3>1, <3>4, FindNext
  <2>3. OnTrack(next)
    BY <1>7, <2>2 DEF OnTrack
  <2> HIDE DEF next
  <2> QED
    BY <1>2, <1>9, <2>1, <2>3, OneScan
<1> QED
  BY <1>2, <1>5, <1>8, <1>9

\* An edit makes every scan under way one that has seen two directories.
LEMMA EditList ==
    ASSUME ListInv, Edit
    PROVE  ListInv'
<1>1. disk' \in DiskStates /\ disk' # disk
  BY DEF Edit, EditPlaybooks
<1>2. scan \in [Viewers -> ScanState]
  BY DEF ListInv
<1>3. \A v \in Viewers :
          /\ scan[v] \in ScanState
          /\ scan'[v] = IF Scanning(v) THEN [scan[v] EXCEPT !.seen = @ \cup {disk'}] ELSE scan[v]
          /\ scan'[v].seen = IF Scanning(v) THEN scan[v].seen \cup {disk'} ELSE {}
          /\ scan'[v] \in ScanState
  BY <1>1, <1>2 DEF Edit, ScanState, Scanning
<1>4. scan' \in [Viewers -> ScanState]
  BY <1>3 DEF Edit
<1>5. ASSUME NEW v \in Viewers, scan'[v].seen # {}
      PROVE  disk' \in scan'[v].seen /\ \A d : scan'[v].seen # {d}
  <2>1. scan[v].seen # {}
    BY <1>3, <1>5 DEF Scanning
  <2>2. disk \in scan[v].seen
    BY <2>1 DEF ListInv, OnTrack
  <2>3. scan'[v].seen = scan[v].seen \cup {disk'}
    BY <1>3, <2>1 DEF Scanning
  <2> QED
    BY <1>1, <2>2, <2>3
<1> QED
  BY <1>1, <1>4, <1>5 DEF ListInv, OnTrack

LEMMA ListNext == ListInv /\ [Next]_vars => ListInv'
<1> SUFFICES ASSUME ListInv, [Next]_vars
             PROVE  ListInv'
  OBVIOUS
<1>1. CASE Start \/ Signal \/ Shutdown \/ Drained \/ UNCHANGED vars
  BY <1>1, ListUnchanged
     DEF Start, OthelaStart, Signal, Shutdown, Drained, vars, othelaVars, scans
<1>2. CASE Crash \/ Exit \/ DrainTimeout
  <2>1. UNCHANGED disk /\ scan' = [v \in Viewers |-> NoScan]
    BY <1>2 DEF Crash, Exit, DrainTimeout, Die
  <2> QED
    BY <2>1, NoScanState DEF ListInv, OnTrack
<1>3. CASE Edit
  BY <1>3, EditList
<1>4. ASSUME NEW r \in inflight, Accept(r)
      PROVE  ListInv'
  BY <1>4, ListUnchanged DEF Accept, othelaVars, scans
<1>5. ASSUME NEW h \in handlers, HandlerStep(h)
      PROVE  ListInv'
  BY <1>5, ListUnchanged DEF HandlerStep, othelaVars, scans
<1>6. ASSUME NEW v \in Viewers, BeginScan(v) \/ Inspect(v)
      PROVE  ListInv'
  BY <1>6, BeginList, InspectList
<1>7. ASSUME NEW v \in Viewers, EndScan(v)
      PROVE  ListInv'
  BY <1>7, NoScanState, OneScan DEF EndScan, othelaVars
<1>8. ASSUME NEW a \in Agents, Ask(a) \/ Receive(a)
      PROVE  ListInv'
  BY <1>8, ListUnchanged DEF Ask, Receive, othelaVars, scans
<1> QED
  BY <1>1, <1>2, <1>3, <1>4, <1>5, <1>6, <1>7, <1>8 DEF Next, MainStep

LEMMA ListInit == Init => ListInv
BY NoScanState DEF Init, OthelaInit, ListInv, OnTrack

\* GET /playbooks answers with the directory as it is, whatever other requests do
\* to the map they share with it, if the directory stays as it is while it is read:
\* the result is put together from the names of ReadDir, one by one.
THEOREM ListingCorrect == Spec => []ListingFaithful
<1>1. ASSUME ListInv, NEW v \in Viewers, Scanning(v), scan[v].left = <<>>,
             NEW d \in scan[v].seen, scan[v].seen = {d}
      PROVE  Listing(v) = Scan(d.entries)
  <2>1. scan[v] \in ScanState /\ Progress(scan[v].left, scan[v].found, d) /\ d \in DiskStates
    BY <1>1 DEF ListInv, OnTrack, Scanning, ScanState
  <2>2. scan[v].found \in Seq(Item) /\ Len(scan[v].left) = 0
    BY <1>1, <2>1 DEF ScanState
  <2>3. /\ Len(scan[v].found) = Len(d.entries)
        /\ \A i \in 1..Len(scan[v].found) : scan[v].found[i] = Scan(d.entries)[i]
    BY <2>1, <2>2, ScanItems DEF Progress
  <2>4. Scan(d.entries) \in Seq(Item) /\ Len(Scan(d.entries)) = Len(d.entries)
    BY <2>1, ScanItems
  <2> DEFINE f == scan[v].found
             g == Scan(d.entries)
  <2>5. f \in Seq(Item) /\ g \in Seq(Item) /\ Len(f) = Len(g) /\ \A i \in 1..Len(f) : f[i] = g[i]
    BY <2>2, <2>3, <2>4
  <2> HIDE DEF f, g
  <2>6. f = g
    BY <2>5
  <2> QED
    BY <2>6 DEF f, g, Listing
<1>2. ListInv => ListingFaithful
  BY <1>1 DEF ListingFaithful
<1> QED
  BY <1>2, ListInit, ListNext, PTL DEF Spec

=============================================================================
