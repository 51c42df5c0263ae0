---------------------------- MODULE WatcherProofs ----------------------------
(***************************************************************************)
(* The order in which a unit's events reach the agent, for any number of   *)
(* units, any list of watched ones and any capacity of the event channel.  *)
(***************************************************************************)
EXTENDS SystemdWatcher, TLAPS

Event == [unit : Units, state : Nat \ {0}]

\* A look at the units, or a set of changes.
LookAt(f) == DOMAIN f \subseteq Units /\ \A u \in DOMAIN f : f[u] \in Nat

Typed ==
    /\ unit \in [Units -> Nat \ {0}]
    /\ loaded \subseteq Units
    /\ told \in [Units -> Nat]
    /\ channel \in Seq(Event)
    /\ LookAt(old) /\ LookAt(sending) /\ LookAt(batch)

\* Everything of unit u that is in the channel, and what was read of it, is older
\* than state n.
Newest(u, n) ==
    /\ told[u] < n
    /\ \A i \in DOMAIN channel : channel[i].unit = u => channel[i].state < n

\* State n of unit u is one the poller has looked at: there is none newer in its
\* last look, and a unit that comes back will be in a newer state.
Looked(u, n) ==
    /\ n <= unit[u]
    /\ IF u \in DOMAIN old THEN n <= old[u] ELSE u \in loaded => n < unit[u]

ToldOrder ==
    \A u \in Units : Looked(u, told[u])

ChannelOrder ==
    \A i \in DOMAIN channel :
        /\ Looked(channel[i].unit, channel[i].state)
        /\ told[channel[i].unit] < channel[i].state
        /\ \A j \in 1..(i - 1) :
              channel[j].unit = channel[i].unit => channel[j].state < channel[i].state

BatchOrder ==
    \A u \in DOMAIN batch : batch[u] # Gone =>
        Looked(u, batch[u]) /\ Newest(u, batch[u])

SendingOrder ==
    \A u \in DOMAIN sending : sending[u] # Gone =>
        /\ Looked(u, sending[u]) /\ Newest(u, sending[u])
        /\ u \in DOMAIN batch => batch[u] < sending[u]

LastLook == \A u \in DOMAIN old : old[u] <= unit[u] /\ ~filterUnit(u)

BatchTaken == watcher = "select" => DOMAIN batch = {}

EventInv ==
    /\ Typed
    /\ ToldOrder /\ ChannelOrder /\ BatchOrder /\ SendingOrder
    /\ LastLook /\ BatchTaken

-----------------------------------------------------------------------------
LEMMA ChannelTyped ==
    ASSUME Typed
    PROVE  /\ Len(channel) \in Nat
           /\ DOMAIN channel = 1..Len(channel)
           /\ \A i \in DOMAIN channel :
                 channel[i].unit \in Units /\ channel[i].state \in Nat \ {0}
<1>1. channel \in Seq(Event)
  BY DEF Typed
<1>2. \A i \in DOMAIN channel : channel[i] \in Event
  BY <1>1
<1> QED
  BY <1>1, <1>2 DEF Event

\* What becomes of the units, and of the poller's look at them, does not change
\* that a state was looked at.
LEMMA LookedKept ==
    ASSUME Typed, UNCHANGED <<batch, channel, sending, told, watcher>>,
           Typed', LastLook',
           \A u \in Units, n \in Nat : Looked(u, n) => Looked(u, n)',
           EventInv
    PROVE  EventInv'
<1>1. ToldOrder'
  BY DEF Typed, EventInv, ToldOrder
<1>2. ChannelOrder'
  BY ChannelTyped DEF EventInv, ChannelOrder
<1>3. BatchOrder'
  BY DEF Typed, LookAt, EventInv, BatchOrder, Newest
<1>4. SendingOrder'
  BY DEF Typed, LookAt, EventInv, SendingOrder, Newest
<1>5. BatchTaken'
  BY DEF EventInv, BatchTaken
<1> QED
  BY <1>1, <1>2, <1>3, <1>4, <1>5 DEF EventInv

LEMMA ChangeStep ==
    ASSUME EventInv, Change
    PROVE  EventInv'
<1>1. Typed /\ LastLook /\ UNCHANGED <<batch, channel, sending, told, watcher, old>>
  BY DEF EventInv, Change, poller, ends, queue
<1>2. PICK u \in Units :
          \/ u \in loaded /\ unit' = [unit EXCEPT ![u] = @ + 1] /\ UNCHANGED loaded
          \/ u \in loaded /\ loaded' = loaded \ {u} /\ UNCHANGED unit
          \/ u \notin loaded /\ loaded' = loaded \cup {u} /\ unit' = [unit EXCEPT ![u] = @ + 1]
  BY DEF Change
<1>3. Typed'
  BY <1>1, <1>2 DEF Typed, LookAt
<1>4. \A v \in Units : unit'[v] >= unit[v] /\ (v \in loaded' => v \in loaded \/ unit'[v] > unit[v])
  BY <1>1, <1>2 DEF Typed
<1>5. LastLook'
  BY <1>1, <1>3, <1>4 DEF Typed, LookAt, LastLook, filterUnit, isUnitWatched
<1>6. \A v \in Units, n \in Nat : Looked(v, n) => Looked(v, n)'
  BY <1>1, <1>3, <1>4 DEF Typed, Looked
<1> QED
  BY <1>1, <1>3, <1>5, <1>6, LookedKept

LEMMA PollStep ==
    ASSUME EventInv, Poll
    PROVE  EventInv'
<1> DEFINE cur == [u \in {x \in loaded : ~filterUnit(x)} |-> unit[u]]
           new == {u \in DOMAIN cur : u \notin DOMAIN old \/ isStateChanged(old[u], cur[u])}
<1>1. Typed /\ UNCHANGED <<unit, loaded, batch, channel, told, watcher>>
  BY DEF EventInv, Poll, system, ends, queue
<1>2. /\ old' = cur
      /\ sending' = [u \in new \cup (DOMAIN old \ DOMAIN cur) |->
                        IF u \in new THEN cur[u] ELSE Gone]
  BY DEF Poll
<1>3. DOMAIN cur \subseteq Units /\ \A u \in DOMAIN cur : cur[u] = unit[u] /\ ~filterUnit(u)
  BY <1>1 DEF Typed
<1>4. Typed'
  BY <1>1, <1>2, <1>3 DEF Typed, LookAt, Gone
<1>5. LastLook'
  BY <1>1, <1>2, <1>3 DEF Typed, LastLook, filterUnit, isUnitWatched
<1>6. ASSUME NEW u \in Units, NEW n \in Nat, Looked(u, n)
      PROVE  Looked(u, n)' /\ (u \in new => n < unit[u])
  <2>1. unit[u] \in Nat /\ (u \in DOMAIN old => old[u] \in Nat)
    BY <1>1 DEF Typed, LookAt
  <2>2. u \in loaded /\ u \notin DOMAIN cur => u \notin DOMAIN old
    BY DEF EventInv, LastLook
  <2>3. u \in new => n < unit[u]
    <3>1. CASE u \notin DOMAIN old
      BY <1>6, <3>1 DEF Looked
    <3>2. CASE u \in DOMAIN old
      <4>1. u \in new => old[u] # unit[u]
        BY <1>3, <3>2 DEF isStateChanged
      <4> QED
        BY <1>6, <2>1, <3>2, <4>1 DEF Looked, EventInv, LastLook
    <3> QED
      BY <3>1, <3>2
  <2>4. Looked(u, n)'
    BY <1>1, <1>2, <1>3, <1>6, <2>1, <2>2 DEF Looked
  <2> QED
    BY <2>3, <2>4
<1>7. SendingOrder'
  <2> SUFFICES ASSUME NEW u \in DOMAIN sending', sending'[u] # Gone
               PROVE  /\ sending'[u] <= unit[u]
                      /\ u \in DOMAIN old' /\ sending'[u] <= old'[u]
                      /\ told[u] < sending'[u]
                      /\ \A i \in DOMAIN channel :
                            channel[i].unit = u => channel[i].state < sending'[u]
                      /\ u \in DOMAIN batch => batch[u] < sending'[u]
    BY <1>1 DEF SendingOrder, Newest, Looked
  <2>1. u \in new /\ u \in Units /\ sending'[u] = unit[u] /\ unit[u] \in Nat \ {0}
    BY <1>1, <1>2, <1>3 DEF Typed
  <2>2. u \in DOMAIN old' /\ old'[u] = unit[u]
    BY <1>2, <1>3, <2>1
  <2>3. told[u] < unit[u]
    BY <1>1, <1>6, <2>1 DEF EventInv, ToldOrder, Typed
  <2>4. \A i \in DOMAIN channel : channel[i].unit = u => channel[i].state < unit[u]
    BY <1>1, <1>6, <2>1, ChannelTyped DEF EventInv, ChannelOrder
  <2>5. u \in DOMAIN batch => batch[u] < unit[u]
    <3>1. u \in DOMAIN batch => batch[u] \in Nat
      BY <1>1 DEF Typed, LookAt
    <3>2. u \in DOMAIN batch /\ batch[u] # Gone => Looked(u, batch[u])
      BY DEF EventInv, BatchOrder
    <3>3. \A n \in Nat : Looked(u, n) => n < unit[u]
      BY <1>6, <2>1
    <3> HIDE DEF new, cur
    <3> QED
      BY <2>1, <3>1, <3>2, <3>3 DEF Gone
  <2> HIDE DEF new, cur
  <2> QED
    BY <2>1, <2>2, <2>3, <2>4, <2>5
<1>8. ToldOrder'
  BY <1>1, <1>6 DEF Typed, EventInv, ToldOrder
<1>9. ChannelOrder'
  BY <1>1, <1>6, ChannelTyped DEF EventInv, ChannelOrder
<1>10. BatchOrder'
  BY <1>1, <1>6 DEF Typed, LookAt, EventInv, BatchOrder, Newest
<1>11. BatchTaken'
  BY <1>1 DEF EventInv, BatchTaken
<1> QED
  BY <1>4, <1>5, <1>7, <1>8, <1>9, <1>10, <1>11 DEF EventInv

\* processEvents takes the changes over when it has published all it had.
LEMMA TakeStep ==
    ASSUME EventInv, Take
    PROVE  EventInv'
<1>1. /\ UNCHANGED <<unit, loaded, old, channel, told>>
      /\ DOMAIN batch = {} /\ DOMAIN sending' = {}
      /\ \/ batch' = sending /\ watcher' = "publish"
         \/ batch' = batch /\ watcher' = watcher
  BY DEF Take, system, EventInv, BatchTaken, Nothing
<1>2. Typed'
  BY <1>1 DEF EventInv, Typed, LookAt
<1>3. ToldOrder' /\ ChannelOrder' /\ LastLook'
  BY <1>1
     DEF EventInv, ToldOrder, ChannelOrder, LastLook, Looked, filterUnit, isUnitWatched
<1>4. BatchOrder'
  BY <1>1 DEF EventInv, BatchOrder, SendingOrder, Looked, Newest
<1>5. SendingOrder' /\ BatchTaken'
  BY <1>1 DEF SendingOrder, BatchTaken
<1> QED
  BY <1>2, <1>3, <1>4, <1>5 DEF EventInv

LEMMA PublishStep ==
    ASSUME EventInv, Publish
    PROVE  EventInv'
<1>1. PICK u \in DOMAIN batch :
          /\ batch' = [x \in DOMAIN batch \ {u} |-> batch[x]]
          /\ IF batch[u] = Gone
             THEN channel' = channel
             ELSE channel' \in Sent([unit |-> u, state |-> batch[u]])
  BY DEF Publish
<1>2. /\ Typed /\ UNCHANGED <<unit, loaded, old, sending, told>>
      /\ watcher' = IF batch' = Nothing THEN "select" ELSE "publish"
  BY DEF EventInv, Publish, system, poller
<1>3. /\ DOMAIN batch' \subseteq DOMAIN batch \ {u}
      /\ \A x \in DOMAIN batch' : batch'[x] = batch[x]
  BY <1>1
<1>4. u \in Units /\ batch[u] \in Nat
  BY <1>2 DEF Typed, LookAt
<1> DEFINE e == [unit |-> u, state |-> batch[u]]
<1>5. channel' = channel \/ (batch[u] # Gone /\ channel' = Append(channel, e))
  BY <1>1 DEF Sent
<1>6. /\ channel' \in Seq(Event)
      /\ \A i \in DOMAIN channel' :
            \/ i \in DOMAIN channel /\ channel'[i] = channel[i]
            \/ batch[u] # Gone /\ i = Len(channel) + 1 /\ channel'[i] = e
      /\ \A i \in DOMAIN channel' : \A j \in 1..(i - 1) :
            j \in DOMAIN channel /\ channel'[j] = channel[j]
  <2>1. channel \in Seq(Event)
    BY <1>2 DEF Typed
  <2>2. CASE channel' = channel
    BY <2>1, <2>2
  <2>3. CASE batch[u] # Gone /\ channel' = Append(channel, e)
    <3>1. e \in Event
      BY <1>4, <2>3 DEF Event, Gone
    <3> HIDE DEF e
    <3> QED
      BY <2>1, <2>3, <3>1
  <2> QED
    BY <1>5, <2>2, <2>3
<1>7. e.unit = u /\ e.state = batch[u]
  OBVIOUS
<1> HIDE DEF e
<1>8. Typed'
  BY <1>2, <1>3, <1>6 DEF Typed, LookAt
<1>9. ToldOrder' /\ LastLook'
  BY <1>2 DEF EventInv, ToldOrder, LastLook, Looked, filterUnit, isUnitWatched
<1>10. batch[u] # Gone => Looked(u, batch[u]) /\ Newest(u, batch[u])
  BY DEF EventInv, BatchOrder
<1>11. ChannelOrder'
  <2> SUFFICES ASSUME NEW i \in DOMAIN channel'
               PROVE  /\ Looked(channel'[i].unit, channel'[i].state)
                      /\ told[channel'[i].unit] < channel'[i].state
                      /\ \A j \in 1..(i - 1) :
                            channel'[j].unit = channel'[i].unit
                                => channel'[j].state < channel'[i].state
    BY <1>2 DEF ChannelOrder, Looked
  <2>1. CASE i \in DOMAIN channel /\ channel'[i] = channel[i]
    BY <1>6, <2>1 DEF EventInv, ChannelOrder
  <2>2. CASE batch[u] # Gone /\ channel'[i] = e
    BY <1>6, <1>7, <1>10, <2>2 DEF Newest
  <2> QED
    BY <1>6, <2>1, <2>2
<1>12. ASSUME NEW x, NEW n \in Nat, Newest(x, n), x = u /\ batch[u] # Gone => batch[u] < n
       PROVE  Newest(x, n)'
  BY <1>2, <1>6, <1>7, <1>12 DEF Newest
<1>13. BatchOrder'
  <2> SUFFICES ASSUME NEW x \in DOMAIN batch', batch'[x] # Gone
               PROVE  Looked(x, batch[x]) /\ Newest(x, batch[x])'
    BY <1>2, <1>3 DEF BatchOrder, Looked, Newest
  <2>1. x \in DOMAIN batch /\ x # u /\ batch[x] # Gone /\ batch[x] \in Nat
    BY <1>2, <1>3 DEF Typed, LookAt
  <2>2. Newest(x, batch[x])
    BY <2>1 DEF EventInv, BatchOrder
  <2>3. \A i \in DOMAIN channel' : channel'[i].unit = x => channel'[i].state < batch[x]
    BY <1>6, <1>7, <2>1, <2>2 DEF Newest
  <2>4. batch'[x] = batch[x]
    BY <1>3
  <2> QED
    BY <1>2, <2>1, <2>2, <2>3, <2>4 DEF EventInv, BatchOrder, Newest
<1>14. SendingOrder'
  <2> SUFFICES ASSUME NEW x \in DOMAIN sending, sending[x] # Gone
               PROVE  /\ Looked(x, sending[x]) /\ told[x] < sending[x]
                      /\ \A i \in DOMAIN channel' :
                            channel'[i].unit = x => channel'[i].state < sending[x]
                      /\ x \in DOMAIN batch' => batch'[x] < sending[x]
    BY <1>2 DEF SendingOrder, Looked, Newest
  <2>1. /\ Looked(x, sending[x]) /\ Newest(x, sending[x])
        /\ x \in DOMAIN batch => batch[x] < sending[x]
    BY DEF EventInv, SendingOrder
  <2> QED
    BY <1>3, <1>6, <1>7, <2>1 DEF Newest
<1>15. BatchTaken'
  BY <1>2 DEF BatchTaken, Nothing
<1> QED
  BY <1>8, <1>9, <1>11, <1>13, <1>14, <1>15 DEF EventInv

LEMMA ReceiveStep ==
    ASSUME EventInv, Receive
    PROVE  EventInv'
<1> DEFINE e == Head(channel)
<1>1. Typed /\ UNCHANGED <<unit, loaded, old, sending, batch, watcher>>
  BY DEF EventInv, Receive, system, poller, ends
<1>2. /\ channel # <<>> /\ channel' = Tail(channel)
      /\ told' = [told EXCEPT ![e.unit] = e.state]
  BY DEF Receive
<1>3. /\ channel' \in Seq(Event)
      /\ \A i \in DOMAIN channel' :
            i \in Nat /\ i + 1 \in DOMAIN channel /\ channel'[i] = channel[i + 1]
      /\ 1 \in DOMAIN channel /\ e = channel[1]
      /\ e.unit \in Units /\ e.state \in Nat
  <2>1. channel \in Seq(Event)
    BY <1>1 DEF Typed
  <2>2. 1 \in DOMAIN channel /\ e = channel[1]
    BY <1>2, <2>1
  <2>3. e \in Event
    BY <2>1, <2>2
  <2> QED
    BY <1>2, <2>1, <2>2, <2>3 DEF Event
<1> HIDE DEF e
<1>4. \A u \in Units : told'[u] = IF u = e.unit THEN e.state ELSE told[u]
  BY <1>1, <1>2 DEF Typed
<1>5. Typed'
  BY <1>1, <1>2, <1>3 DEF Typed, LookAt
<1>6. ToldOrder' /\ LastLook'
  BY <1>1, <1>3, <1>4
     DEF EventInv, ToldOrder, ChannelOrder, LastLook, Looked, filterUnit, isUnitWatched
<1>7. ChannelOrder'
  <2> SUFFICES ASSUME NEW i \in DOMAIN channel'
               PROVE  /\ Looked(channel'[i].unit, channel'[i].state)
                      /\ told'[channel'[i].unit] < channel'[i].state
                      /\ \A j \in 1..(i - 1) :
                            channel'[j].unit = channel'[i].unit
                                => channel'[j].state < channel'[i].state
    BY <1>1 DEF ChannelOrder, Looked
  <2>1. i + 1 \in DOMAIN channel /\ channel'[i] = channel[i + 1] /\ i \in Nat /\ 1 \in 1..i
    <3>1. DOMAIN channel' = 1..Len(channel')
      BY <1>5, ChannelTyped
    <3> QED
      BY <1>3, <3>1
  <2>2. /\ Looked(channel[i + 1].unit, channel[i + 1].state)
        /\ told[channel[i + 1].unit] < channel[i + 1].state
        /\ \A j \in 1..i :
              channel[j].unit = channel[i + 1].unit => channel[j].state < channel[i + 1].state
    BY <2>1 DEF EventInv, ChannelOrder
  <2>3. told'[channel[i + 1].unit] < channel[i + 1].state
    BY <1>1, <1>3, <1>4, <2>1, <2>2, ChannelTyped
  <2>4. \A j \in 1..(i - 1) : channel'[j] = channel[j + 1] /\ j + 1 \in 1..i
    <3>1. DOMAIN channel' = 1..Len(channel') /\ Len(channel') \in Nat
      BY <1>5, ChannelTyped
    <3> QED
      BY <1>3, <2>1, <3>1
  <2> QED
    BY <2>1, <2>2, <2>3, <2>4
<1>8. ASSUME NEW u \in Units, NEW n \in Nat, Newest(u, n)
      PROVE  /\ told'[u] < n
             /\ \A i \in DOMAIN channel' : channel'[i].unit = u => channel'[i].state < n
  BY <1>3, <1>4, <1>8 DEF Newest
<1>9. BatchOrder'
  BY <1>1, <1>8 DEF EventInv, BatchOrder, Typed, LookAt, Looked, Newest
<1>10. SendingOrder'
  BY <1>1, <1>8 DEF EventInv, SendingOrder, Typed, LookAt, Looked, Newest
<1>11. BatchTaken'
  BY <1>1 DEF EventInv, BatchTaken
<1> QED
  BY <1>5, <1>6, <1>7, <1>9, <1>10, <1>11 DEF EventInv

LEMMA InitEvents == Init => EventInv
<1> SUFFICES ASSUME Init
             PROVE  EventInv
  OBVIOUS
<1>1. Typed
  BY DEF Init, Typed, LookAt, Nothing, Gone
<1>2. ToldOrder
  <2> SUFFICES ASSUME NEW u \in Units
               PROVE  Looked(u, told[u])
    BY DEF ToldOrder
  <2>1. told[u] = 0 /\ unit[u] = 1 /\ u \notin DOMAIN old
    BY DEF Init, Nothing, Gone
  <2> QED
    BY <2>1 DEF Looked
<1>3. ChannelOrder /\ BatchOrder /\ SendingOrder /\ LastLook /\ BatchTaken
  BY DEF Init, ChannelOrder, BatchOrder, SendingOrder, LastLook, BatchTaken, Nothing
<1> QED
  BY <1>1, <1>2, <1>3 DEF EventInv

LEMMA NextEvents == EventInv /\ [Next]_vars => EventInv'
<1> SUFFICES ASSUME EventInv, [Next]_vars
             PROVE  EventInv'
  OBVIOUS
<1>1. ASSUME UNCHANGED <<unit, loaded, old, sending, batch, channel, told>>,
             watcher' = watcher \/ watcher' = "ended"
      PROVE  EventInv'
  BY <1>1
     DEF EventInv, Typed, LookAt, ToldOrder, ChannelOrder, BatchOrder, SendingOrder, LastLook,
         BatchTaken, Looked, Newest, filterUnit, isUnitWatched
<1>2. CASE PollFails \/ StopWatcher \/ StopConsumer \/ Cancel \/ UNCHANGED vars
  BY <1>1, <1>2
     DEF PollFails, StopWatcher, StopConsumer, Cancel, vars, system, poller, ends, queue
<1> QED
  BY <1>2, ChangeStep, PollStep, TakeStep, PublishStep, ReceiveStep DEF Next

\* What the agent reads of a unit comes in the order in which the unit went through
\* its states, and nothing twice: a change waits until the one before it has been
\* published or dropped, and a unit is looked at again only with all that it sent
\* before behind it.
THEOREM EventsInOrder == Spec => []InOrder
<1>1. EventInv => InOrder
  BY DEF EventInv, InOrder, ChannelOrder, Looked
<1> QED
  BY <1>1, InitEvents, NextEvents, PTL DEF Spec

=============================================================================
