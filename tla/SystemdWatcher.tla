--------------------------- MODULE SystemdWatcher ---------------------------
(***************************************************************************)
(* pkg/systemd's Watcher and the agent's handleSystemdEvents: the polling  *)
(* goroutine of go-systemd (external), which blocks on unbuffered          *)
(* channels, the goroutine of processEvents, which never blocks on the     *)
(* event channel, and the goroutine of the agent that reads it.            *)
(***************************************************************************)
EXTENDS Integers, Sequences

CONSTANTS Units,       \* systemd units
          Watched,     \* the list NewWatcher is given
          Capacity,    \* of the event channel
          MaxChanges   \* bound: changes of units and failing polls

ASSUME WatcherAssumption ==
    Watched \subseteq Units /\ Capacity \in Nat \ {0} /\ MaxChanges \in Nat

VARIABLES unit,       \* the number of the state each unit is in
          loaded,     \* the units systemd knows
          changes,    \* changes and failures so far
          old,        \* the poller's last look, a function on the units it saw
          sending,    \* what the poller blocks on: changes, or nothing
          failed,     \* the poller blocks on an error
          batch,      \* the changes processEvents is publishing
          channel,    \* eventChan
          cancelled,  \* ctx is done
          watcher,    \* where processEvents is; its end closes eventChan
          consumer,   \* where handleSystemdEvents is
          told,       \* history: the last event the agent read of each unit
          dropped     \* history: the units whose last event was dropped

system == <<unit, loaded, changes>>
poller == <<old, sending, failed>>
ends   == <<cancelled, watcher, consumer>>
queue  == <<batch, channel, dropped>>
vars   == <<system, poller, ends, queue, told>>

\* No changes; a unit that is gone.
Nothing == [u \in {} |-> 0]
Gone    == 0

\* The states of a unit are numbered as they come; number n looks like this.
ActiveState(n) == IF n % 3 = 2 THEN "failed" ELSE "active"
SubState(n)    == IF n % 3 = 1 THEN "running" ELSE "other"

\* Mutant: only a change of both states is a change.
isStateChangedBoth(m, n) == ActiveState(m) # ActiveState(n) /\ SubState(m) # SubState(n)

isStateChanged(m, n) == ActiveState(m) # ActiveState(n) \/ SubState(m) # SubState(n)

isUnitWatched(u) == Watched = {} \/ u \in Watched

-----------------------------------------------------------------------------
(* systemd, and the poller of SubscribeUnitsCustom: the function that is   *)
(* handed to it says which units it leaves out.                            *)
filterUnit(u) == isUnitWatched(u)

Happens == changes < MaxChanges /\ changes' = changes + 1

Change ==
    /\ Happens
    /\ \E u \in Units :
          \/ u \in loaded /\ unit' = [unit EXCEPT ![u] = @ + 1] /\ UNCHANGED loaded
          \/ u \in loaded /\ loaded' = loaded \ {u} /\ UNCHANGED unit
          \/ u \notin loaded /\ loaded' = loaded \cup {u} /\ unit' = [unit EXCEPT ![u] = @ + 1]
    /\ UNCHANGED <<poller, ends, queue, told>>

\* One look at the units: what is new, changed or gone is sent.
Poll ==
    LET cur == [u \in {x \in loaded : ~filterUnit(x)} |-> unit[u]]
        new == {u \in DOMAIN cur : u \notin DOMAIN old \/ isStateChanged(old[u], cur[u])}
    IN
    /\ sending = Nothing /\ ~failed
    /\ old' = cur
    /\ sending' = [u \in new \cup (DOMAIN old \ DOMAIN cur) |->
                      IF u \in new THEN cur[u] ELSE Gone]
    /\ UNCHANGED <<system, failed, ends, queue, told>>

PollFails ==
    /\ sending = Nothing /\ ~failed
    /\ Happens
    /\ failed' = TRUE
    /\ UNCHANGED <<unit, loaded, old, sending, ends, queue, told>>

-----------------------------------------------------------------------------
(* processEvents.                                                          *)

Take ==
    /\ watcher = "select"
    /\ \/ sending # Nothing /\ batch' = sending /\ watcher' = "publish"
       \/ failed /\ UNCHANGED <<batch, watcher>>
    /\ sending' = Nothing /\ failed' = FALSE
    /\ UNCHANGED <<system, old, channel, dropped, cancelled, consumer, told>>

\* The channels that may result from sending e; none if the sender blocks.
\* Mutants: every event is sent by a goroutine of its own; the send blocks.
SentAsync(e) ==
    IF Len(channel) < Capacity
    THEN {SubSeq(channel, 1, i) \o <<e>> \o SubSeq(channel, i + 1, Len(channel)) :
             i \in 0..Len(channel)}
    ELSE {channel}
SentBlocking(e) == IF Len(channel) < Capacity THEN {Append(channel, e)} ELSE {}

Sent(e) == IF Len(channel) < Capacity THEN {Append(channel, e)} ELSE {channel}

\* handleChanges ranges over a map: in any order. A unit that is gone makes no event.
Publish ==
    /\ watcher = "publish"
    /\ \E u \in DOMAIN batch :
          /\ batch' = [x \in DOMAIN batch \ {u} |-> batch[x]]
          /\ IF batch[u] = Gone
             THEN UNCHANGED <<channel, dropped>>
             ELSE /\ channel' \in Sent([unit |-> u, state |-> batch[u]])
                  /\ dropped' = IF channel' = channel THEN dropped \cup {u} ELSE dropped \ {u}
    /\ watcher' = IF batch' = Nothing THEN "select" ELSE "publish"
    /\ UNCHANGED <<system, poller, cancelled, consumer, told>>

\* The deferred close.
StopWatcher ==
    /\ watcher = "select" /\ cancelled
    /\ watcher' = "ended"
    /\ UNCHANGED <<system, poller, queue, cancelled, consumer, told>>

-----------------------------------------------------------------------------
(* handleSystemdEvents, and the signal.                                    *)

Receive ==
    /\ consumer = "receiving"
    /\ channel # <<>>
    /\ told' = [told EXCEPT ![Head(channel).unit] = Head(channel).state]
    /\ channel' = Tail(channel)
    /\ UNCHANGED <<system, poller, ends, batch, dropped>>

StopConsumer ==
    /\ consumer = "receiving"
    /\ cancelled \/ (watcher = "ended" /\ channel = <<>>)
    /\ consumer' = "ended"
    /\ UNCHANGED <<system, poller, queue, cancelled, watcher, told>>

Cancel ==
    /\ ~cancelled
    /\ cancelled' = TRUE
    /\ UNCHANGED <<system, poller, queue, watcher, consumer, told>>

-----------------------------------------------------------------------------
Init ==
    /\ unit = [u \in Units |-> 1]
    /\ loaded \in SUBSET Units
    /\ changes = 0
    /\ old = Nothing /\ sending = Nothing /\ failed = FALSE
    /\ batch = Nothing /\ channel = <<>>
    /\ cancelled = FALSE
    /\ watcher = "select" /\ consumer = "receiving"
    /\ told = [u \in Units |-> Gone]
    /\ dropped = {}

Next ==
    \/ Change \/ Poll \/ PollFails \/ Cancel
    \/ Take \/ Publish \/ StopWatcher
    \/ Receive \/ StopConsumer

\* The three goroutines run on; select chooses at random, so that it sees the
\* done context sooner or later.
Spec ==
    /\ Init /\ [][Next]_vars
    /\ WF_vars(Poll) /\ WF_vars(Take \/ Publish) /\ WF_vars(Receive)
    /\ SF_vars(StopWatcher) /\ SF_vars(StopConsumer)

-----------------------------------------------------------------------------
\* The events of a unit reach the agent in the order of its states, and no event
\* twice, through all polls, batches in any order, and drops.
InOrder ==
    \A i \in DOMAIN channel :
        LET e == channel[i] IN
        /\ told[e.unit] < e.state /\ e.state <= unit[e.unit]
        /\ \A j \in 1..(i - 1) : channel[j].unit = e.unit => channel[j].state < e.state

\* The last event of a unit that stays shows the agent what it looks like.
Known(u) ==
    /\ ActiveState(told[u]) = ActiveState(unit[u])
    /\ SubState(told[u]) = SubState(unit[u])

\* When the units come to rest, the agent has learned what each one that is not
\* filtered out looks like, unless its last event met a full channel.
EventuallyKnown ==
    <>[](cancelled \/ \A u \in loaded \ dropped : ~filterUnit(u) => told[u] # Gone /\ Known(u))

\* A done context ends both goroutines, even with the channel full and no reader.
CancelledEnds == cancelled ~> watcher = "ended" /\ consumer = "ended"

\* "If units is empty, watches all units" (watcher.go:35).
EmptyWatchesAll ==
    Watched = {} => <>[](cancelled \/ \A u \in loaded \ dropped : told[u] # Gone /\ Known(u))

=============================================================================
