------------------------------ MODULE RunLedger ------------------------------
(***************************************************************************)
(* What the fleet promises about playbook executions, without agents,      *)
(* messages or processes: an execution begins once, ends once, and its     *)
(* outcome enters the book at most once and never changes or leaves it. An *)
(* execution or an outcome may be lost at any moment before that.          *)
(***************************************************************************)
EXTENDS Sequences

VARIABLES started,  \* every execution so far
          running,  \* those under way
          pending,  \* outcomes on their way to the book
          book      \* outcomes recorded, oldest first

ledgerVars == <<started, running, pending, book>>

Outcome(run, status) == [run |-> run, status |-> status]

Init ==
    /\ started = {}
    /\ running = {}
    /\ pending = {}
    /\ book = <<>>

Begin(run) ==
    /\ run \notin started
    /\ started' = started \cup {run}
    /\ running' = running \cup {run}
    /\ UNCHANGED <<pending, book>>

Finish(run, status) ==
    /\ run \in running
    /\ running' = running \ {run}
    /\ pending' = pending \cup {Outcome(run, status)}
    /\ UNCHANGED <<started, book>>

Record(outcome) ==
    /\ outcome \in pending
    /\ pending' = pending \ {outcome}
    /\ book' = Append(book, outcome)
    /\ UNCHANGED <<started, running>>

Lose ==
    /\ running' \subseteq running
    /\ pending' \subseteq pending
    /\ UNCHANGED <<started, book>>

\* Stated without a set of all executions: what begins is what is new.
Next ==
    \/ \E run \in started' : Begin(run)
    \/ \E outcome \in pending' : Finish(outcome.run, outcome.status)
    \/ \E outcome \in pending : Record(outcome)
    \/ Lose

Spec == Init /\ [][Next]_ledgerVars

=============================================================================
