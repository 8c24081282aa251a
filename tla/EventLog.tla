------------------------------ MODULE EventLog ------------------------------
(***************************************************************************)
(* What a user of FPSpy's individual mode is promised: for each thread an  *)
(* append-only log of its floating point events, every SamplePeriod-th of  *)
(* them, in program order, closed by an abort record if FPSpy got out of   *)
(* the way.  Registers, signals, buffers and processes do not appear.      *)
(***************************************************************************)
EXTENDS Integers, Sequences

CONSTANTS Threads, SamplePeriod

VARIABLES
  log,     \* thread -> its records: event numbers, 0 for the abort record
  events,  \* thread -> the events observed
  open     \* thread -> whether it is still observed

Init ==
  /\ log = [t \in Threads |-> <<>>]
  /\ events = [t \in Threads |-> 0]
  /\ open = [t \in Threads |-> TRUE]

(* An event is observed, and recorded if it is its turn.                   *)
Event(t) ==
  /\ open[t]
  /\ events' = [events EXCEPT ![t] = @ + 1]
  /\ log' = IF events[t] % SamplePeriod = 0
            THEN [log EXCEPT ![t] = Append(@, events[t] + 1)]
            ELSE log
  /\ open' = open

(* The thread is given up, once.                                           *)
GiveUp(t) ==
  /\ open[t]
  /\ open' = [open EXCEPT ![t] = FALSE]
  /\ log' = [log EXCEPT ![t] = Append(@, 0)]
  /\ events' = events

Next == \E t \in Threads : Event(t) \/ GiveUp(t)

Spec == Init /\ [][Next]_<<log, events, open>>

=============================================================================
