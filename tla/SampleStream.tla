---------------------------- MODULE SampleStream ----------------------------
(***************************************************************************)
(* What a multi-process profiling run promises about its samples, whatever *)
(* threads, channels and timers it is made of: the samples of each worker  *)
(* reach the sink in the order they were taken and once each; after the    *)
(* run was told to stop a worker takes at most one more sample; and when   *)
(* the run returns at most one sample of each worker was not written.      *)
(***************************************************************************)
EXTENDS Naturals

CONSTANT Threads        \* the worker threads a run may ever start

VARIABLES
  phase,                \* "sampling", "stopping" or "returned"
  sent,                 \* samples each worker has handed over
  delivered,            \* samples of each worker written to the sink
  grace                 \* may the worker still take a sample once stopping?

vars == <<phase, sent, delivered, grace>>

Init ==
  /\ phase = "sampling"
  /\ sent = [t \in Threads |-> 0]
  /\ delivered = [t \in Threads |-> 0]
  /\ grace = [t \in Threads |-> TRUE]

\* Worker t takes a sample and hands it over; once stopping, it uses up the
\* one it may still take.
Sample(t) ==
  /\ phase # "returned"
  /\ grace[t]
  /\ sent' = [sent EXCEPT ![t] = @ + 1]
  /\ grace' = [grace EXCEPT ![t] = (phase = "sampling")]
  /\ UNCHANGED <<phase, delivered>>

\* The oldest unwritten sample of t is written.
Deliver(t) ==
  /\ phase # "returned"
  /\ delivered[t] < sent[t]
  /\ delivered' = [delivered EXCEPT ![t] = @ + 1]
  /\ UNCHANGED <<phase, sent, grace>>

\* The run is told to stop; some workers have already seen it.
Stop ==
  /\ phase = "sampling"
  /\ phase' = "stopping"
  /\ grace' \in [Threads -> BOOLEAN]
  /\ UNCHANGED <<sent, delivered>>

\* A worker stops without having used its last sample.
Retire(t) ==
  /\ phase = "stopping"
  /\ grace' = [grace EXCEPT ![t] = FALSE]
  /\ UNCHANGED <<phase, sent, delivered>>

\* The run is over: no worker can sample, and almost all was written.
Return ==
  /\ phase = "stopping"
  /\ \A t \in Threads : ~grace[t] /\ sent[t] - delivered[t] \in {0, 1}
  /\ phase' = "returned"
  /\ UNCHANGED <<sent, delivered, grace>>

\* The run fails before any worker was started.
Abort ==
  /\ phase = "sampling"
  /\ \A t \in Threads : sent[t] = 0
  /\ phase' = "returned"
  /\ grace' = [t \in Threads |-> FALSE]
  /\ UNCHANGED <<sent, delivered>>

Next ==
  \/ \E t \in Threads : Sample(t) \/ Deliver(t) \/ Retire(t)
  \/ Stop
  \/ Return
  \/ Abort

Spec == Init /\ [][Next]_vars
=============================================================================
