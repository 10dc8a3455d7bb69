------------------------------- MODULE Pacing -------------------------------
(***************************************************************************)
(* The pacing of a sampling loop, the same in Sampler::run, run_top and    *)
(* the workers of run_multi: sleep until the next sample is due, move the  *)
(* due time on by one interval, and when it is left far behind snap it     *)
(* forward instead of catching up.                                         *)
(*                                                                         *)
(* Time is counted in ticks and may pass between any two steps of the      *)
(* loop: the thread is preempted, a sleep overruns, a sample is slow.      *)
(***************************************************************************)
EXTENDS Integers

CONSTANTS
  Interval,    \* ticks between samples; 0 for rates above 1 GHz
  Deadline,    \* --duration-secs in ticks, 0 = run forever
  MaxTime,     \* bound: the clock stops here
  MaxSamples   \* bound: samples taken

ASSUME PacingAssumption == {Interval, Deadline, MaxTime, MaxSamples} \subseteq Nat

VARIABLES
  now,      \* Instant::now(), from the start of the loop
  next,     \* when the next sample is due
  pc,       \* where the loop is
  taken,    \* samples taken so far
  last,     \* when the newest sample was taken
  late,     \* samples taken at or after the deadline
  mark      \* one sample taken earlier, any one: its number and its time

vars == <<now, next, pc, taken, last, late, mark>>

PCs == {"check", "pace", "sleep", "advance", "lag", "snap", "sample", "done"}

TypeOK ==
  /\ now \in Nat
  /\ next \in Nat
  /\ pc \in PCs
  /\ taken \in Nat
  /\ last \in Nat
  /\ late \in Nat
  /\ mark \in [n : Nat, at : Nat]

Init ==
  /\ now = 0
  /\ next = 0
  /\ pc = "check"
  /\ taken = 0
  /\ last = 0
  /\ late = 0
  /\ mark = [n |-> 0, at |-> 0]

\* start.elapsed() >= d
Expired == Deadline > 0 /\ now >= Deadline

\* Mutant: the duration is never looked at.
ChecksNothing ==
  /\ pc = "check"
  /\ pc' = "pace"
  /\ UNCHANGED <<now, next, taken, last, late, mark>>

CheckDeadline ==
  /\ pc = "check"
  /\ pc' = IF Expired THEN "done" ELSE "pace"
  /\ UNCHANGED <<now, next, taken, last, late, mark>>

\* let now = Instant::now(); if now < next ...
Pace ==
  /\ pc = "pace"
  /\ pc' = IF now < next THEN "sleep" ELSE "advance"
  /\ UNCHANGED <<now, next, taken, last, late, mark>>

\* Mutant: the sleep may be cut short.
WakeEarly ==
  /\ pc = "sleep"
  /\ pc' = "advance"
  /\ UNCHANGED <<now, next, taken, last, late, mark>>

\* A sleep never ends early; it may end late.
WakeUp ==
  /\ pc = "sleep"
  /\ now >= next
  /\ pc' = "advance"
  /\ UNCHANGED <<now, next, taken, last, late, mark>>

Advance ==
  /\ pc = "advance"
  /\ next' = next + Interval
  /\ pc' = "lag"
  /\ UNCHANGED <<now, taken, last, late, mark>>

\* Mutant: every missed sample is caught up on.
NeverBehind == FALSE

FarBehind == now > next + Interval * 4

CheckLag ==
  /\ pc = "lag"
  /\ pc' = IF FarBehind THEN "snap" ELSE "sample"
  /\ UNCHANGED <<now, next, taken, last, late, mark>>

Snap ==
  /\ pc = "snap"
  /\ next' = now + Interval
  /\ pc' = "sample"
  /\ UNCHANGED <<now, taken, last, late, mark>>

\* The sample is taken, at this moment; it may be the one to remember.
Sample ==
  /\ pc = "sample"
  /\ taken < MaxSamples
  /\ taken' = taken + 1
  /\ last' = now
  /\ late' = late + IF Expired THEN 1 ELSE 0
  /\ \/ mark' = mark
     \/ mark' = [n |-> taken', at |-> now]
  /\ pc' = "check"
  /\ UNCHANGED <<now, next>>

Elapse ==
  /\ pc # "done"
  /\ now < MaxTime
  /\ now' = now + 1
  /\ UNCHANGED <<next, pc, taken, last, late, mark>>

Next ==
  \/ CheckDeadline \/ Pace \/ WakeUp \/ Advance \/ CheckLag \/ Snap \/ Sample
  \/ Elapse

Spec == Init /\ [][Next]_vars

(***************************************************************************)
(* Properties                                                              *)
(***************************************************************************)

\* --rate-hz is never exceeded on average: whatever delays the loop meets, the
\* k-th sample is not taken before k-1 intervals have gone by.
RateBound == taken > 0 => last >= (taken - 1) * Interval

\* Catching up is bounded: counted from any sample, at most six later ones are
\* taken before a whole interval has gone by, and from then on one an interval
\* ("rather than sampling in a tight catch-up loop").
BurstBound ==
  mark.n > 0 => last >= mark.at + (taken - mark.n - 6) * Interval

\* At most one sample is taken once the duration is over: the one whose
\* iteration had begun.
OneLateSample == late <= 1
=============================================================================
