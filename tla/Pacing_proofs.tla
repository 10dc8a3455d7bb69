--------------------------- MODULE Pacing_proofs ---------------------------
(***************************************************************************)
(* The pacing bounds for every interval and deadline, however long the     *)
(* thread is held up between any two steps.                                *)
(***************************************************************************)
EXTENDS Pacing, TLAPS

USE PacingAssumption

LEMMA Distributes ==
  ASSUME NEW a \in Int, NEW b \in Int, NEW c \in Int
  PROVE  a * c \in Int /\ (a + b) * c = a * c + b * c
OBVIOUS

(***************************************************************************)
(* Types                                                                   *)
(***************************************************************************)

LEMMA NextType == TypeOK /\ [Next]_vars => TypeOK'
<1> SUFFICES ASSUME TypeOK, [Next]_vars PROVE TypeOK'  OBVIOUS
<1> USE DEF TypeOK, PCs
<1>1. CASE CheckDeadline  BY <1>1 DEF CheckDeadline
<1>2. CASE Pace  BY <1>2 DEF Pace
<1>3. CASE WakeUp  BY <1>3 DEF WakeUp
<1>4. CASE Advance  BY <1>4 DEF Advance
<1>5. CASE CheckLag  BY <1>5 DEF CheckLag
<1>6. CASE Snap  BY <1>6 DEF Snap
<1>7. CASE Sample
  <2>1. taken' \in Nat /\ late' \in Nat  BY <1>7 DEF Sample
  <2>2. mark' \in [n : Nat, at : Nat]  BY <1>7, <2>1 DEF Sample
  <2>3. QED  BY <1>7, <2>1, <2>2 DEF Sample
<1>8. CASE Elapse  BY <1>8 DEF Elapse
<1>9. CASE UNCHANGED vars  BY <1>9 DEF vars
<1> QED
  BY <1>1, <1>2, <1>3, <1>4, <1>5, <1>6, <1>7, <1>8, <1>9 DEF Next

\* Every variable of the loop keeps its type: the due time never falls below
\* the start of the loop.
THEOREM TypeCorrect == Spec => []TypeOK
<1>1. Init => TypeOK  BY DEF Init, TypeOK, PCs
<1> QED  BY <1>1, NextType, PTL DEF Spec

(***************************************************************************)
(* The average rate                                                        *)
(***************************************************************************)

\* The due time has moved on by an interval for every sample taken, and a
\* sample is not taken before it.
RateInv ==
  /\ pc \in {"check", "pace", "sleep", "advance"} => next >= taken * Interval
  /\ pc = "advance" => now >= next
  /\ pc \in {"lag", "snap", "sample"} =>
       next >= taken * Interval + Interval /\ now >= taken * Interval
  /\ RateBound

LEMMA RateStep == TypeOK /\ RateInv /\ [Next]_vars => RateInv'
<1> SUFFICES ASSUME TypeOK, RateInv, [Next]_vars PROVE RateInv'  OBVIOUS
<1>1. now \in Nat /\ next \in Nat /\ taken \in Nat /\ Interval \in Nat /\ last \in Nat
  BY DEF TypeOK
<1>2. taken * Interval \in Nat
      /\ (taken + 1) * Interval = taken * Interval + Interval
  BY <1>1, Distributes
<1> USE DEF RateInv, RateBound
<1>3. CASE CheckDeadline  BY <1>3 DEF CheckDeadline
<1>4. CASE Pace  BY <1>1, <1>4 DEF Pace
<1>5. CASE WakeUp  BY <1>5 DEF WakeUp
<1>6. CASE Advance
  BY <1>1, <1>2, <1>6 DEF Advance
<1>7. CASE CheckLag  BY <1>7 DEF CheckLag
<1>8. CASE Snap  BY <1>1, <1>2, <1>8 DEF Snap
<1>9. CASE Sample  BY <1>1, <1>2, <1>9 DEF Sample
<1>10. CASE Elapse  BY <1>1, <1>2, <1>10 DEF Elapse
<1>11. CASE UNCHANGED vars  BY <1>11 DEF vars
<1> QED
  BY <1>3, <1>4, <1>5, <1>6, <1>7, <1>8, <1>9, <1>10, <1>11 DEF Next

\* The configured rate is never exceeded on average.
THEOREM RateBounded == Spec => []RateBound
<1>1. Init => RateInv  BY DEF Init, RateInv, RateBound
<1>2. RateInv => RateBound  BY DEF RateInv
<1> QED  BY <1>1, <1>2, RateStep, TypeCorrect, PTL DEF Spec

(***************************************************************************)
(* One late sample                                                         *)
(***************************************************************************)

LateInv ==
  /\ late = 0 \/ late = 1
  /\ late = 1 => Expired /\ pc \in {"check", "done"}

LEMMA LateStep == TypeOK /\ LateInv /\ [Next]_vars => LateInv'
BY DEF TypeOK, LateInv, Next, vars, Expired, CheckDeadline, Pace, WakeUp, Advance,
       CheckLag, Snap, Sample, Elapse

\* At most the one sample whose iteration had begun is taken after the end of
\* the duration, however long its sleep was.
THEOREM LateBounded == Spec => []OneLateSample
<1>1. Init => LateInv  BY DEF Init, LateInv
<1>2. LateInv => OneLateSample  BY DEF LateInv, OneLateSample
<1> QED  BY <1>1, <1>2, LateStep, TypeCorrect, PTL DEF Spec

(***************************************************************************)
(* Catching up                                                             *)
(***************************************************************************)

\* The time before which the k-th sample from now is not due, counted from the
\* marked one.
Bound(k) == mark.at + (taken + k - mark.n - 6) * Interval

\* From the first lag check after the marked sample on, the due time is at
\* most four intervals behind the marked sample, and every further sample
\* moves it on by one.
BurstInv ==
  /\ mark.n <= taken
  /\ taken > 0 => last <= now
  /\ mark.at <= now
  /\ BurstBound
  /\ mark.n > 0 =>
       /\ pc \in {"check", "pace", "sleep", "advance"} /\ mark.n < taken =>
            next >= Bound(1)
       /\ pc = "advance" => now >= next
       /\ pc \in {"lag", "snap"} /\ mark.n < taken => next >= Bound(2) /\ now >= Bound(1)
       /\ pc = "sample" => next >= Bound(2) /\ now >= Bound(1)

LEMMA BurstStep == TypeOK /\ BurstInv /\ [Next]_vars => BurstInv'
<1> SUFFICES ASSUME TypeOK, BurstInv, [Next]_vars PROVE BurstInv'  OBVIOUS
<1>1. /\ now \in Nat /\ next \in Nat /\ taken \in Nat /\ last \in Nat
      /\ Interval \in Nat /\ mark.n \in Nat /\ mark.at \in Nat
  BY DEF TypeOK
<1>2. /\ \A k \in {0, 1, 2} : Bound(k) \in Int
      /\ Bound(1) = Bound(0) + Interval
      /\ Bound(2) = Bound(1) + Interval
  <2>1. ASSUME NEW k \in {0, 1, 2}
        PROVE  Bound(k) \in Int /\ Bound(k + 1) = Bound(k) + Interval
    <3> DEFINE a == taken + k - mark.n - 6
    <3>1. a \in Int /\ 1 \in Int /\ Interval \in Int
          /\ taken + (k + 1) - mark.n - 6 = a + 1
      BY <1>1
    <3> HIDE DEF a
    <3>2. a * Interval \in Int /\ (a + 1) * Interval = a * Interval + 1 * Interval
      BY <3>1, Distributes
    <3>3. Bound(k) = mark.at + a * Interval  BY DEF Bound, a
    <3>4. Bound(k + 1) = mark.at + (a + 1) * Interval  BY <3>1 DEF Bound
    <3>5. QED  BY <1>1, <3>2, <3>3, <3>4
  <2>2. Bound(0 + 1) = Bound(1) /\ Bound(1 + 1) = Bound(2)  OBVIOUS
  <2>3. QED  BY <2>1, <2>2
\* With the marked sample the newest one, the bounds lie before it.
<1>3. mark.n = taken => /\ Bound(0) <= mark.at
                        /\ Bound(1) <= mark.at
                        /\ Bound(2) = mark.at - 4 * Interval
  <2> SUFFICES ASSUME mark.n = taken
               PROVE  /\ Bound(0) = mark.at - 6 * Interval
                      /\ Bound(1) = mark.at - 5 * Interval
                      /\ Bound(2) = mark.at - 4 * Interval
    BY <1>1
  <2>1. taken + 0 - mark.n - 6 = -6 /\ taken + 1 - mark.n - 6 = -5
        /\ taken + 2 - mark.n - 6 = -4
    BY <1>1
  <2>2. QED  BY <1>1, <2>1 DEF Bound
<1>4. BurstBound <=> (mark.n > 0 => last >= Bound(0))  BY <1>1 DEF BurstBound, Bound
<1> DEFINE Still == UNCHANGED <<taken, last, mark>>
<1>5. Still => /\ Bound(0)' = Bound(0) /\ Bound(1)' = Bound(1) /\ Bound(2)' = Bound(2)
               /\ BurstBound' = BurstBound
  BY DEF Bound, BurstBound
<1> HIDE DEF Still
<1>6. CASE CheckDeadline
  <2>1. Still  BY <1>6 DEF CheckDeadline, Still
  <2>2. QED  BY <1>5, <1>6, <2>1 DEF CheckDeadline, BurstInv
<1>7. CASE Pace
  <2>1. Still  BY <1>7 DEF Pace, Still
  <2>2. QED  BY <1>1, <1>5, <1>7, <2>1 DEF Pace, BurstInv
<1>8. CASE WakeUp
  <2>1. Still  BY <1>8 DEF WakeUp, Still
  <2>2. QED  BY <1>5, <1>8, <2>1 DEF WakeUp, BurstInv
<1>9. CASE Advance
  <2>1. Still  BY <1>9 DEF Advance, Still
  <2>2. QED  BY <1>1, <1>2, <1>5, <1>9, <2>1 DEF Advance, BurstInv
<1>10. CASE CheckLag
  <2>1. Still  BY <1>10 DEF CheckLag, Still
  <2>2. QED
    BY <1>1, <1>2, <1>3, <1>5, <1>10, <2>1 DEF CheckLag, FarBehind, BurstInv
<1>11. CASE Snap
  <2>1. Still  BY <1>11 DEF Snap, Still
  <2>2. QED  BY <1>1, <1>2, <1>3, <1>5, <1>11, <2>1 DEF Snap, BurstInv
<1>12. CASE Sample
  <2>1. CASE mark' = mark
    <3>1. Bound(0)' = Bound(1) /\ Bound(1)' = Bound(2)
      BY <1>1, <1>12, <2>1 DEF Sample, Bound
    <3>2. BurstBound' <=> (mark.n > 0 => last' >= Bound(0)')
      BY <1>1, <1>12, <2>1 DEF Sample, BurstBound, Bound
    <3>3. QED
      BY <1>1, <1>2, <1>12, <2>1, <3>1, <3>2 DEF Sample, BurstInv
  <2>2. CASE mark' = [n |-> taken', at |-> now]
    <3>1. mark'.n = taken' /\ mark'.at = now /\ taken' = taken + 1 /\ last' = now
      BY <1>12, <2>2 DEF Sample
    <3>2. (taken' - mark'.n - 6) * Interval = -6 * Interval
      BY <1>1, <3>1
    <3>3. BurstBound'  BY <1>1, <3>1, <3>2 DEF BurstBound
    <3>4. QED  BY <1>1, <1>12, <3>1, <3>3 DEF Sample, BurstInv
  <2>3. QED  BY <1>12, <2>1, <2>2 DEF Sample
<1>13. CASE Elapse
  <2>1. Still  BY <1>13 DEF Elapse, Still
  <2>2. QED  BY <1>1, <1>2, <1>5, <1>13, <2>1 DEF Elapse, BurstInv
<1>14. CASE UNCHANGED vars  BY <1>14 DEF vars, BurstInv, BurstBound, Bound
<1> QED
  BY <1>6, <1>7, <1>8, <1>9, <1>10, <1>11, <1>12, <1>13, <1>14 DEF Next

\* After any sample at most six more are taken before an interval has passed:
\* a stalled loop does not spin to make up for what it missed.
THEOREM BurstBounded == Spec => []BurstBound
<1>1. Init => BurstInv  BY DEF Init, BurstInv, BurstBound
<1>2. BurstInv => BurstBound  BY DEF BurstInv
<1> QED  BY <1>1, <1>2, BurstStep, TypeCorrect, PTL DEF Spec
=============================================================================
