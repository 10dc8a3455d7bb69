------------------------ MODULE PtraceAttach_proofs ------------------------
(***************************************************************************)
(* Type correctness of the attach and what it leaves behind, for any set   *)
(* of threads, any deadline, with and without other signals and tasks that *)
(* are held up.                                                            *)
(***************************************************************************)
EXTENDS PtraceAttach, TLAPS

USE TasksAssumption, DeadlineAssumption, FlagsAssumption

(***************************************************************************)
(* Types                                                                   *)
(***************************************************************************)

\* A task is picked before anything is done to it, and a sleep has some of its
\* time left; a trapped task stopped at a signal.
PickInv ==
  /\ pc = "pick" <=> tid = None
  /\ traced \in {None, tid}
  /\ pc = "sleep" => nap > 0
  /\ \A t \in Tasks : mode[t] = "trapped" => trapSig[t] \in Signals

TypeInv == TypeOK /\ PickInv

LEMMA InitType == Init => TypeInv
<1> SUFFICES ASSUME Init PROVE TypeInv  OBVIOUS
<1>1. mode \in [Tasks -> {"running", "blocked"}]
  <2>1. CASE MayBlock  BY <2>1 DEF Init
  <2>2. CASE ~MayBlock  BY <2>2 DEF Init
  <2>3. QED  BY <2>1, <2>2
<1>2. groupStop \in BOOLEAN  BY DEF Init
<1>3. QED  BY <1>1, <1>2 DEF Init, TypeInv, TypeOK, PickInv, Signals

LEMMA NextType == TypeInv /\ [Next]_vars => TypeInv'
<1> SUFFICES ASSUME TypeInv, [Next]_vars PROVE TypeInv'  OBVIOUS
<1> USE DEF TypeInv, TypeOK, PickInv, Signals, taskVars, tracerVars
<1>1. CASE PickTask  BY <1>1 DEF PickTask
<1>2. CASE Attach  BY <1>2 DEF Attach
<1>3. CASE AttachFails  BY <1>3 DEF AttachFails
<1>4. CASE PollAgain  BY <1>4 DEF PollAgain
<1>5. CASE PollGivesUp  BY <1>5 DEF PollGivesUp
<1>6. CASE PollStopped  BY <1>6 DEF PollStopped
<1>7. CASE PollOther  BY <1>7 DEF PollOther
<1>8. CASE ReadRegister  BY <1>8 DEF ReadRegister
<1>9. CASE Detach  BY <1>9 DEF Detach
<1>10. CASE ResolveCache  BY <1>10 DEF ResolveCache
<1>11. CASE TracerEnds
  <2>1. CASE traced # None /\ mode[traced] = "trapped"
    BY <1>11, <2>1 DEF TracerEnds
  <2>2. CASE ~(traced # None /\ mode[traced] = "trapped")
    BY <1>11, <2>2 DEF TracerEnds
  <2>3. QED  BY <2>1, <2>2
<1>12. CASE Millisecond
  <2>1. waited' \in 0..Deadline  BY <1>12 DEF Millisecond
  <2>2. nap' \in 0..2 /\ (pc' = "sleep" => nap' > 0)  BY <1>12 DEF Millisecond
  <2>3. QED  BY <1>12, <2>1, <2>2 DEF Millisecond
<1>13. ASSUME NEW t \in Tasks, TakeSignal(t) PROVE TypeInv'
  <2>1. PICK s \in pending[t] : pending' = [pending EXCEPT ![t] = @ \ {s}]
    /\ IF traced = t
       THEN /\ mode' = [mode EXCEPT ![t] = "trapped"]
            /\ trapSig' = [trapSig EXCEPT ![t] = s]
            /\ UNCHANGED <<handled, groupStop>>
       ELSE /\ groupStop' = (s = "STOP")
            /\ handled' = IF s = "OTHER" THEN handled \cup {t} ELSE handled
            /\ UNCHANGED <<mode, trapSig>>
    BY <1>13 DEF TakeSignal
  <2>2. s \in Signals /\ pending' \in [Tasks -> SUBSET Signals]  BY <2>1
  <2>3. CASE traced = t  BY <1>13, <2>1, <2>2, <2>3 DEF TakeSignal
  <2>4. CASE traced # t
    <3>1. handled' \subseteq Tasks  BY <2>1, <2>4
    <3>2. groupStop' \in BOOLEAN  BY <2>1, <2>4
    <3>3. QED  BY <1>13, <2>1, <2>2, <2>4, <3>1, <3>2 DEF TakeSignal
  <2>5. QED  BY <2>3, <2>4
<1>14. ASSUME NEW t \in Tasks, SendOther(t) PROVE TypeInv'  BY <1>14 DEF SendOther
<1>15. ASSUME NEW t \in Tasks, Block(t) PROVE TypeInv'  BY <1>15 DEF Block
<1>16. CASE Killed  BY <1>16 DEF Killed
<1>17. CASE UNCHANGED vars  BY <1>17 DEF vars
<1> QED
  BY <1>1, <1>2, <1>3, <1>4, <1>5, <1>6, <1>7, <1>8, <1>9, <1>10, <1>11, <1>12,
     <1>13, <1>14, <1>15, <1>16, <1>17 DEF Next, Profiler

\* Every variable of the attach and of the kernel's side keeps its type: the
\* wait never runs past its deadline.
THEOREM TypeCorrect == Spec => []TypeOK
<1>1. TypeInv => TypeOK  BY DEF TypeInv
<1> QED  BY <1>1, InitType, NextType, PTL DEF Spec

(***************************************************************************)
(* What is left behind                                                     *)
(***************************************************************************)

Attached == {"wait", "sleep", "read", "detach"}

\* Only the task that is traced traps, and by another signal than the SIGSTOP
\* only if it was sent one.
TrapInv ==
  \A t \in Tasks : mode[t] = "trapped" => t = traced /\ (trapSig[t] = "OTHER" => t \in signalled)

\* A SIGSTOP waits for the picked task only, another signal for tasks that were
\* sent one, and none for the dead. The task that stopped has no second SIGSTOP.
PendInv ==
  /\ \A t \in Tasks :
       /\ "STOP" \in pending[t] => t = tid
       /\ "OTHER" \in pending[t] => t \in signalled
       /\ mode[t] = "dead" => pending[t] = {}
  /\ tid \in Tasks /\ tid \notin signalled /\ mode[tid] = "trapped" => "STOP" \notin pending[tid]

\* Where the attach is: before it nothing was sent; until the detach the picked
\* task is traced and nothing stops the process; a detach without a stop means a
\* wait that ran to its deadline.
StageInv ==
  /\ pc \in {"pick", "attach"} => traced = None /\ \A t \in Tasks : "STOP" \notin pending[t]
  /\ pc \in {"pick", "attach"} \cup Attached => ~groupStop
  /\ pc \in Attached => traced = tid
  /\ pc = "read" => mode[tid] \in {"trapped", "dead"}
  /\ pc = "detach" => mode[tid] \in {"trapped", "dead"} \/ waited = Deadline

\* The detach was the end of it: what NothingLeftBehind says, one step earlier.
LeftInv ==
  pc \in {"resolve", "done", "gone"} /\ tid \notin signalled /\ waited < Deadline =>
    /\ \A t \in Tasks : mode[t] # "trapped" /\ "STOP" \notin pending[t]
    /\ traced # None => mode[traced] = "dead"
    /\ ~groupStop

IInv == TypeInv /\ TrapInv /\ PendInv /\ StageInv /\ LeftInv

LEMMA InitInv == Init => IInv
<1> SUFFICES ASSUME Init PROVE IInv  OBVIOUS
<1>1. \A t \in Tasks : mode[t] \in {"running", "blocked"}
  <2>1. CASE MayBlock  BY <2>1 DEF Init
  <2>2. CASE ~MayBlock  BY <2>2 DEF Init
  <2>3. QED  BY <2>1, <2>2
<1>2. QED
  BY <1>1, InitType DEF Init, IInv, TrapInv, PendInv, StageInv, LeftInv, Attached

LEMMA NextInv == IInv /\ [Next]_vars => IInv'
<1> SUFFICES ASSUME IInv, [Next]_vars PROVE IInv'  OBVIOUS
<1>0. TypeInv /\ TypeInv'  BY NextType DEF IInv
<1> SUFFICES TrapInv' /\ PendInv' /\ StageInv' /\ LeftInv'  BY <1>0 DEF IInv
<1> USE DEF IInv, TrapInv, PendInv, StageInv, LeftInv, Attached, TypeInv, TypeOK,
            PickInv, Signals, taskVars, tracerVars
<1>1. CASE PickTask  BY <1>0, <1>1 DEF PickTask
<1>2. CASE Attach  BY <1>0, <1>2 DEF Attach, Alive
<1>3. CASE AttachFails  BY <1>0, <1>3 DEF AttachFails
<1>4. CASE PollAgain  BY <1>0, <1>4 DEF PollAgain
<1>5. CASE PollGivesUp  BY <1>0, <1>5 DEF PollGivesUp
<1>6. CASE PollStopped  BY <1>0, <1>6 DEF PollStopped
<1>7. CASE PollOther  BY <1>0, <1>7 DEF PollOther
<1>8. CASE ReadRegister  BY <1>0, <1>8 DEF ReadRegister
<1>9. CASE Detach
  <2>1. CASE mode[tid] = "trapped"  BY <1>0, <1>9, <2>1 DEF Detach
  <2>2. CASE mode[tid] # "trapped"  BY <1>0, <1>9, <2>2 DEF Detach
  <2>3. QED  BY <2>1, <2>2
<1>10. CASE ResolveCache  BY <1>0, <1>10 DEF ResolveCache
<1>11. CASE TracerEnds
  <2>1. CASE traced # None /\ mode[traced] = "trapped"
    BY <1>0, <1>11, <2>1 DEF TracerEnds
  <2>2. CASE ~(traced # None /\ mode[traced] = "trapped")
    BY <1>0, <1>11, <2>2 DEF TracerEnds
  <2>3. QED  BY <2>1, <2>2
<1>12. CASE Millisecond  BY <1>0, <1>12 DEF Millisecond
<1>13. ASSUME NEW t \in Tasks, TakeSignal(t) PROVE TrapInv' /\ PendInv' /\ StageInv' /\ LeftInv'
  <2>1. PICK s \in pending[t] : pending' = [pending EXCEPT ![t] = @ \ {s}]
    /\ IF traced = t
       THEN /\ mode' = [mode EXCEPT ![t] = "trapped"]
            /\ trapSig' = [trapSig EXCEPT ![t] = s]
            /\ UNCHANGED <<handled, groupStop>>
       ELSE /\ groupStop' = (s = "STOP")
            /\ handled' = IF s = "OTHER" THEN handled \cup {t} ELSE handled
            /\ UNCHANGED <<mode, trapSig>>
    BY <1>13 DEF TakeSignal
  <2>2. CASE traced = t  BY <1>0, <1>13, <2>1, <2>2 DEF TakeSignal
  <2>3. CASE traced # t
    <3>1. groupStop' <=> s = "STOP"  BY <2>1, <2>3
    <3>2. QED  BY <1>0, <1>13, <2>1, <2>3, <3>1 DEF TakeSignal
  <2>4. QED  BY <2>2, <2>3
<1>14. ASSUME NEW t \in Tasks, SendOther(t) PROVE TrapInv' /\ PendInv' /\ StageInv' /\ LeftInv'
  BY <1>0, <1>14 DEF SendOther, Alive
<1>15. ASSUME NEW t \in Tasks, Block(t) PROVE TrapInv' /\ PendInv' /\ StageInv' /\ LeftInv'
  BY <1>0, <1>15 DEF Block
<1>16. CASE Killed  BY <1>0, <1>16 DEF Killed
<1>17. CASE UNCHANGED vars  BY <1>17 DEF vars
<1> QED
  BY <1>1, <1>2, <1>3, <1>4, <1>5, <1>6, <1>7, <1>8, <1>9, <1>10, <1>11, <1>12,
     <1>13, <1>14, <1>15, <1>16, <1>17 DEF Next, Profiler

\* Whatever comes between the attach and its end, the target's death and every
\* error of the profiler included, nothing stays traced, trapped or stopped, but
\* for the two named exceptions.
THEOREM LeavesNothing == Spec => []NothingLeftBehind
<1>1. IInv => NothingLeftBehind  BY DEF IInv, LeftInv, NothingLeftBehind, Over
<1> QED  BY <1>1, InitInv, NextInv, PTL DEF Spec
=============================================================================
