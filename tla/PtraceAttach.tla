---------------------------- MODULE PtraceAttach ----------------------------
(***************************************************************************)
(* tls::with_attached_task as read_tls_base_register uses it: attach to    *)
(* one task of a ZTS target with ptrace, wait for it to stop, read a       *)
(* register, detach; resolve_zts_executor_globals then follows the TSRM    *)
(* cache of that task.                                                     *)
(*                                                                         *)
(* The kernel's side is modelled as ptrace(2) documents it: PTRACE_ATTACH  *)
(* sends a SIGSTOP; a traced task stops at every signal it is about to     *)
(* take and waitpid reports that signal; PTRACE_DETACH fails on a task     *)
(* that is not stopped, and otherwise resumes it without the signal; when  *)
(* the tracer ends, a stopped task resumes and takes its signal.           *)
(***************************************************************************)
EXTENDS Naturals

CONSTANTS
  Tasks,         \* the threads of the target
  Leader,        \* its main thread
  PhpTasks,      \* the threads with a TSRM cache
  None,          \* no task
  Deadline,      \* milliseconds with_attached_task waits for the stop
  OtherSignals,  \* may a task be sent another signal meanwhile?
  MayBlock       \* may a task be held up (an uninterruptible wait)?

ASSUME TasksAssumption ==
  Leader \in Tasks /\ PhpTasks \subseteq Tasks /\ None \notin Tasks
ASSUME DeadlineAssumption == Deadline \in Nat
ASSUME FlagsAssumption == {OtherSignals, MayBlock} \subseteq BOOLEAN

VARIABLES
  mode,       \* each task: "running", "blocked", "trapped" or "dead"
  trapSig,    \* the signal a trapped task stopped at
  pending,    \* signals sent to a task and not yet taken
  signalled,  \* tasks that were sent the other signal
  handled,    \* tasks that took it
  groupStop,  \* the process is stopped by a SIGSTOP
  traced,     \* the task being traced, or None
  pc,         \* where the profiler is
  tid,        \* the task picked
  waited,     \* milliseconds since the attach
  nap,        \* milliseconds left of the sleep between two polls
  result      \* "none", "ok" or "error"

taskVars   == <<mode, trapSig, pending, signalled, handled, groupStop>>
tracerVars == <<pc, tid, waited, nap, result>>
vars == <<taskVars, traced, tracerVars>>

Signals == {"STOP", "OTHER"}

TypeOK ==
  /\ mode \in [Tasks -> {"running", "blocked", "trapped", "dead"}]
  /\ trapSig \in [Tasks -> Signals \cup {"none"}]
  /\ pending \in [Tasks -> SUBSET Signals]
  /\ signalled \subseteq Tasks
  /\ handled \subseteq Tasks
  /\ groupStop \in BOOLEAN
  /\ traced \in Tasks \cup {None}
  /\ pc \in {"pick", "attach", "wait", "sleep", "read", "detach", "resolve",
             "done", "gone"}
  /\ tid \in Tasks \cup {None}
  /\ waited \in 0..Deadline
  /\ nap \in 0..2
  /\ result \in {"none", "ok", "error"}

Init ==
  /\ mode \in [Tasks -> IF MayBlock THEN {"running", "blocked"} ELSE {"running"}]
  /\ trapSig = [t \in Tasks |-> "none"]
  /\ pending = [t \in Tasks |-> {}]
  /\ signalled = {}
  /\ handled = {}
  /\ groupStop = FALSE
  /\ traced = None
  /\ pc = "pick"
  /\ tid = None
  /\ waited = 0
  /\ nap = 0
  /\ result = "none"

(***************************************************************************)
(* The profiler                                                            *)
(***************************************************************************)

Alive(t) == mode[t] # "dead"

\* pick_task: a task other than the leader if there is one.
PickTask ==
  /\ pc = "pick"
  /\ LET others == Tasks \ {Leader}
     IN  tid' \in IF others = {} THEN {Leader} ELSE others
  /\ pc' = "attach"
  /\ UNCHANGED <<taskVars, traced, waited, nap, result>>

Attach ==
  /\ pc = "attach"
  /\ Alive(tid)
  /\ traced' = tid
  /\ pending' = [pending EXCEPT ![tid] = @ \cup {"STOP"}]
  /\ pc' = "wait"
  /\ UNCHANGED <<mode, trapSig, signalled, handled, groupStop, tid, waited, nap, result>>

\* No permission, or the task is gone.
AttachFails ==
  /\ pc = "attach"
  /\ pc' = "done"
  /\ result' = "error"
  /\ UNCHANGED <<taskVars, traced, tid, waited, nap>>

\* waitpid(tid, WNOHANG): StillAlive, and time is left: sleep for 2 ms.
PollAgain ==
  /\ pc = "wait"
  /\ mode[tid] \in {"running", "blocked"}
  /\ waited < Deadline
  /\ nap' = 2
  /\ pc' = "sleep"
  /\ UNCHANGED <<taskVars, traced, tid, waited, result>>

\* Mutant: there is no deadline.
NeverGivesUp ==
  /\ pc = "wait"
  /\ mode[tid] \in {"running", "blocked"}
  /\ waited = Deadline
  /\ nap' = 2
  /\ pc' = "sleep"
  /\ UNCHANGED <<taskVars, traced, tid, waited, result>>

\* StillAlive at the deadline: an error, after a detach.
PollGivesUp ==
  /\ pc = "wait"
  /\ mode[tid] \in {"running", "blocked"}
  /\ waited = Deadline
  /\ pc' = "detach"
  /\ result' = "error"
  /\ UNCHANGED <<taskVars, traced, tid, waited, nap>>

\* Stopped, by whatever signal.
PollStopped ==
  /\ pc = "wait"
  /\ mode[tid] = "trapped"
  /\ pc' = "read"
  /\ UNCHANGED <<taskVars, traced, tid, waited, nap, result>>

\* The task died.
PollOther ==
  /\ pc = "wait"
  /\ mode[tid] = "dead"
  /\ pc' = "detach"
  /\ result' = "error"
  /\ UNCHANGED <<taskVars, traced, tid, waited, nap>>

\* Mutant: an error of the read returns at once.
ReadNoDetach ==
  /\ pc = "read"
  /\ \/ mode[tid] = "trapped" /\ pc' = "detach" /\ result' = "ok"
     \/ result' = "error" /\ pc' = "done"
  /\ UNCHANGED <<taskVars, traced, tid, waited, nap>>

\* The closure reads the TLS base; that may fail, and does if the task was
\* killed meanwhile.
ReadRegister ==
  /\ pc = "read"
  /\ \/ mode[tid] = "trapped" /\ result' = "ok"
     \/ result' = "error"
  /\ pc' = "detach"
  /\ UNCHANGED <<taskVars, traced, tid, waited, nap>>

\* ptrace::detach(p, None), its error ignored: only a trapped task is let go,
\* and the signal it stopped at is dropped.
Detach ==
  /\ pc = "detach"
  /\ IF mode[tid] = "trapped"
     THEN /\ mode' = [mode EXCEPT ![tid] = "running"]
          /\ trapSig' = [trapSig EXCEPT ![tid] = "none"]
          /\ traced' = None
     ELSE UNCHANGED <<mode, trapSig, traced>>
  /\ pc' = IF result = "ok" THEN "resolve" ELSE "done"
  /\ UNCHANGED <<pending, signalled, handled, groupStop, tid, waited, nap, result>>

\* The TSRM cache pointer of that task is read; null is an error, and so is
\* memory that cannot be read.
ResolveCache ==
  /\ pc = "resolve"
  /\ \/ tid \in PhpTasks /\ Alive(tid) /\ result' = "ok"
     \/ result' = "error"
  /\ pc' = "done"
  /\ UNCHANGED <<taskVars, traced, tid, waited, nap>>

\* Much later the thread that attached ends; what it still traces is let go,
\* and a trapped task takes the signal it stopped at.
TracerEnds ==
  /\ pc = "done"
  /\ pc' = "gone"
  /\ traced' = None
  /\ IF traced # None /\ mode[traced] = "trapped"
     THEN /\ mode' = [mode EXCEPT ![traced] = "running"]
          /\ trapSig' = [trapSig EXCEPT ![traced] = "none"]
          /\ pending' = [pending EXCEPT ![traced] = @ \cup {trapSig[traced]}]
     ELSE UNCHANGED <<mode, trapSig, pending>>
  /\ UNCHANGED <<signalled, handled, groupStop, tid, waited, nap, result>>

(***************************************************************************)
(* The target and the clock                                                *)
(***************************************************************************)

\* A running task takes a signal: it traps if it is traced; otherwise SIGSTOP
\* stops the whole process and the other signal is handled.
TakeSignal(t) ==
  /\ mode[t] = "running"
  /\ ~groupStop
  /\ \E s \in pending[t] :
       /\ pending' = [pending EXCEPT ![t] = @ \ {s}]
       /\ IF traced = t
          THEN /\ mode' = [mode EXCEPT ![t] = "trapped"]
               /\ trapSig' = [trapSig EXCEPT ![t] = s]
               /\ UNCHANGED <<handled, groupStop>>
          ELSE /\ groupStop' = (s = "STOP")
               /\ handled' = IF s = "OTHER" THEN handled \cup {t} ELSE handled
               /\ UNCHANGED <<mode, trapSig>>
  /\ UNCHANGED <<signalled, traced, tracerVars>>

\* A task is sent a signal of its own (a timer, pthread_kill, a fault).
SendOther(t) ==
  /\ OtherSignals
  /\ Alive(t) /\ t \notin signalled
  /\ signalled' = signalled \cup {t}
  /\ pending' = [pending EXCEPT ![t] = @ \cup {"OTHER"}]
  /\ UNCHANGED <<mode, trapSig, handled, groupStop, traced, tracerVars>>

\* A task enters or leaves an uninterruptible wait.
Block(t) ==
  /\ MayBlock
  /\ mode[t] \in {"running", "blocked"}
  /\ mode' = [mode EXCEPT ![t] = IF @ = "running" THEN "blocked" ELSE "running"]
  /\ UNCHANGED <<trapSig, pending, signalled, handled, groupStop, traced, tracerVars>>

\* The target is killed.
Killed ==
  /\ \E t \in Tasks : Alive(t)
  /\ mode' = [t \in Tasks |-> "dead"]
  /\ trapSig' = [t \in Tasks |-> "none"]
  /\ pending' = [t \in Tasks |-> {}]
  /\ UNCHANGED <<signalled, handled, groupStop, traced, tracerVars>>

\* A millisecond of the profiler's sleep; unless tasks are held up, one that
\* can take a signal does so before it is over.
Millisecond ==
  /\ pc = "sleep"
  /\ MayBlock \/ groupStop \/ \A t \in Tasks : pending[t] = {}
  /\ waited' = IF waited < Deadline THEN waited + 1 ELSE waited
  /\ nap' = nap - 1
  /\ pc' = IF nap = 1 THEN "wait" ELSE "sleep"
  /\ UNCHANGED <<taskVars, traced, tid, result>>

Profiler ==
  \/ PickTask \/ Attach \/ AttachFails \/ PollAgain \/ PollGivesUp \/ PollStopped
  \/ PollOther \/ ReadRegister \/ Detach \/ ResolveCache

Next ==
  \/ Profiler
  \/ TracerEnds
  \/ Millisecond
  \/ \E t \in Tasks : TakeSignal(t) \/ SendOther(t) \/ Block(t)
  \/ Killed

Spec == Init /\ [][Next]_vars

\* The profiler and the clock run, and so does a task that is not blocked.
\* A task may stay blocked for ever.
FairSpec ==
  /\ Spec
  /\ WF_vars(Profiler)
  /\ WF_vars(Millisecond)
  /\ \A t \in Tasks : WF_vars(TakeSignal(t))

(***************************************************************************)
(* Properties                                                              *)
(***************************************************************************)

Over == pc \in {"done", "gone"}

\* When the attach is over, by success or by any error, nothing of it is left
\* on the target: no task is traced or trapped, none has a SIGSTOP waiting,
\* the process is not stopped. The two ways to break it are named: another
\* signal for the picked task, and a wait that ran to the deadline.
NothingLeftBehind ==
  Over /\ tid \notin signalled /\ waited < Deadline =>
    /\ \A t \in Tasks : mode[t] # "trapped" /\ "STOP" \notin pending[t]
    /\ traced # None => mode[traced] = "dead"
    /\ ~groupStop

\* The wait ends: a task that never stops does not hang the profiler.
AttachEnds == (pc = "wait") ~> Over
=============================================================================
