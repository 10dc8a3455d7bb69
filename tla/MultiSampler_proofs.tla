------------------------ MODULE MultiSampler_proofs ------------------------
(***************************************************************************)
(* Safety of run_multi for any number of pids, threads and samples: proofs *)
(* of TypeOK, NoOrphanWorker, QuietAtTheEnd, AtMostOneLost, LostOnlyIfCut  *)
(* and of the refinement of SampleStream.                                  *)
(***************************************************************************)
EXTENDS MultiSampler, TLAPS

USE ThreadsAssumption, PidsAssumption, NumbersAssumption, FlagsAssumption

(***************************************************************************)
(* The inductive invariant                                                 *)
(***************************************************************************)

\* The table holds, for each pid, a thread that was started for that pid.
TableInv ==
  \A p \in Pids : workers[p] # None =>
    tpid[workers[p]] = p /\ tpc[workers[p]] # "unborn"

\* Before the start-up loop no thread exists, and during it no pid still to be
\* attached has one, so inserting without looking cannot drop a worker.
StartInv ==
  /\ mpc = "discover0" => \A t \in Threads : tpc[t] = "unborn"
  /\ mpc \in {"discover0", "attach0"} => \A p \in todo : workers[p] = None
  /\ \A t \in Threads : tpc[t] = "unborn" => sent[t] = 0
  /\ mpc = "discover0" => todo = {}

\* After teardown every thread still running has been told to stop.
StopInv ==
  /\ mpc \in {"drain", "join"} => \A t \in Threads : Live(t) => tstop[t]
  /\ QuietAtTheEnd

\* The channel holds exactly the samples sent and not written, oldest first.
InFlight(m) == delivered[m.worker] < m.n /\ m.n <= sent[m.worker]

ChanInv ==
  /\ \A i \in 1..Len(chan) : InFlight(chan[i])
  /\ \A i, j \in 1..Len(chan) :
       i < j /\ chan[i].worker = chan[j].worker => chan[i].n < chan[j].n
  /\ \A t \in Threads : \A k \in Nat : delivered[t] < k /\ k <= sent[t] =>
       \E i \in 1..Len(chan) : chan[i].worker = t /\ chan[i].n = k
  /\ \A t \in Threads : delivered[t] <= sent[t]

\* After the drain a worker has sent nothing that was not written, or is done
\* with the one iteration it was in.
LossInv ==
  mpc \in {"join", "finish", "done"} =>
    \A t \in Threads :
      sent[t] <= delivered[t] + (IF tpc[t] \in {"capture", "send"} THEN 0 ELSE 1)

Structure == TableInv /\ NoOrphanWorker /\ StartInv /\ StopInv

IInv == TypeOK /\ Structure /\ ChanInv /\ LossInv

(***************************************************************************)
(* Type correctness                                                        *)
(***************************************************************************)

LEMMA InitType == Init => TypeOK
<1> SUFFICES ASSUME Init PROVE TypeOK  OBVIOUS
<1> USE DEF Init
<1>1. proc \in [Pids -> {"absent", "running", "zombie"}]  OBVIOUS
<1>2. gen \in [Pids -> 0..MaxGen]  OBVIOUS
<1>3. age \in 0..RediscoverEvery  BY DEF RediscoverEvery
<1>4. chan \in Seq(Messages)  OBVIOUS
<1>5. tpc \in [Threads -> ThreadPCs] /\ tgen \in [Threads -> 0..MaxGen]
  BY DEF ThreadPCs
<1>6. QED  BY <1>1, <1>2, <1>3, <1>4, <1>5 DEF TypeOK, MainPCs

\* A message received is one of Messages, and what stays is a channel.
LEMMA ReceiveType ==
  ASSUME TypeOK, chan # << >>
  PROVE  Head(chan) \in Messages /\ Tail(chan) \in Seq(Messages)
BY DEF TypeOK

LEMMA SpawnType ==
  ASSUME TypeOK, NEW p \in Pids, NEW t \in Threads, SpawnWorker(p, t)
  PROVE  /\ workers' \in [Pids -> Threads \cup {None}]
         /\ tpc' \in [Threads -> ThreadPCs]
         /\ tpid' \in [Threads -> Pids \cup {None}]
         /\ tgen' \in [Threads -> 0..MaxGen]
         /\ tstop' \in [Threads -> BOOLEAN]
BY DEF TypeOK, SpawnWorker, ThreadPCs

LEMMA MainType == ASSUME TypeOK, Main PROVE TypeOK'
<1> USE DEF TypeOK, MainPCs, ThreadPCs, envVars, clockVars, mainVars, threadVars, dataVars
<1>1. CASE InitialDiscover  BY <1>1 DEF InitialDiscover, Visible
<1>2. CASE InitialDiscoverFails  BY <1>2 DEF InitialDiscoverFails
<1>3. ASSUME NEW p \in Pids, AttachInitial(p) PROVE TypeOK'
  BY <1>3, SpawnType DEF AttachInitial
<1>4. ASSUME NEW p \in Pids, AttachFound(p) PROVE TypeOK'
  BY <1>4, SpawnType DEF AttachFound
<1>5. ASSUME NEW p \in Pids, SkipFound(p) PROVE TypeOK'
  BY <1>5 DEF SkipFound
<1>6. CASE AttachInitialEnds  BY <1>6 DEF AttachInitialEnds
<1>7. CASE AttachEnds  BY <1>7 DEF AttachEnds
<1>8. CASE LoopTop  BY <1>8 DEF LoopTop
<1>9. CASE RecvSample
  BY <1>9, ReceiveType DEF RecvSample, Write, Messages
<1>10. CASE RecvTimeout  BY <1>10 DEF RecvTimeout
<1>11. CASE Timer  BY <1>11 DEF Timer, Reaped, RediscoverEvery
<1>12. CASE Discover  BY <1>12 DEF Discover, Visible
<1>13. CASE DiscoverFails  BY <1>13 DEF DiscoverFails
<1>14. CASE Teardown  BY <1>14 DEF Teardown, Tracked
<1>15. CASE DrainSample
  BY <1>15, ReceiveType DEF DrainSample, Write, Messages
<1>16. CASE DrainEnds  BY <1>16 DEF DrainEnds
<1>17. CASE Join  BY <1>17 DEF Join
<1>18. CASE Finish  BY <1>18 DEF Finish
<1> QED
  BY <1>1, <1>2, <1>3, <1>4, <1>5, <1>6, <1>7, <1>8, <1>9, <1>10, <1>11,
     <1>12, <1>13, <1>14, <1>15, <1>16, <1>17, <1>18 DEF Main

LEMMA WorkerType == ASSUME TypeOK, NEW t \in Threads, Worker(t) PROVE TypeOK'
<1> USE DEF TypeOK, ThreadPCs, Step, envVars, clockVars, mainVars, threadVars, dataVars
<1>1. CASE CheckStop(t)  BY <1>1 DEF CheckStop
<1>2. CASE CaptureStack(t)  BY <1>2 DEF CaptureStack
<1>3. CASE CaptureNothing(t)  BY <1>3 DEF CaptureNothing
<1>4. CASE CaptureFails(t)  BY <1>4 DEF CaptureFails
<1>5. CASE CheckStatus(t)  BY <1>5 DEF CheckStatus
<1>6. CASE Send(t)
  <2>1. CASE ReceiverOpen
    <3>1. sent' = [sent EXCEPT ![t] = @ + 1]  BY <1>6, <2>1 DEF Send
    <3>2. sent' \in [Threads -> Nat]  BY <3>1
    <3>3. PICK uri \in {FALSE, RequestInfo} :
            chan' = Append(chan, [worker |-> t, n |-> sent'[t], uri |-> uri])
      BY <1>6, <2>1 DEF Send
    <3>4. [worker |-> t, n |-> sent'[t], uri |-> uri] \in Messages
      BY <3>2 DEF Messages
    <3>5. chan' \in Seq(Messages)  BY <3>3, <3>4
    <3>6. QED  BY <1>6, <2>1, <3>2, <3>5 DEF Send
  <2>2. CASE ~ReceiverOpen  BY <1>6, <2>2 DEF Send
  <2>3. QED  BY <2>1, <2>2
<1> QED  BY <1>1, <1>2, <1>3, <1>4, <1>5, <1>6 DEF Worker

LEMMA EnvType ==
  ASSUME TypeOK,
         (\E p \in Pids : Process(p)) \/ Signal \/ DurationElapses \/ Tick
  PROVE  TypeOK'
<1> USE DEF TypeOK, envVars, clockVars, mainVars, threadVars, dataVars
<1>1. ASSUME NEW p \in Pids, Process(p) PROVE TypeOK'
  <2>1. proc' \in [Pids -> {"absent", "running", "zombie"}]
    BY <1>1 DEF Process, ProcessStarts, ProcessExecs, ProcessExits, ZombieWaitedFor
  <2>2. gen' \in [Pids -> 0..MaxGen]
    <3>1. \/ gen' = gen
          \/ gen[p] < MaxGen /\ gen' = [gen EXCEPT ![p] = gen[p] + 1]
      BY <1>1 DEF Process, ProcessStarts, ProcessExecs, ProcessExits, ZombieWaitedFor
    <3>2. ASSUME gen[p] < MaxGen PROVE gen[p] + 1 \in 0..MaxGen
      <4>1. gen[p] \in 0..MaxGen  OBVIOUS
      <4>2. QED  BY <3>2, <4>1
    <3>3. QED  BY <3>1, <3>2, Zenon
  <2>3. QED  BY <1>1, <2>1, <2>2 DEF Process
<1>2. CASE Signal  BY <1>2 DEF Signal
<1>3. CASE DurationElapses  BY <1>3 DEF DurationElapses
<1>4. CASE Tick  BY <1>4 DEF Tick, RediscoverEvery
<1> QED  BY <1>1, <1>2, <1>3, <1>4

LEMMA NextType == TypeOK /\ [Next]_vars => TypeOK'
<1> SUFFICES ASSUME TypeOK, [Next]_vars PROVE TypeOK'  OBVIOUS
<1>1. CASE UNCHANGED vars
  BY <1>1 DEF TypeOK, vars, envVars, clockVars, mainVars, threadVars, dataVars
<1>2. CASE Returned  BY <1>1, <1>2 DEF Returned
<1> QED  BY <1>1, <1>2, MainType, WorkerType, EnvType DEF Next

\* Every variable of run_multi keeps its type, for any number of pids, worker
\* threads, process images and samples.
THEOREM TypeCorrect == Spec => []TypeOK
<1> QED  BY InitType, NextType, PTL DEF Spec

(***************************************************************************)
(* The worker table and the threads                                        *)
(***************************************************************************)

LEMMA InitStructure == Init => Structure
BY DEF Init, Structure, TableInv, NoOrphanWorker, StartInv, StopInv,
       QuietAtTheEnd, Live

\* Entering a fresh thread for a pid that has none keeps table and threads
\* consistent.
LEMMA SpawnStructure ==
  ASSUME TypeOK, TableInv, NoOrphanWorker,
         NEW p \in Pids, NEW t \in Threads, SpawnWorker(p, t), workers[p] = None
  PROVE  TableInv' /\ NoOrphanWorker'
<1> USE DEF TypeOK, SpawnWorker
<1>1. TableInv'
  <2> SUFFICES ASSUME NEW q \in Pids, workers'[q] # None
               PROVE  tpid'[workers'[q]] = q /\ tpc'[workers'[q]] # "unborn"
    BY DEF TableInv
  <2>1. CASE q = p  BY <2>1
  <2>2. CASE q # p
    <3>1. workers'[q] = workers[q] /\ workers[q] \in Threads  BY <2>2
    <3>2. workers[q] # t  BY <3>1 DEF TableInv
    <3>3. QED  BY <3>1, <3>2 DEF TableInv
  <2>3. QED  BY <2>1, <2>2
<1>2. NoOrphanWorker'
  <2> SUFFICES ASSUME NEW u \in Threads, Live(u)'
               PROVE  tpid'[u] \in Pids /\ workers'[tpid'[u]] = u
    BY DEF NoOrphanWorker
  <2>1. CASE u = t  BY <2>1
  <2>2. CASE u # t
    <3>1. Live(u) /\ tpid'[u] = tpid[u]  BY <2>2 DEF Live
    <3>2. tpid[u] \in Pids /\ workers[tpid[u]] = u  BY <3>1 DEF NoOrphanWorker
    <3>3. tpid[u] # p  BY <3>2
    <3>4. QED  BY <3>1, <3>2, <3>3
  <2>3. QED  BY <2>1, <2>2
<1> QED  BY <1>1, <1>2

\* A running thread moves to another point of its loop, or ends.
LEMMA StepStructure ==
  ASSUME TypeOK, TableInv, NoOrphanWorker, StopInv, NEW t \in Threads,
         NEW from \in ThreadPCs \ {"unborn", "exited"},
         NEW to \in ThreadPCs \ {"unborn"},
         Step(t, from, to)
  PROVE  TableInv' /\ NoOrphanWorker' /\ StopInv'
<1> USE DEF TypeOK, Step, mainVars, Live
<1>1. TableInv'
  <2> SUFFICES ASSUME NEW q \in Pids, workers[q] # None
               PROVE  tpid[workers[q]] = q /\ tpc'[workers[q]] # "unborn"
    BY DEF TableInv
  <2>1. workers[q] \in Threads  OBVIOUS
  <2>2. QED  BY <2>1 DEF TableInv
<1>2. NoOrphanWorker'
  <2> SUFFICES ASSUME NEW u \in Threads, Live(u)'
               PROVE  tpid[u] \in Pids /\ workers[tpid[u]] = u
    BY DEF NoOrphanWorker
  <2>1. Live(u)  OBVIOUS
  <2>2. QED  BY <2>1 DEF NoOrphanWorker
<1>3. StopInv'
  <2>1. \A u \in Threads : Live(u)' => Live(u)  OBVIOUS
  <2>2. QED  BY <2>1 DEF StopInv, QuietAtTheEnd
<1> QED  BY <1>1, <1>2, <1>3

\* The main thread's step when it touches neither the table nor the threads.
LEMMA MoveStructure ==
  ASSUME TypeOK, Structure, UNCHANGED <<workers, threadVars, sent>>,
         mpc # "discover0",
         mpc' = mpc \/ mpc' \notin {"discover0", "attach0", "drain", "finish", "done"},
         mpc' = "join" => mpc = "drain" \/ mpc = "join",
         todo' \subseteq todo \/ mpc' # "attach0"
  PROVE  Structure'
<1> USE DEF Structure, threadVars
<1>1. TableInv' /\ NoOrphanWorker'  BY DEF TableInv, NoOrphanWorker, Live
<1>2. StartInv'  BY DEF StartInv
<1>3. StopInv'  BY DEF StopInv, QuietAtTheEnd, Live
<1> QED  BY <1>1, <1>2, <1>3

LEMMA MainStructure == ASSUME TypeOK, Structure, Main PROVE Structure'
<1> USE DEF Structure, envVars, clockVars, mainVars, threadVars, dataVars
<1>1. CASE InitialDiscover
  <2>1. \A p \in Pids : workers[p] = None
    BY <1>1 DEF InitialDiscover, StartInv, TableInv, TypeOK
  <2>2. StartInv'  BY <1>1, <2>1 DEF InitialDiscover, StartInv, Visible
  <2>3. TableInv' /\ NoOrphanWorker' /\ StopInv'
    BY <1>1 DEF InitialDiscover, TableInv, NoOrphanWorker, StopInv, QuietAtTheEnd, Live
  <2>4. QED  BY <2>2, <2>3
<1>2. CASE InitialDiscoverFails
  BY <1>2 DEF InitialDiscoverFails, TableInv, NoOrphanWorker, StartInv, StopInv,
              QuietAtTheEnd, Live
<1>3. ASSUME NEW p \in Pids, AttachInitial(p) PROVE Structure'
  <2>1. mpc = "attach0" /\ mpc' = "attach0" /\ todo' = todo \ {p}
        /\ workers[p] = None /\ sent' = sent
    BY <1>3 DEF AttachInitial, StartInv
  <2>2. CASE UNCHANGED <<workers, threadVars>>
    BY <2>1, <2>2, MoveStructure
  <2>3. ASSUME NEW t \in Threads, SpawnWorker(p, t) PROVE Structure'
    <3>1. TableInv' /\ NoOrphanWorker'  BY <2>1, <2>3, SpawnStructure
    <3>2. StartInv'  BY <2>1, <2>3 DEF StartInv, SpawnWorker, TypeOK
    <3>3. StopInv'  BY <2>1 DEF StopInv, QuietAtTheEnd
    <3>4. QED  BY <3>1, <3>2, <3>3
  <2>4. QED  BY <1>3, <2>2, <2>3 DEF AttachInitial
<1>4. ASSUME NEW p \in Pids, AttachFound(p) PROVE Structure'
  <2>1. mpc = "attach" /\ mpc' = "attach" /\ workers[p] = None /\ sent' = sent
    BY <1>4 DEF AttachFound, Untracked
  <2>2. PICK t \in Threads : SpawnWorker(p, t)  BY <1>4 DEF AttachFound
  <2>3. TableInv' /\ NoOrphanWorker'  BY <2>1, <2>2, SpawnStructure
  <2>4. StartInv'  BY <2>1, <2>2 DEF StartInv, SpawnWorker, TypeOK
  <2>5. StopInv'  BY <2>1 DEF StopInv, QuietAtTheEnd
  <2>6. QED  BY <2>3, <2>4, <2>5
<1>5. ASSUME NEW p \in Pids, SkipFound(p) PROVE Structure'
  BY <1>5, MoveStructure DEF SkipFound
<1>6. CASE AttachInitialEnds  BY <1>6, MoveStructure DEF AttachInitialEnds
<1>7. CASE AttachEnds  BY <1>7, MoveStructure DEF AttachEnds
<1>8. CASE LoopTop  BY <1>8, MoveStructure DEF LoopTop
<1>9. CASE RecvSample  BY <1>9, MoveStructure DEF RecvSample
<1>10. CASE RecvTimeout  BY <1>10, MoveStructure DEF RecvTimeout
<1>11. CASE Timer
  <2>1. CASE age < RediscoverEvery  BY <1>11, <2>1, MoveStructure DEF Timer
  <2>2. CASE ~(age < RediscoverEvery)
    <3>1. workers' = Reaped /\ mpc = "timer" /\ mpc' = "discover"
          /\ UNCHANGED <<threadVars, sent>>
      BY <1>11, <2>2 DEF Timer
    <3>2. \A p \in Pids : workers'[p] = None \/ workers'[p] = workers[p]
      BY <3>1 DEF Reaped
    <3>3. TableInv'  BY <3>1, <3>2 DEF TableInv
    <3>4. ASSUME NEW t \in Threads, Live(t)'
          PROVE  tpid'[t] \in Pids /\ workers'[tpid'[t]] = t
      <4>1. Live(t) /\ tpid[t] \in Pids /\ workers[tpid[t]] = t
        BY <3>1, <3>4 DEF Live, NoOrphanWorker
      <4>2. Reaped[tpid[t]] = t  BY <4>1 DEF Reaped, Live
      <4>3. QED  BY <3>1, <4>1, <4>2
    <3>5. NoOrphanWorker'  BY <3>4 DEF NoOrphanWorker
    <3>6. StartInv' /\ StopInv'  BY <3>1 DEF StartInv, StopInv, QuietAtTheEnd
    <3>7. QED  BY <3>3, <3>5, <3>6
  <2>3. QED  BY <2>1, <2>2
<1>12. CASE Discover  BY <1>12, MoveStructure DEF Discover
<1>13. CASE DiscoverFails  BY <1>13, MoveStructure DEF DiscoverFails
<1>14. CASE Teardown
  <2>1. \A t \in Threads : Live(t) => tstop'[t]
    BY <1>14 DEF Teardown, Tracked, NoOrphanWorker
  <2>2. QED
    BY <1>14, <2>1 DEF Teardown, TableInv, NoOrphanWorker, StartInv, StopInv,
                       QuietAtTheEnd, Live
<1>15. CASE DrainSample  BY <1>15, MoveStructure DEF DrainSample
<1>16. CASE DrainEnds  BY <1>16, MoveStructure DEF DrainEnds
<1>17. CASE Join
  <2>1. \A t \in Threads : ~Live(t)
    BY <1>17 DEF Join, Joinable, Tracked, NoOrphanWorker, Live
  <2>2. QED
    BY <1>17, <2>1 DEF Join, TableInv, NoOrphanWorker, StartInv, StopInv,
                       QuietAtTheEnd, Live
<1>18. CASE Finish
  BY <1>18 DEF Finish, TableInv, NoOrphanWorker, StartInv, StopInv,
               QuietAtTheEnd, Live
<1> QED
  BY <1>1, <1>2, <1>3, <1>4, <1>5, <1>6, <1>7, <1>8, <1>9, <1>10, <1>11,
     <1>12, <1>13, <1>14, <1>15, <1>16, <1>17, <1>18 DEF Main

LEMMA WorkerStructure ==
  ASSUME TypeOK, Structure, NEW t \in Threads, Worker(t)
  PROVE  Structure'
<1> USE DEF Structure, ThreadPCs
<1>1. PICK from \in ThreadPCs \ {"unborn", "exited"},
           to \in ThreadPCs \ {"unborn"} : Step(t, from, to)
  BY DEF Worker, CheckStop, CaptureStack, CaptureNothing, CaptureFails, CheckStatus, Send
<1>2. TableInv' /\ NoOrphanWorker' /\ StopInv'  BY <1>1, StepStructure
<1>3. StartInv'
  <2>1. mpc' = mpc /\ todo' = todo /\ workers' = workers
        /\ tpc' = [tpc EXCEPT ![t] = to] /\ tpc[t] # "unborn"
    BY <1>1 DEF Step, mainVars
  <2>2. \A u \in Threads : u # t => sent'[u] = sent[u]
    BY DEF Worker, CheckStop, CaptureStack, CaptureNothing, CaptureFails, CheckStatus,
           Send, dataVars, TypeOK
  <2>3. QED  BY <2>1, <2>2 DEF StartInv, TypeOK
<1> QED  BY <1>2, <1>3

LEMMA EnvStructure ==
  ASSUME Structure,
         (\E p \in Pids : Process(p)) \/ Signal \/ DurationElapses \/ Tick \/ UNCHANGED vars
  PROVE  Structure'
<1>1. UNCHANGED <<mainVars, threadVars, sent>>
  BY DEF Process, Signal, DurationElapses, Tick, vars, dataVars
<1>2. QED
  BY <1>1 DEF Structure, TableInv, NoOrphanWorker, StartInv, StopInv,
              QuietAtTheEnd, Live, mainVars, threadVars

(***************************************************************************)
(* The channel                                                             *)
(***************************************************************************)

LEMMA InitChan == Init => ChanInv /\ LossInv
BY DEF Init, ChanInv, LossInv, InFlight

\* The oldest message in the channel is the next unwritten sample of its
\* worker.
LEMMA HeadIsNext ==
  ASSUME TypeOK, ChanInv, chan # << >>
  PROVE  LET m == Head(chan) IN
         m.worker \in Threads /\ m.n = delivered[m.worker] + 1
           /\ m.n <= sent[m.worker]
<1> DEFINE m == Head(chan)
<1>1. m \in Messages /\ m = chan[1] /\ Len(chan) \in Nat /\ 1 \in 1..Len(chan)
  BY DEF TypeOK
<1>2. m.worker \in Threads /\ m.n \in Nat  BY <1>1 DEF Messages
<1>3. delivered[m.worker] \in Nat /\ sent[m.worker] \in Nat  BY <1>2 DEF TypeOK
<1>4. delivered[m.worker] < m.n /\ m.n <= sent[m.worker]
  BY <1>1 DEF ChanInv, InFlight
<1>5. ASSUME delivered[m.worker] + 1 < m.n PROVE FALSE
  <2>1. PICK i \in 1..Len(chan) :
          chan[i].worker = m.worker /\ chan[i].n = delivered[m.worker] + 1
    <3> DEFINE k == delivered[m.worker] + 1
    <3>1. k \in Nat /\ delivered[m.worker] < k /\ k <= sent[m.worker]
      BY <1>2, <1>3, <1>4, <1>5
    <3> HIDE DEF m, k
    <3>2. \E i \in 1..Len(chan) : chan[i].worker = m.worker /\ chan[i].n = k
      BY <1>2, <3>1 DEF ChanInv
    <3>3. QED  BY <3>2 DEF k
  <2>2. i # 1  BY <1>1, <1>2, <1>3, <1>5, <2>1
  <2>3. chan[1].n < chan[i].n  BY <1>1, <2>1, <2>2 DEF ChanInv
  <2>4. QED  BY <1>1, <1>2, <1>3, <1>5, <2>1, <2>3
<1>6. m.n = delivered[m.worker] + 1  BY <1>2, <1>3, <1>4, <1>5
<1> QED  BY <1>2, <1>4, <1>6

LEMMA ReceiveChan ==
  ASSUME TypeOK, ChanInv, chan # << >>, chan' = Tail(chan), sent' = sent,
         delivered' = [delivered EXCEPT ![Head(chan).worker] = Head(chan).n]
  PROVE  ChanInv'
<1> DEFINE m == Head(chan)
<1>1. m.worker \in Threads /\ m.n = delivered[m.worker] + 1 /\ m.n <= sent[m.worker]
  BY HeadIsNext
<1>2. \A t \in Threads : delivered[t] \in Nat /\ sent[t] \in Nat  BY DEF TypeOK
<1>3. /\ Len(chan) \in Nat /\ Len(chan) > 0 /\ chan[1] = m
      /\ Len(chan') = Len(chan) - 1
      /\ \A i \in 1..Len(chan') : i + 1 \in 1..Len(chan) /\ chan'[i] = chan[i + 1]
      /\ \A i \in 1..Len(chan) : chan[i] \in Messages
  BY DEF TypeOK
<1>4. \A t \in Threads : delivered'[t] = IF t = m.worker THEN m.n ELSE delivered[t]
  BY DEF TypeOK
<1>5. \A i \in 1..Len(chan) : chan[i].worker \in Threads /\ chan[i].n \in Nat
  BY <1>3 DEF Messages
<1> HIDE DEF m
<1>6. ASSUME NEW i \in 1..Len(chan') PROVE InFlight(chan[i])'
  <2>1. i + 1 \in 1..Len(chan) /\ 1 \in 1..Len(chan) /\ 1 < i + 1  BY <1>3
  <2>2. InFlight(chan[i + 1])  BY <2>1 DEF ChanInv
  <2>3. chan[i + 1].worker = m.worker => m.n < chan[i + 1].n
    BY <1>3, <2>1 DEF ChanInv
  <2>4. chan'[i].worker \in Threads  BY <1>3, <1>5, <2>1
  <2>5. QED  BY <1>3, <1>4, <2>2, <2>3, <2>4 DEF InFlight
<1>7. ASSUME NEW i \in 1..Len(chan'), NEW j \in 1..Len(chan'),
             i < j, chan'[i].worker = chan'[j].worker
      PROVE  chan'[i].n < chan'[j].n
  <2>1. i + 1 \in 1..Len(chan) /\ j + 1 \in 1..Len(chan) /\ i + 1 < j + 1
    BY <1>3, <1>7
  <2>2. QED  BY <1>3, <1>7, <2>1 DEF ChanInv
<1>8. ASSUME NEW t \in Threads, NEW k \in Nat, delivered'[t] < k, k <= sent[t]
      PROVE  \E i \in 1..Len(chan') : chan'[i].worker = t /\ chan'[i].n = k
  <2>1. delivered[t] < k  BY <1>1, <1>2, <1>4, <1>8
  <2>2. PICK i \in 1..Len(chan) : chan[i].worker = t /\ chan[i].n = k
    BY <1>8, <2>1 DEF ChanInv
  <2>3. i # 1
    <3>1. ASSUME i = 1 PROVE FALSE
      <4>1. m.worker = t /\ m.n = k  BY <1>3, <2>2, <3>1
      <4>2. delivered'[t] = k  BY <1>4, <4>1
      <4>3. QED  BY <1>8, <4>2
    <3>2. QED  BY <3>1
  <2>4. i - 1 \in 1..Len(chan') /\ (i - 1) + 1 = i  BY <1>3, <2>3
  <2>5. chan'[i - 1] = chan[i]  BY <1>3, <2>4
  <2>6. QED  BY <2>2, <2>4, <2>5
<1>9. \A t \in Threads : delivered'[t] <= sent'[t]
  BY <1>1, <1>4 DEF ChanInv
<1> QED  BY <1>6, <1>7, <1>8, <1>9 DEF ChanInv

LEMMA SendChan ==
  ASSUME TypeOK, ChanInv, NEW t \in Threads, NEW uri \in BOOLEAN,
         sent' = [sent EXCEPT ![t] = sent[t] + 1], delivered' = delivered,
         chan' = Append(chan, [worker |-> t, n |-> sent[t] + 1, uri |-> uri])
  PROVE  ChanInv'
<1> DEFINE m == [worker |-> t, n |-> sent[t] + 1, uri |-> uri]
           L == Len(chan)
<1>1. \A u \in Threads : delivered[u] \in Nat /\ sent[u] \in Nat  BY DEF TypeOK
<1>2. \A u \in Threads : sent'[u] = IF u = t THEN sent[t] + 1 ELSE sent[u]
  BY DEF TypeOK
<1>3. m \in Messages /\ m.worker = t /\ m.n = sent[t] + 1  BY <1>1 DEF Messages
<1>4. /\ L \in Nat /\ Len(chan') = L + 1 /\ chan'[L + 1] = m
      /\ \A i \in 1..L : chan'[i] = chan[i] /\ chan[i] \in Messages
  BY <1>3 DEF TypeOK
<1>5. \A i \in 1..L : /\ chan[i].worker \in Threads /\ chan[i].n \in Nat
                      /\ chan[i].n <= sent[chan[i].worker]
                      /\ delivered[chan[i].worker] < chan[i].n
  BY <1>4 DEF Messages, ChanInv, InFlight
<1>6. delivered[t] <= sent[t]  BY DEF ChanInv
<1> HIDE DEF m, L
<1>7. ASSUME NEW i \in 1..Len(chan') PROVE InFlight(chan[i])'
  <2>1. CASE i \in 1..L  BY <1>1, <1>2, <1>4, <1>5, <2>1 DEF InFlight
  <2>2. CASE i = L + 1  BY <1>1, <1>2, <1>3, <1>4, <1>6, <2>2 DEF InFlight
  <2>3. QED  BY <1>4, <2>1, <2>2
<1>8. ASSUME NEW i \in 1..Len(chan'), NEW j \in 1..Len(chan'),
             i < j, chan'[i].worker = chan'[j].worker
      PROVE  chan'[i].n < chan'[j].n
  <2>1. i \in 1..L  BY <1>4, <1>8
  <2>2. CASE j \in 1..L
    BY <1>4, <1>8, <2>1, <2>2 DEF ChanInv, L
  <2>3. CASE j = L + 1
    <3>1. chan[i].worker = t  BY <1>3, <1>4, <1>8, <2>1, <2>3
    <3>2. chan[i].n <= sent[t] /\ chan[i].n \in Nat  BY <1>5, <2>1, <3>1
    <3>3. QED  BY <1>1, <1>3, <1>4, <2>1, <2>3, <3>2
  <2>4. QED  BY <1>4, <2>2, <2>3
<1>9. ASSUME NEW u \in Threads, NEW k \in Nat, delivered[u] < k, k <= sent'[u]
      PROVE  \E i \in 1..Len(chan') : chan'[i].worker = u /\ chan'[i].n = k
  <2>1. CASE u = t /\ k = sent[t] + 1
    <3>1. L + 1 \in 1..Len(chan')  BY <1>4
    <3>2. QED  BY <1>3, <1>4, <2>1, <3>1
  <2>2. CASE ~(u = t /\ k = sent[t] + 1)
    <3>1. k <= sent[u]  BY <1>1, <1>2, <1>9, <2>2
    <3>2. PICK i \in 1..L : chan[i].worker = u /\ chan[i].n = k
      BY <1>9, <3>1 DEF ChanInv, L
    <3>3. i \in 1..Len(chan')  BY <1>4
    <3>4. QED  BY <1>4, <3>2, <3>3
  <2>3. QED  BY <2>1, <2>2
<1>10. \A u \in Threads : delivered'[u] <= sent'[u]
  BY <1>1, <1>2 DEF ChanInv
<1> QED  BY <1>7, <1>8, <1>9, <1>10 DEF ChanInv

\* Steps that leave the channel and its counters alone.
LEMMA SameChan ==
  ASSUME ChanInv, UNCHANGED <<chan, sent, delivered>>
  PROVE  ChanInv'
BY DEF ChanInv, InFlight

LEMMA MainChan ==
  ASSUME TypeOK, Structure, ChanInv, LossInv, Main
  PROVE  ChanInv' /\ LossInv'
<1> USE DEF dataVars, threadVars
<1>1. CASE RecvSample \/ DrainSample
  <2>1. ChanInv'
    BY <1>1, ReceiveChan DEF RecvSample, DrainSample, Write
  <2>2. LossInv'  BY <1>1 DEF RecvSample, DrainSample, LossInv, mainVars
  <2>3. QED  BY <2>1, <2>2
<1>2. CASE ~(RecvSample \/ DrainSample)
  <2>1. UNCHANGED <<chan, sent, delivered>>
    BY <1>2 DEF Main, InitialDiscover, InitialDiscoverFails, AttachInitial, AttachFound,
                SkipFound, AttachInitialEnds, AttachEnds, LoopTop, RecvTimeout, Timer,
                Discover, DiscoverFails, Teardown, DrainEnds, Join, Finish
  <2>2. ChanInv'  BY <2>1, SameChan
  <2>3. LossInv'
    <3> SUFFICES ASSUME mpc' \in {"join", "finish", "done"}, NEW t \in Threads
                 PROVE  sent[t] <= delivered[t]
                          + (IF tpc'[t] \in {"capture", "send"} THEN 0 ELSE 1)
      BY <2>1 DEF LossInv
    <3>1. sent[t] \in Nat /\ delivered[t] \in Nat  BY DEF TypeOK
    <3>2. CASE InitialDiscoverFails
      <4>1. sent[t] = 0 /\ tpc'[t] = "unborn"
        BY <3>2 DEF InitialDiscoverFails, Structure, StartInv
      <4>2. QED  BY <3>1, <4>1
    <3>3. CASE DrainEnds
      <4>1. chan = << >>  BY <3>3 DEF DrainEnds, NothingToDrain
      <4>2. ASSUME delivered[t] < sent[t] PROVE FALSE
        <5>1. \E i \in 1..Len(chan) : chan[i].worker = t /\ chan[i].n = sent[t]
          BY <3>1, <4>2 DEF ChanInv
        <5>2. QED  BY <4>1, <5>1
      <4>3. QED  BY <3>1, <4>2
    <3>4. CASE Join \/ Finish
      <4>1. mpc \in {"join", "finish"} /\ tpc' = tpc  BY <3>4 DEF Join, Finish
      <4>2. QED  BY <4>1 DEF LossInv
    <3>5. InitialDiscoverFails \/ DrainEnds \/ Join \/ Finish
      BY <1>2 DEF Main, InitialDiscover, AttachInitial, AttachFound, SkipFound,
                  AttachInitialEnds, AttachEnds, LoopTop, RecvTimeout, Timer, Discover,
                  DiscoverFails, Teardown, Structure, StartInv
    <3>6. QED  BY <3>2, <3>3, <3>4, <3>5
  <2>4. QED  BY <2>2, <2>3
<1> QED  BY <1>1, <1>2

LEMMA WorkerChan ==
  ASSUME TypeOK, Structure, ChanInv, LossInv, NEW t \in Threads, Worker(t)
  PROVE  ChanInv' /\ LossInv'
<1> USE DEF dataVars, mainVars
<1>1. mpc' = mpc /\ tstop' = tstop
  BY DEF Worker, CheckStop, CaptureStack, CaptureNothing, CaptureFails, CheckStatus,
         Send, Step
<1>2. CASE Send(t) /\ ReceiverOpen
  <2>1. sent' = [sent EXCEPT ![t] = sent[t] + 1] /\ delivered' = delivered
        /\ tpc[t] = "send" /\ tpc' = [tpc EXCEPT ![t] = "check"]
    BY <1>2 DEF Send, Step
  <2>2. sent'[t] = sent[t] + 1  BY <2>1 DEF TypeOK
  <2>3. PICK uri \in {FALSE, RequestInfo} :
          chan' = Append(chan, [worker |-> t, n |-> sent'[t], uri |-> uri])
    BY <1>2 DEF Send
  <2>4. ChanInv'  BY <2>1, <2>2, <2>3, SendChan
  <2>5. LossInv'
    <3> SUFFICES ASSUME mpc \in {"join", "finish", "done"}, NEW u \in Threads
                 PROVE  sent'[u] <= delivered[u]
                          + (IF tpc'[u] \in {"capture", "send"} THEN 0 ELSE 1)
      BY <1>1, <2>1 DEF LossInv
    <3>1. sent[u] <= delivered[u]
            + (IF tpc[u] \in {"capture", "send"} THEN 0 ELSE 1)
      BY DEF LossInv
    <3>2. sent[u] \in Nat /\ delivered[u] \in Nat  BY DEF TypeOK
    <3>3. CASE u = t
      <4>1. tpc'[u] = "check" /\ tpc[u] = "send" /\ sent'[u] = sent[u] + 1
        BY <2>1, <2>2, <3>3 DEF TypeOK
      <4>2. QED  BY <3>1, <3>2, <4>1
    <3>4. CASE u # t
      <4>1. sent'[u] = sent[u] /\ tpc'[u] = tpc[u]  BY <2>1, <3>4 DEF TypeOK
      <4>2. QED  BY <3>1, <4>1
    <3>5. QED  BY <3>3, <3>4
  <2>6. QED  BY <2>4, <2>5
<1>3. CASE ~(Send(t) /\ ReceiverOpen)
  <2>1. UNCHANGED <<chan, sent, delivered>>
    BY <1>3 DEF Worker, CheckStop, CaptureStack, CaptureNothing, CaptureFails,
                CheckStatus, Send
  <2>2. ASSUME mpc \in {"join", "finish", "done"}, NEW u \in Threads,
               tpc'[u] \in {"capture", "send"}
        PROVE  tpc[u] \in {"capture", "send"}
    <3>1. CASE u = t
      <4>1. Live(t) => tstop[t]
        BY <2>2 DEF Structure, StopInv, QuietAtTheEnd
      <4>2. QED
        BY <2>2, <3>1, <4>1 DEF Worker, CheckStop, CaptureStack, CaptureNothing,
             CaptureFails, CheckStatus, Send, Step, Live, TypeOK
    <3>2. CASE u # t
      <4>1. tpc'[u] = tpc[u]
        BY <3>2 DEF Worker, CheckStop, CaptureStack, CaptureNothing, CaptureFails,
                    CheckStatus, Send, Step, TypeOK
      <4>2. QED  BY <2>2, <4>1
    <3>3. QED  BY <3>1, <3>2
  <2>3. ChanInv'  BY <2>1, SameChan
  <2>4. LossInv'
    <3> SUFFICES ASSUME mpc \in {"join", "finish", "done"}, NEW u \in Threads
                 PROVE  sent[u] <= delivered[u]
                          + (IF tpc'[u] \in {"capture", "send"} THEN 0 ELSE 1)
      BY <1>1, <2>1 DEF LossInv
    <3>1. sent[u] \in Nat /\ delivered[u] \in Nat  BY DEF TypeOK
    <3>2. QED  BY <2>2, <3>1 DEF LossInv
  <2>5. QED  BY <2>3, <2>4
<1> QED  BY <1>2, <1>3

(***************************************************************************)
(* The theorems                                                            *)
(***************************************************************************)

LEMMA InitIInv == Init => IInv
BY InitType, InitStructure, InitChan DEF IInv

LEMMA NextIInv == IInv /\ [Next]_vars => IInv'
<1> SUFFICES ASSUME IInv, [Next]_vars PROVE IInv'  OBVIOUS
<1> USE DEF IInv
<1>1. TypeOK'  BY NextType
<1>2. CASE Main
  BY <1>1, <1>2, MainStructure, MainChan
<1>3. ASSUME NEW t \in Threads, Worker(t) PROVE IInv'
  BY <1>1, <1>3, WorkerStructure, WorkerChan
<1>4. CASE (\E p \in Pids : Process(p)) \/ Signal \/ DurationElapses \/ Tick
           \/ UNCHANGED vars
  <2>1. Structure'  BY <1>4, EnvStructure
  <2>2. UNCHANGED <<mpc, tpc, chan, sent, delivered>>
    BY <1>4 DEF Process, Signal, DurationElapses, Tick, vars, mainVars, threadVars, dataVars
  <2>3. ChanInv' /\ LossInv'  BY <2>2, SameChan DEF LossInv
  <2>4. QED  BY <1>1, <2>1, <2>3
<1> QED  BY <1>2, <1>3, <1>4 DEF Next, Returned

LEMMA IInvIsInvariant == Spec => []IInv
BY InitIInv, NextIInv, PTL DEF Spec

\* No pid has two workers at a time and no running worker is missing from the
\* table, whatever processes come and go during discovery, reaping, teardown.
THEOREM NoOrphans == Spec => []NoOrphanWorker
<1>1. IInv => NoOrphanWorker  BY DEF IInv, Structure
<1> QED  BY <1>1, IInvIsInvariant, PTL

\* When the sink is finished no worker thread is left.
THEOREM Quiet == Spec => []QuietAtTheEnd
<1>1. IInv => QuietAtTheEnd  BY DEF IInv, Structure, StopInv
<1> QED  BY <1>1, IInvIsInvariant, PTL

\* When run_multi returns, each worker's samples were all written but for at
\* most its last one.
THEOREM LossBound == Spec => []AtMostOneLost
<1>1. IInv => AtMostOneLost
  <2> SUFFICES ASSUME IInv, mpc = "done", NEW t \in Threads
               PROVE  delivered[t] <= sent[t] /\ sent[t] <= delivered[t] + 1
    BY DEF AtMostOneLost
  <2>1. sent[t] \in Nat /\ delivered[t] \in Nat  BY DEF IInv, TypeOK
  <2>2. delivered[t] <= sent[t]  BY DEF IInv, ChanInv
  <2>3. sent[t] <= delivered[t]
          + (IF tpc[t] \in {"capture", "send"} THEN 0 ELSE 1)
    BY DEF IInv, LossInv
  <2>4. QED  BY <2>1, <2>2, <2>3
<1> QED  BY <1>1, IInvIsInvariant, PTL

(***************************************************************************)
(* No loss unless a worker outlasts the drain's timeout                    *)
(***************************************************************************)

\* Then the drain ended only after every worker did.
CutInv ==
  ~cut /\ mpc \in {"join", "finish", "done"} =>
    \A t \in Threads : sent[t] = delivered[t] /\ ~Live(t)

LEMMA CutStep == IInv /\ CutInv /\ [Next]_vars => CutInv'
<1> SUFFICES ASSUME IInv, CutInv, [Next]_vars, ~cut',
                    mpc' \in {"join", "finish", "done"}, NEW t \in Threads
             PROVE  sent'[t] = delivered'[t] /\ ~Live(t)'
  BY DEF CutInv
<1> USE DEF IInv, dataVars, mainVars, threadVars
<1>1. sent[t] \in Nat /\ delivered[t] \in Nat /\ delivered[t] <= sent[t]
  BY DEF TypeOK, ChanInv
<1>2. CASE mpc \in {"join", "finish", "done"}
  <2>0. cut' = cut
    BY <1>2 DEF Next, Main, InitialDiscover, InitialDiscoverFails,
         AttachInitial, AttachFound, SkipFound, AttachInitialEnds, AttachEnds, LoopTop,
         RecvSample, RecvTimeout, Timer, Discover, DiscoverFails, Teardown, DrainSample,
         DrainEnds, Join, Finish, Worker, CheckStop, CaptureStack, CaptureNothing,
         CaptureFails, CheckStatus, Send, Process, Signal, DurationElapses, Tick,
         Returned, vars
  <2>1. \A u \in Threads : sent[u] = delivered[u] /\ ~Live(u)
    BY <1>2, <2>0 DEF CutInv
  <2>2. ASSUME NEW u \in Threads, Worker(u) PROVE FALSE
    BY <2>1, <2>2 DEF Worker, CheckStop, CaptureStack, CaptureNothing, CaptureFails,
                      CheckStatus, Send, Step, Live
  <2>3. UNCHANGED <<tpc, sent, delivered>>
    BY <1>2, <2>2 DEF Next, Main, InitialDiscover, InitialDiscoverFails,
         AttachInitial, AttachFound, SkipFound, AttachInitialEnds, AttachEnds, LoopTop,
         RecvSample, RecvTimeout, Timer, Discover, DiscoverFails, Teardown, DrainSample,
         DrainEnds, Join, Finish, Process, Signal, DurationElapses, Tick, Returned, vars
  <2>4. QED  BY <2>1, <2>3 DEF Live
<1>3. CASE mpc \notin {"join", "finish", "done"}
  <2>1. DrainEnds \/ InitialDiscoverFails
    BY <1>3 DEF Next, Main, InitialDiscover, AttachInitial, AttachFound, SkipFound,
         AttachInitialEnds, AttachEnds, LoopTop, RecvSample, RecvTimeout, Timer, Discover,
         DiscoverFails, Teardown, DrainSample, Join, Finish, Worker, CheckStop,
         CaptureStack, CaptureNothing, CaptureFails, CheckStatus, Send, Step, Process,
         Signal, DurationElapses, Tick, Returned, vars
  <2>2. UNCHANGED <<tpc, sent, delivered>>
    BY <2>1 DEF DrainEnds, InitialDiscoverFails
  <2>3. CASE DrainEnds
    <3>1. chan = << >> /\ ~Live(t)  BY <2>3 DEF DrainEnds, NothingToDrain
    <3>2. ASSUME delivered[t] < sent[t] PROVE FALSE
      BY <1>1, <3>1, <3>2 DEF ChanInv
    <3>3. sent[t] = delivered[t]  BY <1>1, <3>2
    <3>4. QED  BY <2>2, <3>1, <3>3 DEF Live
  <2>4. CASE InitialDiscoverFails
    <3>1. tpc[t] = "unborn" /\ sent[t] = 0
      BY <2>4 DEF InitialDiscoverFails, Structure, StartInv
    <3>2. QED  BY <1>1, <2>2, <3>1 DEF Live
  <2>5. QED  BY <2>1, <2>3, <2>4
<1> QED  BY <1>2, <1>3

\* Unless the drain's 100 ms timeout was outlasted by a worker, every sample
\* taken is in the sink when run_multi returns.
THEOREM UncutLosesNothing == Spec => []LostOnlyIfCut
<1>1. Init => CutInv  BY DEF Init, CutInv
<1>2. CutInv => LostOnlyIfCut  BY DEF CutInv, LostOnlyIfCut
<1> QED  BY <1>1, <1>2, CutStep, IInvIsInvariant, PTL DEF Spec

(***************************************************************************)
(* run_multi implements SampleStream                                       *)
(***************************************************************************)

LEMMA PhaseIs ==
  /\ mpc = "done" <=> StreamPhase = "returned"
  /\ mpc \in {"drain", "join", "finish"} <=> StreamPhase = "stopping"
  /\ mpc \notin {"drain", "join", "finish", "done"} <=> StreamPhase = "sampling"
BY DEF StreamPhase

LEMMA PhaseIsNext ==
  /\ mpc' = "done" <=> StreamPhase' = "returned"
  /\ mpc' \in {"drain", "join", "finish"} <=> StreamPhase' = "stopping"
  /\ mpc' \notin {"drain", "join", "finish", "done"} <=> StreamPhase' = "sampling"
BY DEF StreamPhase

\* A step that keeps the phase, the counters and the threads is a stutter.
LEMMA StreamStutter ==
  ASSUME StreamPhase' = StreamPhase, UNCHANGED <<sent, delivered>>,
         StreamPhase = "sampling" \/ tpc' = tpc
  PROVE  UNCHANGED Stream!vars
BY DEF Stream!vars, StreamGrace

LEMMA MainStream ==
  ASSUME IInv, Main
  PROVE  [Stream!Next]_(Stream!vars)
<1> USE DEF IInv, threadVars, dataVars, mainVars
<1>1. CASE RecvSample \/ DrainSample
  <2> DEFINE m == Head(chan)
  <2>1. chan # << >> /\ mpc \in {"recv", "drain"} /\ mpc' \in {"timer", "drain"}
        /\ (mpc = "recv" => mpc' = "timer") /\ (mpc = "drain" => mpc' = "drain")
        /\ tpc' = tpc /\ sent' = sent
        /\ delivered' = [delivered EXCEPT ![m.worker] = m.n]
    BY <1>1 DEF RecvSample, DrainSample, Write
  <2>2. m.worker \in Threads /\ m.n = delivered[m.worker] + 1 /\ m.n <= sent[m.worker]
    BY <2>1, HeadIsNext
  <2>3. StreamPhase # "returned" /\ StreamPhase' = StreamPhase
    BY <2>1, PhaseIs, PhaseIsNext
  <2>4. StreamGrace' = StreamGrace  BY <2>1, <2>3 DEF StreamGrace
  <2>5. delivered[m.worker] \in Nat /\ sent[m.worker] \in Nat  BY <2>2 DEF TypeOK
  <2> HIDE DEF m
  <2>6. Stream!Deliver(m.worker)
    BY <2>1, <2>2, <2>3, <2>4, <2>5 DEF Stream!Deliver
  <2>7. QED  BY <2>2, <2>6 DEF Stream!Next
<1>2. CASE Teardown
  <2>1. mpc = "teardown" /\ mpc' = "drain" /\ UNCHANGED <<sent, delivered>>
    BY <1>2 DEF Teardown
  <2>2. StreamPhase = "sampling" /\ StreamPhase' = "stopping"
    BY <2>1, PhaseIs, PhaseIsNext
  <2>3. StreamGrace' \in [Threads -> BOOLEAN]  BY DEF StreamGrace
  <2>4. QED  BY <2>1, <2>2, <2>3 DEF Stream!Stop, Stream!Next
<1>3. CASE Finish
  <2>1. mpc = "finish" /\ mpc' = "done" /\ UNCHANGED <<sent, delivered, tpc>>
    BY <1>3 DEF Finish
  <2>2. StreamPhase = "stopping" /\ StreamPhase' = "returned"
    BY <2>1, PhaseIs, PhaseIsNext
  <2>3. ASSUME NEW t \in Threads
        PROVE  ~StreamGrace[t] /\ sent[t] - delivered[t] \in {0, 1}
    <3>1. tpc[t] \notin {"capture", "send"}
      BY <2>1 DEF Structure, StopInv, QuietAtTheEnd, Live
    <3>2. sent[t] \in Nat /\ delivered[t] \in Nat  BY DEF TypeOK
    <3>3. sent[t] <= delivered[t] + 1  BY <2>1, <3>1 DEF LossInv
    <3>4. delivered[t] <= sent[t]  BY DEF ChanInv
    <3>5. sent[t] - delivered[t] \in {0, 1}  BY <3>2, <3>3, <3>4
    <3>6. ~StreamGrace[t]  BY <2>2, <3>1 DEF StreamGrace
    <3>7. QED  BY <3>5, <3>6
  <2>4. StreamGrace' = StreamGrace  BY <2>1, <2>2 DEF StreamGrace
  <2>5. QED  BY <2>1, <2>2, <2>3, <2>4 DEF Stream!Return, Stream!Next
<1>4. CASE InitialDiscoverFails
  <2>1. mpc = "discover0" /\ mpc' = "done" /\ UNCHANGED <<sent, delivered, tpc>>
    BY <1>4 DEF InitialDiscoverFails
  <2>2. StreamPhase = "sampling" /\ StreamPhase' = "returned"
    BY <2>1, PhaseIs, PhaseIsNext
  <2>3. \A t \in Threads : tpc[t] = "unborn" /\ sent[t] = 0
    BY <2>1 DEF Structure, StartInv
  <2>4. StreamGrace' = [t \in Threads |-> FALSE]
    BY <2>1, <2>2, <2>3 DEF StreamGrace
  <2>5. QED  BY <2>1, <2>2, <2>3, <2>4 DEF Stream!Abort, Stream!Next
<1>5. CASE ~(RecvSample \/ DrainSample \/ Teardown \/ Finish \/ InitialDiscoverFails)
  <2>1. /\ UNCHANGED <<sent, delivered>>
        /\ \/ /\ mpc \notin {"drain", "join", "finish", "done"}
              /\ mpc' \notin {"drain", "join", "finish", "done"}
           \/ /\ mpc \in {"drain", "join"} /\ mpc' \in {"join", "finish"}
              /\ tpc' = tpc
    BY <1>5 DEF Main, InitialDiscover, AttachInitial, AttachFound, SkipFound,
                AttachInitialEnds, AttachEnds, LoopTop, RecvTimeout, Timer,
                Discover, DiscoverFails, DrainEnds, Join
  <2>2. StreamPhase' = StreamPhase /\ (StreamPhase = "sampling" \/ tpc' = tpc)
    BY <2>1, PhaseIs, PhaseIsNext
  <2>3. QED  BY <2>1, <2>2, StreamStutter
<1> QED  BY <1>1, <1>2, <1>3, <1>4, <1>5

LEMMA WorkerStream ==
  ASSUME IInv, NEW t \in Threads, Worker(t)
  PROVE  [Stream!Next]_(Stream!vars)
<1> USE DEF IInv, mainVars, dataVars
<1>1. mpc' = mpc /\ StreamPhase' = StreamPhase /\ Live(t)
      /\ \E to \in ThreadPCs : tpc' = [tpc EXCEPT ![t] = to]
  BY DEF Worker, CheckStop, CaptureStack, CaptureNothing, CaptureFails, CheckStatus,
         Send, Step, Live, StreamPhase, ThreadPCs
<1>2. StreamPhase # "returned" /\ ReceiverOpen
  BY <1>1, PhaseIs DEF Structure, StopInv, QuietAtTheEnd, ReceiverOpen
<1>3. CASE Send(t)
  <2>1. sent' = [sent EXCEPT ![t] = sent[t] + 1] /\ delivered' = delivered
        /\ tpc[t] = "send" /\ tpc' = [tpc EXCEPT ![t] = "check"]
    BY <1>2, <1>3 DEF Send, Step
  <2>2. StreamGrace[t]  BY <2>1 DEF StreamGrace
  <2>3. StreamGrace' = [StreamGrace EXCEPT ![t] = (StreamPhase = "sampling")]
    BY <1>1, <2>1 DEF StreamGrace, TypeOK
  <2>4. QED  BY <1>1, <1>2, <2>1, <2>2, <2>3 DEF Stream!Sample, Stream!Next
<1>4. CASE ~Send(t)
  <2>1. UNCHANGED <<sent, delivered>>
    BY <1>4 DEF Worker, CheckStop, CaptureStack, CaptureNothing, CaptureFails,
                CheckStatus
  <2>2. CASE StreamPhase = "sampling"  BY <1>1, <2>1, <2>2, StreamStutter
  <2>3. CASE StreamPhase = "stopping"
    <3>1. tstop[t]
      BY <1>1, <2>3, PhaseIs DEF Structure, StopInv, QuietAtTheEnd
    <3>2. tpc'[t] \in {"capture", "send"} => tpc[t] \in {"capture", "send"}
      BY <1>4, <3>1 DEF Worker, CheckStop, CaptureStack, CaptureNothing,
           CaptureFails, CheckStatus, Step, TypeOK
    <3>3. \A u \in Threads : u # t => tpc'[u] = tpc[u]  BY <1>1 DEF TypeOK
    <3>4. CASE tpc'[t] \in {"capture", "send"}
      <4>1. StreamGrace' = StreamGrace
        BY <1>1, <2>3, <3>2, <3>3, <3>4 DEF StreamGrace
      <4>2. QED  BY <1>1, <2>1, <4>1 DEF Stream!vars
    <3>5. CASE tpc'[t] \notin {"capture", "send"}
      <4>1. StreamGrace' = [StreamGrace EXCEPT ![t] = FALSE]
        BY <1>1, <2>3, <3>3, <3>5 DEF StreamGrace
      <4>2. Stream!Retire(t)  BY <1>1, <2>1, <2>3, <4>1 DEF Stream!Retire
      <4>3. QED  BY <4>2 DEF Stream!Next
    <3>6. QED  BY <3>4, <3>5
  <2>4. StreamPhase \in {"sampling", "stopping", "returned"}  BY DEF StreamPhase
  <2>5. QED  BY <1>2, <2>2, <2>3, <2>4
<1> QED  BY <1>3, <1>4

\* Every behaviour of run_multi is, to someone who looks at what was sampled
\* and what was written, a behaviour of SampleStream.
THEOREM Refinement == Spec => ImplementsStream
<1>1. Init => Stream!Init
  <2> SUFFICES ASSUME Init PROVE Stream!Init  OBVIOUS
  <2>1. StreamPhase = "sampling"  BY PhaseIs DEF Init
  <2>2. StreamGrace = [t \in Threads |-> TRUE]  BY <2>1 DEF StreamGrace
  <2>3. QED  BY <2>1, <2>2 DEF Init, Stream!Init
<1>2. IInv /\ [Next]_vars => [Stream!Next]_(Stream!vars)
  <2> SUFFICES ASSUME IInv, [Next]_vars PROVE [Stream!Next]_(Stream!vars)
    OBVIOUS
  <2>1. CASE (\E p \in Pids : Process(p)) \/ Signal \/ DurationElapses \/ Tick
             \/ UNCHANGED vars
    <3>1. UNCHANGED <<mpc, tpc, sent, delivered>>
      BY <2>1 DEF Process, Signal, DurationElapses, Tick, vars, mainVars, threadVars,
                  dataVars
    <3>2. StreamPhase' = StreamPhase  BY <3>1 DEF StreamPhase
    <3>3. QED  BY <3>1, <3>2, StreamStutter
  <2>2. CASE Main  BY <2>2, MainStream
  <2>3. ASSUME NEW t \in Threads, Worker(t) PROVE [Stream!Next]_(Stream!vars)
    BY <2>3, WorkerStream
  <2>4. QED  BY <2>1, <2>2, <2>3 DEF Next, Returned
<1> QED  BY <1>1, <1>2, IInvIsInvariant, PTL DEF Spec, ImplementsStream, Stream!Spec
=============================================================================
