---------------------------- MODULE MultiSampler ----------------------------
(***************************************************************************)
(* sampler::run_multi: the main thread discovers processes, attaches to    *)
(* each and starts a worker thread for it; the workers sample and send     *)
(* over one mpsc channel; the main thread writes what it receives, reaps   *)
(* finished workers and rediscovers on a timer, and tears everything down  *)
(* on a signal or when the duration is over.                               *)
(*                                                                         *)
(* The profiled processes are the environment: they start, exit, stay      *)
(* zombies until their parent waits for them, and (PidReuse) a pid may     *)
(* pass to another process image under a live worker.                      *)
(*                                                                         *)
(* A sample is its worker's name, its number in that worker's sequence     *)
(* and whether it carries a request URI; the stack is left out.            *)
(***************************************************************************)
EXTENDS Naturals, Sequences

CONSTANTS
  Pids,            \* process ids the filter may match
  Threads,         \* worker threads the system can start, each used once
  None,            \* no worker tracked for a pid, no pid for a thread
  RediscoverSecs,  \* --rediscover-secs
  HasDuration,     \* --duration-secs > 0
  RequestInfo,     \* --request-info
  PidReuse,        \* may a pid change its image under a live worker
                   \* (execve, or exit and reuse of the number)?
  MaxGen,          \* bound: process images per pid
  MaxSamples       \* bound: samples per worker

ASSUME ThreadsAssumption == None \notin Threads
ASSUME PidsAssumption == None \notin Pids
ASSUME NumbersAssumption ==
  /\ RediscoverSecs \in Nat
  /\ MaxGen \in Nat \ {0}
  /\ MaxSamples \in Nat
ASSUME FlagsAssumption ==
  {HasDuration, RequestInfo, PidReuse} \subseteq BOOLEAN

VARIABLES
  proc,       \* state of each pid: "absent", "running" or "zombie"
  gen,        \* number of the pid's current (or last) process image
  stop,       \* the flag the signal handler sets
  expired,    \* the duration has elapsed
  age,        \* seconds since rediscovery was last started
  mpc,        \* where the main thread is
  todo,       \* pids of the last discovery still to be looked at
  workers,    \* the worker table: pid -> thread or None
  tpc,        \* where each worker thread is
  tpid,       \* the pid a worker was started for
  tgen,       \* the process image its Target was attached to
  tstop,      \* the worker's own stop flag
  chan,       \* the mpsc channel
  sent,       \* number of samples each worker has sent
  delivered,  \* number of the last sample of each worker written
  rawUri,     \* a sample with a URI was written without its pid in front
  cut         \* the drain timed out with a worker still running

envVars    == <<proc, gen>>
clockVars  == <<stop, expired, age>>
mainVars   == <<mpc, todo, workers>>
threadVars == <<tpc, tpid, tgen, tstop>>
dataVars   == <<chan, sent, delivered, rawUri, cut>>
vars == <<envVars, clockVars, mainVars, threadVars, dataVars>>

MainPCs   == {"discover0", "attach0", "top", "recv", "timer", "discover",
              "attach", "teardown", "drain", "join", "finish", "done"}
ThreadPCs == {"unborn", "check", "capture", "status", "send", "exited"}
Messages  == [worker : Threads, n : Nat, uri : BOOLEAN]

\* rediscover_secs.max(1)
RediscoverEvery == IF RediscoverSecs < 1 THEN 1 ELSE RediscoverSecs

Live(t)    == tpc[t] \notin {"unborn", "exited"}
Tracked(t) == \E p \in Pids : workers[p] = t

TypeOK ==
  /\ proc \in [Pids -> {"absent", "running", "zombie"}]
  /\ gen \in [Pids -> 0..MaxGen]
  /\ stop \in BOOLEAN
  /\ expired \in BOOLEAN
  /\ age \in 0..RediscoverEvery
  /\ mpc \in MainPCs
  /\ todo \in SUBSET Pids
  /\ workers \in [Pids -> Threads \cup {None}]
  /\ tpc \in [Threads -> ThreadPCs]
  /\ tpid \in [Threads -> Pids \cup {None}]
  /\ tgen \in [Threads -> 0..MaxGen]
  /\ tstop \in [Threads -> BOOLEAN]
  /\ chan \in Seq(Messages)
  /\ sent \in [Threads -> Nat]
  /\ delivered \in [Threads -> Nat]
  /\ rawUri \in BOOLEAN
  /\ cut \in BOOLEAN

Init ==
  /\ proc \in [Pids -> {"absent", "running"}]
  /\ gen = [p \in Pids |-> IF proc[p] = "running" THEN 1 ELSE 0]
  /\ stop = FALSE
  /\ expired = FALSE
  /\ age = RediscoverEvery       \* next_rediscover = Instant::now()
  /\ mpc = "discover0"
  /\ todo = {}
  /\ workers = [p \in Pids |-> None]
  /\ tpc = [t \in Threads |-> "unborn"]
  /\ tpid = [t \in Threads |-> None]
  /\ tgen = [t \in Threads |-> 0]
  /\ tstop = [t \in Threads |-> FALSE]
  /\ chan = << >>
  /\ sent = [t \in Threads |-> 0]
  /\ delivered = [t \in Threads |-> 0]
  /\ rawUri = FALSE
  /\ cut = FALSE

(***************************************************************************)
(* The main thread: start-up                                               *)
(***************************************************************************)

\* Everything /proc lists for the filter: a zombie keeps its /proc entry.
Visible == {p \in Pids : proc[p] # "absent"}

\* let initial = discover::discover(&filter)?
InitialDiscover ==
  /\ mpc = "discover0"
  /\ todo' = Visible
  /\ mpc' = "attach0"
  /\ UNCHANGED <<envVars, clockVars, workers, threadVars, dataVars>>

InitialDiscoverFails ==
  /\ mpc = "discover0"
  /\ mpc' = "done"
  /\ UNCHANGED <<envVars, clockVars, todo, workers, threadVars, dataVars>>

Attachable(p) == proc[p] = "running"

\* Target::attach succeeds and the thread starts: it is attached to the image
\* p has now, whatever p runs later.
SpawnWorker(p, t) ==
  /\ Attachable(p)
  /\ tpc[t] = "unborn"
  /\ tpc' = [tpc EXCEPT ![t] = "check"]
  /\ tpid' = [tpid EXCEPT ![t] = p]
  /\ tgen' = [tgen EXCEPT ![t] = gen[p]]
  /\ workers' = [workers EXCEPT ![p] = t]
  /\ UNCHANGED tstop

\* The start-up loop spawns a worker for each pid found; Target::attach (or
\* the thread's creation) may fail, which only skips the pid.
AttachInitial(p) ==
  /\ mpc = "attach0"
  /\ p \in todo
  /\ todo' = todo \ {p}
  /\ \/ \E t \in Threads : SpawnWorker(p, t)
     \/ UNCHANGED <<workers, threadVars>>
  /\ UNCHANGED <<envVars, clockVars, mpc, dataVars>>

AttachInitialEnds ==
  /\ mpc = "attach0"
  /\ todo = {}
  /\ mpc' = "top"
  /\ UNCHANGED <<envVars, clockVars, todo, workers, threadVars, dataVars>>

(***************************************************************************)
(* The main thread: the event loop                                         *)
(***************************************************************************)

\* The two checks at the top of the loop.
LoopTop ==
  /\ mpc = "top"
  /\ mpc' = IF stop \/ expired THEN "teardown" ELSE "recv"
  /\ UNCHANGED <<envVars, clockVars, todo, workers, threadVars, dataVars>>

\* sink.write_sample: what reaches the sink, and whether its URI was
\* annotated with the pid first.
Write(msg, annotated) ==
  /\ delivered' = [delivered EXCEPT ![msg.worker] = msg.n]
  /\ rawUri' = (rawUri \/ (msg.uri /\ ~annotated))

RecvSample ==
  /\ mpc = "recv"
  /\ chan # << >>
  /\ Write(Head(chan), TRUE)
  /\ chan' = Tail(chan)
  /\ mpc' = "timer"
  /\ UNCHANGED <<envVars, clockVars, todo, workers, threadVars, sent, cut>>

\* Nothing came for 50 ms.
RecvTimeout ==
  /\ mpc = "recv"
  /\ chan = << >>
  /\ mpc' = "timer"
  /\ UNCHANGED <<envVars, clockVars, todo, workers, threadVars, dataVars>>

\* Mutant: finished workers stay in the table.
ReapsNobody == workers

\* workers.retain(|_, h| !h.join.is_finished())
Reaped == [p \in Pids |->
             IF workers[p] # None /\ tpc[workers[p]] = "exited"
             THEN None ELSE workers[p]]

\* The rediscovery timer: when due, it is re-armed and finished workers are
\* dropped from the table.
Timer ==
  /\ mpc = "timer"
  /\ IF age < RediscoverEvery
     THEN mpc' = "top" /\ UNCHANGED <<age, workers>>
     ELSE mpc' = "discover" /\ age' = 0 /\ workers' = Reaped
  /\ UNCHANGED <<envVars, stop, expired, todo, threadVars, dataVars>>

Discover ==
  /\ mpc = "discover"
  /\ todo' = Visible
  /\ mpc' = "attach"
  /\ UNCHANGED <<envVars, clockVars, workers, threadVars, dataVars>>

\* A failed rediscovery is logged and waits for the next period.
DiscoverFails ==
  /\ mpc = "discover"
  /\ mpc' = "top"
  /\ UNCHANGED <<envVars, clockVars, todo, workers, threadVars, dataVars>>

\* Mutant: the table is not consulted.
AnyUntracked(p) == TRUE

\* !workers.contains_key(&pid)
Untracked(p) == workers[p] = None

AttachFound(p) ==
  /\ mpc = "attach"
  /\ p \in todo
  /\ Untracked(p)
  /\ todo' = todo \ {p}
  /\ \E t \in Threads : SpawnWorker(p, t)
  /\ UNCHANGED <<envVars, clockVars, mpc, dataVars>>

\* The pid already has a worker, or attaching to it failed.
SkipFound(p) ==
  /\ mpc = "attach"
  /\ p \in todo
  /\ todo' = todo \ {p}
  /\ UNCHANGED <<envVars, clockVars, mpc, workers, threadVars, dataVars>>

AttachEnds ==
  /\ mpc = "attach"
  /\ todo = {}
  /\ mpc' = "top"
  /\ UNCHANGED <<envVars, clockVars, todo, workers, threadVars, dataVars>>

(***************************************************************************)
(* The main thread: teardown                                               *)
(***************************************************************************)

\* Mutant: the workers are not told.
TeardownSilent ==
  /\ mpc = "teardown"
  /\ mpc' = "drain"
  /\ UNCHANGED <<envVars, clockVars, todo, workers, threadVars, dataVars>>

\* Every worker still in the table is told to stop; the main thread's own
\* sender is dropped.
Teardown ==
  /\ mpc = "teardown"
  /\ tstop' = [t \in Threads |-> tstop[t] \/ Tracked(t)]
  /\ mpc' = "drain"
  /\ UNCHANGED <<envVars, clockVars, todo, workers, tpc, tpid, tgen, dataVars>>

\* Mutant: what is drained is thrown away.
DrainDiscards ==
  /\ mpc = "drain"
  /\ chan # << >>
  /\ chan' = Tail(chan)
  /\ UNCHANGED <<envVars, clockVars, mainVars, threadVars, sent, delivered, rawUri,
                 cut>>

DrainSample ==
  /\ mpc = "drain"
  /\ chan # << >>
  /\ Write(Head(chan), FALSE)
  /\ chan' = Tail(chan)
  /\ UNCHANGED <<envVars, clockVars, mainVars, threadVars, sent, cut>>

\* Mutant: the drain is left out.
DrainsNothing == TRUE

\* recv_timeout returns Err: every sender is gone, or 100 ms went by without
\* a sample, which one iteration of a worker can outlast (a rate below 10 Hz,
\* a slow capture, a preempted thread).
NothingToDrain == chan = << >>

DrainEnds ==
  /\ mpc = "drain"
  /\ NothingToDrain
  /\ cut' = \E t \in Threads : Live(t)
  /\ mpc' = "join"
  /\ UNCHANGED <<envVars, clockVars, todo, workers, threadVars, chan, sent, delivered,
                 rawUri>>

\* Mutant: the handles are dropped, not joined.
JoinsNobody == TRUE

Joinable == \A t \in Threads : Tracked(t) => tpc[t] = "exited"

Join ==
  /\ mpc = "join"
  /\ Joinable
  /\ workers' = [p \in Pids |-> None]
  /\ mpc' = "finish"
  /\ UNCHANGED <<envVars, clockVars, todo, threadVars, dataVars>>

\* sink.finish(); the function returns, and the receiver goes with it.
Finish ==
  /\ mpc = "finish"
  /\ mpc' = "done"
  /\ UNCHANGED <<envVars, clockVars, todo, workers, threadVars, dataVars>>

(***************************************************************************)
(* A worker thread: one iteration of its loop                              *)
(***************************************************************************)

Step(t, from, to) ==
  /\ tpc[t] = from
  /\ tpc' = [tpc EXCEPT ![t] = to]
  /\ UNCHANGED <<envVars, clockVars, mainVars, tpid, tgen, tstop>>

\* The loop condition, then the sleep until the next sample is due.
CheckStop(t) ==
  /\ Step(t, "check", IF tstop[t] THEN "exited" ELSE "capture")
  /\ UNCHANGED dataVars

\* The pid has memory to read, be it that of the image attached to or not.
Readable(t) == proc[tpid[t]] = "running"

CaptureStack(t) ==
  /\ Step(t, "capture", "send")
  /\ Readable(t)
  /\ sent[t] < MaxSamples
  /\ UNCHANGED dataVars

\* No frames, or the leaf is one --drop-leaf names.
CaptureNothing(t) ==
  /\ Step(t, "capture", "check")
  /\ Readable(t)
  /\ UNCHANGED dataVars

CaptureFails(t) ==
  /\ Step(t, "capture", "status")
  /\ UNCHANGED dataVars

\* Mutant: a failed capture is retried for ever.
RetriesForEver(t) ==
  /\ Step(t, "status", "check")
  /\ UNCHANGED dataVars

\* Does /proc/PID/status still exist?
CheckStatus(t) ==
  /\ tpc[t] = "status"
  /\ Step(t, "status", IF proc[tpid[t]] = "absent" THEN "exited" ELSE "check")
  /\ UNCHANGED dataVars

ReceiverOpen == mpc # "done"

\* The sample, its URI read when asked for and found, goes to the channel; a
\* closed channel ends the worker.
Send(t) ==
  /\ Step(t, "send", IF ReceiverOpen THEN "check" ELSE "exited")
  /\ IF ReceiverOpen
     THEN /\ sent' = [sent EXCEPT ![t] = @ + 1]
          /\ \E uri \in {FALSE, RequestInfo} :
               chan' = Append(chan, [worker |-> t, n |-> sent'[t], uri |-> uri])
          /\ UNCHANGED <<delivered, rawUri, cut>>
     ELSE UNCHANGED dataVars

(***************************************************************************)
(* The environment: processes, the signal, the clock. It is not followed   *)
(* beyond the end of the run.                                              *)
(***************************************************************************)

\* A process gets number p. Without PidReuse the number is not handed out
\* again while a worker is still looking at its previous owner.
ProcessStarts(p) ==
  /\ proc[p] = "absent"
  /\ gen[p] < MaxGen
  /\ PidReuse \/ \A t \in Threads : tpid[t] = p => ~Live(t)
  /\ proc' = [proc EXCEPT ![p] = "running"]
  /\ gen' = [gen EXCEPT ![p] = @ + 1]

\* execve: same pid, another image.
ProcessExecs(p) ==
  /\ PidReuse
  /\ proc[p] = "running"
  /\ gen[p] < MaxGen
  /\ gen' = [gen EXCEPT ![p] = @ + 1]
  /\ UNCHANGED proc

\* It exits; its /proc entry stays until the parent waits for it.
ProcessExits(p) ==
  /\ proc[p] = "running"
  /\ \E s \in {"zombie", "absent"} : proc' = [proc EXCEPT ![p] = s]
  /\ UNCHANGED gen

ZombieWaitedFor(p) ==
  /\ proc[p] = "zombie"
  /\ proc' = [proc EXCEPT ![p] = "absent"]
  /\ UNCHANGED gen

Process(p) ==
  /\ mpc # "done"
  /\ ProcessStarts(p) \/ ProcessExecs(p) \/ ProcessExits(p) \/ ZombieWaitedFor(p)
  /\ UNCHANGED <<clockVars, mainVars, threadVars, dataVars>>

\* SIGINT or SIGTERM.
Signal ==
  /\ mpc # "done"
  /\ ~stop
  /\ stop' = TRUE
  /\ UNCHANGED <<envVars, expired, age, mainVars, threadVars, dataVars>>

DurationElapses ==
  /\ mpc # "done"
  /\ HasDuration
  /\ ~expired
  /\ expired' = TRUE
  /\ UNCHANGED <<envVars, stop, age, mainVars, threadVars, dataVars>>

\* A second goes by; age counts up to the period and stays there.
Tick ==
  /\ mpc # "done"
  /\ age < RediscoverEvery
  /\ age' = age + 1
  /\ UNCHANGED <<envVars, stop, expired, mainVars, threadVars, dataVars>>

(***************************************************************************)
(* The specification                                                       *)
(***************************************************************************)

Main ==
  \/ InitialDiscover \/ InitialDiscoverFails
  \/ \E p \in Pids : AttachInitial(p) \/ AttachFound(p) \/ SkipFound(p)
  \/ AttachInitialEnds \/ AttachEnds
  \/ LoopTop \/ RecvSample \/ RecvTimeout \/ Timer
  \/ Discover \/ DiscoverFails
  \/ Teardown \/ DrainSample \/ DrainEnds \/ Join \/ Finish

Worker(t) ==
  \/ CheckStop(t) \/ CaptureStack(t) \/ CaptureNothing(t) \/ CaptureFails(t)
  \/ CheckStatus(t) \/ Send(t)

\* After the end nothing happens any more.
Returned == mpc = "done" /\ UNCHANGED vars

Next ==
  \/ Main
  \/ \E t \in Threads : Worker(t)
  \/ \E p \in Pids : Process(p)
  \/ Signal \/ DurationElapses \/ Tick
  \/ Returned

Spec == Init /\ [][Next]_vars

\* The scheduler runs the main thread and every worker, the clock advances.
\* Reading /proc and attaching do not fail for ever (strong fairness: an
\* attempt is made again at every rediscovery). Processes and signals owe
\* nothing, and neither does the end of the duration, which may be as far away
\* as one likes.
Fairness ==
  /\ WF_vars(Main)
  /\ \A t \in Threads : WF_vars(Worker(t))
  /\ WF_vars(Tick)
  /\ SF_vars(Discover)
  /\ \A p \in Pids : SF_vars(AttachFound(p))

FairSpec == Spec /\ Fairness

(***************************************************************************)
(* Safety                                                                  *)
(***************************************************************************)

\* Every running worker thread is the one the table holds for its pid: no pid
\* is sampled twice at once, and teardown reaches every thread there is. The
\* table forgets a worker only once its thread has finished.
NoOrphanWorker ==
  \A t \in Threads : Live(t) => tpid[t] \in Pids /\ workers[tpid[t]] = t

\* Once the workers are joined none of them runs, so nothing touches the
\* channel while the sink is finished or after run_multi returned.
QuietAtTheEnd ==
  mpc \in {"finish", "done"} => \A t \in Threads : ~Live(t)

\* What the drain may miss: when the run returns, at most the newest sample of
\* each worker was sent and not written (the one taken in the iteration that
\* was under way when the workers were told to stop).
AtMostOneLost ==
  mpc = "done" =>
    \A t \in Threads : delivered[t] <= sent[t] /\ sent[t] <= delivered[t] + 1

\* A sample is lost only if the drain's timeout was outlasted by a worker: when
\* the drain ended because every sender was gone, all that was sent is written.
LostOnlyIfCut ==
  mpc = "done" /\ ~cut => \A t \in Threads : sent[t] = delivered[t]

StreamPhase ==
  CASE mpc = "done" -> "returned"
    [] mpc \in {"drain", "join", "finish"} -> "stopping"
    [] OTHER -> "sampling"

StreamGrace ==
  [t \in Threads |-> StreamPhase = "sampling" \/ tpc[t] \in {"capture", "send"}]

Stream == INSTANCE SampleStream WITH phase <- StreamPhase, grace <- StreamGrace

\* run_multi keeps the promises of SampleStream: each worker's samples are
\* written in the order taken, none skipped, repeated or invented; a worker
\* takes at most one sample after the stop; at most its newest one is lost.
ImplementsStream == Stream!Spec

(***************************************************************************)
(* Liveness, under FairSpec                                                *)
(***************************************************************************)

Stopping == stop \/ expired \/ mpc \in {"teardown", "drain", "join", "finish", "done"}

\* A signal or the end of the duration ends the run: no worker, however slow,
\* and no stream of late samples keeps the teardown from finishing.
StopEndsRun == (stop \/ expired) ~> (mpc = "done")

Watched(p) == \E t \in Threads : Live(t) /\ tpid[t] = p /\ tgen[t] = gen[p]

\* An image Target::attach accepts is attached to, unless the run is stopped
\* first or it ends: a pid that was seen, lost and came back included.
NewProcessesPickedUp ==
  \A p \in Pids : \A g \in 1..MaxGen :
    (Attachable(p) /\ gen[p] = g) ~>
      (Watched(p) \/ ~Attachable(p) \/ gen[p] # g \/ Stopping)

\* The table does not keep a pid that is gone: its worker notices, ends, and
\* is reaped at the next rediscovery.
GonePidsForgotten ==
  \A p \in Pids : (workers[p] # None /\ proc[p] = "absent") ~>
                    (workers[p] = None \/ proc[p] # "absent" \/ Stopping)

(***************************************************************************)
(* What the repository's comments say and the code does not do             *)
(***************************************************************************)

\* src/sampler.rs:393: "Annotate request_uri with pid so multi-pid runs are
\* disambiguable".
UrisCarryPid == ~rawUri
=============================================================================
