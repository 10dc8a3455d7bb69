------------------------------- MODULE TopView -------------------------------
(***************************************************************************)
(* run_top and tui::run: a thread for each process samples and sends; the  *)
(* main thread adds the stacks up, draws and looks at the keys.            *)
(***************************************************************************)
EXTENDS Discovery, FiniteSetsExt, TLC

CONSTANTS
  Pids,
  Process,      \* what /proc says of each: comm, cmdline, cgroup
  Selves,       \* the cgroup files the profiler may have
  Options,      \* the options it may be given
  Stacks,       \* stacks that are captured, as names, innermost first
  MaxSamples,   \* bound: stacks captured (afterwards the targets run no PHP code)
  MaxRows       \* lines of the table

\* What is captured has a frame: an empty stack is not sent.
ASSUME StacksAssumption == \A s \in Stacks : s \in Seq(ToSet(s)) \ {<< >>}
ASSUME MaxRowsAssumption == MaxRows \in Nat

VARIABLES
  options,
  self,      \* the profiler's cgroup file
  proc,      \* per process: running, zombie or absent
  pc,        \* where the main thread is
  todo,      \* processes to start a thread for
  worker,    \* per process: where its thread is
  held,      \* per process: the stack its thread is about to send
  stop,
  chan,
  rows,      \* Aggregator.rows
  samples,   \* Aggregator.samples
  raw,       \* the terminal is in raw mode
  failedAt,  \* the step of the main thread that failed
  seen       \* history: the stacks received since the last reset

vars == <<options, self, proc, pc, todo, worker, held, stop, chan, rows, samples, raw,
          failedAt, seen>>
threads == <<worker, held, chan>>
table == <<rows, samples, seen>>

Ended == {"done", "failed"}
Loop == {"stop?", "drain", "draw", "poll"}
Setup == {"discover", "spawn", "raw", "alternate"}
Names == UNION {ToSet(s) : s \in Stacks}

Init ==
  /\ options \in Options /\ self \in Selves
  /\ proc \in [Pids -> {"running", "zombie", "absent"}]
  /\ pc = "discover" /\ todo = {}
  /\ worker = [p \in Pids |-> "none"] /\ held = [p \in Pids |-> <<>>]
  /\ stop = FALSE /\ chan = <<>>
  /\ rows = [n \in {} |-> 0] /\ samples = 0 /\ seen = <<>>
  /\ raw = FALSE /\ failedAt = None

TypeOK ==
  /\ proc \in [Pids -> {"running", "zombie", "absent"}]
  /\ pc \in Setup \cup Loop \cup {"restore"} \cup Ended
  /\ todo \subseteq Pids
  /\ worker \in [Pids -> {"none", "attach", "stop?", "capture", "send", "ended"}]
  /\ \A p \in Pids : held[p] \in Stacks <=> worker[p] = "send"
  /\ stop \in BOOLEAN /\ raw \in BOOLEAN
  /\ chan \in Seq(Stacks)
  /\ DOMAIN rows \subseteq Names
  /\ failedAt \in Setup \cup Loop \cup {None}

(***************************************************************************)
(* run_top: set-up                                                         *)
(***************************************************************************)

\* The step fails, or the main thread goes on with another.
Fails(step) == pc' = step /\ failedAt' = pc
GoesOn(step) == pc' = step /\ UNCHANGED failedAt

\* With --this-container and no id found there is no cgroup to match.
Filter == [name |-> options.name, cmdline |-> options.cmdline,
           cgroup |-> IF options.thisContainer THEN SelfCgroupId(self) ELSE None]

DiscoverAll ==
  /\ pc = "discover"
  /\ todo' = IF options.pid # None THEN {options.pid} ELSE Discover(Filter, proc, Process)
  /\ IF todo' = {} THEN Fails("failed") ELSE GoesOn("spawn")
  /\ UNCHANGED <<options, self, proc, threads, stop, table, raw>>

\* A thread that cannot be created is left out.
Spawn(p) ==
  /\ pc = "spawn" /\ p \in todo
  /\ todo' = todo \ {p}
  /\ \/ worker' = [worker EXCEPT ![p] = "attach"]
     \/ UNCHANGED worker
  /\ UNCHANGED <<options, self, proc, pc, held, chan, stop, table, raw, failedAt>>

\* The main thread drops its sender, and the view begins.
Spawned ==
  /\ pc = "spawn" /\ todo = {}
  /\ GoesOn("raw")
  /\ UNCHANGED <<options, self, proc, todo, threads, stop, table, raw>>

(***************************************************************************)
(* The threads                                                             *)
(***************************************************************************)

Attach(p) ==
  /\ worker[p] = "attach"
  /\ \E next \in {"ended"} \cup IF proc[p] = "running" THEN {"stop?"} ELSE {} :
       worker' = [worker EXCEPT ![p] = next]
  /\ UNCHANGED <<held, chan>>

CheckStop(p) ==
  /\ worker[p] = "stop?"
  /\ worker' = [worker EXCEPT ![p] = IF stop THEN "ended" ELSE "capture"]
  /\ UNCHANGED <<held, chan>>

Captured == samples + Len(chan) + Cardinality({p \in Pids : worker[p] = "send"})

\* Mutant: an error never ends the thread.
NeverGone(p) == FALSE

Gone(p) == proc[p] = "absent"

\* The sleep until the sample is due, then the sample: one to send, one that is
\* empty or dropped, or an error.
Capture(p) ==
  /\ worker[p] = "capture"
  /\ \/ /\ proc[p] = "running" /\ Captured < MaxSamples
        /\ \E stack \in Stacks : held' = [held EXCEPT ![p] = stack]
        /\ worker' = [worker EXCEPT ![p] = "send"]
     \/ /\ proc[p] = "running"
        /\ worker' = [worker EXCEPT ![p] = "stop?"] /\ UNCHANGED held
     \/ /\ worker' = [worker EXCEPT ![p] = IF Gone(p) THEN "ended" ELSE "stop?"]
        /\ UNCHANGED held
  /\ UNCHANGED chan

Send(p) ==
  /\ worker[p] = "send"
  /\ chan' = Append(chan, held[p])
  /\ held' = [held EXCEPT ![p] = <<>>]
  /\ worker' = [worker EXCEPT ![p] = "stop?"]

\* They end with the main thread.
Worker(p) ==
  /\ pc \notin Ended
  /\ Attach(p) \/ CheckStop(p) \/ Capture(p) \/ Send(p)
  /\ UNCHANGED <<options, self, proc, pc, todo, stop, table, raw, failedAt>>

(***************************************************************************)
(* tui::run                                                                *)
(***************************************************************************)

EnableRawMode ==
  /\ pc = "raw"
  /\ \/ raw' = TRUE /\ GoesOn("alternate")
     \/ Fails("failed") /\ UNCHANGED raw
  /\ UNCHANGED <<options, self, proc, todo, threads, stop, table>>

\* The alternate screen and the terminal's size: an error returns at once.
OpenScreen ==
  /\ pc = "alternate"
  /\ GoesOn("stop?") \/ Fails("failed")
  /\ UNCHANGED <<options, self, proc, todo, threads, stop, table, raw>>

LookAtStop ==
  /\ pc = "stop?"
  /\ GoesOn(IF stop THEN "restore" ELSE "drain")
  /\ UNCHANGED <<options, self, proc, todo, threads, stop, table, raw>>

\* Mutant: a function that calls itself counts twice.
PerFrame(stack, name) == Len(SelectSeq(stack, LAMBDA n : n = name))

\* Aggregator::record: a stack counts once for each function in it.
Inclusive(stack, name) == IF name \in ToSet(stack) THEN 1 ELSE 0

Zero == [exclusive |-> 0, inclusive |-> 0]
Record(stack) ==
  LET old == [n \in DOMAIN rows \cup ToSet(stack) |-> IF n \in DOMAIN rows THEN rows[n] ELSE Zero]
  IN  /\ rows' = [n \in DOMAIN old |->
                    [exclusive |-> old[n].exclusive + IF n = Head(stack) THEN 1 ELSE 0,
                     inclusive |-> old[n].inclusive + Inclusive(stack, n)]]
      /\ samples' = samples + 1
      /\ seen' = Append(seen, stack)

Disconnected == chan = <<>> /\ \A p \in Pids : worker[p] \in {"none", "ended"}

\* try_recv until the channel is empty.
Drain ==
  /\ pc = "drain"
  /\ IF chan # <<>>
     THEN /\ Record(Head(chan)) /\ chan' = Tail(chan)
          /\ UNCHANGED <<pc, failedAt>>
     ELSE /\ GoesOn(IF Disconnected THEN "restore" ELSE "draw")
          /\ UNCHANGED <<table, chan>>
  /\ UNCHANGED <<options, self, proc, todo, worker, held, stop, raw>>

\* The rows in the order of a column; which of two that are level comes first is up to
\* the hash map.
Sorted(column) ==
  {v \in [1..Cardinality(DOMAIN rows) -> DOMAIN rows] :
     /\ DOMAIN rows \subseteq ToSet(v)
     /\ \A i, j \in DOMAIN v : i < j => rows[v[i]][column] >= rows[v[j]][column]}

\* The busiest functions, by either column: all that may be drawn.
TopRows(column) == {Restrict(v, DOMAIN v \cap 1..MaxRows) : v \in Sorted(column)}

\* When a tick has passed. What is drawn is one of TopRows.
Draw ==
  /\ pc = "draw"
  /\ GoesOn("poll") \/ Fails("restore")
  /\ UNCHANGED <<options, self, proc, todo, threads, stop, table, raw>>

Reset == rows' = [n \in {} |-> 0] /\ samples' = 0 /\ seen' = <<>>

\* q or Esc; r; i, which sorts by the other column, or any other key.
Key ==
  /\ pc = "poll"
  /\ \/ GoesOn("restore") /\ UNCHANGED table
     \/ GoesOn("stop?") /\ (Reset \/ UNCHANGED table)
  /\ UNCHANGED <<options, self, proc, todo, threads, stop, raw>>

\* Mutant: the key is waited for.
WaitsForKey == FALSE

\* No key in 50 ms, or an error.
NoKey ==
  /\ pc = "poll"
  /\ GoesOn("stop?") \/ Fails("restore")
  /\ UNCHANGED <<options, self, proc, todo, threads, stop, table, raw>>

\* Mutant: the terminal is restored only when all went well.
RestoreOnSuccess ==
  /\ pc = "restore"
  /\ raw' = (failedAt # None)
  /\ pc' = IF failedAt = None THEN "done" ELSE "failed"
  /\ UNCHANGED <<options, self, proc, todo, threads, stop, table, failedAt>>

Restore ==
  /\ pc = "restore"
  /\ raw' = FALSE
  /\ pc' = IF failedAt = None THEN "done" ELSE "failed"
  /\ UNCHANGED <<options, self, proc, todo, threads, stop, table, failedAt>>

Main == \/ DiscoverAll \/ (\E p \in Pids : Spawn(p)) \/ Spawned \/ EnableRawMode
        \/ OpenScreen \/ LookAtStop \/ Drain \/ Draw \/ NoKey \/ Restore

(***************************************************************************)
(* The environment                                                         *)
(***************************************************************************)

\* A signal (see SingleSampler), or the end of the duration.
Stop ==
  /\ ~stop /\ pc \notin Ended
  /\ stop' = TRUE
  /\ UNCHANGED <<options, self, proc, pc, todo, threads, table, raw, failedAt>>

ProcessExits(p) ==
  /\ pc \notin Ended
  /\ \E next \in {"zombie", "absent"} :
       proc[p] \notin {next, "absent"} /\ proc' = [proc EXCEPT ![p] = next]
  /\ UNCHANGED <<options, self, pc, todo, threads, stop, table, raw, failedAt>>

Next == Main \/ Key \/ Stop \/ \E p \in Pids : Worker(p) \/ ProcessExits(p)

\* Threads are scheduled; sleeps, polls and writes to the terminal end. Nobody has
\* to press a key.
Spec == Init /\ [][Next]_vars /\ WF_vars(Main) /\ \A p \in Pids : WF_vars(Worker(p))

(***************************************************************************)
(* Properties                                                              *)
(***************************************************************************)

\* How often a function is the innermost of a stack received since the last reset,
\* and in how many it is.
Times(name) ==
  [exclusive |-> Cardinality({i \in DOMAIN seen : Head(seen[i]) = name}),
   inclusive |-> Cardinality({i \in DOMAIN seen : name \in ToSet(seen[i])})]

\* The table shows the stacks received since the last reset: their number, the
\* counts of each function, and no function that is busier is left out.
TableExact ==
  /\ samples = Len(seen)
  /\ rows = [n \in UNION {ToSet(seen[i]) : i \in DOMAIN seen} |-> Times(n)]
  /\ \A column \in {"exclusive", "inclusive"} : \A drawn \in TopRows(column) :
       \A shown \in ToSet(drawn), n \in Names \ ToSet(drawn) :
         Times(n)[column] <= Times(shown)[column]

\* The terminal is as it was when the program ends, unless it failed between raw
\* mode and the loop.
TerminalRestored == pc \in Ended => ~raw \/ failedAt = "alternate"

\* A signal or the end of the duration closes the view: though the main thread
\* empties the channel before it looks at the flag, its threads look at it too.
StopCloses == stop ~> (pc \in Ended)

\* So does the end of all processes, once they have been waited for.
GoneCloses == <>[](\A p \in Pids : proc[p] = "absent") => <>(pc \in Ended)
=============================================================================
