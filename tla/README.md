# A TLA+ model of pfp (php-fast-profile)

`pfp` is a sampling profiler for PHP. It attaches to running PHP processes from
outside (`process_vm_readv`, and for thread-safe builds one `ptrace` stop), walks
the Zend VM's call stack at a fixed rate and writes the stacks as text, as a
pprof profile, to a Pyroscope server or to a live table. This directory models
the parts of it where order, time and failure matter, checks them with TLC on
small instances and proves the safety properties of the core with TLAPS for all
instances. Paths below are relative to the repository.

## 1. Inventory

### Components, their state and how they interact

| Component (source) | State it keeps | Operations | Talks to |
| --- | --- | --- | --- |
| command line (`src/cli.rs`, `src/main.rs`) | the options | parse, choose a runner | runners |
| single runner (`Sampler::run`, `src/sampler.rs:44-139`) | stop flag, next due time, counts | attach, one sample, finish | target, sink, signal handler |
| multi runner (`run_multi`, `src/sampler.rs:257-449`) | worker table pid -> (stop flag, join handle), channel, rediscovery timer | discover, spawn, receive, reap, tear down | discovery, target (one per worker thread), one sink |
| top runner (`run_top`, `src/sampler.rs:145-249`) and view (`src/tui.rs`) | stop flag, channel, aggregated counts | spawn, record, draw, keys | discovery, target |
| signal handler (`ctrlc_like`, `src/sampler.rs:451-477`) | one callback in a mutex | install, on_signal | sets a runner's stop flag |
| discovery (`src/discover.rs`) | none | list `/proc`, match comm, cmdline, cgroup | kernel |
| attach (`src/target.rs`, `src/proc.rs`, `src/symbols.rs`, `src/offsets.rs`) | addresses, version, layout | resolve symbols, version, layout | remote memory, ZTS attach |
| ZTS attach (`src/tls.rs`) | what is traced | pick a task, ptrace it, read a register, detach | kernel, the target's threads |
| stack walk (`src/zend.rs`, `target::capture_stack`) | string cache by address | read frames, intern names | remote memory |
| request variables (`target::request_var`, `zend::ht_get_string`) | none | look up `$_SERVER` | remote memory |
| remote memory (`src/remote.rs`) | none | `process_vm_readv` | the target, which keeps running |
| text sinks (`src/output/mod.rs`) | folded counts, the writer's buffer | write_sample, finish | a file |
| pprof builder (`src/output/pprof_sink.rs`) | three interning tables, counts, window start | add, take_gzipped | - |
| pyroscope sink (`src/output/pyroscope_sink.rs`) | builder, time of the last push | write_sample, push, finish | an HTTP server |

The worker threads share nothing but the channel and, each with the main thread,
one stop flag. The profiled processes are never stopped (but for the ptrace read)
and know nothing of the profiler: they exit, fork, reuse pids and change memory
between any two reads.

### What is hard, and what makes each component correct

* **Multi runner.** Processes come and go while workers are attached to them; a
  worker ends by itself, is reaped later, and its pid may be back by then; the
  teardown races workers in the middle of an iteration. Correct: one worker per
  pid and no worker outside the table; every worker is stopped and joined before
  the sink is finished; samples reach the sink in order and once; the loss at the
  end is bounded and known; a stop ends the run; new processes are picked up and
  vanished ones forgotten.
* **Pacing.** Sleeps overrun and samples are slow. Correct: the rate is never
  exceeded on average, catching up is bounded, the duration is kept to.
* **ZTS attach.** A ptrace stop can be a stop by another signal, can come after the
  deadline, or never; the task may die at any point. Correct: nothing stays traced,
  trapped or stopped; the wait ends.
* **pprof builder and Pyroscope sink.** Interned ids must be reset together with
  the lists they index; a window leaves the builder before it is sent. Correct:
  what readers decode is what was sampled, windows tile the run as far as the wall
  clock allows, a failing or silent server neither repeats nor blocks anything for ever.
* **Stack walk and request variables.** The stack, the strings and the tables
  change between any two reads, the cache is keyed by addresses that are reused, a
  chain read through left frames may be a cycle. Correct: a sample shows only frames
  of its own time, one the target did not disturb is exact, the cache is wrong about
  reused strings only, the walk ends.
* **Attach.** Many sources (maps, files, symbols, options, literals, machine code)
  are tried in an order. Correct: an attach that succeeds has the right address and
  layout; one that fails has a reason.
* **Single runner and signal handler.** A handler takes a mutex on the thread it
  interrupts; a target may be gone, a zombie, or another process; a write may fail
  half-way. Correct: the run ends when told to, damage stays local, counts are exact.
* **Live view.** Workers produce while the view drains, draws and looks at keys; any
  step may fail. Correct: the table is what was received, the terminal is restored,
  the view closes.

`PROJECT.json` lists each hazard at its line with the properties that watch it.

## 2. Modules

| Module | Models | Kind |
| --- | --- | --- |
| `SampleStream` | what a multi-process run promises about samples | abstract specification |
| `MultiSampler` | `run_multi`: main thread, worker threads, channel, processes | detailed specification, implements `SampleStream` |
| `Pacing` | due times and duration of a sampling loop | specification |
| `PtraceAttach` | `tls::with_attached_task` and its callers, against ptrace(2) | specification |
| `Accessors` | decoding of the two accessor functions, and what a processor makes of them | operators |
| `Attach` | `Target::attach`: maps, binary, symbols, ZTS, version, layout | specification, over `Accessors` |
| `RequestVars` | `request_var_impl`, `ht_get_string`, and what PHP would answer | operators |
| `StackWalk` | one sample: `capture_stack`, `request_var`, the string cache, the target | specification, over `RequestVars` |
| `TextSinks` | `StacksSink`, `FoldedSink` and a buffered writer that may fail | operators |
| `SingleSampler` | `Sampler::attach`, `Sampler::run`, `ctrlc_like` | specification, over `TextSinks` |
| `Discovery` | the filter of `discover.rs`, the profiler's own container | operators |
| `TopView` | `run_top` and `tui::run` | specification, over `Discovery` |
| `PprofBuilder` | `PprofBuilder`: tables, add, take | component, composed into the next |
| `PyroscopeSink` | `PyroscopeSink` over the builder and a server | specification |
| `MCMultiSampler`, `MCStackWalk`, `MCAttach`, `MCSingleSampler`, `MCTopView`, `MCPyroscopeSink` | instances | TLC |
| `MultiSampler_proofs`, `Pacing_proofs`, `PtraceAttach_proofs`, `Attach_proofs`, `StackWalk_proofs`, `PyroscopeSink_proofs`, `SingleSampler_proofs`, `TopView_proofs` | theorems | TLAPS |

How they fit: `Attach` takes the ptrace stop as a step that works or fails, and
`PtraceAttach` says what it does to the target. The runners take an attach and a
capture as a step; `Attach` and `StackWalk` say what these return. When a sample is
due is `Pacing`'s subject, and what a sink does with it that of `TextSinks` or
`PyroscopeSink`. The three runners are models of their own, as they are functions of
their own in the code.

### MultiSampler and SampleStream

`mpc` is where the main thread of `run_multi` is, one value per block of the
function: `discover0` and `attach0` the start-up, `top`, `recv`, `timer`,
`discover` and `attach` the event loop, `teardown`, `drain`, `join`, `finish` the
end. `workers` is the `HashMap<i32, WorkerHandle>`; `tpc[t]` is where thread `t`
is in its loop, `tstop[t]` its stop flag, `tpid[t]` and `tgen[t]` the pid and the
process image its `Target` is attached to. `chan` is the mpsc channel; a message
is its worker, its number in that worker's sequence and whether it carries a URI.
`sent`, `delivered` and `cut` are history: how many samples a worker sent, the
last one written, and whether the drain ended by its timeout with a worker
still running. Every action is one atomic step of the code: the read of a flag,
the receipt of a message, one `/proc` listing, one attach, one capture, one look
at `/proc/PID/status`, one send. Between them anything may happen.

The environment: a pid is `absent`, `running` or `zombie`; a zombie keeps its
`/proc` entry, so discovery finds it and attaching and capturing fail.
`PidReuse` allows what the table does not notice: `execve`, or exit and reuse of
the number between two captures of a live worker.

`recv_timeout(100 ms)` of the drain returns an error when all senders are gone
or nothing came in time. A worker's iteration may outlast it (any rate below
10 Hz, a slow capture), so `DrainEnds` needs an empty channel only.

`SampleStream` has no threads and no channel: a worker hands over samples, they
are delivered in order, and after the stop each worker may take one more, and
only that one may be missing when the run returns. `MultiSampler` implements it
under `StreamPhase` and `StreamGrace` (may worker `t` still take a sample?).

### Pacing

`now`, `next` and the loop of `Sampler::run` (84-100): duration check, sleep, due
time moved on, lag check, snap. `run_top` (183-192) and the workers of
`run_multi` (322-329) have the same arithmetic without the duration check. Time passes
between any two steps. `mark` is one sample of the past, any one, so that an
invariant can speak of any two samples.

### SingleSampler and TextSinks

One thread, so `pc` and the stack of signal handlers that interrupt it: a step of the
sampler needs `handlers = <<>>`. A handler first takes the mutex of `ctrlc_like`
(`Lock`), then calls back and returns (`CallBack`); a second signal may come in
between, and its handler waits for a mutex that only the one below it can release
(`Stuck`). A process is running, a zombie, absent, or another one under its pid.
`Capture` is one whole `capture_stack`, `WriteSample` the request variables and the
sink. A sink writes a sample's lines piece by piece into a `BufWriter`. `text` is what
that writer has taken, in order; `flushed` says whether all of it is in the file.
Until then the file has some front of `text` (`Files`), the buffer the rest. A write
fails when the buffer it finds full cannot be written out: the writer then has any
beginning of the sample's lines, and keeps what it had (`FailedWrites`). The flush at
the end may fail as well, and then the end of `text` may be lost, samples the sink had
accepted included. A file is shown up to its last whole line; where within a line the
buffer was cut is left out. The keys of the folded output are given in the order
of the sort (`KeyOrder`). `log` is the history of what the sink was given
and whether it took it.

### TopView and Discovery

`DiscoverAll`, `Spawn` and the four steps of each worker thread are `run_top`; the
rest of `Main` is `tui::run`, one value of `pc` per step that may fail: raw mode, the
alternate screen, and the loop's look at `stop`, its drain, its drawing and its poll of
the keyboard. `rows` and `samples` are the aggregator, `seen` the stacks it was given.
A signal ends in the stop flag, as `SingleSampler` shows in detail; in raw mode Ctrl-C
itself is a key, and one the view does not know.

`comm`, `cmdline` and the components of the cgroup paths are texts, given by what is in
them: the needles they contain (`Substrings`), what follows `docker-` in a component and
ends at a dot (`AfterDash`, which may be empty), and a component's first 64 characters.
A needle is looked for in every component of every line, as `contains` does over the
whole file: an outer container's id selects the processes of a container nested in it,
an empty id selects all, and no id at all drops the filter. That an id does not reach
over a `/` is taken from what ids are.

### StackWalk and RequestVars

Each `process_vm_readv` is a step: the current frame's pointer, an `execute_data`, its
function, the length and the bytes of each name, the request's tables. Between two of
them the target may call, leave a frame, use the memory of a left frame for something
else (`Overlay`), free and reuse a string, begin another request, or exit. `slot`
keeps what a left frame still looks like, which is what a late read sees. `trail`,
`seen`, `clean`, `stale` and `touched` are history. A function is a user function, an
internal one or of another type, such as the code of an eval, for which the code gives no
file. `Cut` is what is read of a string, at most `MAX_STR_LEN` bytes of it: names and
request variables are cut. (An empty string costs the code one read, the model two.)

The URI and the method are asked for one after the other, and each looks for `$_SERVER`
anew, so that between the two the target may begin another request. A lookup is the
code's scan over the buckets, with its bound and its treatment of deleted entries and
references; one scan is one step. It is held against a second definition, what PHP
itself would find (`TrueServer`, `TrueValue`): the one live entry of a key, in tables as
PHP has them (`IsTable`, `IsGlobals`).

### Attach and Accessors

A world is all the attach meets, including what it cannot see: which file PHP really
is. Each step of `Target::attach` is an action that fails or goes on; the target may
exit between two. `Accessors` decodes the two tiny functions the code reads rather
than calls, and has a second definition, what a processor would return
(`Execute`), to hold the decoders against. What worlds are like is stated once, as
`WorldsAssumption`, which the run evaluates on its worlds and the proofs rest on.

### PtraceAttach

The profiler's side is `with_attached_task` line by line; `mode`, `pending`,
`trapSig`, `groupStop` and `traced` are the kernel's side, external to the
repository and as ptrace(2) documents it: any signal traps a traced task, DETACH
fails on a task that is not stopped and drops the signal it stopped at, and a tracer that
ends lets its tasks go. The model's deadline is a few milliseconds instead of 2 s;
the poll's sleep is its 2 ms.

### PprofBuilder and PyroscopeSink

An interning table is the list that goes into the profile and the map from an
entry to its id (`Intern`: string ids count from 0, function and location ids from
1). `add` folds a stack frame by frame. A profile is its fields; `Decoded` is what a reader
of it sees, total even where an id leads nowhere, so that a broken table shows as a
wrong stack. `PyroscopeSink` drives the builder: `write_sample`, the check of the
interval, `push`, `try_push`, `finish`. The server accepts, refuses, or lets the
agent's timeout pass. A tick is a second; what takes no time at that scale
takes none in the model.

The code has two clocks. `last_push` is an `Instant`, a reading of `now`, which only goes
forward; a window's bounds and the profile's duration come from `SystemTime`, here
`wall`, which may be set at any moment (`SetClock`) by any of `Skews`. `written`,
`accepted`, `failed`, `windows` and `ended` are history, and so are `opened`, the
instant the window was opened, and `set`, whether the wall clock was set since.

## 3. Runs

| Run | Instance | What it shows |
| --- | --- | --- |
| `multi_safety` | 2 pids, 2 threads, 2 images per pid, 2 samples per worker | no orphan worker, quiet end, loss bound, refinement of `SampleStream` |
| `multi_live` | 1 pid, 2 threads, 2 images, period 2, with a duration | the run ends, new processes are attached to, vanished pids forgotten |
| `multi_raw_uri` | 1 pid, 1 thread, request info | violation: drained samples carry the bare URI |
| `multi_reuse` | 1 pid whose image changes under its worker | violation: the new image is never attached to |
| `pacing` | interval 2, duration 17, 22 ticks, 10 samples | rate, burst and duration bounds |
| `ptrace` | 3 threads, deadline 4 ms, other signals, blocked tasks | nothing left behind, the wait ends |
| `capture` | 2 frames, 3 functions (one of each type), 2 strings, one name that is cut, cache of 1, scans of 3, 2 requests, 2 moves of the target | frames of the sample's time, exact quiet samples with both request variables, a coherent cache, the walk ends |
| `attach` | some ten thousand worlds (`MCAttach`) | right address and layout, or a reason |
| `single` | 4 stacks, 2 captured, 1 failed write, a flush that may fail, 2 signals, a duration | the run ends, local damage, exact folded counts |
| `single_zombie` | the same without a duration | violation: an unreaped target is sampled for ever |
| `top` | 2 processes, the container of one nested in another, 2 stacks, 2 captured, a table of 1 line | exact table, terminal restored, the view closes |
| `pyroscope` | 3 stacks, interval 2, timeout 2, 5 seconds, 3 samples, a wall clock set back by 3 | exact accounting, tiled windows, spaced retries, calls return |

Why the bounds are enough. Two pids and two threads give every pair of actors:
two workers in one channel, a worker reaped while another is alive, a pid that
comes back (a second image) with the second thread. A third sample per worker
adds no case: the loss properties tell apart zero, one and more than one. For
liveness one pid is enough because no action of one pid waits for another. `pacing` has
room for a burst of six, the seven samples it takes to break `BurstBound`
included, and for the deadline to fall inside one. The burst's constant is tight:
five is violated. `pyroscope` has three windows at most (two by interval, one by
finish), with stacks chosen so that names, functions and locations recur across
windows and one name equals a string of the profile's own. The wall clock is set back by
more than a window lasts, in any of them, so that a window can end before it began.

`capture` has a stack of two under a limit of two frames, so that the walk ends by the
null pointer, by the limit and by a cycle; a cache of one entry and two strings, so
that it is full; two requests, one with a `$_SERVER` that was unset and set again (its
deleted bucket comes first), one with a `$_SERVER` that is a reference, a deleted entry
before the live one, and a value that is cut; and two moves,
enough to leave a frame and use its memory, or to free a string and read it, within
one sample. Samples follow one another, so the cache lives on; the moves are counted
anew for each. `attach` takes the types of ELF file, both
architectures, both thread models, each subset of the symbols, literals of all kinds,
options given or not, every short sequence of accessor instructions, and every page
distance at every place of a small page. `single` has two stacks that differ in a line
only (one folded key), one whose leaf is dropped, and one failed write with samples
on both sides of it. `MaxSamples` bounds the captures there and in `top`, where it keeps
the channel finite; afterwards the target runs no PHP code.

### Fairness

`MultiSampler!FairSpec`: the scheduler runs the main thread and every worker
(weak), seconds go by (weak), and reading `/proc` and attaching to a process
that stays attachable do not fail for ever: strong, because each rediscovery
tries them again. Nothing is assumed of processes, of signals, or of when the duration is
over: were its end certain, whatever should happen before it would hold for no better
reason. `StopEndsRun`
therefore rests on the worker loop's own stop check and on no worker waiting for ever.
`PtraceAttach!FairSpec`: the profiler and the clock run, and a task that is not
blocked takes its signals; a task may be blocked for ever. `PyroscopeSink!FairSpec`:
a call that was begun is carried on with and the clock advances; the server owes
nothing. `StackWalk`: the walker's thread runs, the target does what it likes.
`SingleSampler`: the thread runs, in the sampler or in the newest handler; no signal is
owed. `TopView`: the main thread and each worker run; no key is owed, so the view must
close without one.

Deadlock is checked in the runs of `MultiSampler` (its end is an explicit
stuttering step) and `StackWalk`. The other models end (`done`, the bounded clock) and
switch the check off.

## 4. Proofs

`MultiSampler_proofs` proves, for any sets of pids and threads and any bounds,
type correctness (`TypeCorrect`), `NoOrphans`, `Quiet`, `LossBound`,
`UncutLosesNothing` and `Refinement`. The assumptions are those of the module:
`None` is neither a pid nor a thread, the numbers are natural, the flags Boolean.

None of the properties is inductive by itself. The invariant `IInv` adds

* `TableInv`: a table entry's thread was started for that pid. Without it reaping
  or spawning could disconnect a live worker from the table;
* `StartInv`: the start-up loop inserts without looking; no pid still to do has a
  worker, so nothing is overwritten;
* `StopInv`: after the teardown every live thread has been told, so the join,
  which waits for the threads of the table, waits for all of them;
* `ChanInv`: the channel holds exactly the numbers after `delivered` and up to
  `sent` of each worker, in increasing order. Order and once-only delivery follow;
* `LossInv`: after the drain, a worker still before its send has lost nothing yet,
  and one past it has sent at most one; being told, it starts no other iteration.

`CutInv` adds the case in which every worker was gone when the drain ended. The
refinement maps each step: the receipt and the drain to `Deliver`, a send to `Sample`, a
stopped worker's last steps to `Retire`, `Teardown` to `Stop`, `Finish` to `Return`, a
failed start to `Abort`, the rest to stuttering.

`Pacing_proofs` proves `TypeCorrect`, `RateBounded`, `BurstBounded` and
`LateBounded` for every interval, duration and delay. The invariants relate
`next` to the number of samples (`RateBounded`) and to the remembered sample
(`BurstBounded`: how far `next` may lag behind `now` is bounded by the snap).

`StackWalk_proofs` proves `TypeCorrect` (the limits on depth and cache included),
`SamplesAreLive` (`FramesWereLive`), `CacheIsCoherent` (`CacheCoherent`),
`StringsAreTouchedOnce` (`TouchedOnce`) and `QuietSamplesAreExact`
(`QuietSampleIsExact`), for any memory, limits and number of moves, from the assumptions
that pointers are told apart, that functions have their types, that the bounds are
natural, and that a request's tables are as PHP has them: at most one live entry per key,
and a `$_SERVER` that is a reference refers to an array. `SamplesAreLive` rests on where
a pointer may lead: every frame that was on the stack during the sample leads to
another such frame for as long as memory holds a frame there, since a caller outlives
what it calls and a new frame at its address is one of the sample too (`FrameInv`).
`CacheIsCoherent` needs the like of a name that is half read (`CacheInv`).
`QuietSamplesAreExact` needs both and the walk's progress (`QuietInv`): as long as the
target has not moved, the frames taken are the innermost of the stack, the pointer is at
the next one, the names taken of it are right (`PartInv`), and each variable already
answered is that of the request (`AnswersInv`). That the code's scans find what PHP has
is proved for tables of any length with any number of deleted entries
(`LookupIsTrue`, `ServerIsTrue`), the two named exceptions aside: a table longer than the
scan, and a `$_SERVER` that was unset.

`PtraceAttach_proofs` proves `TypeCorrect` and `LeavesNothing`
(`NothingLeftBehind`) for any threads and deadline. Its invariant follows the one
SIGSTOP the profiler sends: it is pending at the picked task (`PendInv`), or it has
trapped it (`TrapInv`), or the detach has dropped it, in step with the profiler
(`StageInv`), unless another signal came first or the deadline passed; what is left at
the end is then nothing (`LeftInv`).

`Attach_proofs` proves `AttachedRightHolds` (`AttachedRight`) and
`RefusedForAReasonHolds` (`RefusedForAReason`) for every world that `WorldsAssumption`
allows: any number of mappings, files, symbols, sections and literals, any code of the
accessor of the TLS slot. The assumption has four parts. `PhpIsRight`: PHP's symbols fit
its thread model, "8.0.0" is the shortest version, and its `php_version` is an address
computation and a return, into the register that is returned; of any other shape the
decoder may be wrong on aarch64, since the registers are not looked at.
`MapsAreRight`: PHP's code is mapped privately, and only from a file. `OthersAreRight`:
no other mapped file has PHP's symbols. `OptionsAreRight`: a version that is given is
PHP's; an address that is given is right, either as it is in memory and then not below
the base of PHP, or counted from that base and then below it, and PHP is the principal
binary. (An `executor_globals` of a thread that lies below the base would be taken for
an offset.) The invariant says which binary was found, which file was opened for it, and
that what was resolved from it is so (`Found`, `Opened`, `Resolved`). `DecodersAreRight`
holds the four decoders against the processor for code of any length, by an induction
over its instructions: the aarch64 decoder and the register agree after each of them
(`Follows`), and nothing runs after a return (`ReturnIsLast`). The library's induction
theorems are out of the provers' reach, so `Induct` proves induction over a set of
numbers from facts about finite sets.

`PyroscopeSink_proofs` proves, for any stacks, interval, timeout and any behaviour of
the server, `NothingLostOrCountedTwice` (`AllAccountedFor`), `FinishLeavesNothing`
(`FinishFlushes`), `TypeCorrect`, `PushesAreSpaced` (`FailuresSpaced`) and `RunIsTiled`
(`WindowsTile`), for any settings of the wall clock; that no instant is ahead of the
clock it is compared with (`NoFutureInstant`); and two facts about the interning tables.
`AddedAsSampled`: the ids given to a stack's frames stand for just those frames.
`NoIdDangles`: no profile that is sent has an id that leads nowhere. They rest on one
lemma about `Intern` (a coherent table stays so and keeps every id it gave) and on an
invariant that the three tables lead into one another, which the reset must
re-establish: it clears maps and lists together. For `AllAccountedFor` this becomes an
invariant of bags (`WindowInv`): two lists of ids never stand for the same stack, so the
samples counted per list of ids and the stacks written since the last reset are the same
bag; `BooksInv` says where that bag is while it is taken, posted and answered for.

`SingleSampler_proofs` proves `AtMostOneMore` (`OneMoreCapture`), `FoldedIsExact`
(`FoldedExact`) and `DamageStaysLocal` (`DamageIsLocal`), for any stacks, requests,
signals and number of failures; a stack that is written must have its key in the order of
the sort (`StacksAssumption`), which names no key twice (`KeyOrderAssumption`).
`FoldInv` says that until `finish` the counts are those of the history and nothing is
written; the sorted entries are then numbered one to one by the places of their keys
(`Places`). `DamageInv` speaks of all the writer has taken. It adds that after a write
that did not fail the writer is at the start of a line, right after an empty one; so the
group of the next sample begins there, and a failed write, which leaves no empty line, can
only be in front of the first line of the group that follows it. What holds of the whole
text holds of every front of it, hence of the file before the flush and after one that
failed; a run that ends well has flushed.

`TopView_proofs` proves `TerminalIsRestored` (`TerminalRestored`) and `TableIsExact`
(`TableExact`), for any stacks that are not empty and any length of the table.
`TallyInv` relates the rows to the stacks received since the last reset, one by one.

Only model-checked: everything under fairness (`StopEndsRun`,
`NewProcessesPickedUp`, `GonePidsForgotten`, `AttachEnds`, `CallsReturn`, `WalkEnds`,
`ToldToEnd`, `GoneEnds`, `StopCloses`, `GoneCloses`), which is out of the prover's
reach; and the violations. Every invariant of a passing run is proved; the type
invariants of `MultiSampler` and `PtraceAttach` are proved and no run repeats them.

## 5. What does not hold

Each of these is a run that fails as expected, quoted in `PROJECT.json`:

1. Samples written by the drain carry no pid in their URI (`multi_raw_uri`).
2. A pid that changes image under its worker is not attached to again
   (`multi_reuse`).
3. A target that exited and was not waited for is sampled for ever, where a comment
   says that the loop stops (`single_zombie`).

The properties that hold name exceptions, and each exception is something the code
does:

* a sample sent after the drain's timeout is dropped, at most one per worker
  (`AtMostOneLost`, `LostOnlyIfCut`);
* a detach at the deadline leaves the task to be trapped; a stop by another signal
  leaves the SIGSTOP to stop the process (`NothingLeftBehind`);
* memory of a left frame that is used for something else within a sample shows frames
  that never were (`clean` in `FramesWereLive`); a reused string keeps its old name
  (`stale` in `CacheCoherent`);
* a string first read when the cache is full is read again at every sample
  (`TouchedOnce` is about those read before);
* once a script has unset `$_SERVER`, its deleted bucket is where the scan for the table
  ends, and the request is not shown, even if it was set again (`Unset` in
  `QuietSampleIsExact`); neither is one that lies behind the first 4096 buckets;
* a wall clock that is set back while a window is open makes its range overlap the one
  before, or end before it begins, with no duration (`set` in `WindowsTile`);
* two signals close together leave the sampler waiting for its own mutex (`Stuck` in
  `ToldToEnd`, `GoneEnds`);
* a line left open by a failed write is continued by the next sample, and a flush that
  fails loses the last of the samples that were accepted (`DamageIsLocal`);
* another file under PHP's path in the profiler's own file system, or PHP replaced on
  disk, attaches to wrong addresses (`Shadowed`, `Replaced`); version 8.10 would be
  taken for 8.1 (`TwoDigits`), and another library's literal for PHP's
  (`ForeignLiteral`);
* a good attach is refused when the code of another file comes first (`Embedded`), say
  of a program that has PHP as a library, when a
  partly stripped thread-safe build lacks a symbol for which an option was given
  (`PartlyStripped`), and when the only literal is five characters long, "8.0.0"
  (`ShortLiteral`; `src/symbols.rs:238`);
* the terminal stays in raw mode when opening the alternate screen fails, where
  `src/tui.rs:111` says "Always restore the terminal, even on error."
  (`TerminalRestored`).

Others have no property, as one would restate a line: `--rediscover-secs 0` means every
second, where `src/cli.rs:43` says never; the window of an idle target waits for its
next sample or the end of the run, however long the interval is over, where
`README.md:81-82` and `src/cli.rs:81` speak of a push every interval
(`src/output/pyroscope_sink.rs:99`); with `--this-container` the live view samples the
processes of every container when it finds no id (`src/sampler.rs:217`), and both the
view and `run_multi` those of every container when the id is empty and those of nested
containers when it is the outer one's (`src/discover.rs:55`), where `src/cli.rs:38-39`
and `README.md:25-26` promise the profiler's own container; a sink whose every write
fails does not end a run while its target lives; the view looks at no key while its
channel is not empty; `src/tls.rs:18` and `docs/development.md` describe a further read
at the end of the ZTS resolution that the code does not make; the comment at
`src/target.rs:251-253` says that the shift of the ADD was checked, which the mask does
not do.

## 6. What is not modelled, and why

* Parsing: ELF files (the `object` crate's), lines of `/proc` files, machine words
  into instructions, the command line. The models begin with what was parsed; what a
  parser can fail at is a failure of the step.
* Formatting: protobuf encoding and compression, the layout of the live view, the
  wording of lines. A line is its pieces, a profile its fields.
* `PprofSink`, which takes one profile from the builder at the end and writes it to a
  file: the builder is modelled, the file is one write.
* The table of structure offsets and the two environment variables that change it:
  constants. The choice among the layouts is in `Attach`.
* Line numbers in `StackWalk`; a table of request variables that changes within one
  scan; a class entry's name pointer, read with its function.
* How many bytes of an accessor's code are read: `Accessors` decodes code of any length.
* Where within a line a buffer was cut when a flush failed.
* Build and CI scripts, the test containers, the schema of the profile.

What could follow: a scan of the request's tables bucket by bucket over a table that
changes; the pprof sink's file, once it is more than one write.
