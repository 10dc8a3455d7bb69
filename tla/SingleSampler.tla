---------------------------- MODULE SingleSampler ----------------------------
(***************************************************************************)
(* Sampler::attach and Sampler::run: one process, one thread, a text sink, *)
(* and the handler that SIGINT and SIGTERM run on that thread.             *)
(*                                                                         *)
(* When samples are due is the subject of Pacing: here a sleep ends at     *)
(* some time and the duration is over at some time.                        *)
(***************************************************************************)
EXTENDS TextSinks

CONSTANTS
  Formats,       \* --format: stacks, folded or either
  Timed,         \* --duration-secs is given
  Stacks,        \* stacks that are captured, innermost frame first
  DropLeaf,      \* --drop-leaf, as names
  Metas,         \* what $_SERVER has of the request
  Signals,
  MaxSamples,    \* bound: stacks captured (afterwards the target runs no PHP code)
  MaxFailures,   \* bound: samples whose write fails
  MaxSignals     \* bound: signals sent

VARIABLES
  format,    \* --format
  proc,      \* the target: running, zombie, absent, or another process of its pid
  pc,        \* where the sampler is
  installed, \* the signals that have a handler
  handlers,  \* the handlers that run, the newest last, and whether each has the mutex
  stop,
  expired,   \* the duration is over
  frames,    \* the stack being written
  text,      \* what the writer has taken
  flushed,   \* all of it is in the file (otherwise the front, the rest in the buffer)
  counts,    \* FoldedSink.counts
  log,       \* history: the stacks given to the sink, and whether it took them
  late,      \* history: captures since the stop
  sent       \* history: signals sent

vars == <<format, proc, pc, installed, handlers, stop, expired, frames, text, flushed, counts, log, late, sent>>
Folded == format = "folded"

Ended == {"done", "failed", "killed"}
Running == {"attach", "sink", "install", "stop?", "over?", "sleep", "capture", "request",
            "status", "finish"}

Init ==
  /\ format \in Formats
  /\ proc \in {"running", "zombie", "absent"}
  /\ pc = "attach"
  /\ installed = {} /\ handlers = <<>>
  /\ stop = FALSE /\ expired = FALSE
  /\ frames = <<>>
  /\ text = Empty /\ flushed = FALSE /\ counts = NoCounts /\ log = <<>>
  /\ late = 0 /\ sent = 0

TypeOK ==
  /\ format \in Formats
  /\ proc \in {"running", "zombie", "absent", "other"}
  /\ pc \in Running \cup Ended
  /\ installed \subseteq Signals
  /\ \A i \in DOMAIN handlers : handlers[i].sig \in installed /\ handlers[i].locked \in BOOLEAN
  /\ stop \in BOOLEAN /\ expired \in BOOLEAN /\ flushed \in BOOLEAN
  /\ frames \in Stacks \cup {<<>>}
  /\ pc = "request" <=> frames # <<>>
  /\ late \in Nat /\ sent \in 0..MaxSignals

\* The thread is in the sampler's code, at a step.
At(step) == pc = step /\ handlers = <<>>

(***************************************************************************)
(* Sampler::attach                                                         *)
(***************************************************************************)

\* Target::attach, see Attach: it may fail for any process.
Attach ==
  /\ At("attach")
  /\ pc' \in IF proc \in {"running", "other"} THEN {"sink", "failed"} ELSE {"failed"}
  /\ UNCHANGED <<format, proc, installed, handlers, stop, expired, frames, text, flushed, counts, log, late, sent>>

\* output::build_sink creates the file.
BuildSink ==
  /\ At("sink")
  /\ pc' \in {"install", "failed"}
  /\ UNCHANGED <<format, proc, installed, handlers, stop, expired, frames, text, flushed, counts, log, late, sent>>

(***************************************************************************)
(* Sampler::run                                                            *)
(***************************************************************************)

\* The callback is set and the mutex released before the first signal() call.
Install ==
  /\ At("install")
  /\ \E s \in Signals \ installed :
       /\ installed' = installed \cup {s}
       /\ pc' = IF installed' = Signals THEN "stop?" ELSE "install"
  /\ UNCHANGED <<format, proc, handlers, stop, expired, frames, text, flushed, counts, log, late, sent>>

\* Mutant: the flag is never looked at.
KeepsOn ==
  /\ At("stop?")
  /\ pc' = "over?"
  /\ UNCHANGED <<format, proc, installed, handlers, stop, expired, frames, text, flushed, counts, log, late, sent>>

CheckStop ==
  /\ At("stop?")
  /\ pc' = IF stop THEN "finish" ELSE "over?"
  /\ UNCHANGED <<format, proc, installed, handlers, stop, expired, frames, text, flushed, counts, log, late, sent>>

\* Mutant: the duration is never looked at.
NeverOver ==
  /\ At("over?")
  /\ pc' = "sleep"
  /\ UNCHANGED <<format, proc, installed, handlers, stop, expired, frames, text, flushed, counts, log, late, sent>>

CheckOver ==
  /\ At("over?")
  /\ pc' = IF expired THEN "finish" ELSE "sleep"
  /\ UNCHANGED <<format, proc, installed, handlers, stop, expired, frames, text, flushed, counts, log, late, sent>>

\* A signal does not cut the sleep short.
Sleep ==
  /\ At("sleep")
  /\ pc' = "capture"
  /\ UNCHANGED <<format, proc, installed, handlers, stop, expired, frames, text, flushed, counts, log, late, sent>>

LeafIsAny(stack, names) == stack # <<>> /\ Name(Head(stack)) \in names

NotWritten(stack) == stack = <<>> \/ LeafIsAny(stack, DropLeaf)

ASSUME StacksAssumption ==
  \A stack \in Stacks : /\ stack \in Seq(ToSet(stack))
                        /\ ~NotWritten(stack) => Key(stack) \in ToSet(KeyOrder)

\* capture_stack (see StackWalk): memory that is gone cannot be read. A stack that
\* is empty or whose leaf is dropped is a sample taken, and not written.
Capture ==
  /\ At("capture")
  /\ late' = late + IF stop THEN 1 ELSE 0
  /\ \/ pc' = "status" /\ frames' = <<>>
     \/ /\ proc \in {"running", "other"}
        /\ \E stack \in {<<>>} \cup IF Len(log) < MaxSamples THEN Stacks ELSE {} :
             IF NotWritten(stack)
             THEN pc' = "stop?" /\ frames' = <<>>
             ELSE pc' = "request" /\ frames' = stack
  /\ UNCHANGED <<format, proc, installed, handlers, stop, expired, text, flushed, counts, log, sent>>

Failures == Cardinality({k \in DOMAIN log : ~log[k].ok})

\* The request is read after the stack (all of it or nothing, as the process
\* lives); then the sink is given the sample.
WriteSample ==
  /\ At("request")
  /\ \E meta \in Metas \cup {[uri |-> "none", method |-> "none"]} :
       LET lines == Lines(frames, meta)
           logs(ok) == log' = Append(log, [lines |-> lines, frames |-> frames, ok |-> ok])
       IN  \/ /\ ~Folded /\ pc' = "stop?"
              /\ text' = Written(text, lines)
              /\ logs(TRUE) /\ UNCHANGED counts
           \/ /\ ~Folded /\ Failures < MaxFailures /\ pc' = "status"
              /\ text' \in FailedWrites(text, lines)
              /\ logs(FALSE) /\ UNCHANGED counts
           \/ /\ Folded /\ pc' = "stop?"
              /\ counts' = Count(counts, frames) /\ logs(TRUE) /\ UNCHANGED text
  /\ frames' = <<>>
  /\ UNCHANGED <<format, proc, installed, handlers, stop, expired, flushed, late, sent>>

\* Mutant: an error never ends the run.
NeverGone ==
  /\ At("status")
  /\ pc' = "stop?"
  /\ UNCHANGED <<format, proc, installed, handlers, stop, expired, frames, text, flushed, counts, log, late, sent>>

\* After an error, of the capture or of the sink: is /proc/PID/status there? That
\* of a zombie is, and that of another process.
CheckStatus ==
  /\ At("status")
  /\ pc' = IF proc = "absent" THEN "finish" ELSE "stop?"
  /\ UNCHANGED <<format, proc, installed, handlers, stop, expired, frames, text, flushed, counts, log, late, sent>>

\* Mutant: finish() returns before the writer is flushed.
FinishUnflushed ==
  /\ At("finish")
  /\ pc' = "done"
  /\ text' = Written(text, IF Folded THEN FoldedLines(counts) ELSE <<>>)
  /\ counts' = NoCounts
  /\ UNCHANGED <<format, proc, installed, handlers, stop, expired, frames, flushed, log, late, sent>>

\* sink.finish(): what is counted is written; the writer is flushed. When that fails,
\* the end of what the writer took may be lost.
Finish ==
  /\ At("finish")
  /\ LET lines == IF Folded THEN FoldedLines(counts) ELSE <<>>
     IN  \/ /\ pc' = "done"
            /\ text' = Written(text, lines) /\ flushed' = TRUE
         \/ /\ pc' = "failed"
            /\ text' \in FailedWrites(text, lines) \cup {Written(text, lines)}
            /\ UNCHANGED flushed
  /\ counts' = NoCounts
  /\ UNCHANGED <<format, proc, installed, handlers, stop, expired, frames, log, late, sent>>

Sampler == \/ Attach \/ BuildSink \/ Install \/ CheckStop \/ CheckOver \/ Sleep \/ Capture
           \/ WriteSample \/ CheckStatus \/ Finish

(***************************************************************************)
(* ctrlc_like::on_signal                                                   *)
(***************************************************************************)

\* A signal interrupts the sampler or the handler of another signal (its own is
\* blocked meanwhile). Without a handler it ends the program.
Signal ==
  \E s \in Signals :
    /\ pc \notin Ended /\ sent < MaxSignals
    /\ \A i \in DOMAIN handlers : handlers[i].sig # s
    /\ IF s \in installed
       THEN handlers' = Append(handlers, [sig |-> s, locked |-> FALSE]) /\ UNCHANGED pc
       ELSE pc' = "killed" /\ UNCHANGED handlers
  /\ sent' = sent + 1
  /\ UNCHANGED <<format, proc, installed, stop, expired, frames, text, flushed, counts, log, late>>

\* The mutex is not recursive: a handler on top of one that has it waits for ever.
Lock ==
  /\ handlers # <<>> /\ \A i \in DOMAIN handlers : ~handlers[i].locked
  /\ handlers' = [handlers EXCEPT ![Len(handlers)].locked = TRUE]
  /\ UNCHANGED <<format, proc, pc, installed, stop, expired, frames, text, flushed, counts, log, late, sent>>

\* The callback sets the flag; the guard is dropped on return.
CallBack ==
  /\ handlers # <<>> /\ Last(handlers).locked
  /\ stop' = TRUE
  /\ handlers' = Front(handlers)
  /\ UNCHANGED <<format, proc, pc, installed, expired, frames, text, flushed, counts, log, late, sent>>

Handler == Lock \/ CallBack

(***************************************************************************)
(* The environment                                                         *)
(***************************************************************************)

\* The target exits and is waited for, now or later or never; its pid is given
\* to another process.
ProcessChanges ==
  /\ pc \notin Ended
  /\ \E change \in {<<"running", "zombie">>, <<"running", "absent">>, <<"zombie", "absent">>,
                    <<"absent", "other">>, <<"other", "absent">>} :
       proc = change[1] /\ proc' = change[2]
  /\ UNCHANGED <<format, pc, installed, handlers, stop, expired, frames, text, flushed, counts, log, late, sent>>

DurationEnds ==
  /\ Timed /\ ~expired /\ pc \notin Ended
  /\ expired' = TRUE
  /\ UNCHANGED <<format, proc, pc, installed, handlers, stop, frames, text, flushed, counts, log, late, sent>>

Next == Sampler \/ Signal \/ Handler \/ ProcessChanges \/ DurationEnds

\* The thread is scheduled, in the sampler or in a handler.
Spec == Init /\ [][Next]_vars /\ WF_vars(Sampler) /\ WF_vars(Handler)

(***************************************************************************)
(* Properties                                                              *)
(***************************************************************************)

\* The handler of a second signal waits for the mutex of the first, which it has
\* interrupted.
Stuck == \E i \in DOMAIN handlers : handlers[i].locked /\ i < Len(handlers)

\* Once the flag is set at most one more stack is captured: that of the iteration
\* under way.
OneMoreCapture == late <= 1

\* The stacks the sink took.
Taken == {k \in DOMAIN log : log[k].ok}

\* The groups of lines in the file are, in order, the first of the stacks the sink took,
\* and all of them after a run that ends well: what a failed flush loses is lost from
\* the end. Each is whole and alone, unless the write before it failed. Then what that
\* one left stands before it, and if a line was left open, its first line is on that
\* line.
DamageIsLocal ==
  ~Folded => \A file \in Files(text, flushed) :
    /\ Cardinality(Ends(file)) <= Cardinality(Taken)
    /\ pc = "done" => Cardinality(Ends(file)) = Cardinality(Taken)
    /\ \A k \in Taken, e \in Ends(file) : UpTo(Taken, k) = UpTo(Ends(file), e) =>
         LET group == Group(file, e)
             mine  == Front(log[k].lines)
             above == Len(group) - Len(mine)
             whole(i) == group[above + i] = <<mine[i]>>
         IN  /\ above >= 0
             /\ \A i \in 2..Len(mine) : whole(i)
             /\ IF k = 1 \/ k - 1 \in Taken THEN above = 0 /\ whole(1)
                ELSE group[above + 1] # <<>> /\ Last(group[above + 1]) = mine[1]

\* How often a stack of this key was captured.
Times(k) == Cardinality({i \in DOMAIN log : Key(log[i].frames) = k})
Captured == {Key(log[i].frames) : i \in DOMAIN log}

\* A run that ends well has each folded stack in the file once, in order, with the
\* number of times it was captured, and nothing else.
FoldedExact ==
  Folded /\ pc = "done" => \A file \in Files(text, flushed) :
    /\ ToSet(file) = {<<[key |-> k, count |-> Times(k)]>> : k \in Captured}
    /\ \A i, j \in DOMAIN file : i < j => Before(file[i][1].key, file[j][1].key)

\* A signal ends the run, unless two come close together, and so does the end of
\* the duration: whatever the target and the sink do.
ToldToEnd == (handlers # <<>> \/ expired) ~> (pc \in Ended \/ Stuck)

\* So does a target that is gone.
GoneEnds == <>[](proc = "absent") => <>(pc \in Ended \/ Stuck)

(***************************************************************************)
(* What a comment says and the code does not do                            *)
(***************************************************************************)

\* sampler.rs:105: "If the target is gone, stop." A target that has exited but was
\* not waited for is sampled for ever.
ExitedEnds == <>[](proc \in {"zombie", "absent"}) => <>(pc \in Ended \/ Stuck)
=============================================================================
