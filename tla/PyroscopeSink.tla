---------------------------- MODULE PyroscopeSink ----------------------------
(***************************************************************************)
(* output::pyroscope_sink::PyroscopeSink over its PprofBuilder: samples    *)
(* are added to the window; when one arrives push_interval or more after   *)
(* the last push, the window is encoded, reset and POSTed, and so it is    *)
(* when the run finishes. The caller is blocked meanwhile.                 *)
(*                                                                         *)
(* The server takes a profile, refuses it, or does not answer before the   *)
(* agent's timeout, whether it took the profile or not.                    *)
(*                                                                         *)
(* There are two clocks, in seconds. An Instant is a reading of now, which *)
(* only goes forward. A window's bounds are SystemTime: readings of the    *)
(* wall clock, which runs with now but may be set forward or back.         *)
(***************************************************************************)
EXTENDS PprofBuilder

CONSTANTS
  Stacks,            \* the stacks that are sampled
  PushIntervalSecs,  \* --push-interval-secs
  Timeout,           \* the agent's timeout for one request
  Skews,             \* what the wall clock may be ahead of now, or behind it
  MaxTime,           \* bound: the clock stops here
  MaxSamples         \* bound: samples written

ASSUME StacksAssumption == Stacks \subseteq Seq(Frames)
ASSUME TimesAssumption ==
  {PushIntervalSecs, Timeout, MaxTime, MaxSamples} \subseteq Nat
ASSUME SkewsAssumption == Skews \subseteq Int

VARIABLES
  pc,          \* where the sink is
  finishing,   \* finish() was called
  now,         \* the monotone clock
  skew,        \* how far the wall clock is ahead of it
  last_push,   \* the instant the interval is counted from
  body,        \* the profile being POSTed
  waited,      \* how long the POST has taken
  written,     \* the bag of all stacks written to the sink
  accepted,    \* the stacks in the profiles whose POST succeeded
  failed,      \* the stacks in the profiles whose POST failed
  windows,     \* the times of each profile taken, and how long it was open
  opened,      \* the instant the window was opened
  set,         \* whether the wall clock was set since
  ended        \* when the last POST ended, failed or not

sinkVars == <<pc, finishing, last_push, body>>
clockVars == <<now, skew, waited>>
bookVars == <<written, accepted, failed, windows, opened, set, ended>>
vars == <<builderVars, sinkVars, clockVars, bookVars>>

wall == now + skew

\* push_interval_secs.max(1)
PushInterval == IF PushIntervalSecs < 1 THEN 1 ELSE PushIntervalSecs

NoProfile ==
  [string_table |-> << >>, function |-> << >>, location |-> << >>,
   sample |-> EmptyBag, from |-> 0, until |-> 0, duration |-> 0]

TypeOK ==
  /\ pc \in {"idle", "add", "check", "push", "post", "stamp", "done"}
  /\ {finishing, adding, set} \subseteq BOOLEAN
  /\ now \in 0..MaxTime
  /\ {last_push, opened, ended} \subseteq 0..now
  /\ skew \in Skews \cup {0} /\ window_start \in Int
  /\ waited \in 0..Timeout
  /\ \A bag \in {written, accepted, failed, window} :
       IsABag(bag) /\ DOMAIN bag \subseteq Stacks
  /\ IsABag(samples)
  /\ strings.list \in Seq(Strings) /\ DOMAIN strings.key \subseteq Strings
  /\ call \in Stacks \cup {<< >>}
  /\ adding => \A i \in DOMAIN ids : ids[i] \in 1..Len(locations.list)

Init ==
  /\ BuilderInit
  /\ pc = "idle"
  /\ finishing = FALSE
  /\ now = 0
  /\ skew = 0
  /\ last_push = 0
  /\ body = NoProfile
  /\ waited = 0
  /\ written = EmptyBag
  /\ accepted = EmptyBag
  /\ failed = EmptyBag
  /\ windows = << >>
  /\ opened = 0
  /\ set = FALSE
  /\ ended = 0

(***************************************************************************)
(* write_sample()                                                          *)
(***************************************************************************)

WriteSample(stack) ==
  /\ pc = "idle"
  /\ ~finishing
  /\ BagCardinality(written) < MaxSamples
  /\ BeginAdd(stack)
  /\ pc' = "add"
  /\ UNCHANGED <<finishing, last_push, body, clockVars, bookVars>>

WriteFrame ==
  /\ pc = "add"
  /\ AddFrame
  /\ UNCHANGED <<sinkVars, clockVars, bookVars>>

Written ==
  /\ pc = "add"
  /\ EndAdd
  /\ written' = BagAdd(written, call)
  /\ pc' = "check"
  /\ UNCHANGED <<finishing, last_push, body, clockVars, accepted, failed, windows, opened, set, ended>>

Due == now - last_push >= PushInterval

CheckDue ==
  /\ pc = "check"
  /\ pc' = IF Due THEN "push" ELSE "idle"
  /\ UNCHANGED <<builderVars, finishing, last_push, body, clockVars, bookVars>>

\* Mutant: what is in the window is left there.
FinishAtOnce ==
  /\ pc = "idle"
  /\ finishing' = TRUE
  /\ pc' = "done"
  /\ UNCHANGED <<builderVars, last_push, body, clockVars, bookVars>>

Finish ==
  /\ pc = "idle"
  /\ finishing' = TRUE
  /\ pc' = "push"
  /\ UNCHANGED <<builderVars, last_push, body, clockVars, bookVars>>

(***************************************************************************)
(* push()                                                                  *)
(***************************************************************************)

Return == pc' = IF finishing THEN "done" ELSE "idle"

PushNothing ==
  /\ pc = "push"
  /\ samples = EmptyBag
  /\ last_push' = now
  /\ Return
  /\ UNCHANGED <<builderVars, finishing, body, clockVars, bookVars>>

\* The window leaves the builder before it is sent.
TakeWindow ==
  /\ pc = "push"
  /\ samples # EmptyBag
  /\ body' = Profile(wall)
  /\ Reset(wall)
  /\ windows' = Append(windows, [from |-> body'.from, until |-> body'.until,
                                 duration |-> body'.duration,
                                 open |-> now - opened, set |-> set])
  /\ opened' = now
  /\ set' = FALSE
  /\ waited' = 0
  /\ pc' = "post"
  /\ UNCHANGED <<finishing, last_push, now, skew, written, accepted, failed, ended>>

PostEnds ==
  /\ pc = "post"
  /\ ended' = now
  /\ body' = NoProfile
  /\ pc' = "stamp"
  /\ UNCHANGED <<builderVars, finishing, last_push, clockVars, written, windows, opened, set>>

PostAccepted ==
  /\ PostEnds
  /\ accepted' = accepted (+) Decoded(body)
  /\ UNCHANGED failed

\* An error status, or no connection. It is logged and forgotten.
PostRefused ==
  /\ PostEnds
  /\ failed' = failed (+) Decoded(body)
  /\ UNCHANGED accepted

\* Mutant: the agent has no timeout.
WaitsForEver == FALSE

TimedOut == waited = Timeout

PostTimesOut ==
  /\ TimedOut
  /\ PostRefused

\* Mutant: a failed push is due again at the next sample.
StampSuccess ==
  /\ pc = "stamp"
  /\ last_push' = IF failed = EmptyBag THEN now ELSE last_push
  /\ Return
  /\ UNCHANGED <<builderVars, finishing, body, clockVars, bookVars>>

\* self.last_push = Instant::now(), whatever came of the push.
Stamp ==
  /\ pc = "stamp"
  /\ last_push' = now
  /\ Return
  /\ UNCHANGED <<builderVars, finishing, body, clockVars, bookVars>>

\* A second goes by: between two samples, or while the request is under way.
\* All else takes no time at this scale. At the bound only the request's time runs on.
Tick ==
  /\ pc \in {"idle", "post"}
  /\ IF pc = "post" THEN waited < Timeout ELSE now < MaxTime
  /\ now' = IF now < MaxTime THEN now + 1 ELSE now
  /\ waited' = IF pc = "post" THEN waited + 1 ELSE waited
  /\ UNCHANGED <<skew, builderVars, sinkVars, bookVars>>

\* The wall clock is set, by hand or by the time daemon. It is read once in a call,
\* where the window is taken, so that setting it elsewhere in the call shows nothing
\* else.
SetClock(s) ==
  /\ pc \in {"idle", "post"}
  /\ s # skew
  /\ skew' = s
  /\ set' = TRUE
  /\ UNCHANGED <<builderVars, sinkVars, now, waited>>
  /\ UNCHANGED <<written, accepted, failed, windows, opened, ended>>

(***************************************************************************)
(* The specification                                                       *)
(***************************************************************************)

Working ==
  \/ WriteFrame \/ Written \/ CheckDue \/ PushNothing \/ TakeWindow
  \/ PostTimesOut \/ Stamp

Next ==
  \/ \E stack \in Stacks : WriteSample(stack)
  \/ Finish
  \/ Working
  \/ PostAccepted \/ PostRefused
  \/ Tick
  \/ \E s \in Skews : SetClock(s)

Spec == Init /\ [][Next]_vars

\* A call that was begun is carried on with, and the clock advances. Neither
\* the server's answer nor the next sample is owed.
FairSpec == Spec /\ WF_vars(Working) /\ WF_vars(Tick)

(***************************************************************************)
(* Properties                                                              *)
(***************************************************************************)

\* Between two calls every stack written, no more and no less often, is in
\* exactly one place: in a profile the server took, as a reader decodes it, in
\* one whose POST failed, or in the window. Interned names, functions and
\* locations of one window never leak into the next.
AllAccountedFor ==
  pc \in {"idle", "done"} => written = (accepted (+) failed) (+) Decoded(Profile(wall))

\* finish() leaves nothing behind: what no POST failed for is with the server.
FinishFlushes ==
  pc = "done" => written = accepted (+) failed

\* A profile's time range begins where that of the one before it ends, empty windows,
\* failed pushes and the wall clock notwithstanding. Setting that clock disturbs only
\* the window in which it is set: any other lasts just as long as it was open, and so,
\* if the clock is let be, the ranges tile the run. A range that the clock has turned
\* around has no duration.
WindowsTile ==
  \A i \in 1..Len(windows) :
    /\ windows[i].from = IF i = 1 THEN 0 ELSE windows[i - 1].until
    /\ ~windows[i].set => /\ windows[i].until = windows[i].from + windows[i].open
                          /\ windows[i].duration = windows[i].open
    /\ windows[i].duration >= 0

\* A failed push is not repeated at every sample: the next one, unless the run
\* finishes, begins (and opens the next window) an interval after the end of this
\* one, whatever the wall clock says.
FailuresSpaced ==
  pc = "post" /\ ~finishing => opened >= ended + PushInterval

\* A call returns, whatever the server does or does not answer.
CallsReturn == (pc # "idle") ~> (pc \in {"idle", "done"})
=============================================================================
