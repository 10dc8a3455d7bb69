----------------------------- MODULE StackWalk -----------------------------
(***************************************************************************)
(* One sample as Target::capture_stack and Target::request_var take it: the *)
(* walker reads the Zend VM's stack from outside, frame by frame, while the *)
(* target goes on calling, returning, freeing and reusing memory.          *)
(*                                                                         *)
(* Each process_vm_readv is a step. A frame is its execute_data, at an     *)
(* address of Slots; a function is a zend_function with up to three        *)
(* zend_strings (its name, its class, its file), at addresses of Addrs. A  *)
(* name, once read, stays in the walker's cache under its address, cut as  *)
(* it was read. Line numbers are left out.                                 *)
(***************************************************************************)
EXTENDS RequestVars

CONSTANTS
  Slots,       \* addresses of execute_data
  Funcs,       \* addresses of zend_function
  Function,    \* the names a function points to, and its type
  Callees,     \* what a frame runs: functions, or Null for a frame that has none
  Addrs,       \* addresses of zend_string
  Names,       \* what a zend_string may hold
  Null,        \* the null pointer
  Wild,        \* a pointer to nothing readable
  Torn,        \* a string read half before and half after a change
  MaxDepth,    \* --max-depth
  CacheMax,    \* entries of the string cache, 8192
  Junk,        \* what an address holds that is used for something else
  Garbage,     \* what that may look like, read as an execute_data
  Requests,    \* the tables requests have: their globals, their $_SERVER
  MaxMoves     \* bound: what the target does during one sample

Strings == {"function", "class", "file"}
Types == {"user", "internal", "other"}   \* the code of an eval is of another type
Texts == {Cut[n] : n \in Names}

\* What is asked of $_SERVER, in turn.
Vars == <<"REQUEST_URI", "REQUEST_METHOD">>

ASSUME PointersAssumption ==
  /\ {Null, Wild} \cap (Slots \cup Funcs \cup Addrs) = {}
  /\ Null # Wild
  /\ Junk \notin [func : Funcs \cup {Null}, prev : Slots \cup {Null}]
ASSUME FunctionAssumption ==
  Function \in [Funcs -> [type : Types, name : [Strings -> Addrs \cup {Null}]]]
ASSUME CalleesAssumption == Callees \subseteq Funcs \cup {Null}
ASSUME BoundsAssumption == {MaxDepth, CacheMax, MaxMoves, BucketMax} \subseteq Nat
ASSUME RequestsAssumption ==
  Requests # {} /\ \A r \in Requests : IsGlobals(r.globals) /\ IsTable(r.server)

ExecuteData == [func : Funcs \cup {Null, Wild}, prev : Slots \cup {Null, Wild}]
ASSUME GarbageAssumption == Garbage # {} /\ Garbage \subseteq ExecuteData

VARIABLES
  stack,    \* the frames of the VM, outermost first, by address
  slot,     \* what each address holds: a frame, one that was left, or Junk
  text,     \* what each zend_string holds
  request,  \* EG.symbol_table and the $_SERVER array
  alive,    \* the target can be read
  pc,       \* where the walker is
  ex,       \* the execute_data to be read next
  local,    \* the locals of read_frame: the execute_data it read, the names
            \* still to be resolved, the frame so far, a string half read
  frames,   \* the frames of this sample, innermost first
  meta,     \* what was found of its Vars so far
  cache,    \* the string cache
  trail,    \* history: what was read for each frame, and where
  seen,     \* history: every frame on the stack since the sample began
  clean,    \* history: nothing but frames was read as a frame
  moves,    \* history: what the target did since the sample began
  stale,    \* history: strings that changed under the cache or under a read
  touched   \* history: the strings read while the cache had room

target  == <<stack, slot, text, request, alive>>
walker  == <<pc, ex, local, frames, meta, cache, trail, clean, touched>>
vars == <<target, walker, seen, moves, stale>>

Frames == [func : Funcs \cup {Null}, prev : Slots \cup {Null}]
Places == [at : Slots, func : Funcs \cup {Null, Wild}, prev : Slots \cup {Null, Wild}]
At(a, e) == [at |-> a, func |-> e.func, prev |-> e.prev]

NoName == [s \in Strings |-> Null]
Unknown == [NoName EXCEPT !["function"] = "<unknown>"]
Frame == [Strings -> Texts \cup {Null, Torn, "<unknown>", "{main}", "<internal>"}]

NoLocals == [held |-> [func |-> Null, prev |-> Null], want |-> <<>>,
             part |-> Unknown, memo |-> Null]

On(s) == {s[i] : i \in 1..Len(s)}
Top(s) == IF s = <<>> THEN Null ELSE s[Len(s)]

\* What --max-depth and the size of the cache promise.
Bounded == Len(frames) <= MaxDepth /\ Cardinality(DOMAIN cache) <= CacheMax

TypeOK ==
  /\ stack \in Seq(Slots)
  /\ slot \in [Slots -> Frames \cup {Junk}]
  /\ text \in [Addrs -> Names]
  /\ request \in Requests
  /\ alive \in BOOLEAN
  /\ pc \in {"idle", "frame", "function", "name", "value", "server", "var",
             "write", "error"}
  /\ ex \in Slots \cup {Null, Wild}
  /\ local \in [held : ExecuteData, want : Seq(Strings), part : Frame,
               memo : Names \cup {Null}]
  /\ frames \in Seq(Frame)
  /\ cache \in UNION {[A -> Texts \cup {Torn}] : A \in SUBSET Addrs}
  /\ Bounded
  /\ Len(meta) <= Len(Vars)
  /\ trail \in Seq(Places)
  /\ seen \subseteq Places
  /\ clean \in BOOLEAN
  /\ moves \in 0..MaxMoves
  /\ stale \subseteq Addrs
  /\ touched \subseteq Addrs

Init ==
  /\ stack = <<>>
  /\ slot = [a \in Slots |-> Junk]
  /\ text \in [Addrs -> Names]
  /\ request \in Requests
  /\ alive = TRUE
  /\ pc = "idle"
  /\ ex = Null
  /\ local = NoLocals
  /\ frames = <<>>
  /\ meta = <<>>
  /\ cache = <<>>
  /\ trail = <<>>
  /\ seen = {}
  /\ clean = TRUE
  /\ moves = 0
  /\ stale = {}
  /\ touched = {}

(***************************************************************************)
(* The walker                                                              *)
(***************************************************************************)

\* current_execute_data: the sample begins with the innermost frame's address.
CaptureStack ==
  /\ pc = "idle" /\ alive
  /\ ex' = Top(stack)
  /\ seen' = {At(a, slot[a]) : a \in On(stack)}
  /\ pc' = "frame"
  /\ UNCHANGED <<target, local, frames, meta, cache, trail, clean, moves, stale, touched>>

\* The first read is the only one whose failure is an error.
CaptureFails ==
  /\ pc \in {"idle", "error"} /\ ~alive
  /\ pc' = "error"
  /\ UNCHANGED <<target, ex, local, frames, meta, cache, trail, clean, touched>>
  /\ UNCHANGED <<seen, moves, stale>>

\* sample_once: no frames, no request variables (and nothing for the sink).
Walked == IF frames = <<>> THEN "write" ELSE "server"

\* Mutant: nothing bounds the depth.
WalkOverAtNull == ex = Null

WalkOver == ex = Null \/ Len(frames) = MaxDepth

EndWalk ==
  /\ pc = "frame" /\ WalkOver
  /\ pc' = Walked /\ ex' = Null
  /\ UNCHANGED <<target, local, frames, meta, cache, trail, clean, touched>>
  /\ UNCHANGED <<seen, moves, stale>>

\* A frame is read in one piece; a null function is an unknown frame.
ReadExecuteData ==
  /\ pc = "frame" /\ ~WalkOver /\ alive /\ ex # Wild
  /\ \E held \in IF slot[ex] = Junk THEN Garbage ELSE {slot[ex]} :
       /\ trail' = Append(trail, At(ex, held))
       /\ IF held.func = Null
          THEN /\ frames' = Append(frames, Unknown)
               /\ ex' = held.prev
               /\ UNCHANGED <<pc, local>>
          ELSE /\ pc' = "function"
               /\ local' = [NoLocals EXCEPT !.held = held]
               /\ UNCHANGED <<frames, ex>>
  /\ clean' = (clean /\ slot[ex] # Junk)
  /\ UNCHANGED <<target, meta, cache, seen, moves, stale, touched>>

Want(f, s) == IF f.name[s] # Null /\ (s = "file" => f.type = "user") THEN <<s>> ELSE <<>>

\* The names to resolve, in the order they are; the rest needs no string.
ReadFunction ==
  /\ pc = "function" /\ alive /\ local.held.func # Wild
  /\ LET f == Function[local.held.func] IN
       local' = [local EXCEPT
         !.want = Want(f, "function") \o Want(f, "class") \o Want(f, "file"),
         !.part = [NoName EXCEPT !["function"] = "{main}",
                                 !["file"] = IF f.type = "internal" THEN "<internal>"
                                             ELSE Null]]
  /\ pc' = "name"
  /\ UNCHANGED <<target, ex, frames, meta, cache, trail, clean, touched>>
  /\ UNCHANGED <<seen, moves, stale>>

\* The zend_string of the next name.
Addr == Function[local.held.func].name[Head(local.want)]
Wanted == pc = "name" /\ local.want # <<>>

Resolve(name) ==
  /\ local' = [local EXCEPT !.part[Head(local.want)] = name,
                            !.want = Tail(@), !.memo = Null]
  /\ pc' = "name"

NameCached ==
  /\ Wanted /\ Addr \in DOMAIN cache
  /\ Resolve(cache[Addr])
  /\ UNCHANGED <<target, ex, frames, meta, cache, trail, clean, touched>>
  /\ UNCHANGED <<seen, moves, stale>>

ReadLength ==
  /\ Wanted /\ Addr \notin DOMAIN cache /\ alive
  /\ local' = [local EXCEPT !.memo = text[Addr]]
  /\ pc' = "value"
  /\ UNCHANGED <<target, ex, frames, meta, cache, trail, clean, touched>>
  /\ UNCHANGED <<seen, moves, stale>>

CacheFull == Cardinality(DOMAIN cache) >= CacheMax

\* Mutant: an entry lands under another address.
InsertAny(addr, name) ==
  LET a == CHOOSE b \in Addrs : b \notin DOMAIN cache
  IN  [b \in DOMAIN cache \cup {a} |-> IF b = a THEN name ELSE cache[b]]

\* Mutant: nothing is ever kept.
InsertNone(addr, name) == cache

Insert(addr, name) ==
  [a \in DOMAIN cache \cup {addr} |-> IF a = addr THEN name ELSE cache[a]]

ReadValue ==
  /\ pc = "value" /\ alive
  /\ LET name == IF text[Addr] = local.memo THEN Cut[local.memo] ELSE Torn IN
       /\ Resolve(name)
       /\ cache' = IF CacheFull THEN cache ELSE Insert(Addr, name)
  /\ touched' = IF CacheFull THEN touched ELSE touched \cup {Addr}
  /\ UNCHANGED <<target, ex, frames, meta, trail, clean, seen, moves, stale>>

\* Mutant: the frame next to it in memory is taken for the caller.
NextInMemory == CHOOSE a \in Slots : a # ex

NextFrame == local.held.prev

PushFrame ==
  /\ pc = "name" /\ local.want = <<>>
  /\ frames' = Append(frames, local.part)
  /\ ex' = NextFrame
  /\ local' = NoLocals
  /\ pc' = "frame"
  /\ UNCHANGED <<target, meta, cache, trail, clean, touched>>
  /\ UNCHANGED <<seen, moves, stale>>

ReadFailing ==
  \/ pc = "frame" /\ ~WalkOver /\ (~alive \/ ex = Wild)
  \/ pc = "function" /\ (~alive \/ local.held.func = Wild)
  \/ Wanted /\ Addr \notin DOMAIN cache /\ ~alive
  \/ pc = "value" /\ ~alive

\* Mutant: a failed read is tried again, for ever.
ReadRetried == ReadFailing /\ UNCHANGED vars

\* Any other read that fails ends the walk with the frames it has.
ReadFails ==
  /\ ReadFailing
  /\ trail' = SubSeq(trail, 1, Len(frames))
  /\ pc' = Walked /\ ex' = Null /\ local' = NoLocals
  /\ UNCHANGED <<target, frames, meta, cache, clean, touched>>
  /\ UNCHANGED <<seen, moves, stale>>

\* request_var: what is found of the variable asked for; no error is reported.
Answer(value) ==
  /\ meta' = Append(meta, value)
  /\ pc' = IF Len(meta') = Len(Vars) THEN "write" ELSE "server"

\* The pointer to the $_SERVER array, looked for anew for each variable.
ReadServer ==
  /\ pc = "server"
  /\ IF alive /\ FindServer(request.globals) THEN pc' = "var" /\ UNCHANGED meta
     ELSE Answer(NoValue)
  /\ UNCHANGED <<target, ex, local, frames, cache, trail, clean, touched>>
  /\ UNCHANGED <<seen, moves, stale>>

ReadVar ==
  /\ pc = "var"
  /\ Answer(IF alive THEN HtGetString(request.server, Vars[Len(meta) + 1]) ELSE NoValue)
  /\ UNCHANGED <<target, ex, local, frames, cache, trail, clean, touched>>
  /\ UNCHANGED <<seen, moves, stale>>

\* The sample is handed to the sink and forgotten.
WriteSample ==
  /\ pc = "write"
  /\ frames' = <<>> /\ meta' = <<>>
  /\ trail' = <<>> /\ seen' = {} /\ clean' = TRUE /\ moves' = 0
  /\ stale' = stale \cap DOMAIN cache
  /\ pc' = "idle"
  /\ UNCHANGED <<target, ex, local, cache, touched>>

Walker ==
  \/ CaptureStack \/ CaptureFails \/ EndWalk \/ ReadExecuteData \/ ReadFunction
  \/ NameCached \/ ReadLength \/ ReadValue \/ PushFrame \/ ReadFails
  \/ ReadServer \/ ReadVar \/ WriteSample

(***************************************************************************)
(* The target                                                              *)
(***************************************************************************)

Sampling == pc \notin {"idle", "error"}

Moves ==
  /\ alive /\ moves < MaxMoves
  /\ moves' = IF Sampling THEN moves + 1 ELSE 0
  /\ UNCHANGED walker

\* A frame is written at an address no frame has, and becomes the innermost.
Call ==
  /\ Moves
  /\ \E a \in Slots \ On(stack), f \in Callees :
       /\ slot' = [slot EXCEPT ![a] = [func |-> f, prev |-> Top(stack)]]
       /\ stack' = Append(stack, a)
       /\ seen' = IF Sampling THEN seen \cup {At(a, slot'[a])} ELSE seen
  /\ UNCHANGED <<text, request, alive, stale>>

\* The innermost frame is left; its memory stays as it is for now.
Leave ==
  /\ Moves
  /\ stack # <<>>
  /\ stack' = SubSeq(stack, 1, Len(stack) - 1)
  /\ UNCHANGED <<slot, text, request, alive, seen, stale>>

\* Memory of a frame that was left is used for something else.
Overlay ==
  /\ Moves
  /\ \E a \in Slots \ On(stack) : slot' = [slot EXCEPT ![a] = Junk]
  /\ UNCHANGED <<stack, text, request, alive, seen, stale>>

NamesOf(f) == IF f = Null THEN {} ELSE {Function[f].name[s] : s \in Strings}
InUse == UNION {NamesOf(slot[a].func) : a \in On(stack)}

\* A string no frame needs is freed, and its memory holds another one.
Reuse ==
  /\ Moves
  /\ \E a \in Addrs \ InUse, n \in Names :
       /\ n # text[a]
       /\ text' = [text EXCEPT ![a] = n]
       /\ stale' = IF a \in DOMAIN cache \/ (pc = "value" /\ a = Addr)
                   THEN stale \cup {a} ELSE stale
  /\ UNCHANGED <<stack, slot, request, alive, seen>>

\* Another request, with variables of its own.
NextRequest ==
  /\ Moves
  /\ stack = <<>>
  /\ request' \in Requests \ {request}
  /\ UNCHANGED <<stack, slot, text, alive, seen, stale>>

Exit ==
  /\ Moves
  /\ alive' = FALSE
  /\ UNCHANGED <<stack, slot, text, request, seen, stale>>

Next == Walker \/ Call \/ Leave \/ Overlay \/ Reuse \/ NextRequest \/ Exit

Spec == Init /\ [][Next]_vars

\* The profiler's thread runs; the target does what it likes.
FairSpec == Spec /\ WF_vars(Walker)

(***************************************************************************)
(* Properties                                                              *)
(***************************************************************************)

\* The target is not stopped while it is read, yet a sample shows no frame that
\* was not on the stack at some moment of that very sample, as long as memory
\* of a frame that was left is not used for something else within it.
FramesWereLive == clean => \A i \in 1..Len(trail) : trail[i] \in seen

\* A name as PHP would give it, cut, or one whose string was reused.
RightName(f, s, name) ==
  IF s = "file" /\ f.type # "user"
  THEN name = IF f.type = "internal" THEN "<internal>" ELSE Null
  ELSE IF f.name[s] = Null THEN name = IF s = "function" THEN "{main}" ELSE Null
  ELSE name = Cut[text[f.name[s]]] \/ f.name[s] \in stale

RightFrame(frame, func) ==
  IF func = Null THEN frame = Unknown
  ELSE \A s \in Strings : RightName(Function[func], s, frame[s])

\* What PHP's $_SERVER holds; that of a script that once unset it is not found.
RightVar(key, value) ==
  \/ value = IF TrueServer(request.globals) THEN TrueValue(request.server, key) ELSE NoValue
  \/ value = NoValue /\ Unset(request.globals)

\* A sample during which the target did nothing is the stack itself, innermost
\* first and cut at the maximal depth, under PHP's names, with PHP's variables of
\* the request (unless a table is longer than the scan).
QuietSampleIsExact ==
  pc = "write" /\ moves = 0 =>
    /\ Len(frames) = Min({Len(stack), MaxDepth})
    /\ \A i \in 1..Len(frames) :
         RightFrame(frames[i], slot[stack[Len(stack) + 1 - i]].func)
    /\ frames # <<>> /\ Max({Len(request.globals), Len(request.server)}) <= BucketMax =>
         \A i \in 1..Len(Vars) : RightVar(Vars[i], meta[i])

\* The cache, never invalidated, is wrong only about strings that changed under
\* it or while they were read.
CacheCoherent == \A a \in DOMAIN cache : cache[a] = Cut[text[a]] \/ a \in stale

\* "a loop sampling the same hot code only touches each string once": one read
\* while the cache had room is never read again, full as the cache may be by then.
TouchedOnce == pc = "value" => Addr \notin touched

\* A walk ends whatever the target does to the chain it follows.
WalkEnds == (pc = "frame") ~> (pc = "write")
=============================================================================
