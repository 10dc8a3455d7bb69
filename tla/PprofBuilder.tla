---------------------------- MODULE PprofBuilder ----------------------------
(***************************************************************************)
(* output::pprof_sink::PprofBuilder: stacks are folded into counts over    *)
(* interned locations; take_gzipped turns the counts and the three         *)
(* interning tables into one profile and starts the next window.           *)
(*                                                                         *)
(* A frame is the qualified name pprof shows, a file ("" when there is     *)
(* none) and a line. A profile is what a reader of the protobuf sees; its  *)
(* encoding into memory and the compression do not fail.                   *)
(***************************************************************************)
EXTENDS Integers, Sequences, Bags, BagsExt

CONSTANTS
  Names, Files,  \* what class, function and file strings occur
  Lines

Frames == [name : Names, file : Files, line : Lines]

\* What is interned: what occurs in frames, and the profile's own strings.
Strings == Names \cup Files \cup {"", "count", "samples"}

VARIABLES
  strings,       \* the string table; ids count from 0
  functions,     \* <<name id, file id>>; ids count from 1
  locations,     \* <<function id, line>>; ids count from 1
  samples,       \* location ids of a stack -> how often it was added
  window_start,  \* what the wall clock said when the window began
  call,          \* the stack add() is working on
  ids,           \* the location ids of its first frames
  adding,        \* add() is under way
  window         \* the bag of stacks added in this window, as they were

builderVars ==
  <<strings, functions, locations, samples, window_start, call, ids, adding, window>>

(***************************************************************************)
(* An interning table: the list that goes into the profile and the map     *)
(* from an entry to its id. base is the id of the first entry.             *)
(***************************************************************************)

EmptyTable == [list |-> << >>, key |-> << >>]

\* Mutant: the length is read after the entry was pushed.
InternLate(table, entry, base) ==
  IF entry \in DOMAIN table.key
  THEN table
  ELSE [list |-> Append(table.list, entry),
        key  |-> [e \in DOMAIN table.key \cup {entry} |->
                    IF e = entry THEN Len(table.list) + 1 + base ELSE table.key[e]]]

\* The table with the entry in it; one that was not known gets the next id.
Intern(table, entry, base) ==
  IF entry \in DOMAIN table.key
  THEN table
  ELSE [list |-> Append(table.list, entry),
        key  |-> [e \in DOMAIN table.key \cup {entry} |->
                    IF e = entry THEN Len(table.list) + base ELSE table.key[e]]]

\* Mutant: the map is kept.
KeptKeys(table) == [table EXCEPT !.list = << >>]

\* A table whose list has gone into a profile: its map is cleared with it.
Cleared(table) == EmptyTable

\* "pprof requires string_table[0] == """.
FreshStrings(table) == Intern(Cleared(table), "", 0)

BuilderInit ==
  /\ strings = Intern(EmptyTable, "", 0)
  /\ functions = EmptyTable
  /\ locations = EmptyTable
  /\ samples = EmptyBag
  /\ window_start = 0
  /\ call = << >>
  /\ ids = << >>
  /\ adding = FALSE
  /\ window = EmptyBag

(***************************************************************************)
(* add(): frame by frame, then the count                                   *)
(***************************************************************************)

BeginAdd(stack) ==
  /\ ~adding
  /\ adding' = TRUE
  /\ call' = stack
  /\ ids' = << >>
  /\ UNCHANGED <<strings, functions, locations, samples, window_start, window>>

\* name and file, then the function, then the location.
AddFrame ==
  /\ adding
  /\ Len(ids) < Len(call)
  /\ LET frame    == call[Len(ids) + 1]
         named    == Intern(Intern(strings, frame.name, 0), frame.file, 0)
         function == <<named.key[frame.name], named.key[frame.file]>>
         defined  == Intern(functions, function, 1)
         location == <<defined.key[function], frame.line>>
         placed   == Intern(locations, location, 1)
     IN  /\ strings' = named
         /\ functions' = defined
         /\ locations' = placed
         /\ ids' = Append(ids, placed.key[location])
  /\ UNCHANGED <<samples, window_start, call, adding, window>>

EndAdd ==
  /\ adding
  /\ Len(ids) = Len(call)
  /\ samples' = BagAdd(samples, ids)
  /\ window' = BagAdd(window, call)
  /\ adding' = FALSE
  /\ call' = << >>
  /\ ids' = << >>
  /\ UNCHANGED <<strings, functions, locations, window_start>>

(***************************************************************************)
(* take_gzipped()                                                          *)
(***************************************************************************)

\* A profile's duration is unsigned in effect: an end before the start counts as zero.
Duration(start, end) == IF end < start THEN 0 ELSE end - start

\* The profile taken when the wall clock says end.
Profile(end) ==
  [string_table |-> Intern(Intern(strings, "count", 0), "samples", 0).list,
   function     |-> functions.list,
   location     |-> locations.list,
   sample       |-> samples,
   from         |-> window_start,
   until        |-> end,
   duration     |-> Duration(window_start, end)]

\* Mutant: the next window begins where this one did.
SameStart(end) == window_start

NextStart(end) == end

Reset(end) ==
  /\ ~adding
  /\ strings' = FreshStrings(strings)
  /\ functions' = Cleared(functions)
  /\ locations' = Cleared(locations)
  /\ samples' = EmptyBag
  /\ window_start' = NextStart(end)
  /\ window' = EmptyBag
  /\ UNCHANGED <<call, ids, adding>>

(***************************************************************************)
(* What a reader of a profile sees                                         *)
(***************************************************************************)

\* Frames, or stacks, an id of which leads nowhere.
Dangling == [name |-> "dangling", file |-> "dangling", line |-> 0]

\* The frame a location id of profile p stands for.
FrameOf(p, id) ==
  LET location == p.location[id]
      function == p.function[location[1]]
  IN  IF /\ id \in DOMAIN p.location
         /\ location[1] \in DOMAIN p.function
         /\ function[1] < Len(p.string_table)
         /\ function[2] < Len(p.string_table)
      THEN [name |-> p.string_table[function[1] + 1],
            file |-> p.string_table[function[2] + 1],
            line |-> location[2]]
      ELSE Dangling

StackOf(p, locs) == [i \in DOMAIN locs |-> FrameOf(p, locs[i])]

\* The bag of stacks in profile p. A stack is there under one list of ids: were it
\* there under two, one of the counts would be left out here and be missed.
Decoded(p) ==
  [stack \in {StackOf(p, locs) : locs \in DOMAIN p.sample} |->
     p.sample[CHOOSE locs \in DOMAIN p.sample : StackOf(p, locs) = stack]]
=============================================================================
