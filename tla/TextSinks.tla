------------------------------ MODULE TextSinks ------------------------------
(***************************************************************************)
(* The text outputs: a stack is written line by line (StacksSink), or      *)
(* counted and written at the end (FoldedSink).                            *)
(*                                                                         *)
(* A text is its closed lines and the one that is open; a line is the      *)
(* pieces it was made of, an empty line none.                              *)
(*                                                                         *)
(* The writer is a BufWriter. A text is what it has taken: the file has    *)
(* the front of it, the buffer the rest. A write that finds the buffer     *)
(* full writes it out; when that fails, what could not be written stays in *)
(* the buffer, and the part that was to be added is not taken. The flush   *)
(* at the end writes out all, or fails; the writer is then dropped, which  *)
(* tries once more, and what is still in the buffer is lost.               *)
(***************************************************************************)
EXTENDS Naturals, SequencesExt, FiniteSetsExt

CONSTANT KeyOrder    \* the keys of the folded output, in the order of the sort

ASSUME KeyOrderAssumption ==
  /\ KeyOrder \in Seq(ToSet(KeyOrder))
  /\ \A i, j \in DOMAIN KeyOrder : KeyOrder[i] = KeyOrder[j] => i = j

Empty == [lines |-> <<>>, open |-> <<>>]
Blank == [blank |-> TRUE]
Header(name, value) == [header |-> name, value |-> value]
FrameLine(i, frame) == [index |-> i, frame |-> frame]

\* The lines of a sample: its request, its frames numbered from the innermost, and
\* an empty line.
Lines(frames, meta) ==
  (IF meta.uri = "none" THEN <<>> ELSE <<Header("request_uri", meta.uri)>>)
  \o (IF meta.method = "none" THEN <<>> ELSE <<Header("request_method", meta.method)>>)
  \o [i \in DOMAIN frames |-> FrameLine(i - 1, frames[i])]
  \o <<Blank>>

\* The first piece goes on the line that is open, the others on lines of their own.
LineOf(open, piece) == IF piece = Blank THEN open ELSE Append(open, piece)

Written(text, lines) ==
  IF lines = <<>> THEN text
  ELSE [lines |-> text.lines \o [i \in DOMAIN lines |->
                     LineOf(IF i = 1 THEN text.open ELSE <<>>, lines[i])],
        open  |-> <<>>]

\* What the writer may have taken when a write fails: writeln! hands it a line in
\* several parts, so the lines before, with or without a part of the one that failed.
FailedWrites(text, lines) ==
  UNION {LET before == Written(text, SubSeq(lines, 1, n - 1))
         IN  {before} \cup IF lines[n] = Blank THEN {}
                           ELSE {[before EXCEPT !.open = Append(@, lines[n])]} :
         n \in DOMAIN lines}

\* The closed lines the file may have: until the flush the front of what was taken.
Files(text, flushed) ==
  {SubSeq(text.lines, 1, n) :
     n \in IF flushed THEN {Len(text.lines)} ELSE 0..Len(text.lines)}

\* FoldedSink: the key is the names of the frames, the outermost first; file and
\* line are dropped.
Name(frame) == <<frame.class, frame.function>>
Key(frames) == LET root == Reverse(frames) IN [i \in DOMAIN root |-> Name(root[i])]

NoCounts == [k \in ToSet(KeyOrder) |-> 0]

\* Mutant: a key that is there keeps its count.
Once(counts, frames) == [counts EXCEPT ![Key(frames)] = 1]

Count(counts, frames) ==
  IF frames = <<>> THEN counts ELSE [counts EXCEPT ![Key(frames)] = @ + 1]

\* finish: the entries, sorted by key, a line each.
Counted(counts) == {i \in DOMAIN KeyOrder : counts[KeyOrder[i]] > 0}
UpTo(S, n) == Cardinality({i \in S : i <= n})
Nth(S, n) == CHOOSE i \in S : UpTo(S, i) = n

FoldedLines(counts) ==
  LET entry(k) == [key |-> k, count |-> counts[k]]
  IN  [n \in 1..Cardinality(Counted(counts)) |-> entry(KeyOrder[Nth(Counted(counts), n)])]

Before(k, l) == \E i, j \in DOMAIN KeyOrder : i < j /\ KeyOrder[i] = k /\ KeyOrder[j] = l

(***************************************************************************)
(* Reading the stacks back: the groups of lines that empty lines end.      *)
(***************************************************************************)

Ends(lines) == {i \in DOMAIN lines : lines[i] = <<>>}
Group(lines, end) ==
  SubSeq(lines, Max({0} \cup {i \in Ends(lines) : i < end}) + 1, end - 1)
=============================================================================
