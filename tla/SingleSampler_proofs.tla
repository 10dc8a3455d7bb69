------------------------ MODULE SingleSampler_proofs ------------------------
(***************************************************************************)
(* How late the single-process sampler may be in seeing that it was told   *)
(* to stop, and what it leaves in the output, for any stacks, signals and  *)
(* failures.                                                               *)
(***************************************************************************)
EXTENDS SingleSampler, FiniteSetTheorems, TLAPS

\* A capture after the stop is the last step of its iteration that samples: from
\* there the way leads past the look at the flag.
LateInv ==
  /\ stop \in BOOLEAN
  /\ late \in {0, 1}
  /\ ~stop => late = 0
  /\ late = 1 => pc \notin {"attach", "sink", "install", "over?", "sleep", "capture"}

LEMMA NextLate == LateInv /\ [Next]_vars => LateInv'
<1> SUFFICES ASSUME LateInv, [Next]_vars PROVE LateInv'  OBVIOUS
<1> USE DEF LateInv, At
<1>1. CASE Attach  BY <1>1 DEF Attach
<1>2. CASE BuildSink  BY <1>2 DEF BuildSink
<1>3. CASE Install  BY <1>3 DEF Install
<1>4. CASE CheckStop  BY <1>4 DEF CheckStop
<1>5. CASE CheckOver  BY <1>5 DEF CheckOver
<1>6. CASE Sleep  BY <1>6 DEF Sleep
<1>7. CASE Capture
  <2>1. pc = "capture" /\ late = 0 /\ pc' \in {"status", "stop?", "request"}
    BY <1>7 DEF Capture
  <2>2. late' \in {0, 1} /\ (~stop => late' = 0)  BY <1>7, <2>1 DEF Capture
  <2>3. stop' = stop  BY <1>7 DEF Capture
  <2>4. QED  BY <2>1, <2>2, <2>3
<1>8. CASE WriteSample
  <2>1. pc = "request" /\ pc' \in {"stop?", "status"}  BY <1>8 DEF WriteSample
  <2>2. stop' = stop /\ late' = late  BY <1>8 DEF WriteSample
  <2>3. QED  BY <2>1, <2>2
<1>9. CASE CheckStatus  BY <1>9 DEF CheckStatus
<1>10. CASE Finish
  <2>1. pc' \in {"done", "failed"}  BY <1>10 DEF Finish
  <2>2. stop' = stop /\ late' = late  BY <1>10 DEF Finish
  <2>3. QED  BY <2>1, <2>2
<1>11. CASE Signal
  <2>1. pc' = pc \/ pc' = "killed"  BY <1>11 DEF Signal
  <2>2. stop' = stop /\ late' = late  BY <1>11 DEF Signal
  <2>3. QED  BY <2>1, <2>2
<1>12. CASE Handler  BY <1>12 DEF Handler, Lock, CallBack
<1>13. CASE ProcessChanges  BY <1>13 DEF ProcessChanges
<1>14. CASE DurationEnds  BY <1>14 DEF DurationEnds
<1>15. CASE UNCHANGED vars  BY <1>15 DEF vars
<1>16. QED
  BY <1>1, <1>2, <1>3, <1>4, <1>5, <1>6, <1>7, <1>8, <1>9, <1>10, <1>11, <1>12, <1>13,
     <1>14, <1>15
  DEF Next, Sampler

\* However many signals come, and wherever in the loop, at most one more stack is
\* captured once the flag is set.
THEOREM AtMostOneMore == Spec => []OneMoreCapture
<1>1. Init => LateInv
  <2>1. Init => stop \in BOOLEAN /\ late = 0 /\ pc = "attach"  BY Zenon DEF Init
  <2>2. QED  BY <2>1 DEF LateInv
<1>2. LateInv => OneMoreCapture  BY DEF LateInv, OneMoreCapture
<1>3. QED  BY NextLate, <1>1, <1>2, PTL DEF Spec

(***************************************************************************)
(* Counting                                                                *)
(***************************************************************************)

LEMMA Part ==
  ASSUME NEW S, NEW T, IsFiniteSet(S), T \subseteq S
  PROVE  /\ IsFiniteSet(T) /\ Cardinality(T) \in Nat /\ Cardinality(T) <= Cardinality(S)
         /\ Cardinality(S) \in Nat
         /\ Cardinality(S) = Cardinality(T) => S = T
<1>1. T \in SUBSET S  OBVIOUS
<1>2. /\ IsFiniteSet(T) /\ Cardinality(T) <= Cardinality(S)
      /\ Cardinality(S) = Cardinality(T) => S = T
  BY <1>1, FS_Subset
<1> QED  BY <1>2, FS_CardinalityType

\* Every element of a finite set of numbers has a place in it.
LEMMA Places ==
  ASSUME NEW S, S \subseteq Nat, IsFiniteSet(S)
  PROVE  /\ Cardinality(S) \in Nat
         /\ \A i \in S : UpTo(S, i) \in 1..Cardinality(S)
         /\ \A i, j \in S : i < j => UpTo(S, i) < UpTo(S, j)
         /\ \A n \in 1..Cardinality(S) : Nth(S, n) \in S /\ UpTo(S, Nth(S, n)) = n
<1> DEFINE below(i) == {j \in S : j <= i}
           place == [i \in S |-> Cardinality(below(i))]
           n == Cardinality(S)
<1>1. \A i \in S : /\ IsFiniteSet(below(i)) /\ Cardinality(below(i)) \in Nat
                    /\ Cardinality(below(i)) <= n /\ n \in Nat
  BY Part
<1>2. \A i \in S : Cardinality(below(i)) # 0
  <2> SUFFICES ASSUME NEW i \in S PROVE Cardinality(below(i)) # 0  OBVIOUS
  <2>1. i \in below(i)  OBVIOUS
  <2> QED  BY <1>1, <2>1, FS_EmptySet
<1>3. n \in Nat  BY FS_CardinalityType
<1>4. \A i \in S : Cardinality(below(i)) \in 1..n  BY <1>1, <1>2
<1>5. ASSUME NEW i \in S, NEW j \in S, i < j
      PROVE  Cardinality(below(i)) < Cardinality(below(j))
  <2>0. \A k \in S : k <= i => k <= j
    <3> SUFFICES ASSUME NEW k \in S, k <= i PROVE k <= j  OBVIOUS
    <3>1. k \in Nat /\ i \in Nat /\ j \in Nat  OBVIOUS
    <3> QED  BY <1>5, <3>1
  <2>1. below(i) \subseteq below(j)  BY <2>0
  <2>2. j \in below(j) /\ j \notin below(i)  BY <1>5
  <2>3. Cardinality(below(j)) # Cardinality(below(i))  BY <1>1, <2>1, <2>2, Part
  <2>4. Cardinality(below(i)) <= Cardinality(below(j))  BY <1>1, <2>1, Part
  <2> HIDE DEF below
  <2> QED  BY <1>1, <2>3, <2>4
<1>6. place \in Injection(S, 1..n)
  <2>1. place \in [S -> 1..n]  BY <1>4
  <2>2. ASSUME NEW i \in S, NEW j \in S, i # j PROVE place[i] # place[j]
    <3>1. i < j \/ j < i  BY <2>2
    <3> HIDE DEF below
    <3> QED  BY <1>1, <1>5, <3>1
  <2> HIDE DEF place
  <2> QED  BY <2>1, <2>2 DEF Injection, IsInjective
<1>7. IsFiniteSet(1..n) /\ Cardinality(1..n) = n  BY <1>3, FS_Interval
<1> HIDE DEF place, n
<1>8. place \in Surjection(S, 1..n)  BY <1>6, <1>7, FS_Injection DEF n
<1>9. \A k \in 1..n : \E i \in S : UpTo(S, i) = k
  BY <1>8 DEF Surjection, place, UpTo
<1>10. \A k \in 1..n : Nth(S, k) \in S /\ UpTo(S, Nth(S, k)) = k  BY <1>9 DEF Nth
<1> QED  BY <1>3, <1>4, <1>5, <1>10 DEF UpTo, n

LEMMA Greatest ==
  ASSUME NEW S, S \subseteq Nat, IsFiniteSet(S), S # {}
  PROVE  Max(S) \in S /\ \A i \in S : i <= Max(S)
<1> DEFINE n == Cardinality(S)
<1>1. n \in Nat /\ n # 0  BY FS_CardinalityType, FS_EmptySet
<1>2. n \in 1..n  BY <1>1
<1>3. Nth(S, n) \in S /\ UpTo(S, Nth(S, n)) = n  BY <1>2, Places
<1>4. {i \in S : i <= Nth(S, n)} = S  BY <1>3, Part DEF UpTo
<1>5. \E m \in S : \A i \in S : m >= i  BY <1>3, <1>4
<1>6. Max(S) \in S /\ \A i \in S : Max(S) >= i  BY <1>5 DEF Max
<1> QED  BY <1>6

(***************************************************************************)
(* What was given to the sink                                              *)
(***************************************************************************)

Requests == Metas \cup {[uri |-> "none", method |-> "none"]}
Samples == {s \in Stacks : ~NotWritten(s)}
Entries == [lines : {Lines(s, m) : s \in Samples, m \in Requests}, frames : Samples,
            ok : BOOLEAN]

LogInv ==
  /\ pc = "request" => frames \in Samples
  /\ log \in Seq(Entries)

LEMMA AppendFacts ==
  ASSUME NEW S, NEW s \in Seq(S), NEW e \in S
  PROVE  /\ Append(s, e) \in Seq(S) /\ Len(s) \in Nat /\ Len(Append(s, e)) = Len(s) + 1
         /\ DOMAIN s = 1..Len(s) /\ DOMAIN Append(s, e) = DOMAIN s \cup {Len(s) + 1}
         /\ Len(s) + 1 \notin DOMAIN s
         /\ \A i \in DOMAIN s : s[i] \in S /\ Append(s, e)[i] = s[i]
         /\ Append(s, e)[Len(s) + 1] = e
OBVIOUS

LEMMA WritesAnEntry ==
  ASSUME LogInv, WriteSample
  PROVE  \E m \in Requests, ok \in BOOLEAN :
           LET lines == Lines(frames, m)
               e     == [lines |-> lines, frames |-> frames, ok |-> ok]
           IN  /\ e \in Entries /\ log' = Append(log, e)
               /\ Folded => ok /\ counts' = Count(counts, frames) /\ text' = text
               /\ ~Folded /\ ok => text' = Written(text, lines)
               /\ ~Folded /\ ~ok => text' \in FailedWrites(text, lines)
<1>1. PICK m \in Requests :
        LET lines == Lines(frames, m)
            logs(ok) == log' = Append(log, [lines |-> lines, frames |-> frames, ok |-> ok])
        IN  \/ ~Folded /\ text' = Written(text, lines) /\ logs(TRUE)
            \/ ~Folded /\ text' \in FailedWrites(text, lines) /\ logs(FALSE)
            \/ Folded /\ counts' = Count(counts, frames) /\ logs(TRUE) /\ text' = text
  BY DEF WriteSample, Requests
<1>2. frames \in Samples  BY DEF LogInv, WriteSample, At
<1>3. \A ok \in BOOLEAN :
        [lines |-> Lines(frames, m), frames |-> frames, ok |-> ok] \in Entries
  BY <1>2 DEF Entries
<1> QED  BY <1>1, <1>3

LEMMA NextLog == LogInv /\ [Next]_vars => LogInv'
<1> SUFFICES ASSUME LogInv, [Next]_vars PROVE LogInv'  OBVIOUS
<1>1. CASE Capture
  <2>1. log' = log  BY <1>1 DEF Capture
  <2>2. ASSUME pc' = "request" PROVE frames' \in Samples
    <3>1. PICK stack \in {<<>>} \cup Stacks : ~NotWritten(stack) /\ frames' = stack
      BY <1>1, <2>2 DEF Capture
    <3>2. NotWritten(<<>>)  BY DEF NotWritten
    <3> QED  BY <3>1, <3>2 DEF Samples
  <2> QED  BY <2>1, <2>2 DEF LogInv
<1>2. CASE WriteSample
  <2>1. log' \in Seq(Entries)
    <3>1. PICK e \in Entries : log' = Append(log, e)  BY <1>2, WritesAnEntry
    <3>2. log \in Seq(Entries)  BY DEF LogInv
    <3> QED  BY <3>1, <3>2, AppendFacts
  <2>2. pc' # "request"  BY <1>2 DEF WriteSample
  <2> QED  BY <2>1, <2>2 DEF LogInv
<1>3. CASE log' = log /\ (pc' # "request" \/ UNCHANGED <<pc, frames>>)  BY <1>3 DEF LogInv
<1>4. CASE Attach \/ BuildSink \/ Install \/ CheckStop \/ CheckOver \/ Sleep \/ CheckStatus
           \/ Finish
  BY <1>3, <1>4 DEF Attach, BuildSink, Install, CheckStop, CheckOver, Sleep, CheckStatus, Finish
<1>5. CASE Signal \/ Handler \/ ProcessChanges \/ DurationEnds
  BY <1>3, <1>5 DEF Signal, Handler, Lock, CallBack, ProcessChanges, DurationEnds
<1>6. CASE UNCHANGED vars  BY <1>3, <1>6 DEF vars
<1> QED  BY <1>1, <1>2, <1>4, <1>5, <1>6 DEF Next, Sampler

(***************************************************************************)
(* The folded output                                                       *)
(***************************************************************************)

Keys == ToSet(KeyOrder)

FoldInv ==
  Folded =>
    /\ counts \in [Keys -> Nat]
    /\ pc \notin {"done", "failed"} => text = Empty /\ \A k \in Keys : counts[k] = Times(k)
    /\ FoldedExact

LEMMA KeyFacts ==
  /\ DOMAIN KeyOrder = 1..Len(KeyOrder) /\ Len(KeyOrder) \in Nat
  /\ IsFiniteSet(DOMAIN KeyOrder) /\ DOMAIN KeyOrder \subseteq Nat
  /\ \A i \in DOMAIN KeyOrder : KeyOrder[i] \in Keys
  /\ \A k \in Keys : \E i \in DOMAIN KeyOrder : KeyOrder[i] = k
<1>1. KeyOrder \in Seq(Keys)  BY KeyOrderAssumption DEF Keys
<1>2. DOMAIN KeyOrder = 1..Len(KeyOrder) /\ Len(KeyOrder) \in Nat  BY <1>1
<1>3. IsFiniteSet(1..Len(KeyOrder))  BY <1>2, FS_Interval
<1> QED  BY <1>2, <1>3 DEF Keys, ToSet

LEMMA AllOfIt ==
  ASSUME NEW S, NEW s \in Seq(S)
  PROVE  SubSeq(s, 1, Len(s)) = s
OBVIOUS

LEMMA FoldedText ==
  ASSUME counts \in [Keys -> Nat]
  PROVE  LET t == Written(Empty, FoldedLines(counts)).lines
             I == Counted(counts)
         IN  /\ DOMAIN t = 1..Cardinality(I)
             /\ \A n \in 1..Cardinality(I) :
                  t[n] = <<[key |-> KeyOrder[Nth(I, n)], count |-> counts[KeyOrder[Nth(I, n)]]]>>
             /\ SubSeq(t, 1, Len(t)) = t
<1> DEFINE I == Counted(counts)
           entry(n) == [key |-> KeyOrder[Nth(I, n)], count |-> counts[KeyOrder[Nth(I, n)]]]
           lines == [n \in 1..Cardinality(I) |-> entry(n)]
           t == Written(Empty, lines).lines
<1>1. Cardinality(I) \in Nat  BY KeyFacts, Part DEF Counted
<1>2. FoldedLines(counts) = lines  BY DEF FoldedLines
<1>3. ASSUME NEW n PROVE entry(n) # Blank /\ Append(<<>>, entry(n)) = <<entry(n)>>
  <2>1. "blank" \notin DOMAIN entry(n) /\ "blank" \in DOMAIN Blank  BY DEF Blank
  <2> HIDE DEF entry
  <2> QED  BY <2>1
<1> HIDE DEF entry, I
<1>4. DOMAIN lines = 1..Cardinality(I)  OBVIOUS
<1>5. DOMAIN t = 1..Cardinality(I) /\ (\A n \in 1..Cardinality(I) : t[n] = <<entry(n)>>)
      /\ SubSeq(t, 1, Len(t)) = t
  <2>1. CASE lines = <<>>
    <3>1. t = <<>>  BY <2>1 DEF Written, Empty
    <3>2. 1..Cardinality(I) = {}  BY <1>4, <2>1
    <3> HIDE DEF t
    <3>3. DOMAIN t = {}  BY <3>1
    <3>4. t \in Seq({})  BY <3>1
    <3> QED  BY <3>2, <3>3, <3>4, AllOfIt
  <2>2. CASE lines # <<>>
    <3> DEFINE u == [n \in 1..Cardinality(I) |-> <<entry(n)>>]
    <3>1. \A n \in 1..Cardinality(I) : LineOf(<<>>, lines[n]) = <<entry(n)>>
      BY <1>3 DEF LineOf
    <3>2. [n \in DOMAIN lines |-> LineOf(IF n = 1 THEN Empty.open ELSE <<>>, lines[n])] = u
      BY <1>4, <3>1 DEF Empty
    <3>3. t = <<>> \o u  BY <2>2, <3>2 DEF Written, Empty
    <3>4. u \in Seq({<<entry(n)>> : n \in 1..Cardinality(I)})  BY <1>1
    <3> HIDE DEF u
    <3>5. t = u  BY <3>3, <3>4
    <3> HIDE DEF t
    <3>6. SubSeq(t, 1, Len(t)) = t  BY <3>4, <3>5, AllOfIt
    <3> QED  BY <3>5, <3>6 DEF u
  <2> QED  BY <2>1, <2>2
<1> HIDE DEF lines
<1> QED  BY <1>2, <1>5 DEF entry, I

LEMMA TimesFacts ==
  ASSUME log \in Seq(Entries)
  PROVE  /\ \A k : Times(k) \in Nat
         /\ \A k : Times(k) > 0 <=> \E i \in DOMAIN log : Key(log[i].frames) = k
         /\ \A i \in DOMAIN log : Key(log[i].frames) \in Keys
<1> DEFINE S(k) == {i \in DOMAIN log : Key(log[i].frames) = k}
<1>1. IsFiniteSet(DOMAIN log)
  <2>1. DOMAIN log = 1..Len(log) /\ Len(log) \in Nat  OBVIOUS
  <2> QED  BY <2>1, FS_Interval
<1>2. \A k : IsFiniteSet(S(k)) /\ Cardinality(S(k)) \in Nat  BY <1>1, Part
<1>3. \A k : Cardinality(S(k)) = 0 <=> S(k) = {}  BY <1>2, FS_EmptySet
<1>4. \A i \in DOMAIN log : Key(log[i].frames) \in Keys
  <2>1. \A i \in DOMAIN log : log[i] \in Entries  OBVIOUS
  <2>2. \A i \in DOMAIN log : log[i].frames \in Samples  BY <2>1 DEF Entries
  <2> QED  BY <2>2, StacksAssumption DEF Samples, Keys
<1>5. \A k : S(k) # {} <=> \E i \in DOMAIN log : Key(log[i].frames) = k  OBVIOUS
<1>6. \A k : Times(k) = Cardinality(S(k))  BY DEF Times
<1> HIDE DEF S
<1> QED  BY <1>2, <1>3, <1>4, <1>5, <1>6

LEMMA CountsOne ==
  ASSUME log \in Seq(Entries), NEW e \in Entries, log' = Append(log, e), NEW k
  PROVE  Times(k)' = IF Key(e.frames) = k THEN Times(k) + 1 ELSE Times(k)
<1> DEFINE S == {i \in DOMAIN log : Key(log[i].frames) = k}
           T == {i \in DOMAIN log' : Key(log'[i].frames) = k}
           n == Len(log) + 1
<1>1. /\ DOMAIN log' = DOMAIN log \cup {n} /\ n \notin DOMAIN log /\ log'[n] = e
      /\ \A i \in DOMAIN log : log'[i] = log[i]
  BY AppendFacts
<1>2. IsFiniteSet(DOMAIN log)
  <2>1. DOMAIN log = 1..Len(log) /\ Len(log) \in Nat  OBVIOUS
  <2> QED  BY <2>1, FS_Interval
<1>3. IsFiniteSet(S)  BY <1>2, Part
<1>4. Times(k) = Cardinality(S) /\ Times(k)' = Cardinality(T)  BY DEF Times
<1> HIDE DEF n
<1>5. CASE Key(e.frames) = k
  <2>1. T = S \cup {n} /\ n \notin S  BY <1>1, <1>5
  <2> HIDE DEF S, T
  <2>2. Cardinality(T) = Cardinality(S) + 1  BY <1>3, <2>1, FS_AddElement
  <2> QED  BY <1>4, <1>5, <2>2
<1>6. CASE Key(e.frames) # k
  <2>1. T = S  BY <1>1, <1>6
  <2> QED  BY <1>4, <1>6, <2>1
<1> QED  BY <1>5, <1>6

\* The entries sorted: what the table counts is what the text holds.
LEMMA FinishIsExact ==
  ASSUME LogInv, FoldInv, Folded, pc \notin {"done", "failed"},
         text' = Written(text, FoldedLines(counts)), flushed' = TRUE,
         UNCHANGED <<format, log>>
  PROVE  FoldedExact'
<1> DEFINE I == Counted(counts)
           n == Cardinality(I)
           t == text'.lines
           line(k) == <<[key |-> k, count |-> Times(k)]>>
           keys == Captured
<1>1. counts \in [Keys -> Nat] /\ text = Empty /\ \A k \in Keys : counts[k] = Times(k)
  BY DEF FoldInv
<1>2. I \subseteq DOMAIN KeyOrder /\ I \subseteq Nat /\ IsFiniteSet(I)
  BY KeyFacts, Part DEF Counted
<1>3. /\ n \in Nat
      /\ \A i \in I : UpTo(I, i) \in 1..n
      /\ \A i, j \in I : i < j => UpTo(I, i) < UpTo(I, j)
      /\ \A m \in 1..n : Nth(I, m) \in I /\ UpTo(I, Nth(I, m)) = m
  BY <1>2, Places
<1>4. \A i \in I : i \in DOMAIN KeyOrder /\ KeyOrder[i] \in Keys /\ i \in Nat
  BY <1>2, KeyFacts
<1>5. /\ DOMAIN t = 1..n
      /\ \A m \in 1..n : t[m] = line(KeyOrder[Nth(I, m)])
      /\ SubSeq(t, 1, Len(t)) = t
  BY <1>1, <1>3, <1>4, FoldedText
<1>6. \A i \in I : \E m \in 1..n : Nth(I, m) = i
  <2> SUFFICES ASSUME NEW i \in I PROVE Nth(I, UpTo(I, i)) = i  BY <1>3
  <2> DEFINE j == Nth(I, UpTo(I, i))
  <2>1. j \in I /\ UpTo(I, j) = UpTo(I, i) /\ UpTo(I, i) \in Nat  BY <1>3
  <2>2. i \in Nat /\ j \in Nat  BY <1>2, <2>1
  <2> HIDE DEF I, j
  <2>3. ~(i < j) /\ ~(j < i)  BY <1>3, <2>1
  <2>4. j = i  BY <2>2, <2>3
  <2> QED  BY <2>4 DEF j
<1>7. keys = {KeyOrder[i] : i \in I}
  <2>1. \A i \in DOMAIN KeyOrder : i \in I <=> Times(KeyOrder[i]) > 0
    BY <1>1, KeyFacts DEF Counted
  <2>2. \A k : k \in keys <=> k \in Keys /\ Times(k) > 0  BY TimesFacts DEF LogInv, Captured
  <2> HIDE DEF I, keys
  <2> QED  BY <1>2, <1>4, <2>1, <2>2, KeyFacts
<1> HIDE DEF I, t, line, keys
<1>8. ToSet(t) = {line(k) : k \in keys}
  <2>1. ToSet(t) = {line(KeyOrder[Nth(I, m)]) : m \in 1..n}  BY <1>5 DEF ToSet
  <2>2. {line(KeyOrder[Nth(I, m)]) : m \in 1..n} = {line(k) : k \in keys}
    BY <1>3, <1>6, <1>7
  <2> QED  BY <2>1, <2>2
<1>9. ASSUME NEW i \in DOMAIN t, NEW j \in DOMAIN t, i < j
      PROVE  Before(t[i][1].key, t[j][1].key)
  <2>1. i \in 1..n /\ j \in 1..n  BY <1>5
  <2> DEFINE a == Nth(I, i)
             b == Nth(I, j)
  <2>2. a \in I /\ b \in I /\ UpTo(I, a) = i /\ UpTo(I, b) = j  BY <1>3, <2>1
  <2>3. t[i][1].key = KeyOrder[a] /\ t[j][1].key = KeyOrder[b]  BY <1>5, <2>1 DEF line
  <2> HIDE DEF a, b
  <2>4. a \in Nat /\ b \in Nat /\ i \in Nat /\ j \in Nat  BY <1>2, <2>1, <2>2
  <2>5. a # b /\ ~(b < a)  BY <1>3, <1>9, <2>2, <2>4
  <2>6. a < b  BY <2>4, <2>5
  <2> QED  BY <1>4, <2>2, <2>3, <2>6 DEF Before
<1>10. \A k : Times(k)' = Times(k)  BY DEF Times
<1>11. Captured' = Captured  BY DEF Captured
<1>12. {line(k) : k \in keys} = {<<[key |-> k, count |-> Times(k)]>> : k \in Captured}'
  BY <1>10, <1>11 DEF line, keys
<1>13. Files(text, flushed)' = {t}  BY <1>5 DEF Files, t
<1> QED  BY <1>8, <1>9, <1>12, <1>13 DEF FoldedExact

LEMMA SameTimes == log' = log => \A k : Times(k)' = Times(k)
BY DEF Times

LEMMA SameFolded == FoldedExact /\ UNCHANGED <<format, pc, log, text, flushed>> => FoldedExact'
<1> SUFFICES ASSUME FoldedExact, UNCHANGED <<format, pc, log, text, flushed>> PROVE FoldedExact'
  OBVIOUS
<1>1. \A k : Times(k)' = Times(k)  BY SameTimes
<1>2. Captured' = Captured  BY DEF Captured
<1>3. {<<[key |-> k, count |-> Times(k)]>> : k \in Captured}'
        = {<<[key |-> k, count |-> Times(k)]>> : k \in Captured}
  BY <1>1, <1>2
<1> QED  BY <1>3 DEF FoldedExact, Folded, Files

LEMMA NextFold == LogInv /\ FoldInv /\ [Next]_vars => FoldInv'
<1> SUFFICES ASSUME LogInv, FoldInv, [Next]_vars, Folded' PROVE FoldInv'  BY DEF FoldInv
<1>0. format' = format
  BY DEF Next, Sampler, Attach, BuildSink, Install, CheckStop, CheckOver, Sleep, Capture,
         WriteSample, CheckStatus, Finish, Signal, Handler, Lock, CallBack, ProcessChanges,
         DurationEnds, vars
<1>1. Folded  BY <1>0 DEF Folded
<1>2. /\ counts \in [Keys -> Nat] /\ FoldedExact
      /\ pc \notin {"done", "failed"} => text = Empty /\ \A k \in Keys : counts[k] = Times(k)
  BY <1>1 DEF FoldInv
<1>3. CASE /\ UNCHANGED <<log, text, flushed, counts>>
           /\ pc' = pc \/ (pc \notin {"done", "failed"} /\ pc' # "done")
  <2>1. FoldedExact'
    <3>1. CASE pc' = pc  BY <1>0, <1>2, <1>3, <3>1, SameFolded
    <3>2. CASE pc' # "done"  BY <3>2 DEF FoldedExact
    <3> QED  BY <1>3, <3>1, <3>2
  <2>2. \A k : Times(k)' = Times(k)  BY <1>3, SameTimes
  <2> QED  BY <1>2, <1>3, <2>1, <2>2 DEF FoldInv
<1>4. CASE WriteSample
  <2>1. PICK e \in Entries : /\ log' = Append(log, e) /\ text' = text
                             /\ counts' = Count(counts, e.frames)
    BY <1>1, <1>4, WritesAnEntry
  <2>2. log \in Seq(Entries)  BY DEF LogInv
  <2>3. pc = "request" /\ pc' \in {"stop?", "status"}  BY <1>4 DEF WriteSample, At
  <2>4. e.frames \in Samples  BY DEF Entries
  <2>5. Key(e.frames) \in Keys /\ e.frames # <<>>
    BY <2>4, StacksAssumption DEF Samples, Keys, NotWritten
  <2>6. counts' = [counts EXCEPT ![Key(e.frames)] = @ + 1]  BY <2>1, <2>5 DEF Count
  <2>7. counts' \in [Keys -> Nat]  BY <1>2, <2>5, <2>6
  <2>8. \A k \in Keys : counts'[k] = Times(k)'
    <3>1. \A k : Times(k)' = IF Key(e.frames) = k THEN Times(k) + 1 ELSE Times(k)
      BY <2>1, <2>2, CountsOne
    <3> QED  BY <1>2, <2>3, <2>5, <2>6, <3>1
  <2>9. FoldedExact'  BY <2>3 DEF FoldedExact
  <2> QED  BY <1>2, <2>1, <2>3, <2>7, <2>8, <2>9 DEF FoldInv
<1>5. CASE Finish
  <2>1. /\ pc = "finish" /\ UNCHANGED <<format, log>> /\ counts' = NoCounts
        /\ pc' = "done" => text' = Written(text, FoldedLines(counts)) /\ flushed' = TRUE
        /\ pc' \in {"done", "failed"}
    BY <1>1, <1>5 DEF Finish, At
  <2>2. FoldedExact'
    <3>1. CASE pc' = "done"
      <4>1. pc \notin {"done", "failed"} /\ UNCHANGED <<format, log>>
            /\ text' = Written(text, FoldedLines(counts)) /\ flushed' = TRUE
        BY <2>1, <3>1
      <4> QED  BY <1>1, <4>1, FinishIsExact
    <3>2. CASE pc' # "done"  BY <3>2 DEF FoldedExact
    <3> QED  BY <3>1, <3>2
  <2>3. counts' \in [Keys -> Nat]  BY <2>1 DEF NoCounts, Keys
  <2> QED  BY <2>1, <2>2, <2>3 DEF FoldInv
<1>6. CASE Attach \/ BuildSink \/ Install \/ CheckStop \/ CheckOver \/ Sleep \/ CheckStatus
           \/ Capture
  <2>1. UNCHANGED <<log, text, flushed, counts>> /\ pc \notin {"done", "failed"} /\ pc' # "done"
    BY <1>6 DEF Attach, BuildSink, Install, CheckStop, CheckOver, Sleep, CheckStatus, Capture, At
  <2> QED  BY <1>3, <2>1
<1>7. CASE Signal
  <2>1. UNCHANGED <<log, text, flushed, counts>> /\ pc \notin {"done", "failed"} /\ pc' # "done"
    BY <1>7 DEF Signal, Ended
  <2> QED  BY <1>3, <2>1
<1>8. CASE Handler \/ ProcessChanges \/ DurationEnds
  <2>1. UNCHANGED <<log, text, flushed, counts, pc>>
    BY <1>8 DEF Handler, Lock, CallBack, ProcessChanges, DurationEnds
  <2> QED  BY <1>3, <2>1
<1>9. CASE UNCHANGED vars  BY <1>3, <1>9 DEF vars
<1> QED  BY <1>4, <1>5, <1>6, <1>7, <1>8, <1>9 DEF Next, Sampler

LEMMA InitLog == Init => LogInv
<1> SUFFICES ASSUME Init PROVE LogInv  OBVIOUS
<1>1. pc = "attach" /\ log = <<>>  BY Zenon DEF Init
<1> QED  BY <1>1 DEF LogInv

\* A folded run that ends well has written every stack it captured under its key,
\* each key on one line with its count, sorted, and nothing else.
THEOREM FoldedIsExact == Spec => []FoldedExact
<1>1. Init => FoldInv
  <2> SUFFICES ASSUME Init PROVE FoldInv  OBVIOUS
  <2>1. pc = "attach" /\ log = <<>> /\ text = Empty /\ counts = NoCounts  BY Zenon DEF Init
  <2>2. \A k \in Keys : Times(k) = 0
    <3>1. \A k : {i \in DOMAIN log : Key(log[i].frames) = k} = {}  BY <2>1
    <3> QED  BY <3>1, FS_EmptySet DEF Times
  <2>3. counts \in [Keys -> Nat] /\ \A k \in Keys : counts[k] = 0  BY <2>1 DEF NoCounts, Keys
  <2>4. FoldedExact  BY <2>1 DEF FoldedExact
  <2> QED  BY <2>1, <2>2, <2>3, <2>4 DEF FoldInv
<1>2. FoldInv => FoldedExact  BY DEF FoldInv, FoldedExact
<1> QED  BY InitLog, NextLog, NextFold, <1>1, <1>2, PTL DEF Spec

(***************************************************************************)
(* The stacks output                                                       *)
(***************************************************************************)

Pieces == UNION {ToSet(Lines(s, m)) : s \in Samples, m \in Requests}
Text == [lines : Seq(Seq(Pieces)), open : Seq(Pieces)]

LEMMA JoinFacts ==
  ASSUME NEW S, NEW s \in Seq(S), NEW t \in Seq(S)
  PROVE  /\ s \o t \in Seq(S) /\ Len(s) \in Nat /\ Len(t) \in Nat
         /\ Len(s \o t) = Len(s) + Len(t) /\ DOMAIN (s \o t) = 1..(Len(s) + Len(t))
         /\ \A i \in 1..Len(s) : (s \o t)[i] = s[i]
         /\ \A i \in 1..Len(t) : (s \o t)[Len(s) + i] = t[i]
OBVIOUS

LEMMA CutFacts ==
  ASSUME NEW S, NEW s \in Seq(S), NEW a \in 1..(Len(s) + 1), NEW b \in 0..Len(s), a <= b + 1
  PROVE  /\ SubSeq(s, a, b) \in Seq(S) /\ Len(SubSeq(s, a, b)) = b + 1 - a
         /\ DOMAIN SubSeq(s, a, b) = 1..(b + 1 - a)
         /\ \A i \in 1..(b + 1 - a) : SubSeq(s, a, b)[i] = s[a + i - 1]
OBVIOUS

\* A sample is at least a frame, and an empty line that no other line of it is.
LEMMA LinesFacts ==
  ASSUME NEW s \in Samples, NEW m \in Requests
  PROVE  LET l == Lines(s, m) IN
           /\ l \in Seq(Pieces) /\ Len(l) \in Nat /\ Len(l) >= 2 /\ DOMAIN l = 1..Len(l)
           /\ l[Len(l)] = Blank
           /\ \A i \in 1..(Len(l) - 1) : l[i] # Blank
<1> DEFINE N == {Header("request_uri", m.uri), Header("request_method", m.method)}
                  \cup {FrameLine(i - 1, s[i]) : i \in DOMAIN s}
           a == IF m.uri = "none" THEN <<>> ELSE <<Header("request_uri", m.uri)>>
           b == IF m.method = "none" THEN <<>> ELSE <<Header("request_method", m.method)>>
           c == [i \in DOMAIN s |-> FrameLine(i - 1, s[i])]
           l == Lines(s, m)
           U == N \cup {Blank}
<1>1. DOMAIN s = 1..Len(s) /\ Len(s) \in Nat /\ Len(s) # 0
  <2> DEFINE R == ToSet(s)
  <2>1. s \in Seq(R) /\ s # <<>>  BY StacksAssumption DEF Samples, NotWritten
  <2> HIDE DEF R
  <2> QED  BY <2>1
<1>2. a \in Seq(N) /\ b \in Seq(N)  OBVIOUS
<1>3. c \in Seq(N) /\ Len(c) = Len(s)
  <2>1. \A i \in 1..Len(s) : c[i] \in N  BY <1>1
  <2>2. c = [i \in 1..Len(s) |-> c[i]]  BY <1>1
  <2> HIDE DEF c, N
  <2> QED  BY <1>1, <2>1, <2>2
<1>4. Blank \notin N
  <2>1. "blank" \in DOMAIN Blank  BY DEF Blank
  <2>2. \A p \in N : "blank" \notin DOMAIN p  BY DEF Header, FrameLine
  <2> QED  BY <2>1, <2>2
<1> HIDE DEF N
<1>5. l = ((a \o b) \o c) \o <<Blank>>  BY DEF Lines
<1> HIDE DEF a, b, c, l
<1>6. (a \o b) \o c \in Seq(N) /\ Len((a \o b) \o c) >= 1
  <2> DEFINE ab == a \o b
  <2>1. ab \in Seq(N)  BY <1>2, JoinFacts
  <2> HIDE DEF ab
  <2>2. ab \o c \in Seq(N) /\ Len(ab \o c) = Len(ab) + Len(c) /\ Len(ab) \in Nat
    BY <1>3, <2>1, JoinFacts
  <2>3. ab \o c \in Seq(N) /\ Len(ab \o c) >= 1  BY <1>1, <1>3, <2>2
  <2> QED  BY <2>3 DEF ab
<1> DEFINE w == (a \o b) \o c
<1>7. w \in Seq(N) /\ Len(w) >= 1 /\ l = w \o <<Blank>>  BY <1>5, <1>6
<1> HIDE DEF w
<1>8. w \in Seq(U) /\ <<Blank>> \in Seq(U) /\ Len(<<Blank>>) = 1 /\ <<Blank>>[1] = Blank
  BY <1>7
<1> HIDE DEF U
<1>9. /\ l \in Seq(U) /\ Len(w) \in Nat /\ Len(l) = Len(w) + 1 /\ DOMAIN l = 1..(Len(w) + 1)
      /\ \A i \in 1..Len(w) : l[i] = w[i]
      /\ l[Len(w) + 1] = Blank
  <2>1. /\ w \o <<Blank>> \in Seq(U) /\ Len(w) \in Nat
        /\ Len(w \o <<Blank>>) = Len(w) + Len(<<Blank>>)
        /\ DOMAIN (w \o <<Blank>>) = 1..(Len(w) + Len(<<Blank>>))
        /\ \A i \in 1..Len(w) : (w \o <<Blank>>)[i] = w[i]
        /\ \A i \in 1..Len(<<Blank>>) : (w \o <<Blank>>)[Len(w) + i] = <<Blank>>[i]
    BY <1>8, JoinFacts
  <2> QED  BY <1>7, <1>8, <2>1
<1>10. \A i \in 1..Len(w) : w[i] \in N  BY <1>7
<1>11. l \in Seq(Pieces)
  <2>1. ToSet(l) \subseteq Pieces  BY DEF Pieces, l
  <2>2. \A i \in DOMAIN l : l[i] \in Pieces  BY <2>1 DEF ToSet
  <2>3. l = [i \in 1..Len(l) |-> l[i]]  BY <1>9
  <2> QED  BY <1>9, <2>2, <2>3
<1> QED  BY <1>4, <1>7, <1>9, <1>10, <1>11 DEF l

LEMMA WrittenFacts ==
  ASSUME NEW t \in Text, NEW lines \in Seq(Pieces), lines # <<>>
  PROVE  LET u == Written(t, lines) IN
           /\ u \in Text /\ u.open = <<>>
           /\ Len(t.lines) \in Nat /\ Len(lines) \in Nat
           /\ Len(u.lines) = Len(t.lines) + Len(lines)
           /\ \A i \in 1..Len(t.lines) : u.lines[i] = t.lines[i]
           /\ \A i \in 1..Len(lines) :
                u.lines[Len(t.lines) + i] = LineOf(IF i = 1 THEN t.open ELSE <<>>, lines[i])
<1> DEFINE P == Pieces
           LS == Seq(P)
           new == [i \in DOMAIN lines |-> LineOf(IF i = 1 THEN t.open ELSE <<>>, lines[i])]
<1>1. t.lines \in Seq(LS) /\ t.open \in LS  BY DEF Text
<1>2. lines \in Seq(P)  OBVIOUS
<1> HIDE DEF P
<1>3. /\ DOMAIN lines = 1..Len(lines) /\ Len(lines) \in Nat
      /\ \A i \in 1..Len(lines) : lines[i] \in P
  BY <1>2
<1>4. <<>> \in LS /\ \A l \in LS, p \in P : Append(l, p) \in LS  OBVIOUS
<1>5. ASSUME NEW i \in 1..Len(lines) PROVE new[i] \in LS
  BY <1>1, <1>3, <1>4 DEF LineOf
<1>6. new \in Seq(LS) /\ Len(new) = Len(lines)
  <2>1. new = [i \in 1..Len(lines) |-> new[i]]  BY <1>3
  <2> HIDE DEF new, LS
  <2> QED  BY <1>3, <1>5, <2>1
<1>7. Written(t, lines) = [lines |-> t.lines \o new, open |-> <<>>]  BY DEF Written
<1>8. \A i \in 1..Len(lines) : new[i] = LineOf(IF i = 1 THEN t.open ELSE <<>>, lines[i])
  BY <1>3
<1> HIDE DEF new, LS
<1>9. /\ t.lines \o new \in Seq(LS) /\ Len(t.lines) \in Nat
      /\ Len(t.lines \o new) = Len(t.lines) + Len(lines)
      /\ \A i \in 1..Len(t.lines) : (t.lines \o new)[i] = t.lines[i]
      /\ \A i \in 1..Len(lines) : (t.lines \o new)[Len(t.lines) + i] = new[i]
  <2> DEFINE old == t.lines
  <2>1. old \in Seq(LS) /\ new \in Seq(LS)  BY <1>1, <1>6
  <2> HIDE DEF old
  <2>2. /\ old \o new \in Seq(LS) /\ Len(old) \in Nat
        /\ Len(old \o new) = Len(old) + Len(new)
        /\ \A i \in 1..Len(old) : (old \o new)[i] = old[i]
        /\ \A i \in 1..Len(new) : (old \o new)[Len(old) + i] = new[i]
    BY <2>1
  <2> QED  BY <1>6, <2>2 DEF old
<1>10. Written(t, lines) \in Text  BY <1>4, <1>7, <1>9 DEF Text, LS, P
<1> QED  BY <1>3, <1>7, <1>8, <1>9, <1>10

\* An empty line is not among what a failed write leaves.
LEMMA FailedFacts ==
  ASSUME NEW t \in Text, NEW s \in Samples, NEW m \in Requests,
         NEW u \in FailedWrites(t, Lines(s, m))
  PROVE  /\ u \in Text /\ Len(t.lines) \in Nat /\ Len(u.lines) \in Nat
         /\ Len(u.lines) >= Len(t.lines)
         /\ \A i \in 1..Len(t.lines) : u.lines[i] = t.lines[i]
         /\ \A i \in (Len(t.lines) + 1)..Len(u.lines) : u.lines[i] # <<>>
<1> DEFINE l == Lines(s, m)
           P == Pieces
<1>1. /\ l \in Seq(P) /\ Len(l) \in Nat /\ DOMAIN l = 1..Len(l)
      /\ \A i \in 1..(Len(l) - 1) : l[i] # Blank
  BY LinesFacts
<1> HIDE DEF l, P
<1>2. PICK n \in DOMAIN l :
        LET before == Written(t, SubSeq(l, 1, n - 1))
        IN  u = before \/ u = [before EXCEPT !.open = Append(@, l[n])]
  BY DEF FailedWrites, l
<1> DEFINE pre == SubSeq(l, 1, n - 1)
           before == Written(t, pre)
<1>3. /\ pre \in Seq(P) /\ Len(pre) \in Nat
      /\ \A i \in 1..Len(pre) : pre[i] # Blank
  <2>1. n \in 1..Len(l) /\ n - 1 \in 0..Len(l) /\ 1 \in 1..(Len(l) + 1)  BY <1>1
  <2> DEFINE k == n - 1
  <2> HIDE DEF k
  <2>2. k \in 0..Len(l) /\ 1 <= k + 1  BY <2>1 DEF k
  <2>3. /\ SubSeq(l, 1, k) \in Seq(P) /\ Len(SubSeq(l, 1, k)) = k + 1 - 1
        /\ \A i \in 1..(k + 1 - 1) : SubSeq(l, 1, k)[i] = l[1 + i - 1]
    BY <1>1, <2>1, <2>2, CutFacts
  <2>4. k <= Len(l) - 1  BY <2>1 DEF k
  <2>5. \A i \in 1..k : SubSeq(l, 1, k)[i] = l[i] /\ i \in 1..(Len(l) - 1)
    BY <1>1, <2>2, <2>3, <2>4
  <2> QED  BY <1>1, <2>2, <2>3, <2>5 DEF k
<1> HIDE DEF pre
<1>4. /\ before \in Text /\ Len(t.lines) \in Nat
      /\ Len(before.lines) = Len(t.lines) + Len(pre)
      /\ \A i \in 1..Len(t.lines) : before.lines[i] = t.lines[i]
      /\ \A i \in 1..Len(pre) : before.lines[Len(t.lines) + i] # <<>>
  <2>1. CASE pre = <<>>
    <3>1. before = t /\ Len(pre) = 0  BY <2>1 DEF Written
    <3>2. Len(t.lines) \in Nat  BY DEF Text
    <3> QED  BY <3>1, <3>2
  <2>2. CASE pre # <<>>
    <3>1. /\ before \in Text /\ Len(t.lines) \in Nat
          /\ Len(before.lines) = Len(t.lines) + Len(pre)
          /\ \A i \in 1..Len(t.lines) : before.lines[i] = t.lines[i]
          /\ \A i \in 1..Len(pre) :
               before.lines[Len(t.lines) + i] = LineOf(IF i = 1 THEN t.open ELSE <<>>, pre[i])
      BY <1>3, <2>2, WrittenFacts DEF P
    <3>2. \A o \in Seq(P), p \in P : Append(o, p) # <<>>  OBVIOUS
    <3>3. <<>> \in Seq(P) /\ t.open \in Seq(P) /\ \A i \in 1..Len(pre) : pre[i] \in P
      BY <1>3 DEF Text, P
    <3>4. \A i \in 1..Len(pre) : LineOf(IF i = 1 THEN t.open ELSE <<>>, pre[i]) # <<>>
      BY <1>3, <3>2, <3>3 DEF LineOf
    <3> QED  BY <3>1, <3>4
  <2> QED  BY <2>1, <2>2
<1>5. u.lines = before.lines /\ u \in Text
  <2>1. l[n] \in P  BY <1>1
  <2>2. before.open \in Seq(P) /\ Append(before.open, l[n]) \in Seq(P)
    BY <1>4, <2>1 DEF Text, P
  <2>3. u = before \/ u = [before EXCEPT !.open = Append(before.open, l[n])]
    BY <1>2 DEF pre
  <2> HIDE DEF before
  <2> QED  BY <1>4, <2>2, <2>3 DEF Text, P
<1> HIDE DEF before
<1>6. ASSUME NEW i \in (Len(t.lines) + 1)..Len(u.lines) PROVE u.lines[i] # <<>>
  <2>1. i - Len(t.lines) \in 1..Len(pre) /\ i = Len(t.lines) + (i - Len(t.lines))
    BY <1>3, <1>4, <1>5
  <2> QED  BY <1>4, <1>5, <2>1
<1> QED  BY <1>3, <1>4, <1>5, <1>6

LEMMA EndsFacts ==
  ASSUME NEW S, NEW s \in Seq(S)
  PROVE  /\ Ends(s) \subseteq 1..Len(s) /\ Ends(s) \subseteq Nat /\ IsFiniteSet(Ends(s))
         /\ Len(s) \in Nat /\ DOMAIN s = 1..Len(s)
         /\ Ends(s) = {i \in 1..Len(s) : s[i] = <<>>}
<1>1. DOMAIN s = 1..Len(s) /\ Len(s) \in Nat  OBVIOUS
<1>2. IsFiniteSet(1..Len(s))  BY <1>1, FS_Interval
<1> QED  BY <1>1, <1>2, Part DEF Ends

LEMMA GroupStart ==
  ASSUME NEW S, NEW s \in Seq(S), NEW e \in Nat
  PROVE  LET B == {0} \cup {i \in Ends(s) : i < e} IN
           Max(B) \in B /\ \A i \in B : i <= Max(B)
<1> DEFINE B == {0} \cup {i \in Ends(s) : i < e}
<1>1. B \subseteq {0} \cup Ends(s) /\ B \subseteq Nat /\ B # {}  BY EndsFacts
<1>2. IsFiniteSet({0} \cup Ends(s))  BY EndsFacts, FS_AddElement, FS_Union, FS_Singleton
<1>3. IsFiniteSet(B)  BY <1>1, <1>2, Part
<1> HIDE DEF B
<1>4. Max(B) \in B /\ \A i \in B : i <= Max(B)  BY <1>1, <1>3, Greatest
<1> QED  BY <1>4 DEF B

\* What is appended does not change the groups that were there.
LEMMA GroupKept ==
  ASSUME NEW S, NEW s \in Seq(S), NEW u \in Seq(S), Len(s) <= Len(u),
         \A i \in 1..Len(s) : u[i] = s[i], NEW e \in Ends(s)
  PROVE  Group(u, e) = Group(s, e)
<1>1. /\ e \in 1..Len(s) /\ Len(s) \in Nat /\ Len(u) \in Nat
      /\ Ends(s) = {i \in 1..Len(s) : s[i] = <<>>}
      /\ Ends(u) = {i \in 1..Len(u) : u[i] = <<>>}
  BY EndsFacts
<1>2. {i \in Ends(u) : i < e} = {i \in Ends(s) : i < e}  BY <1>1
<1> DEFINE b == Max({0} \cup {i \in Ends(s) : i < e})
<1>3. b \in 0..(e - 1)
  <2>1. b \in {0} \cup {i \in Ends(s) : i < e}  BY <1>1, GroupStart
  <2> HIDE DEF b
  <2> QED  BY <1>1, <2>1
<1>4. Group(u, e) = SubSeq(u, b + 1, e - 1) /\ Group(s, e) = SubSeq(s, b + 1, e - 1)
  BY <1>2 DEF Group
<1> HIDE DEF b
<1>5. \A i \in (b + 1)..(e - 1) : u[i] = s[i]  BY <1>1, <1>3
<1>6. SubSeq(u, b + 1, e - 1) = SubSeq(s, b + 1, e - 1)
  <2> DEFINE n == e - 1
             a == b + 1
  <2>1. a \in 1..(Len(s) + 1) /\ n \in 0..Len(s) /\ a <= n + 1
        /\ a \in 1..(Len(u) + 1) /\ n \in 0..Len(u)
    BY <1>1, <1>3
  <2>2. \A i \in a..n : u[i] = s[i]  BY <1>5
  <2> HIDE DEF n, a
  <2>3. /\ SubSeq(u, a, n) \in Seq(S) /\ Len(SubSeq(u, a, n)) = n + 1 - a
        /\ \A i \in 1..(n + 1 - a) : SubSeq(u, a, n)[i] = u[a + i - 1]
    BY <2>1, CutFacts
  <2>4. /\ SubSeq(s, a, n) \in Seq(S) /\ Len(SubSeq(s, a, n)) = n + 1 - a
        /\ \A i \in 1..(n + 1 - a) : SubSeq(s, a, n)[i] = s[a + i - 1]
    BY <2>1, CutFacts
  <2>5. \A i \in 1..(n + 1 - a) : a + i - 1 \in a..n  BY <2>1
  <2>6. \A i \in 1..(n + 1 - a) : SubSeq(u, a, n)[i] = SubSeq(s, a, n)[i]
    BY <2>2, <2>3, <2>4, <2>5
  <2>7. SubSeq(u, a, n) = SubSeq(s, a, n)
    <3> DEFINE v == SubSeq(u, a, n)
               w == SubSeq(s, a, n)
    <3>1. v \in Seq(S) /\ w \in Seq(S) /\ Len(v) = Len(w) /\ \A i \in 1..Len(v) : v[i] = w[i]
      BY <2>3, <2>4, <2>6
    <3> HIDE DEF v, w
    <3>2. v = w  BY <3>1
    <3> QED  BY <3>2 DEF v, w
  <2> QED  BY <2>7 DEF n, a
<1> QED  BY <1>4, <1>6

\* DamageIsLocal, of a text and a history of any run.
TakenOf(lg) == {k \in DOMAIN lg : lg[k].ok}

Whole(lines, lg, k, e) ==
  LET group == Group(lines, e)
      mine  == Front(lg[k].lines)
      above == Len(group) - Len(mine)
      whole(i) == group[above + i] = <<mine[i]>>
  IN  /\ above >= 0
      /\ \A i \in 2..Len(mine) : whole(i)
      /\ IF k = 1 \/ k - 1 \in TakenOf(lg) THEN above = 0 /\ whole(1)
         ELSE group[above + 1] # <<>> /\ Last(group[above + 1]) = mine[1]

Local(lines, lg) ==
  /\ Cardinality(Ends(lines)) = Cardinality(TakenOf(lg))
  /\ \A k \in TakenOf(lg), e \in Ends(lines) :
       UpTo(TakenOf(lg), k) = UpTo(Ends(lines), e) => Whole(lines, lg, k, e)

\* After a write that did not fail the writer stands at the start of a group.
Ready(t, lg) ==
  lg = <<>> \/ lg[Len(lg)].ok =>
    t.open = <<>> /\ (Len(t.lines) = 0 \/ t.lines[Len(t.lines)] = <<>>)

\* An element above all others is the last, and leaves the others their places.
LEMMA OneAbove ==
  ASSUME NEW S, S \subseteq Nat, IsFiniteSet(S), NEW n \in Nat, \A i \in S : i < n
  PROVE  /\ Cardinality(S) \in Nat /\ Cardinality(S \cup {n}) = Cardinality(S) + 1
         /\ UpTo(S \cup {n}, n) = Cardinality(S) + 1
         /\ \A i \in S : UpTo(S \cup {n}, i) = UpTo(S, i)
         /\ \A i \in S : UpTo(S, i) \in Nat /\ UpTo(S, i) <= Cardinality(S)
<1>1. n \notin S  BY SMT
<1>2. Cardinality(S) \in Nat /\ Cardinality(S \cup {n}) = Cardinality(S) + 1
  BY <1>1, FS_CardinalityType, FS_AddElement
<1>3. {i \in S \cup {n} : i <= n} = S \cup {n}
  <2>1. n <= n /\ \A i \in S : i <= n  OBVIOUS
  <2> QED  BY <2>1
<1>4. ASSUME NEW i \in S PROVE {j \in S \cup {n} : j <= i} = {j \in S : j <= i}
  <2>1. i \in Nat /\ i < n /\ ~(n <= i)  OBVIOUS
  <2> QED  BY <2>1
<1>5. \A i \in S : UpTo(S, i) \in 1..Cardinality(S)  BY Places
<1>6. \A i \in S : UpTo(S, i) \in Nat /\ UpTo(S, i) <= Cardinality(S)  BY <1>2, <1>5
<1> QED  BY <1>2, <1>3, <1>4, <1>6 DEF UpTo

LEMMA TakenFacts ==
  ASSUME NEW lg \in Seq(Entries)
  PROVE  /\ DOMAIN lg = 1..Len(lg) /\ Len(lg) \in Nat
         /\ TakenOf(lg) \subseteq 1..Len(lg) /\ TakenOf(lg) \subseteq Nat
         /\ IsFiniteSet(TakenOf(lg))
<1>1. DOMAIN lg = 1..Len(lg) /\ Len(lg) \in Nat  OBVIOUS
<1>2. IsFiniteSet(1..Len(lg))  BY <1>1, FS_Interval
<1> QED  BY <1>1, <1>2, Part DEF TakenOf

LEMMA TakenNext ==
  ASSUME NEW lg \in Seq(Entries), NEW x \in Entries
  PROVE  /\ TakenOf(Append(lg, x)) = IF x.ok THEN TakenOf(lg) \cup {Len(lg) + 1} ELSE TakenOf(lg)
         /\ \A k \in TakenOf(lg) : /\ Append(lg, x)[k] = lg[k]
                                   /\ k - 1 \in TakenOf(Append(lg, x)) <=> k - 1 \in TakenOf(lg)
<1> DEFINE l2 == Append(lg, x)
           n == Len(lg) + 1
<1>1. /\ DOMAIN l2 = DOMAIN lg \cup {n} /\ n \notin DOMAIN lg /\ l2[n] = x
      /\ \A i \in DOMAIN lg : l2[i] = lg[i]
  BY AppendFacts
<1>2. DOMAIN lg = 1..Len(lg) /\ Len(lg) \in Nat  OBVIOUS
<1> HIDE DEF l2
<1>3. TakenOf(l2) = IF x.ok THEN TakenOf(lg) \cup {n} ELSE TakenOf(lg)  BY <1>1 DEF TakenOf
<1>4. ASSUME NEW k \in TakenOf(lg)
      PROVE  l2[k] = lg[k] /\ (k - 1 \in TakenOf(l2) <=> k - 1 \in TakenOf(lg))
  <2>1. k \in 1..Len(lg) /\ k - 1 # n  BY <1>2 DEF TakenOf
  <2> QED  BY <1>1, <1>2, <1>3, <2>1
<1> QED  BY <1>3, <1>4 DEF l2

LEMMA WholeKept ==
  ASSUME NEW t \in Text, NEW u \in Text, Len(t.lines) <= Len(u.lines),
         \A i \in 1..Len(t.lines) : u.lines[i] = t.lines[i],
         NEW lg \in Seq(Entries), NEW x \in Entries,
         NEW k \in TakenOf(lg), NEW e \in Ends(t.lines), Whole(t.lines, lg, k, e)
  PROVE  Whole(u.lines, Append(lg, x), k, e)
<1> DEFINE lg2 == Append(lg, x)
           LS == Seq(Pieces)
<1>1. t.lines \in Seq(LS) /\ u.lines \in Seq(LS)  BY DEF Text
<1> HIDE DEF LS
<1>2. Group(u.lines, e) = Group(t.lines, e)  BY <1>1, GroupKept
<1>3. lg2[k] = lg[k] /\ (k - 1 \in TakenOf(lg2) <=> k - 1 \in TakenOf(lg))  BY TakenNext
<1> HIDE DEF lg2
<1>4. Whole(u.lines, lg2, k, e)  BY <1>2, <1>3 DEF Whole
<1> QED  BY <1>4 DEF lg2

LEMMA FrontFacts ==
  ASSUME NEW S, NEW s \in Seq(S), Len(s) >= 1
  PROVE  Len(Front(s)) = Len(s) - 1 /\ \A i \in 1..(Len(s) - 1) : Front(s)[i] = s[i]
<1>1. Len(s) \in Nat  OBVIOUS
<1> DEFINE n == Len(s) - 1
<1>2. n \in 0..Len(s) /\ 1 \in 1..(Len(s) + 1) /\ 1 <= n + 1  BY <1>1
<1> HIDE DEF n
<1>3. Len(SubSeq(s, 1, n)) = n + 1 - 1 /\ \A i \in 1..(n + 1 - 1) : SubSeq(s, 1, n)[i] = s[1 + i - 1]
  BY <1>2, CutFacts
<1>4. Len(SubSeq(s, 1, n)) = n /\ \A i \in 1..n : SubSeq(s, 1, n)[i] = s[i]  BY <1>2, <1>3
<1> QED  BY <1>4 DEF Front, n

\* The empty lines after a sample is written: those there were, and the last line.
LEMMA EndsNext ==
  ASSUME NEW t \in Text, NEW s \in Samples, NEW m \in Requests
  PROVE  LET u == Written(t, Lines(s, m))
             n == Len(t.lines) + Len(Lines(s, m))
         IN  /\ u \in Text /\ u.open = <<>> /\ Len(t.lines) \in Nat /\ Len(u.lines) = n
             /\ \A i \in 1..Len(t.lines) : u.lines[i] = t.lines[i]
             /\ \A i \in 1..(Len(Lines(s, m)) - 1) :
                  u.lines[Len(t.lines) + i] =
                    Append(IF i = 1 THEN t.open ELSE <<>>, Lines(s, m)[i])
             /\ u.lines[n] = <<>>
             /\ \A i : i \in Ends(u.lines) <=> i \in Ends(t.lines) \/ i = n
<1> DEFINE l == Lines(s, m)
           u == Written(t, l)
           T == Len(t.lines)
           N == Len(l)
           P == Pieces
           first(i) == IF i = 1 THEN t.open ELSE <<>>
<1>1. /\ l \in Seq(P) /\ N \in Nat /\ N >= 2 /\ l[N] = Blank
      /\ \A i \in 1..(N - 1) : l[i] # Blank
      /\ \A i \in 1..N : l[i] \in P
  BY LinesFacts
<1>2. l # <<>>  BY <1>1
<1> HIDE DEF l
<1>3. /\ u \in Text /\ u.open = <<>> /\ T \in Nat /\ Len(u.lines) = T + N
      /\ \A i \in 1..T : u.lines[i] = t.lines[i]
      /\ \A i \in 1..N : u.lines[T + i] = LineOf(first(i), l[i])
  BY <1>1, <1>2, WrittenFacts
<1>4. t.open \in Seq(P) /\ <<>> \in Seq(P)  BY DEF Text
<1> DEFINE a == t.lines
           b == u.lines
<1>5. a \in Seq(Seq(P)) /\ b \in Seq(Seq(P))  BY <1>3 DEF Text
<1> HIDE DEF u, P
<1>6. \A i \in 1..(N - 1) : b[T + i] = Append(first(i), l[i]) /\ b[T + i] # <<>>
  <2>1. \A o \in Seq(P), p \in P : Append(o, p) # <<>>  OBVIOUS
  <2>2. \A i \in 1..(N - 1) : i \in 1..N /\ first(i) \in Seq(P) /\ l[i] \in P /\ l[i] # Blank
    BY <1>1, <1>4
  <2> HIDE DEF first
  <2> QED  BY <1>3, <2>1, <2>2 DEF LineOf
<1>7. b[T + N] = <<>>
  <2>1. N \in 1..N /\ first(N) = <<>>  BY <1>1
  <2> HIDE DEF first
  <2> QED  BY <1>1, <1>3, <2>1 DEF LineOf
<1>8. Ends(b) = Ends(a) \cup {T + N}
  <2>1. Ends(a) = {i \in 1..T : a[i] = <<>>} /\ Ends(b) = {i \in 1..(T + N) : b[i] = <<>>}
    BY <1>3, <1>5, EndsFacts
  <2>2. \A i \in 1..(T + N) : i \in 1..T \/ i = T + N \/ (i - T \in 1..(N - 1) /\ i = T + (i - T))
    BY <1>1, <1>3
  <2>3. 1..T \subseteq 1..(T + N) /\ T + N \in 1..(T + N)  BY <1>1, <1>3
  <2> HIDE DEF a, b, T, N
  <2>4. \A i \in 1..(T + N) : b[i] = <<>> <=> (i \in 1..T /\ a[i] = <<>>) \/ i = T + N
    <3> SUFFICES ASSUME NEW i \in 1..(T + N)
                 PROVE  b[i] = <<>> <=> (i \in 1..T /\ a[i] = <<>>) \/ i = T + N
      OBVIOUS
    <3>1. CASE i \in 1..T
      <4>1. b[i] = a[i] /\ i # T + N  BY <1>1, <1>3, <3>1 DEF a, b
      <4> QED  BY <3>1, <4>1
    <3>2. CASE i = T + N  BY <1>7, <3>2
    <3>3. CASE i - T \in 1..(N - 1) /\ i = T + (i - T)
      <4>1. b[i] # <<>>  BY <1>6, <3>3
      <4>2. i # T + N /\ i \notin 1..T  BY <1>1, <1>3, <3>3
      <4> QED  BY <4>1, <4>2
    <3> QED  BY <2>2, <3>1, <3>2, <3>3
  <2> QED  BY <2>1, <2>3, <2>4
<1> HIDE DEF T, N, first
<1>9. /\ \A i \in 1..T : b[i] = a[i]
      /\ \A i \in 1..(N - 1) : b[T + i] = Append(first(i), l[i])
  BY <1>3, <1>6
<1>10. \A i : i \in Ends(b) <=> i \in Ends(a) \/ i = T + N  BY <1>8
<1> QED  BY <1>3, <1>7, <1>10, <1>9 DEF a, b, u, l, T, N, first

LEMMA NewEnds ==
  ASSUME NEW t \in Text, NEW s \in Samples, NEW m \in Requests
  PROVE  Ends(Written(t, Lines(s, m)).lines)
           = Ends(t.lines) \cup {Len(t.lines) + Len(Lines(s, m))}
<1>1. \A i : i \in Ends(Written(t, Lines(s, m)).lines)
             <=> i \in Ends(t.lines) \/ i = Len(t.lines) + Len(Lines(s, m))
  BY EndsNext
<1> QED  BY <1>1

\* The group of a sample that is written: its lines, after what failed writes left.
LEMMA NewGroup ==
  ASSUME NEW t \in Text, NEW s \in Samples, NEW m \in Requests,
         NEW lg \in Seq(Entries), NEW x \in Entries, x.ok, x.lines = Lines(s, m),
         Ready(t, lg)
  PROVE  Whole(Written(t, Lines(s, m)).lines, Append(lg, x), Len(lg) + 1,
               Len(t.lines) + Len(Lines(s, m)))
<1> DEFINE P == Pieces
           l == Lines(s, m)
           N == Len(l)
           T == Len(t.lines)
           n == T + N
           k == Len(lg) + 1
           lg2 == Append(lg, x)
           a == t.lines
           b == Written(t, l).lines
           first(i) == IF i = 1 THEN t.open ELSE <<>>
           start == Max({0} \cup {i \in Ends(b) : i < n})
           group == SubSeq(b, start + 1, n - 1)
           mine == Front(l)
           above == Len(group) - Len(mine)
<1>1. l \in Seq(P) /\ N \in Nat /\ N >= 2 /\ \A i \in 1..N : l[i] \in P
  BY LinesFacts
<1>2. /\ T \in Nat /\ Len(b) = n
      /\ \A i \in 1..(N - 1) : b[T + i] = Append(first(i), l[i])
      /\ Ends(b) = Ends(a) \cup {n}
      /\ b \in Seq(Seq(P)) /\ a \in Seq(Seq(P)) /\ t.open \in Seq(P)
  <2> DEFINE u == Written(t, l)
  <2>1. /\ u \in Text /\ T \in Nat /\ Len(u.lines) = n
        /\ \A i \in 1..(N - 1) : u.lines[T + i] = Append(first(i), l[i])
        /\ \A i : i \in Ends(u.lines) <=> i \in Ends(t.lines) \/ i = n
    <3>1. u \in Text  BY EndsNext
    <3>4. T \in Nat  BY EndsNext
    <3>5. Len(u.lines) = n  BY EndsNext
    <3>2. \A i \in 1..(N - 1) : u.lines[T + i] = Append(first(i), l[i])  BY EndsNext
    <3>3. \A i : i \in Ends(u.lines) <=> i \in Ends(t.lines) \/ i = n  BY EndsNext
    <3> QED  BY <3>1, <3>2, <3>3, <3>4, <3>5
  <2>2. \A v \in Text : v.lines \in Seq(Seq(P)) /\ v.open \in Seq(P)  BY DEF Text
  <2> HIDE DEF u, P, T, N, n, first
  <2>3. u.lines \in Seq(Seq(P)) /\ t.lines \in Seq(Seq(P)) /\ t.open \in Seq(P)
    BY <2>1, <2>2
  <2> QED  BY <2>1, <2>3 DEF u
<1>3. Len(mine) = N - 1 /\ \A i \in 1..(N - 1) : mine[i] = l[i]  BY <1>1, FrontFacts
<1>4. k \in Nat /\ lg2[k] = x /\ k >= 1 /\ Len(lg) \in Nat /\ (Len(lg) = 0 <=> lg = <<>>)
      /\ DOMAIN lg = 1..Len(lg) /\ \A i \in 1..Len(lg) : lg2[i] = lg[i]
  BY AppendFacts
<1>5. Group(b, n) = group  BY DEF Group
<1> HIDE DEF l, b, mine, lg2, P
<1>6. Ends(a) = {i \in 1..T : a[i] = <<>>}  BY <1>2, EndsFacts
<1>7. {i \in Ends(b) : i < n} = Ends(a)
  <2>1. \A i \in Ends(a) : i < n  BY <1>1, <1>2, <1>6
  <2>2. ~(n < n)  BY <1>1, <1>2
  <2> QED  BY <1>2, <2>1, <2>2
<1>8. /\ start \in {0} \cup Ends(a)
      /\ \A i \in {0} \cup Ends(a) : i <= start
  <2>1. n \in Nat  BY <1>1, <1>2
  <2> QED  BY <1>2, <1>7, <2>1, GroupStart
<1> HIDE DEF start, a, T, N
<1>9. start \in 0..T  BY <1>2, <1>6, <1>8
<1>10. /\ Len(group) = n - 1 - start
       /\ \A i \in 1..(n - 1 - start) : group[i] = b[start + i]
  <2> DEFINE p == start + 1
             q == n - 1
  <2>1. p \in 1..(Len(b) + 1) /\ q \in 0..Len(b) /\ p <= q + 1  BY <1>1, <1>2, <1>9
  <2> HIDE DEF p, q
  <2>2. /\ Len(SubSeq(b, p, q)) = q + 1 - p
        /\ \A i \in 1..(q + 1 - p) : SubSeq(b, p, q)[i] = b[p + i - 1]
    BY <1>2, <2>1, CutFacts
  <2>3. q + 1 - p = n - 1 - start  BY <1>1, <1>2, <1>9 DEF p, q
  <2>4. \A i \in 1..(n - 1 - start) : p + i - 1 = start + i  BY <1>1, <1>2, <1>9 DEF p
  <2> QED  BY <2>2, <2>3, <2>4 DEF p, q
<1> HIDE DEF group
<1>11. above = T - start  BY <1>1, <1>2, <1>3, <1>9, <1>10
<1>12. ASSUME NEW i \in 1..(N - 1) PROVE group[above + i] = Append(first(i), l[i])
  <2>1. above + i \in 1..(n - 1 - start) /\ start + (above + i) = T + i
    <3> HIDE DEF above, first
    <3> QED  BY <1>1, <1>2, <1>9, <1>11
  <2> HIDE DEF above, first, n
  <2> QED  BY <1>2, <1>10, <2>1
<1>13. \A p \in P : Append(<<>>, p) = <<p>>  OBVIOUS
<1>14. ASSUME NEW i \in 2..(N - 1) PROVE group[above + i] = <<mine[i]>>
  <2>1. i \in 1..(N - 1) /\ i \in 1..N /\ i # 1  BY <1>1
  <2> HIDE DEF above
  <2> QED  BY <1>1, <1>3, <1>12, <1>13, <2>1
<1>15. 1 \in 1..(N - 1) /\ 1 \in 1..N  BY <1>1
<1>16. group[above + 1] = Append(t.open, mine[1]) /\ mine[1] \in P
  <2> HIDE DEF above
  <2> QED  BY <1>1, <1>3, <1>12, <1>15
<1>17. group[above + 1] # <<>> /\ Last(group[above + 1]) = mine[1]
  <2>1. \A o \in Seq(P), p \in P : Append(o, p) # <<>> /\ Last(Append(o, p)) = p
    BY DEF Last
  <2>2. t.open \in Seq(P)  BY <1>2
  <2> HIDE DEF above
  <2> DEFINE g == group[above + 1]
             o == t.open
             p == mine[1]
  <2>3. g = Append(o, p) /\ o \in Seq(P) /\ p \in P  BY <1>16, <2>2
  <2> HIDE DEF g, o, p
  <2>4. g # <<>> /\ Last(g) = p  BY Zenon, <2>1, <2>3
  <2> QED  BY <2>4 DEF g, p
<1>18. ASSUME k = 1 \/ k - 1 \in TakenOf(lg2)
       PROVE  above = 0 /\ group[above + 1] = <<mine[1]>>
  <2>1. lg = <<>> \/ lg[Len(lg)].ok
    <3>1. k = 1 => lg = <<>>  BY <1>4
    <3>2. k # 1 => Len(lg) \in 1..Len(lg) /\ k - 1 = Len(lg)  BY <1>4
    <3> HIDE DEF k
    <3> QED  BY <1>4, <1>18, <3>1, <3>2 DEF TakenOf
  <2>2. t.open = <<>> /\ (T = 0 \/ a[T] = <<>>)  BY <2>1 DEF Ready, T, a
  <2>3. T \in {0} \cup Ends(a)
    <3>1. T # 0 => T \in 1..T  BY <1>2
    <3> QED  BY <1>6, <2>2, <3>1
  <2>4. T <= start  BY <1>8, <2>3
  <2>5. above = 0  BY <1>2, <1>9, <1>11, <2>4
  <2> HIDE DEF above
  <2> QED  BY <1>13, <1>16, <2>2, <2>5
<1>19. above >= 0  BY <1>2, <1>9, <1>11
<1>20. lg2[k].lines = l  BY <1>4 DEF l
<1>21. Whole(b, lg2, k, n)
  <2> HIDE DEF k, n
  <2>1. \A i \in 2..Len(mine) : group[above + i] = <<mine[i]>>  BY <1>3, <1>14
  <2>2. Front(lg2[k].lines) = mine  BY <1>20 DEF mine
  <2>3. above = Len(group) - Len(mine)  OBVIOUS
  <2> HIDE DEF above
  <2> QED  BY <1>5, <1>17, <1>18, <1>19, <2>1, <2>2, <2>3 DEF Whole
<1> QED  BY <1>21 DEF b, lg2, k, n, T, N, l

\* A write adds the group of its sample, which takes the next place in both counts.
LEMMA TakenWrite ==
  ASSUME NEW t \in Text, NEW s \in Samples, NEW m \in Requests,
         NEW lg \in Seq(Entries), NEW x \in Entries, x.ok, x.lines = Lines(s, m),
         Local(t.lines, lg), Ready(t, lg)
  PROVE  LET u == Written(t, Lines(s, m))
         IN  u \in Text /\ Local(u.lines, Append(lg, x)) /\ Ready(u, Append(lg, x))
<1> DEFINE u == Written(t, Lines(s, m))
           lg2 == Append(lg, x)
           n == Len(t.lines) + Len(Lines(s, m))
           c == Len(lg) + 1
           E == Ends(t.lines)
           K == TakenOf(lg)
<1>1. /\ u \in Text /\ u.open = <<>> /\ Len(t.lines) \in Nat /\ Len(u.lines) = n
      /\ \A i \in 1..Len(t.lines) : u.lines[i] = t.lines[i]
      /\ u.lines[n] = <<>>
  BY EndsNext
<1>3. Ends(u.lines) = E \cup {n}  BY NewEnds
<1>4. n \in Nat /\ Len(t.lines) < n
  <2>1. Len(Lines(s, m)) \in Nat /\ Len(Lines(s, m)) >= 2  BY LinesFacts
  <2> QED  BY <1>1, <2>1
<1>5. E \subseteq Nat /\ IsFiniteSet(E) /\ \A i \in E : i < n
  <2>1. E \subseteq 1..Len(t.lines) /\ IsFiniteSet(E)
    <3>1. t.lines \in Seq(Seq(Pieces))  BY DEF Text
    <3> QED  BY <3>1, EndsFacts
  <2> HIDE DEF E, n
  <2> QED  BY <1>1, <1>4, <2>1
<1>6. c \in Nat /\ K \subseteq Nat /\ IsFiniteSet(K) /\ \A k \in K : k < c
  <2>1. K \subseteq 1..Len(lg) /\ IsFiniteSet(K) /\ Len(lg) \in Nat  BY TakenFacts
  <2> HIDE DEF K
  <2> QED  BY <2>1
<1>7. TakenOf(lg2) = K \cup {c}  BY TakenNext
<1>8. lg2[Len(lg2)] = x /\ Len(lg2) = c  BY AppendFacts
<1>9. Cardinality(E) = Cardinality(K)  BY DEF Local
<1>10. /\ Cardinality(E) \in Nat /\ Cardinality(E \cup {n}) = Cardinality(E) + 1
       /\ UpTo(E \cup {n}, n) = Cardinality(E) + 1
       /\ \A i \in E : UpTo(E \cup {n}, i) = UpTo(E, i)
       /\ \A i \in E : UpTo(E, i) \in Nat /\ UpTo(E, i) <= Cardinality(E)
  <2> HIDE DEF E, n
  <2> QED  BY <1>4, <1>5, OneAbove
<1>11. /\ Cardinality(K \cup {c}) = Cardinality(K) + 1
       /\ UpTo(K \cup {c}, c) = Cardinality(K) + 1
       /\ \A i \in K : UpTo(K \cup {c}, i) = UpTo(K, i)
       /\ \A i \in K : UpTo(K, i) \in Nat /\ UpTo(K, i) <= Cardinality(K)
  <2> HIDE DEF K, c
  <2> QED  BY <1>6, OneAbove
<1>12. Whole(u.lines, lg2, c, n)  BY NewGroup
<1>13. ASSUME NEW k \in K, NEW e \in E, UpTo(K, k) = UpTo(E, e) PROVE Whole(u.lines, lg2, k, e)
  <2>1. Whole(t.lines, lg, k, e)  BY <1>13 DEF Local
  <2>2. Len(t.lines) <= Len(u.lines)  BY <1>1, <1>4
  <2> HIDE DEF u
  <2> QED  BY <1>1, <2>1, <2>2, WholeKept
<1> HIDE DEF u, lg2, n, c, E, K
<1>14. ASSUME NEW k \in K \cup {c}, NEW e \in E \cup {n},
              UpTo(K \cup {c}, k) = UpTo(E \cup {n}, e)
       PROVE  Whole(u.lines, lg2, k, e)
  <2>1. CASE k \in K /\ e \in E  BY <1>10, <1>11, <1>13, <1>14, <2>1
  <2>2. CASE k = c /\ e = n  BY <1>12, <2>2
  <2>3. CASE k = c /\ e \in E
    <3>1. UpTo(E, e) = Cardinality(E) + 1 /\ UpTo(E, e) <= Cardinality(E)
      BY <1>9, <1>10, <1>11, <1>14, <2>3
    <3> QED  BY <1>10, <3>1
  <2>4. CASE k \in K /\ e = n
    <3>1. UpTo(K, k) = Cardinality(E) + 1 /\ UpTo(K, k) <= Cardinality(E)
      BY <1>9, <1>10, <1>11, <1>14, <2>4
    <3> QED  BY <1>10, <3>1
  <2> QED  BY <2>1, <2>2, <2>3, <2>4
<1>15. Local(u.lines, lg2)
  <2>1. Cardinality(E \cup {n}) = Cardinality(K \cup {c})  BY <1>9, <1>10, <1>11
  <2> QED  BY <1>3, <1>7, <1>14, <2>1 DEF Local
<1>16. Ready(u, lg2)  BY <1>1, <1>8 DEF Ready
<1> QED  BY <1>1, <1>15, <1>16 DEF u, lg2

\* A write that fails ends no group, whatever it leaves.
LEMMA FailedWrite ==
  ASSUME NEW t \in Text, NEW s \in Samples, NEW m \in Requests,
         NEW u \in FailedWrites(t, Lines(s, m)),
         NEW lg \in Seq(Entries), NEW x \in Entries, ~x.ok,
         Local(t.lines, lg)
  PROVE  u \in Text /\ Local(u.lines, Append(lg, x)) /\ Ready(u, Append(lg, x))
<1> DEFINE lg2 == Append(lg, x)
           a == t.lines
           b == u.lines
           K == TakenOf(lg)
<1>1. /\ u \in Text /\ Len(a) \in Nat /\ Len(b) \in Nat /\ Len(b) >= Len(a)
      /\ \A i \in 1..Len(a) : b[i] = a[i]
      /\ \A i \in (Len(a) + 1)..Len(b) : b[i] # <<>>
  BY FailedFacts
<1>2. Ends(b) = Ends(a)
  <2>1. Ends(a) = {i \in 1..Len(a) : a[i] = <<>>} /\ Ends(b) = {i \in 1..Len(b) : b[i] = <<>>}
    <3>1. a \in Seq(Seq(Pieces)) /\ b \in Seq(Seq(Pieces))  BY <1>1 DEF Text
    <3> QED  BY <3>1, EndsFacts
  <2> HIDE DEF a, b
  <2>2. \A i \in 1..Len(b) : i \in 1..Len(a) \/ i \in (Len(a) + 1)..Len(b)  BY <1>1
  <2>3. 1..Len(a) \subseteq 1..Len(b)  BY <1>1
  <2> QED  BY <1>1, <2>1, <2>2, <2>3
<1>3. TakenOf(lg2) = K  BY TakenNext
<1>4. ASSUME NEW k \in K, NEW e \in Ends(a), UpTo(K, k) = UpTo(Ends(a), e)
      PROVE  Whole(b, lg2, k, e)
  <2>1. Whole(a, lg, k, e)  BY <1>4 DEF Local
  <2> QED  BY <1>1, <2>1, WholeKept
<1>5. lg2[Len(lg2)] = x /\ lg2 # <<>>
  <2>1. lg2[Len(lg2)] = x /\ Len(lg2) = Len(lg) + 1 /\ Len(lg) \in Nat  BY AppendFacts
  <2> QED  BY <2>1
<1> HIDE DEF lg2
<1>6. Local(b, lg2)
  <2>1. Cardinality(Ends(a)) = Cardinality(K)  BY DEF Local
  <2> HIDE DEF K, a, b
  <2> QED  BY <1>2, <1>3, <1>4, <2>1 DEF Local
<1>7. Ready(u, lg2)  BY <1>5 DEF Ready
<1> QED  BY <1>1, <1>6, <1>7 DEF lg2

\* The front of a text has the first of the groups, as they are in the text.
LEMMA FrontIsLocal ==
  ASSUME NEW t \in Text, NEW lg \in Seq(Entries), Local(t.lines, lg), NEW n \in 0..Len(t.lines)
  PROVE  LET f == SubSeq(t.lines, 1, n)
         IN  /\ Cardinality(Ends(f)) <= Cardinality(TakenOf(lg))
             /\ n = Len(t.lines) => Cardinality(Ends(f)) = Cardinality(TakenOf(lg))
             /\ \A k \in TakenOf(lg), e \in Ends(f) :
                  UpTo(TakenOf(lg), k) = UpTo(Ends(f), e) => Whole(f, lg, k, e)
<1> DEFINE LS == Seq(Pieces)
           a == t.lines
           f == SubSeq(a, 1, n)
           K == TakenOf(lg)
<1>1. a \in Seq(LS)  BY DEF Text
<1>2. Cardinality(Ends(a)) = Cardinality(K)  BY DEF Local
<1>3. \A k \in K, e \in Ends(a) : UpTo(K, k) = UpTo(Ends(a), e) => Whole(a, lg, k, e)
  BY DEF Local
<1> HIDE DEF LS, a, K
<1>4. Len(a) \in Nat /\ n \in 0..Len(a)  BY <1>1 DEF a
<1>5. f \in Seq(LS) /\ Len(f) = n /\ \A i \in 1..n : f[i] = a[i]
  <2>1. 1 \in 1..(Len(a) + 1) /\ 1 <= n + 1  BY <1>4
  <2>2. f \in Seq(LS) /\ Len(f) = n + 1 - 1 /\ \A i \in 1..(n + 1 - 1) : f[i] = a[1 + i - 1]
    BY <1>1, <1>4, <2>1, CutFacts
  <2> HIDE DEF f
  <2> QED  BY <1>4, <2>2
<1> HIDE DEF f
<1>6. /\ Ends(a) = {i \in 1..Len(a) : a[i] = <<>>} /\ Ends(a) \subseteq Nat
      /\ IsFiniteSet(Ends(a))
  BY <1>1, EndsFacts
<1>7. Ends(f) = {i \in 1..n : f[i] = <<>>}  BY <1>5, EndsFacts
<1>8. /\ Ends(f) \subseteq Ends(a)
      /\ \A e \in Ends(f) : {i \in Ends(f) : i <= e} = {i \in Ends(a) : i <= e}
      /\ n = Len(a) => Ends(f) = Ends(a)
  <2>1. \A i : i \in Ends(f) <=> i \in Ends(a) /\ i <= n  BY <1>4, <1>5, <1>6, <1>7
  <2>2. ASSUME NEW e \in Ends(f), NEW i \in Ends(a), i <= e PROVE i <= n
    <3>1. e \in Nat /\ e <= n /\ i \in Nat  BY <1>6, <2>1
    <3> QED  BY <1>4, <2>2, <3>1
  <2>3. \A i \in Ends(a) : i <= Len(a)  BY <1>4, <1>6
  <2> QED  BY <2>1, <2>2, <2>3
<1>9. Cardinality(Ends(f)) <= Cardinality(Ends(a))  BY <1>6, <1>8, Part
<1>10. ASSUME NEW k \in K, NEW e \in Ends(f), UpTo(K, k) = UpTo(Ends(f), e)
       PROVE  Whole(f, lg, k, e)
  <2>1. UpTo(Ends(f), e) = UpTo(Ends(a), e)  BY <1>8 DEF UpTo
  <2>2. Whole(a, lg, k, e)  BY <1>3, <1>8, <1>10, <2>1
  <2>3. Group(a, e) = Group(f, e)  BY <1>1, <1>4, <1>5, GroupKept
  <2> QED  BY <2>2, <2>3 DEF Whole
<1>11. n = Len(a) => Cardinality(Ends(f)) = Cardinality(Ends(a))  BY <1>8
<1> QED  BY <1>2, <1>9, <1>10, <1>11 DEF a, f, K

DamageInv ==
  /\ ~Folded => text \in Text /\ Local(text.lines, log) /\ Ready(text, log)
  /\ pc = "done" => flushed

LEMMA DamageKept ==
  /\ DamageInv /\ UNCHANGED <<format, text, log>>
  /\ pc' = "done" => flushed'
  => DamageInv'
BY DEF DamageInv, Folded

LEMMA NextDamage == LogInv /\ DamageInv /\ [Next]_vars => DamageInv'
<1> SUFFICES ASSUME LogInv, DamageInv, [Next]_vars PROVE DamageInv'  OBVIOUS
<1>1. CASE WriteSample
  <2>1. format' = format /\ pc' # "done"  BY <1>1 DEF WriteSample
  <2> SUFFICES ASSUME ~Folded
               PROVE  text' \in Text /\ Local(text'.lines, log') /\ Ready(text', log')
    BY <2>1 DEF DamageInv, Folded
  <2>2. frames \in Samples /\ log \in Seq(Entries)  BY <1>1 DEF LogInv, WriteSample, At
  <2>3. text \in Text /\ Local(text.lines, log) /\ Ready(text, log)  BY DEF DamageInv
  <2>4. PICK m \in Requests, ok \in BOOLEAN :
          LET lines == Lines(frames, m)
              e     == [lines |-> lines, frames |-> frames, ok |-> ok]
          IN  /\ e \in Entries /\ log' = Append(log, e)
              /\ ~Folded /\ ok => text' = Written(text, lines)
              /\ ~Folded /\ ~ok => text' \in FailedWrites(text, lines)
    BY <1>1, WritesAnEntry
  <2> DEFINE x == [lines |-> Lines(frames, m), frames |-> frames, ok |-> ok]
  <2>5. x.ok = ok /\ x.lines = Lines(frames, m)  OBVIOUS
  <2>6. x \in Entries /\ log' = Append(log, x)  BY <2>4
  <2> HIDE DEF x
  <2>7. CASE ok
    <3>1. text' = Written(text, Lines(frames, m))  BY <2>4, <2>7
    <3>2. LET u == Written(text, Lines(frames, m))
          IN  u \in Text /\ Local(u.lines, Append(log, x)) /\ Ready(u, Append(log, x))
      BY <2>2, <2>3, <2>5, <2>6, <2>7, TakenWrite
    <3> QED  BY <2>6, <3>1, <3>2
  <2>8. CASE ~ok
    <3>1. text' \in FailedWrites(text, Lines(frames, m))  BY <2>4, <2>8
    <3> DEFINE u == text'
    <3>2. u \in FailedWrites(text, Lines(frames, m))  BY <3>1
    <3> HIDE DEF u
    <3>3. u \in Text /\ Local(u.lines, Append(log, x)) /\ Ready(u, Append(log, x))
      BY <2>2, <2>3, <2>5, <2>6, <2>8, <3>2, FailedWrite
    <3> QED  BY <2>6, <3>3 DEF u
  <2> QED  BY <2>4, <2>7, <2>8
<1>2. CASE Finish
  <2>1. UNCHANGED <<format, log>> /\ (pc' = "done" => flushed')  BY <1>2 DEF Finish
  <2>2. CASE Folded  BY <2>1, <2>2 DEF DamageInv, Folded
  <2>3. CASE ~Folded
    <3>1. Written(text, <<>>) = text  BY DEF Written
    <3>2. FailedWrites(text, <<>>) = {}  BY DEF FailedWrites
    <3>3. text' \in FailedWrites(text, <<>>) \cup {Written(text, <<>>)}  BY <1>2, <2>3 DEF Finish
    <3>4. text' = text  BY <3>1, <3>2, <3>3
    <3> QED  BY <2>1, <3>4, DamageKept
  <2> QED  BY <2>2, <2>3
<1>3. CASE Attach \/ BuildSink \/ Install \/ CheckStop \/ CheckOver \/ Sleep \/ CheckStatus
           \/ Capture
  <2>1. UNCHANGED <<format, text, log>> /\ pc' # "done"
    BY <1>3 DEF Attach, BuildSink, Install, CheckStop, CheckOver, Sleep, CheckStatus, Capture
  <2> QED  BY <2>1, DamageKept
<1>4. CASE Signal \/ Handler \/ ProcessChanges \/ DurationEnds
  <2>1. UNCHANGED <<format, text, log, flushed>> /\ (pc' = pc \/ pc' # "done")
    BY <1>4 DEF Signal, Handler, Lock, CallBack, ProcessChanges, DurationEnds
  <2> QED  BY <2>1, DamageKept DEF DamageInv
<1>5. CASE UNCHANGED vars
  <2>1. UNCHANGED <<format, text, log, flushed, pc>>  BY <1>5 DEF vars
  <2> QED  BY <2>1, DamageKept DEF DamageInv
<1> QED  BY <1>1, <1>2, <1>3, <1>4, <1>5 DEF Next, Sampler

\* Whatever writes fail, and wherever in a sample, and however much of the text has
\* left the buffer: the groups of lines in the file are the first of the stacks the sink
\* took, all of them after a run that ends well, and only a failure right before a
\* stack stands in its group.
THEOREM DamageStaysLocal == Spec => []DamageIsLocal
<1>1. Init => DamageInv
  <2> SUFFICES ASSUME Init PROVE DamageInv  OBVIOUS
  <2>1. text = Empty /\ log = <<>> /\ pc = "attach"  BY Zenon DEF Init
  <2>2. text \in Text /\ text.lines = <<>> /\ text.open = <<>>  BY <2>1 DEF Empty, Text
  <2>3. Ends(<<>>) = {} /\ TakenOf(<<>>) = {}  BY DEF Ends, TakenOf
  <2>4. Local(text.lines, log)  BY <2>1, <2>2, <2>3 DEF Local
  <2>5. Ready(text, log)  BY <2>2 DEF Ready
  <2> QED  BY <2>1, <2>2, <2>4, <2>5 DEF DamageInv
<1>2. LogInv /\ DamageInv => DamageIsLocal
  <2> SUFFICES ASSUME LogInv, DamageInv, ~Folded, NEW file \in Files(text, flushed)
               PROVE  /\ Cardinality(Ends(file)) <= Cardinality(TakenOf(log))
                      /\ pc = "done" => Cardinality(Ends(file)) = Cardinality(TakenOf(log))
                      /\ \A k \in TakenOf(log), e \in Ends(file) :
                           UpTo(TakenOf(log), k) = UpTo(Ends(file), e) => Whole(file, log, k, e)
    BY DEF DamageIsLocal, Whole, Taken, TakenOf
  <2>1. text \in Text /\ Local(text.lines, log) /\ log \in Seq(Entries)
    BY DEF DamageInv, LogInv
  <2>2. Len(text.lines) \in 0..Len(text.lines)
    <3>1. text.lines \in Seq(Seq(Pieces))  BY <2>1 DEF Text
    <3>2. Len(text.lines) \in Nat  BY <3>1
    <3> QED  BY <3>2
  <2>3. PICK n \in 0..Len(text.lines) : /\ file = SubSeq(text.lines, 1, n)
                                        /\ flushed => n = Len(text.lines)
    BY <2>2 DEF Files
  <2>4. pc = "done" => n = Len(text.lines)  BY <2>3 DEF DamageInv
  <2> QED  BY <2>1, <2>3, <2>4, FrontIsLocal
<1> QED  BY InitLog, NextLog, NextDamage, <1>1, <1>2, PTL DEF Spec
=============================================================================
