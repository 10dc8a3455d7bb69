--------------------------- MODULE TopView_proofs ---------------------------
(***************************************************************************)
(* What the live view does to the terminal and to its table, for any       *)
(* processes, options and stacks.                                          *)
(***************************************************************************)
EXTENDS TopView, FiniteSetTheorems, TLAPS

\* Raw mode lasts from its step to the one that restores the terminal; the only way
\* out in between is a failure at the next step.
RawInv ==
  /\ pc = "done" => ~raw
  /\ pc = "failed" => ~raw \/ failedAt = "alternate"
  /\ pc \in Setup \ {"alternate"} => ~raw

LEMMA NextRaw == RawInv /\ [Next]_vars => RawInv'
<1> SUFFICES ASSUME RawInv, [Next]_vars PROVE RawInv'  OBVIOUS
<1> USE DEF RawInv, Setup, Fails, GoesOn
<1>1. CASE DiscoverAll  BY <1>1 DEF DiscoverAll
<1>2. ASSUME NEW p \in Pids, Spawn(p) PROVE RawInv'  BY <1>2 DEF Spawn
<1>3. CASE Spawned  BY <1>3 DEF Spawned
<1>4. CASE EnableRawMode  BY <1>4 DEF EnableRawMode
<1>5. CASE OpenScreen  BY <1>5 DEF OpenScreen
<1>6. CASE LookAtStop  BY <1>6 DEF LookAtStop
<1>7. CASE Drain  BY <1>7 DEF Drain
<1>8. CASE Draw  BY <1>8 DEF Draw
<1>9. CASE NoKey  BY <1>9 DEF NoKey
<1>10. CASE Restore  BY <1>10 DEF Restore
<1>11. CASE Key  BY <1>11 DEF Key
<1>12. CASE Stop  BY <1>12 DEF Stop
<1>13. ASSUME NEW p \in Pids, Worker(p) PROVE RawInv'  BY <1>13 DEF Worker
<1>14. ASSUME NEW p \in Pids, ProcessExits(p) PROVE RawInv'  BY <1>14 DEF ProcessExits
<1>15. CASE UNCHANGED vars  BY <1>15 DEF vars
<1>16. QED
  BY <1>1, <1>2, <1>3, <1>4, <1>5, <1>6, <1>7, <1>8, <1>9, <1>10, <1>11, <1>12, <1>13,
     <1>14, <1>15
  DEF Next, Main

\* Whatever fails, and whoever closes the view, the terminal is not left in raw
\* mode, but for a failure to open the screen.
THEOREM TerminalIsRestored == Spec => []TerminalRestored
<1>1. Init => RawInv  BY DEF Init, RawInv
<1>2. RawInv => TerminalRestored  BY DEF RawInv, TerminalRestored, Ended
<1>3. QED  BY NextRaw, <1>1, <1>2, PTL DEF Spec

(***************************************************************************)
(* The table                                                               *)
(***************************************************************************)

LEMMA HeadTail ==
  ASSUME NEW S, NEW s \in Seq(S), s # << >> PROVE Head(s) \in S /\ Tail(s) \in Seq(S)
OBVIOUS

LEMMA StackFacts ==
  ASSUME NEW stack \in Stacks
  PROVE  /\ DOMAIN stack = 1..Len(stack) /\ Len(stack) \in Nat \ {0}
         /\ Head(stack) \in ToSet(stack)
<1>1. stack \in Seq(ToSet(stack)) /\ stack # << >>  BY StacksAssumption
<1>2. stack \in Seq(ToSet(stack)) => /\ DOMAIN stack = 1..Len(stack) /\ Len(stack) \in Nat
                                     /\ Len(stack) = 0 => stack = << >>
  OBVIOUS
<1>3. Len(stack) \in Nat \ {0} /\ DOMAIN stack = 1..Len(stack)  BY <1>1, <1>2
<1>4. Head(stack) = stack[1] /\ 1 \in DOMAIN stack  BY <1>1, <1>3
<1>5. QED  BY <1>3, <1>4 DEF ToSet

\* One more place, counted or not.
LEMMA OneMorePlace ==
  ASSUME NEW m \in Nat, NEW A \in SUBSET (1..m), NEW B,
         B = A \cup {m + 1} \/ B = A
  PROVE  /\ Cardinality(A) \in Nat
         /\ B = A \cup {m + 1} => Cardinality(B) = Cardinality(A) + 1
<1>1. IsFiniteSet(1..m)  BY FS_Interval
<1>2. IsFiniteSet(A)  BY <1>1, FS_Subset
<1>3. Cardinality(A) \in Nat  BY <1>2, FS_CardinalityType
<1>4. m + 1 \notin A  OBVIOUS
<1>5. Cardinality(A \cup {m + 1}) = Cardinality(A) + 1  BY <1>2, <1>4, FS_AddElement
<1>6. QED  BY <1>3, <1>5

\* The stacks that are on their way, and the counts of those that have come.
ChanInv ==
  /\ DOMAIN worker = Pids /\ DOMAIN held = Pids
  /\ chan \in Seq(Stacks)
  /\ \A p \in Pids : worker[p] = "send" => held[p] \in Stacks

Innermost(s, name) == {i \in DOMAIN s : Head(s[i]) = name}
Within(s, name) == {i \in DOMAIN s : name \in ToSet(s[i])}

TallyInv ==
  /\ seen \in Seq(Stacks)
  /\ samples = Len(seen)
  /\ rows = [n \in UNION {ToSet(seen[i]) : i \in DOMAIN seen} |-> Times(n)]

LEMMA TimesFacts ==
  ASSUME seen \in Seq(Stacks), NEW name
  PROVE  /\ Times(name) = [exclusive |-> Cardinality(Innermost(seen, name)),
                           inclusive |-> Cardinality(Within(seen, name))]
         /\ Innermost(seen, name) \in SUBSET (1..Len(seen))
         /\ Within(seen, name) \in SUBSET (1..Len(seen))
         /\ Len(seen) \in Nat /\ DOMAIN seen = 1..Len(seen)
         /\ Times(name).exclusive \in Nat /\ Times(name).inclusive \in Nat
<1>1. Len(seen) \in Nat /\ DOMAIN seen = 1..Len(seen)  OBVIOUS
<1>2. /\ Innermost(seen, name) \in SUBSET (1..Len(seen))
      /\ Within(seen, name) \in SUBSET (1..Len(seen))
  BY <1>1 DEF Innermost, Within
<1>3. /\ Cardinality(Innermost(seen, name)) \in Nat
      /\ Cardinality(Within(seen, name)) \in Nat
  BY <1>1, <1>2, OneMorePlace
<1>4. Times(name) = [exclusive |-> Cardinality(Innermost(seen, name)),
                     inclusive |-> Cardinality(Within(seen, name))]
  BY DEF Times, Innermost, Within
<1>5. QED  BY <1>1, <1>2, <1>3, <1>4

\* A function that is in no stack received was not counted.
LEMMA NotSeen ==
  ASSUME seen \in Seq(Stacks), NEW name,
         name \notin UNION {ToSet(seen[i]) : i \in DOMAIN seen}
  PROVE  Times(name) = Zero
<1>1. \A i \in DOMAIN seen : seen[i] \in Stacks  OBVIOUS
<1>2. \A i \in DOMAIN seen : name \notin ToSet(seen[i])  OBVIOUS
<1>3. Within(seen, name) = {}  BY <1>2 DEF Within
<1>4. Innermost(seen, name) = {}  BY <1>1, <1>2, StackFacts DEF Innermost
<1>5. Cardinality({}) = 0  BY FS_EmptySet
<1>6. QED  BY <1>3, <1>4, <1>5, TimesFacts DEF Zero

\* One more stack counts once more where it should.
LEMMA OneMoreStack ==
  ASSUME seen \in Seq(Stacks), NEW stack \in Stacks, seen' = Append(seen, stack), NEW name
  PROVE  /\ Times(name)'.exclusive = Times(name).exclusive + IF name = Head(stack) THEN 1 ELSE 0
         /\ Times(name)'.inclusive = Times(name).inclusive + Inclusive(stack, name)
<1> DEFINE m == Len(seen)
           new == Append(seen, stack)
<1>1. m \in Nat /\ DOMAIN seen = 1..m  BY TimesFacts
<1>2. /\ new \in Seq(Stacks) /\ DOMAIN new = 1..(m + 1)
      /\ \A i \in 1..m : new[i] = seen[i]
      /\ new[m + 1] = stack
  OBVIOUS
<1> HIDE DEF m, new
<1>3. 1..(m + 1) = 1..m \cup {m + 1} /\ m + 1 \notin 1..m  BY <1>1
<1>4. Innermost(new, name) = IF name = Head(stack) THEN Innermost(seen, name) \cup {m + 1}
                                                   ELSE Innermost(seen, name)
  BY <1>1, <1>2, <1>3 DEF Innermost
<1>5. Within(new, name) = IF name \in ToSet(stack) THEN Within(seen, name) \cup {m + 1}
                                                   ELSE Within(seen, name)
  BY <1>1, <1>2, <1>3 DEF Within
<1>6. Innermost(seen, name) \in SUBSET (1..m) /\ Within(seen, name) \in SUBSET (1..m)
  BY TimesFacts DEF m
<1>7. /\ Cardinality(Innermost(seen, name)) \in Nat
      /\ Cardinality(Within(seen, name)) \in Nat
  BY <1>1, <1>6, OneMorePlace
<1>8. Cardinality(Innermost(new, name)) =
        Cardinality(Innermost(seen, name)) + IF name = Head(stack) THEN 1 ELSE 0
  <2>1. CASE name = Head(stack)  BY <1>1, <1>4, <1>6, <2>1, OneMorePlace
  <2>2. CASE name # Head(stack)  BY <1>4, <1>7, <2>2
  <2>3. QED  BY <2>1, <2>2
<1>9. Cardinality(Within(new, name)) =
        Cardinality(Within(seen, name)) + Inclusive(stack, name)
  <2>1. CASE name \in ToSet(stack)  BY <1>1, <1>5, <1>6, <2>1, OneMorePlace DEF Inclusive
  <2>2. CASE name \notin ToSet(stack)  BY <1>5, <1>7, <2>2 DEF Inclusive
  <2>3. QED  BY <2>1, <2>2
<1>10. seen' = new  BY DEF new
<1>11. Times(name)' = [exclusive |-> Cardinality(Innermost(new, name)),
                       inclusive |-> Cardinality(Within(new, name))]
  BY Zenon, <1>10 DEF Times, Innermost, Within
<1>12. Times(name) = [exclusive |-> Cardinality(Innermost(seen, name)),
                      inclusive |-> Cardinality(Within(seen, name))]
  BY TimesFacts
<1>13. QED  BY <1>8, <1>9, <1>11, <1>12

LEMMA RecordTally == ASSUME TallyInv, NEW stack \in Stacks, Record(stack) PROVE TallyInv'
<1> DEFINE old == [n \in DOMAIN rows \cup ToSet(stack) |->
                     IF n \in DOMAIN rows THEN rows[n] ELSE Zero]
           all == UNION {ToSet(seen[i]) : i \in DOMAIN seen}
<1>1. /\ rows' = [n \in DOMAIN old |->
                    [exclusive |-> old[n].exclusive + IF n = Head(stack) THEN 1 ELSE 0,
                     inclusive |-> old[n].inclusive + Inclusive(stack, n)]]
      /\ samples' = samples + 1
      /\ seen' = Append(seen, stack)
  BY Zenon DEF Record
<1>2. /\ seen \in Seq(Stacks) /\ samples = Len(seen)
      /\ rows = [n \in all |-> Times(n)]
  BY DEF TallyInv
<1>3. seen' \in Seq(Stacks) /\ samples' = Len(seen')  BY <1>1, <1>2
<1>4. UNION {ToSet(seen'[i]) : i \in DOMAIN seen'} = all \cup ToSet(stack)
  <2> DEFINE m == Len(seen)
  <2>1. m \in Nat /\ DOMAIN seen = 1..m  BY <1>2, TimesFacts
  <2>2. /\ DOMAIN seen' = 1..(m + 1)
        /\ \A i \in 1..m : seen'[i] = seen[i]
        /\ seen'[m + 1] = stack
    BY <1>1, <1>2
  <2> HIDE DEF m
  <2>3. 1..(m + 1) = 1..m \cup {m + 1}  BY <2>1
  <2>4. QED  BY <2>1, <2>2, <2>3
<1>5. ASSUME NEW n \in all \cup ToSet(stack) PROVE old[n] = Times(n)
  <2>1. CASE n \in all  BY <1>2, <2>1
  <2>2. CASE n \notin all
    <3>1. n \notin DOMAIN rows  BY <1>2, <2>2
    <3>5. Times(n) = Zero  BY <1>2, <2>2, NotSeen
    <3> HIDE DEF all
    <3>4. n \in ToSet(stack)  BY <2>2
    <3>2. old[n] = Zero  BY <3>1, <3>4
    <3>3. QED  BY <3>2, <3>5
  <2>3. QED  BY <2>1, <2>2
<1>6. DOMAIN old = all \cup ToSet(stack)  BY <1>2
<1> HIDE DEF old, all
<1>7. ASSUME NEW n \in all \cup ToSet(stack) PROVE rows'[n] = Times(n)'
  <2>1. rows'[n] = [exclusive |-> Times(n).exclusive + IF n = Head(stack) THEN 1 ELSE 0,
                    inclusive |-> Times(n).inclusive + Inclusive(stack, n)]
    BY Zenon, <1>1, <1>5, <1>6
  <2>2. Times(n)' = [exclusive |-> Times(n)'.exclusive, inclusive |-> Times(n)'.inclusive]
    BY DEF Times
  <2>3. /\ Times(n)'.exclusive = Times(n).exclusive + IF n = Head(stack) THEN 1 ELSE 0
        /\ Times(n)'.inclusive = Times(n).inclusive + Inclusive(stack, n)
    BY <1>1, <1>2, OneMoreStack
  <2>4. QED  BY Zenon, <2>1, <2>2, <2>3
<1>8. rows' = [n \in all \cup ToSet(stack) |-> rows'[n]]  BY <1>1, <1>6
<1>9. rows' = [n \in UNION {ToSet(seen'[i]) : i \in DOMAIN seen'} |-> Times(n)']
  BY <1>4, <1>7, <1>8
<1>10. QED  BY <1>3, <1>9 DEF TallyInv

LEMMA ResetTally == ASSUME Reset PROVE TallyInv'
<1>1. rows' = [n \in {} |-> 0] /\ samples' = 0 /\ seen' = << >>  BY DEF Reset
<1>2. UNION {ToSet(seen'[i]) : i \in DOMAIN seen'} = {}  BY <1>1
<1>3. QED  BY <1>1, <1>2 DEF TallyInv

LEMMA SameTally == ASSUME TallyInv, UNCHANGED table PROVE TallyInv'
BY DEF TallyInv, table, Times

LEMMA NextChan == ChanInv /\ [Next]_vars => ChanInv'
<1> SUFFICES ASSUME ChanInv, [Next]_vars PROVE ChanInv'  OBVIOUS
<1> USE DEF ChanInv
<1>1. CASE UNCHANGED threads  BY <1>1 DEF threads
<1>2. CASE DiscoverAll  BY <1>1, <1>2 DEF DiscoverAll
<1>3. ASSUME NEW p \in Pids, Spawn(p) PROVE ChanInv'  BY <1>3 DEF Spawn
<1>4. CASE Spawned  BY <1>1, <1>4 DEF Spawned
<1>5. CASE EnableRawMode  BY <1>1, <1>5 DEF EnableRawMode
<1>6. CASE OpenScreen  BY <1>1, <1>6 DEF OpenScreen
<1>7. CASE LookAtStop  BY <1>1, <1>7 DEF LookAtStop
<1>8. CASE Drain
  <2>1. UNCHANGED <<worker, held>> /\ (chan' = chan \/ (chan # << >> /\ chan' = Tail(chan)))
    BY <1>8 DEF Drain
  <2>2. chan' \in Seq(Stacks)  BY <2>1, HeadTail
  <2>3. QED  BY <2>1, <2>2
<1>9. CASE Draw  BY <1>1, <1>9 DEF Draw
<1>10. CASE NoKey  BY <1>1, <1>10 DEF NoKey
<1>11. CASE Restore  BY <1>1, <1>11 DEF Restore
<1>12. CASE Key  BY <1>1, <1>12 DEF Key
<1>13. CASE Stop  BY <1>1, <1>13 DEF Stop
<1>14. ASSUME NEW p \in Pids, Worker(p) PROVE ChanInv'
  <2>1. CASE Attach(p)  BY <2>1 DEF Attach
  <2>2. CASE CheckStop(p)  BY <2>2 DEF CheckStop
  <2>3. CASE Capture(p)
    <3>1. CASE \E stack \in Stacks : /\ held' = [held EXCEPT ![p] = stack]
                                     /\ worker' = [worker EXCEPT ![p] = "send"]
      BY <2>3, <3>1 DEF Capture
    <3>2. CASE /\ UNCHANGED held
               /\ \E next \in {"ended", "stop?"} : worker' = [worker EXCEPT ![p] = next]
      BY <2>3, <3>2 DEF Capture
    <3>3. QED  BY <2>3, <3>1, <3>2 DEF Capture
  <2>4. CASE Send(p)
    <3>1. chan' = Append(chan, held[p]) /\ held[p] \in Stacks  BY <2>4 DEF Send
    <3>2. chan' \in Seq(Stacks)  BY <3>1
    <3>3. QED  BY <2>4, <3>2 DEF Send
  <2>5. QED  BY <1>14, <2>1, <2>2, <2>3, <2>4 DEF Worker
<1>15. ASSUME NEW p \in Pids, ProcessExits(p) PROVE ChanInv'  BY <1>1, <1>15 DEF ProcessExits
<1>16. CASE UNCHANGED vars  BY <1>1, <1>16 DEF vars, threads
<1>17. QED
  BY <1>2, <1>3, <1>4, <1>5, <1>6, <1>7, <1>8, <1>9, <1>10, <1>11, <1>12, <1>13, <1>14,
     <1>15, <1>16
  DEF Next, Main

LEMMA NextTally == ChanInv /\ TallyInv /\ [Next]_vars => TallyInv'
<1> SUFFICES ASSUME ChanInv, TallyInv, [Next]_vars PROVE TallyInv'  OBVIOUS
<1>1. CASE UNCHANGED table  BY <1>1, SameTally
<1>2. CASE DiscoverAll  BY <1>1, <1>2 DEF DiscoverAll
<1>3. ASSUME NEW p \in Pids, Spawn(p) PROVE TallyInv'  BY <1>1, <1>3 DEF Spawn
<1>4. CASE Spawned  BY <1>1, <1>4 DEF Spawned
<1>5. CASE EnableRawMode  BY <1>1, <1>5 DEF EnableRawMode
<1>6. CASE OpenScreen  BY <1>1, <1>6 DEF OpenScreen
<1>7. CASE LookAtStop  BY <1>1, <1>7 DEF LookAtStop
<1>8. CASE Drain
  <2>1. CASE chan # << >>
    <3>1. Record(Head(chan))  BY <1>8, <2>1 DEF Drain
    <3>2. Head(chan) \in Stacks  BY <2>1, HeadTail DEF ChanInv
    <3>3. QED  BY <3>1, <3>2, RecordTally
  <2>2. CASE chan = << >>  BY <1>1, <1>8, <2>2 DEF Drain
  <2>3. QED  BY <2>1, <2>2
<1>9. CASE Draw  BY <1>1, <1>9 DEF Draw
<1>10. CASE NoKey  BY <1>1, <1>10 DEF NoKey
<1>11. CASE Restore  BY <1>1, <1>11 DEF Restore
<1>12. CASE Key  BY <1>1, <1>12, ResetTally DEF Key
<1>13. CASE Stop  BY <1>1, <1>13 DEF Stop
<1>14. ASSUME NEW p \in Pids, Worker(p) PROVE TallyInv'  BY <1>1, <1>14 DEF Worker
<1>15. ASSUME NEW p \in Pids, ProcessExits(p) PROVE TallyInv'  BY <1>1, <1>15 DEF ProcessExits
<1>16. CASE UNCHANGED vars  BY <1>1, <1>16 DEF vars, table
<1>17. QED
  BY <1>2, <1>3, <1>4, <1>5, <1>6, <1>7, <1>8, <1>9, <1>10, <1>11, <1>12, <1>13, <1>14,
     <1>15, <1>16
  DEF Next, Main

\* A row that is drawn is among the busiest.
LEMMA DrawnAreBusiest ==
  ASSUME TallyInv, NEW column \in {"exclusive", "inclusive"}, NEW drawn \in TopRows(column),
         NEW shown \in ToSet(drawn), NEW n \in Names \ ToSet(drawn)
  PROVE  Times(n)[column] <= Times(shown)[column]
<1>1. PICK v \in Sorted(column) : drawn = Restrict(v, DOMAIN v \cap 1..MaxRows)
  BY DEF TopRows
<1>2. /\ v \in [1..Cardinality(DOMAIN rows) -> DOMAIN rows]
      /\ DOMAIN rows \subseteq ToSet(v)
      /\ \A i, j \in DOMAIN v : i < j => rows[v[i]][column] >= rows[v[j]][column]
  BY <1>1 DEF Sorted
<1>3. DOMAIN drawn = DOMAIN v \cap 1..MaxRows /\ \A i \in DOMAIN drawn : drawn[i] = v[i]
  BY <1>1 DEF Restrict
<1>4. PICK i \in DOMAIN v \cap 1..MaxRows : shown = v[i]  BY <1>3 DEF ToSet
<1>5. /\ \A r \in DOMAIN rows : rows[r] = Times(r)
      /\ DOMAIN rows = UNION {ToSet(seen[k]) : k \in DOMAIN seen}
      /\ seen \in Seq(Stacks)
  BY DEF TallyInv
<1>6. \A name : Times(name)[column] \in Nat  BY <1>5, TimesFacts
<1>7. CASE n \in DOMAIN rows
  <2>1. PICK j \in DOMAIN v : n = v[j]  BY <1>2, <1>7 DEF ToSet
  <2>2. j \notin 1..MaxRows  BY <1>3, <2>1 DEF ToSet
  <2>3. j \in Nat /\ j >= 1 /\ i \in Nat /\ i <= MaxRows  BY <1>2, <1>4, <2>1
  <2>4. i < j  BY <2>2, <2>3, MaxRowsAssumption
  <2>5. rows[shown][column] >= rows[n][column]  BY <1>2, <1>4, <2>1, <2>4
  <2>6. shown \in DOMAIN rows  BY <1>2, <1>4
  <2>7. Times(shown)[column] >= Times(n)[column]  BY <1>5, <1>7, <2>5, <2>6
  <2>8. QED  BY <1>6, <2>7
<1>8. CASE n \notin DOMAIN rows
  <2>1. Times(n) = Zero  BY <1>5, <1>8, NotSeen
  <2>2. Times(n)[column] = 0  BY <2>1 DEF Zero
  <2>3. QED  BY <1>6, <2>2
<1>9. QED  BY <1>7, <1>8

\* The table counts every stack that was received since the last reset, and none twice;
\* and however the hash map orders rows that are level, no busier function is left out of
\* what is drawn.
THEOREM TableIsExact == Spec => []TableExact
<1>1. Init => ChanInv /\ TallyInv
  <2> SUFFICES ASSUME Init PROVE ChanInv /\ TallyInv  OBVIOUS
  <2>1. /\ worker = [p \in Pids |-> "none"] /\ held = [p \in Pids |-> << >>] /\ chan = << >>
        /\ rows = [n \in {} |-> 0] /\ samples = 0 /\ seen = << >>
    BY Zenon DEF Init
  <2>2. ChanInv  BY <2>1 DEF ChanInv
  <2>3. UNION {ToSet(seen[i]) : i \in DOMAIN seen} = {}  BY <2>1
  <2>4. TallyInv  BY <2>1, <2>3 DEF TallyInv
  <2>5. QED  BY <2>2, <2>4
<1>2. TallyInv => TableExact
  BY DrawnAreBusiest DEF TableExact, TallyInv
<1>3. QED  BY NextChan, NextTally, <1>1, <1>2, PTL DEF Spec
=============================================================================
