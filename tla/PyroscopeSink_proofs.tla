------------------------ MODULE PyroscopeSink_proofs ------------------------
(***************************************************************************)
(* For any stacks, interval and timeout, and whatever the server answers:  *)
(* the times of the pushes and of the windows, what the ids of a profile   *)
(* stand for, and that no sample is lost or counted twice.                 *)
(***************************************************************************)
EXTENDS PyroscopeSink, TLAPS

USE TimesAssumption

(***************************************************************************)
(* The clock                                                               *)
(***************************************************************************)

Pcs == {"idle", "add", "check", "push", "post", "stamp", "done"}

\* No instant is in the future.
ClockInv ==
  /\ pc \in Pcs
  /\ finishing \in BOOLEAN
  /\ now \in Nat
  /\ last_push \in 0..now
  /\ opened \in 0..now
  /\ ended \in 0..now
  /\ skew \in Skews \cup {0}
  /\ set \in BOOLEAN
  /\ window_start \in Int

LEMMA IntervalType == PushInterval \in Nat \ {0}
BY DEF PushInterval

LEMMA InitFacts ==
  Init => /\ pc = "idle" /\ finishing \in BOOLEAN /\ windows = << >>
          /\ now = 0 /\ skew = 0 /\ window_start = 0
          /\ last_push = 0 /\ opened = 0 /\ ended = 0 /\ ~set /\ set \in BOOLEAN
BY Zenon DEF Init, BuilderInit

LEMMA InitClock == Init => ClockInv
BY InitFacts DEF ClockInv, Pcs

LEMMA TickTime == ASSUME ClockInv, Tick PROVE now' \in Nat /\ now <= now'
BY DEF ClockInv, Tick

LEMMA NextClock == ClockInv /\ [Next]_vars => ClockInv'
<1> SUFFICES ASSUME ClockInv, [Next]_vars PROVE ClockInv'  OBVIOUS
<1> USE DEF ClockInv, Pcs, builderVars, sinkVars, clockVars, bookVars
<1>1. ASSUME NEW stack \in Stacks, WriteSample(stack) PROVE ClockInv'
  BY <1>1 DEF WriteSample, BeginAdd
<1>2. CASE Finish  BY <1>2 DEF Finish
<1>3. CASE WriteFrame  BY <1>3 DEF WriteFrame, AddFrame
<1>4. CASE Written  BY <1>4 DEF Written, EndAdd
<1>5. CASE CheckDue  BY <1>5 DEF CheckDue
<1>6. CASE PushNothing  BY <1>6 DEF PushNothing, Return
<1>7. CASE TakeWindow
  <2>1. /\ pc' = "post" /\ window_start' = wall /\ opened' = now /\ set' \in BOOLEAN
        /\ UNCHANGED <<finishing, now, last_push, ended, skew>>
    BY <1>7 DEF TakeWindow, Reset, NextStart
  <2>2. wall \in Int  BY SkewsAssumption DEF wall
  <2>3. QED  BY <2>1, <2>2
<1>8. CASE PostTimesOut  BY <1>8 DEF PostTimesOut, PostRefused, PostEnds
<1>9. CASE Stamp  BY <1>9 DEF Stamp, Return
<1>10. CASE PostAccepted  BY <1>10 DEF PostAccepted, PostEnds
<1>11. CASE PostRefused  BY <1>11 DEF PostRefused, PostEnds
<1>12. CASE Tick  BY <1>12, TickTime DEF Tick
<1>13. CASE UNCHANGED vars  BY <1>13 DEF vars
<1>14. CASE \E s \in Skews : SetClock(s)  BY <1>14 DEF SetClock
<1>15. QED
  BY <1>1, <1>2, <1>3, <1>4, <1>5, <1>6, <1>7, <1>8, <1>9, <1>10, <1>11, <1>12, <1>13, <1>14
  DEF Next, Working

\* The instant of the last push, and those of the window's opening and of the last
\* POST's end, are never ahead of the monotone clock, however the wall clock is set:
\* the time elapsed since is a number of seconds.
THEOREM NoFutureInstant == Spec => []ClockInv
<1>1. QED  BY InitClock, NextClock, PTL DEF Spec

(***************************************************************************)
(* Pushes are spaced                                                       *)
(***************************************************************************)

\* The interval is counted from the end of the last POST, and a push that is not
\* the last one is due.
SpacedInv ==
  /\ pc # "stamp" => ended <= last_push
  /\ pc = "push" /\ ~finishing => now >= last_push + PushInterval
  /\ pc = "post" /\ ~finishing => opened >= last_push + PushInterval

LEMMA NextSpaced == ClockInv /\ SpacedInv /\ [Next]_vars => SpacedInv'
<1> SUFFICES ASSUME ClockInv, SpacedInv, [Next]_vars PROVE SpacedInv'  OBVIOUS
<1> USE IntervalType DEF ClockInv, SpacedInv, builderVars, sinkVars, clockVars, bookVars
<1>1. ASSUME NEW stack \in Stacks, WriteSample(stack) PROVE SpacedInv'
  BY <1>1 DEF WriteSample
<1>2. CASE Finish  BY <1>2 DEF Finish
<1>3. CASE WriteFrame  BY <1>3 DEF WriteFrame
<1>4. CASE Written  BY <1>4 DEF Written
<1>5. CASE CheckDue  BY <1>5 DEF CheckDue, Due
<1>6. CASE PushNothing  BY <1>6 DEF PushNothing, Return
<1>7. CASE TakeWindow  BY <1>7 DEF TakeWindow
<1>8. CASE PostTimesOut  BY <1>8 DEF PostTimesOut, PostRefused, PostEnds
<1>9. CASE Stamp  BY <1>9 DEF Stamp, Return
<1>10. CASE PostAccepted  BY <1>10 DEF PostAccepted, PostEnds
<1>11. CASE PostRefused  BY <1>11 DEF PostRefused, PostEnds
<1>12. CASE Tick  BY <1>12, TickTime DEF Tick
<1>13. CASE UNCHANGED vars  BY <1>13 DEF vars
<1>14. CASE \E s \in Skews : SetClock(s)  BY <1>14 DEF SetClock
<1>15. QED
  BY <1>1, <1>2, <1>3, <1>4, <1>5, <1>6, <1>7, <1>8, <1>9, <1>10, <1>11, <1>12, <1>13, <1>14
  DEF Next, Working

\* A push that was refused, or timed out, is not repeated at every sample: the next
\* one, but for the last of the run, begins an interval after its end, on the
\* monotone clock.
THEOREM PushesAreSpaced == Spec => []FailuresSpaced
<1>1. Init => SpacedInv  BY DEF Init, SpacedInv
<1>2. ClockInv /\ SpacedInv => FailuresSpaced
  BY IntervalType DEF ClockInv, SpacedInv, FailuresSpaced
<1>3. QED  BY InitClock, NextClock, NextSpaced, <1>1, <1>2, PTL DEF Spec

(***************************************************************************)
(* Windows tile the run                                                    *)
(***************************************************************************)

LEMMA AppendFacts ==
  ASSUME NEW S, NEW s \in Seq(S), NEW e \in S
  PROVE  /\ Append(s, e) \in Seq(S)
         /\ Len(s) \in Nat /\ Len(Append(s, e)) = Len(s) + 1
         /\ \A i \in 1..Len(s) : Append(s, e)[i] = s[i]
         /\ Append(s, e)[Len(s) + 1] = e
OBVIOUS

Window == [from : Int, until : Int, duration : Int, open : Int, set : BOOLEAN]

\* What a window of the run is like that follows one that ended at time end.
Follows(w, end) ==
  /\ w.from = end
  /\ ~w.set => w.until = w.from + w.open /\ w.duration = w.open
  /\ w.duration >= 0

\* The next window begins where the newest one ends, and as long as the wall clock is
\* not set the two clocks show the same time since.
TileInv ==
  /\ windows \in Seq(Window)
  /\ window_start = IF Len(windows) = 0 THEN 0 ELSE windows[Len(windows)].until
  /\ ~set => wall - window_start = now - opened
  /\ WindowsTile

LEMMA TakenFollows ==
  ASSUME ClockInv, TileInv, TakeWindow
  PROVE  \E w \in Window :
           /\ windows' = Append(windows, w)
           /\ window_start' = w.until
           /\ Follows(w, window_start)
<1> DEFINE w == [from |-> window_start, until |-> wall,
                 duration |-> Duration(window_start, wall),
                 open |-> now - opened, set |-> set]
<1>1. window_start \in Int /\ wall \in Int /\ now \in Nat /\ opened \in 0..now /\ set \in BOOLEAN
  BY SkewsAssumption DEF ClockInv, wall
<1>2. Duration(window_start, wall) \in Int /\ Duration(window_start, wall) >= 0
  BY <1>1 DEF Duration
<1>3. now - opened \in Int /\ now - opened >= 0  BY <1>1
<1>4. w \in Window  BY <1>1, <1>2, <1>3 DEF Window
<1>5. /\ body'.from = window_start /\ body'.until = wall
      /\ body'.duration = Duration(window_start, wall)
  BY DEF TakeWindow, Profile
<1>6. windows' = Append(windows, w) /\ window_start' = wall
  BY <1>5 DEF TakeWindow, Reset, NextStart
<1>7. ASSUME ~set
      PROVE  /\ wall = window_start + (now - opened)
             /\ Duration(window_start, wall) = now - opened
  <2>1. wall - window_start = now - opened  BY <1>7 DEF TileInv
  <2> DEFINE t == wall
             d == now - opened
  <2>2. t - window_start = d /\ d >= 0 /\ t \in Int /\ d \in Int  BY <1>1, <1>3, <2>1
  <2>3. Duration(window_start, t) = IF t < window_start THEN 0 ELSE t - window_start
    BY DEF Duration
  <2> HIDE DEF t, d
  <2>4. t = window_start + d /\ Duration(window_start, t) = d  BY <1>1, <2>2, <2>3
  <2>5. QED  BY <2>4 DEF t, d
<1>8. Follows(w, window_start)  BY <1>2, <1>7 DEF Follows
<1>9. w.until = wall  OBVIOUS
<1> HIDE DEF w
<1>10. QED  BY <1>4, <1>6, <1>8, <1>9

LEMMA TakeTile == ASSUME ClockInv, TileInv, TakeWindow PROVE TileInv'
<1> DEFINE n == Len(windows)
<1>1. PICK w \in Window : /\ windows' = Append(windows, w)
                          /\ window_start' = w.until
                          /\ Follows(w, window_start)
  BY TakenFollows
<1>2. /\ windows' \in Seq(Window)
      /\ n \in Nat /\ Len(windows') = n + 1
      /\ \A i \in 1..n : windows'[i] = windows[i]
      /\ windows'[n + 1] = w
  BY <1>1, AppendFacts DEF TileInv
<1>3. \A i \in 1..n : Follows(windows[i], IF i = 1 THEN 0 ELSE windows[i - 1].until)
  BY DEF TileInv, WindowsTile, Follows
<1>4. window_start = IF n = 0 THEN 0 ELSE windows[n].until  BY DEF TileInv
<1> HIDE DEF n
<1>5. ASSUME NEW i \in 1..(n + 1)
      PROVE  Follows(windows'[i], IF i = 1 THEN 0 ELSE windows'[i - 1].until)
  <2>1. CASE i = n + 1
    <3>1. CASE n = 0  BY <1>1, <1>2, <1>4, <2>1, <3>1
    <3>2. CASE n # 0
      <4>1. i # 1 /\ i - 1 = n /\ n \in 1..n  BY <1>2, <2>1, <3>2
      <4>2. windows'[i - 1] = windows[n]  BY <1>2, <4>1
      <4>3. windows'[i] = w /\ window_start = windows'[i - 1].until
        BY <1>2, <1>4, <2>1, <3>2, <4>2
      <4>4. QED  BY <1>1, <4>1, <4>3
    <3>3. QED  BY <3>1, <3>2
  <2>2. CASE i # n + 1
    <3>1. i \in 1..n  BY <1>2, <2>2
    <3>2. windows'[i] = windows[i]  BY <1>2, <3>1
    <3>3. i # 1 => i - 1 \in 1..n  BY <1>2, <3>1
    <3>4. i # 1 => windows'[i - 1] = windows[i - 1]  BY <1>2, <3>3
    <3>5. Follows(windows[i], IF i = 1 THEN 0 ELSE windows[i - 1].until)  BY <1>3, <3>1
    <3>6. QED  BY <3>2, <3>4, <3>5
  <2>3. QED  BY <2>1, <2>2
<1>6. WindowsTile'  BY <1>2, <1>5 DEF WindowsTile, Follows
<1>7. window_start' = IF Len(windows') = 0 THEN 0 ELSE windows'[Len(windows')].until
  BY <1>1, <1>2
<1>8. wall' - window_start' = now' - opened'
  <2>1. window_start' = wall  BY DEF TakeWindow, Reset, NextStart
  <2>2. now' = now /\ skew' = skew /\ opened' = now  BY DEF TakeWindow
  <2>3. now \in Int /\ skew \in Int  BY SkewsAssumption DEF ClockInv
  <2>4. QED  BY <2>1, <2>2, <2>3 DEF wall
<1>9. QED  BY <1>2, <1>6, <1>7, <1>8 DEF TileInv

LEMMA NextTile == ClockInv /\ TileInv /\ [Next]_vars => TileInv'
<1> SUFFICES ASSUME ClockInv, TileInv, [Next]_vars PROVE TileInv'  OBVIOUS
<1> USE DEF builderVars, sinkVars, clockVars, bookVars
<1>1. CASE UNCHANGED <<windows, window_start, now, skew, opened, set>>
  BY <1>1 DEF TileInv, WindowsTile, wall
<1>2. CASE TakeWindow  BY <1>2, TakeTile
<1>3. ASSUME NEW stack \in Stacks, WriteSample(stack) PROVE TileInv'
  BY <1>1, <1>3 DEF WriteSample, BeginAdd
<1>4. CASE Finish  BY <1>1, <1>4 DEF Finish
<1>5. CASE WriteFrame  BY <1>1, <1>5 DEF WriteFrame, AddFrame
<1>6. CASE Written  BY <1>1, <1>6 DEF Written, EndAdd
<1>7. CASE CheckDue  BY <1>1, <1>7 DEF CheckDue
<1>8. CASE PushNothing  BY <1>1, <1>8 DEF PushNothing
<1>9. CASE PostTimesOut  BY <1>1, <1>9 DEF PostTimesOut, PostRefused, PostEnds
<1>10. CASE Stamp  BY <1>1, <1>10 DEF Stamp
<1>11. CASE PostAccepted  BY <1>1, <1>11 DEF PostAccepted, PostEnds
<1>12. CASE PostRefused  BY <1>1, <1>12 DEF PostRefused, PostEnds
<1>13. CASE Tick
  <2>1. UNCHANGED <<windows, window_start, skew, opened, set>> /\ now' \in Nat
    BY <1>13, TickTime DEF Tick
  <2>2. now \in Int /\ skew \in Int /\ window_start \in Int /\ opened \in Int
    BY SkewsAssumption DEF ClockInv
  <2>3. ASSUME wall - window_start = now - opened
        PROVE  (now' + skew) - window_start = now' - opened
    <3>1. now' \in Int  BY <2>1
    <3>2. (now + skew) - window_start = now - opened  BY <2>3 DEF wall
    <3>3. skew - window_start = 0 - opened  BY <2>2, <3>2
    <3>4. QED  BY <2>2, <3>1, <3>3
  <2>4. ~set' => wall' - window_start' = now' - opened'
    <3>1. SUFFICES ASSUME ~set' PROVE wall' - window_start' = now' - opened'  OBVIOUS
    <3>2. wall - window_start = now - opened  BY <2>1, <3>1 DEF TileInv
    <3>3. (now' + skew) - window_start = now' - opened  BY <2>3, <3>2
    <3>4. QED  BY <2>1, <3>3 DEF wall
  <2>5. windows' = windows /\ window_start' = window_start  BY <2>1
  <2>6. QED  BY <2>4, <2>5 DEF TileInv, WindowsTile
<1>14. CASE \E s \in Skews : SetClock(s)
  BY <1>14 DEF SetClock, TileInv, WindowsTile
<1>15. CASE UNCHANGED vars  BY <1>1, <1>15 DEF vars
<1>16. QED
  BY <1>2, <1>3, <1>4, <1>5, <1>6, <1>7, <1>8, <1>9, <1>10, <1>11, <1>12, <1>13, <1>14, <1>15
  DEF Next, Working

\* The profiles' time ranges follow one another, whether or not the server took them,
\* and each lasts as long as its window was open unless the wall clock was set in it:
\* setting the clock once cannot disturb more than one profile.
THEOREM RunIsTiled == Spec => []WindowsTile
<1>1. Init => TileInv
  BY InitFacts DEF TileInv, WindowsTile, wall
<1>2. TileInv => WindowsTile  BY DEF TileInv
<1>3. QED  BY InitClock, NextClock, NextTile, <1>1, <1>2, PTL DEF Spec

(***************************************************************************)
(* Ids lead to what they were given for                                    *)
(***************************************************************************)

\* The id of every entry a table knows is where its list has it, and the list has
\* nothing else.
Coherent(table, S, base) ==
  /\ table.list \in Seq(S)
  /\ \A e \in DOMAIN table.key :
       /\ table.key[e] \in Nat
       /\ table.key[e] + 1 - base \in 1..Len(table.list)
       /\ table.list[table.key[e] + 1 - base] = e
  /\ \A i \in 1..Len(table.list) :
       /\ table.list[i] \in DOMAIN table.key
       /\ table.key[table.list[i]] + 1 - base = i

\* What was in a table is still there, under the same id.
Grows(old, new) ==
  /\ Len(old.list) <= Len(new.list)
  /\ \A i \in 1..Len(old.list) : new.list[i] = old.list[i]
  /\ DOMAIN old.key \subseteq DOMAIN new.key

LEMMA Below == ASSUME NEW n \in Nat, NEW k \in Nat PROVE k + 1 \in 1..n <=> k < n
OBVIOUS

LEMMA Further ==
  ASSUME NEW k \in Nat, NEW m \in Nat, NEW n \in Nat, k < m, m <= n PROVE k < n
OBVIOUS

LEMMA NoneBelowOne == \A i \in 1..0 : FALSE
OBVIOUS

LEMMA SeqFacts ==
  ASSUME NEW S, NEW s \in Seq(S)
  PROVE  /\ Len(s) \in Nat /\ DOMAIN s = 1..Len(s)
         /\ \A i \in 1..Len(s) : s[i] \in S
OBVIOUS

LEMMA CoherentFacts ==
  ASSUME NEW S, NEW table, NEW base, Coherent(table, S, base)
  PROVE  /\ table.list \in Seq(S) /\ Len(table.list) \in Nat
         /\ \A i \in 1..Len(table.list) : table.list[i] \in S
BY SeqFacts DEF Coherent

\* Interning keeps a table coherent and every id it gave, and knows the entry.
LEMMA InternFacts ==
  ASSUME NEW S, NEW table, NEW e \in S, NEW base \in {0, 1}, Coherent(table, S, base)
  PROVE  /\ Coherent(Intern(table, e, base), S, base)
         /\ Grows(table, Intern(table, e, base))
         /\ e \in DOMAIN Intern(table, e, base).key
         /\ \A i \in 1..Len(Intern(table, e, base).list) :
              \/ i \in 1..Len(table.list)
              \/ Intern(table, e, base).list[i] = e
<1> DEFINE new == Intern(table, e, base)
           n == Len(table.list)
<1>0. n \in Nat  BY DEF Coherent
<1>1. CASE e \in DOMAIN table.key
  BY <1>0, <1>1 DEF Intern, Grows
<1>2. CASE e \notin DOMAIN table.key
  <2>1. /\ new.list = Append(table.list, e)
        /\ DOMAIN new.key = DOMAIN table.key \cup {e}
        /\ \A d \in DOMAIN new.key :
             new.key[d] = IF d = e THEN Len(table.list) + base ELSE table.key[d]
    BY <1>2 DEF Intern
  <2> HIDE DEF new
  <2>2. /\ new.list \in Seq(S) /\ Len(new.list) = n + 1
        /\ \A i \in 1..n : new.list[i] = table.list[i]
        /\ new.list[n + 1] = e
    BY <2>1, AppendFacts DEF Coherent
  <2>3. ASSUME NEW d \in DOMAIN new.key
        PROVE  /\ new.key[d] \in Nat
               /\ new.key[d] + 1 - base \in 1..Len(new.list)
               /\ new.list[new.key[d] + 1 - base] = d
    <3>1. CASE d = e
      <4>1. new.key[d] = n + base  BY <2>1, <3>1
      <4>2. n + base + 1 - base = n + 1  BY <1>0
      <4>3. QED  BY <1>0, <2>2, <3>1, <4>1, <4>2
    <3>2. CASE d # e
      <4> DEFINE at == table.key[d] + 1 - base
      <4>1. d \in DOMAIN table.key /\ new.key[d] = table.key[d]  BY <2>1, <3>2
      <4>2. table.key[d] \in Nat /\ at \in 1..n /\ table.list[at] = d  BY <4>1 DEF Coherent
      <4>3. new.key[d] + 1 - base = at  BY <4>1
      <4> HIDE DEF at, n
      <4>4. at \in 1..(n + 1) /\ new.list[at] = d  BY <1>0, <2>2, <4>2
      <4>5. QED  BY <2>2, <4>1, <4>2, <4>3, <4>4
    <3>3. QED  BY <3>1, <3>2
  <2>8. ASSUME NEW i \in 1..Len(new.list)
        PROVE  /\ new.list[i] \in DOMAIN new.key
               /\ new.key[new.list[i]] + 1 - base = i
    <3>1. CASE i = n + 1
      <4>1. new.list[i] = e /\ e \in DOMAIN new.key /\ new.key[e] = n + base
        BY <2>1, <2>2, <3>1
      <4>2. n + base + 1 - base = n + 1  BY <1>0
      <4>3. QED  BY <3>1, <4>1, <4>2
    <3>2. CASE i # n + 1
      <4>1. i \in 1..n /\ new.list[i] = table.list[i]
        <5> HIDE DEF n
        <5>1. i \in 1..n  BY <1>0, <2>2, <3>2
        <5>2. QED  BY <5>1, <2>2
      <4>2. table.list[i] \in DOMAIN table.key /\ table.key[table.list[i]] + 1 - base = i
        BY <4>1 DEF Coherent
      <4>3. new.key[new.list[i]] = table.key[table.list[i]]  BY <1>2, <2>1, <4>1, <4>2
      <4>4. QED  BY <2>1, <4>1, <4>2, <4>3
    <3>3. QED  BY <3>1, <3>2
  <2>4. Coherent(new, S, base)  BY <2>2, <2>3, <2>8 DEF Coherent
  <2>5. Grows(table, new)  BY <1>0, <2>1, <2>2 DEF Grows
  <2>6. ASSUME NEW i \in 1..Len(new.list)
        PROVE  i \in 1..Len(table.list) \/ new.list[i] = e
    BY <1>0, <2>2
  <2>7. QED  BY <2>1, <2>4, <2>5, <2>6 DEF new
<1>3. QED  BY <1>1, <1>2

\* The tables are coherent, and the ids in one lead into the next: from a location
\* to a function, from a function to its strings.
TablesInv ==
  /\ Coherent(strings, Strings, 0)
  /\ Coherent(functions, Nat \X Nat, 1)
  /\ Coherent(locations, Nat \X Lines, 1)
  /\ \A i \in 1..Len(functions.list) :
       /\ functions.list[i][1] < Len(strings.list)
       /\ functions.list[i][2] < Len(strings.list)
  /\ \A i \in 1..Len(locations.list) : locations.list[i][1] \in 1..Len(functions.list)

\* Location id stands for frame f.
Denotes(id, f) ==
  /\ id \in 1..Len(locations.list)
  /\ locations.list[id][2] = f.line
  /\ strings.list[functions.list[locations.list[id][1]][1] + 1] = f.name
  /\ strings.list[functions.list[locations.list[id][1]][2] + 1] = f.file

\* The ids of the stack being added stand for its frames, those of the samples lead
\* somewhere.
IdsInv ==
  /\ adding => /\ call \in Seq(Frames)
               /\ ids \in Seq(Nat)
               /\ Len(ids) <= Len(call)
               /\ \A i \in 1..Len(ids) : Denotes(ids[i], call[i])
  /\ \A locs \in DOMAIN samples : \A i \in DOMAIN locs : locs[i] \in 1..Len(locations.list)

DecodeInv == TablesInv /\ IdsInv

LEMMA EmptyCoherent ==
  ASSUME NEW S, NEW base \in {0, 1} PROVE Coherent(EmptyTable, S, base)
<1>1. EmptyTable.list \in Seq(S) /\ Len(EmptyTable.list) = 0 /\ DOMAIN EmptyTable.key = {}
  BY DEF EmptyTable
<1>2. \A i \in 1..Len(EmptyTable.list) : FALSE  BY Zenon, <1>1, NoneBelowOne
<1>3. QED  BY Zenon, <1>1, <1>2 DEF Coherent

LEMMA FreshTables ==
  /\ Coherent(Intern(EmptyTable, "", 0), Strings, 0)
  /\ Coherent(EmptyTable, Nat \X Nat, 1)
  /\ Coherent(EmptyTable, Nat \X Lines, 1)
  /\ Len(EmptyTable.list) = 0
<1>1. "" \in Strings  BY DEF Strings
<1>2. Coherent(EmptyTable, Strings, 0)  BY EmptyCoherent
<1>3. Len(EmptyTable.list) = 0  BY DEF EmptyTable
<1>4. QED  BY <1>1, <1>2, <1>3, EmptyCoherent, InternFacts

LEMMA NoSamples == DOMAIN EmptyBag = {}
BY DEF EmptyBag, SetToBag

\* Tables that have been cleared.
LEMMA ClearedTables ==
  strings = Intern(EmptyTable, "", 0) /\ functions = EmptyTable /\ locations = EmptyTable
    => TablesInv
<1> SUFFICES ASSUME strings = Intern(EmptyTable, "", 0),
                    functions = EmptyTable, locations = EmptyTable
             PROVE  TablesInv
  OBVIOUS
<1>1. /\ Coherent(strings, Strings, 0)
      /\ Coherent(functions, Nat \X Nat, 1)
      /\ Coherent(locations, Nat \X Lines, 1)
  BY FreshTables
<1>2. (\A i \in 1..Len(functions.list) : FALSE) /\ \A i \in 1..Len(locations.list) : FALSE
  BY Zenon, NoneBelowOne, FreshTables
<1>3. QED  BY Zenon, <1>1, <1>2 DEF TablesInv

LEMMA InitDecode == Init => DecodeInv
<1> SUFFICES ASSUME Init PROVE DecodeInv  OBVIOUS
<1>1. /\ strings = Intern(EmptyTable, "", 0)
      /\ functions = EmptyTable /\ locations = EmptyTable
      /\ samples = EmptyBag /\ ~adding
  BY Zenon DEF Init, BuilderInit
<1>2. TablesInv  BY <1>1, ClearedTables
<1>3. IdsInv  BY <1>1, NoSamples DEF IdsInv
<1>4. QED  BY <1>2, <1>3 DEF DecodeInv

LEMMA BeginDecode == ASSUME DecodeInv, NEW stack \in Stacks, BeginAdd(stack) PROVE DecodeInv'
<1>1. TablesInv'  BY DEF BeginAdd, DecodeInv, TablesInv
<1>2. call' \in Seq(Frames) /\ ids' = << >>  BY StacksAssumption DEF BeginAdd
<1>3. IdsInv'  BY <1>2 DEF BeginAdd, DecodeInv, IdsInv
<1>4. QED  BY <1>1, <1>3 DEF DecodeInv

LEMMA EndDecode == ASSUME DecodeInv, EndAdd PROVE DecodeInv'
<1>1. TablesInv'  BY DEF EndAdd, DecodeInv, TablesInv
<1>2. DOMAIN samples' \subseteq DOMAIN samples \cup {ids}  BY DEF EndAdd, BagAdd
<1>3. \A i \in DOMAIN ids : ids[i] \in 1..Len(locations.list)
  <2>1. ids \in Seq(Nat) /\ \A i \in 1..Len(ids) : Denotes(ids[i], call[i])
    BY DEF EndAdd, DecodeInv, IdsInv
  <2>2. DOMAIN ids = 1..Len(ids)  BY <2>1, SeqFacts
  <2>3. QED  BY <2>1, <2>2 DEF Denotes
<1>4. IdsInv'  BY <1>2, <1>3 DEF EndAdd, DecodeInv, IdsInv
<1>5. QED  BY <1>1, <1>4 DEF DecodeInv

LEMMA ResetDecode == ASSUME DecodeInv, NEW t, Reset(t) PROVE DecodeInv'
<1>1. /\ strings' = Intern(EmptyTable, "", 0)
      /\ functions' = EmptyTable /\ locations' = EmptyTable
      /\ samples' = EmptyBag /\ ~adding'
  BY Zenon DEF Reset, FreshStrings, Cleared
<1>2. TablesInv'
  <2>1. /\ Coherent(strings', Strings, 0)
        /\ Coherent(functions', Nat \X Nat, 1)
        /\ Coherent(locations', Nat \X Lines, 1)
    BY <1>1, FreshTables
  <2>2. /\ \A i \in 1..Len(functions'.list) : FALSE
        /\ \A i \in 1..Len(locations'.list) : FALSE
    BY Zenon, NoneBelowOne, <1>1, FreshTables
  <2>3. QED  BY Zenon, <2>1, <2>2 DEF TablesInv
<1>3. IdsInv'  BY <1>1, NoSamples DEF IdsInv
<1>4. QED  BY <1>2, <1>3 DEF DecodeInv

\* What one frame adds: a name, a file, a function, a location, one in terms of the
\* other, and what was there stays.
LEMMA AddDecode ==
  ASSUME DecodeInv, AddFrame
  PROVE  DecodeInv' /\ \A d, f : Denotes(d, f) => Denotes(d, f)'
<1> DEFINE frame    == call[Len(ids) + 1]
           once     == Intern(strings, frame.name, 0)
           named    == Intern(once, frame.file, 0)
           function == <<named.key[frame.name], named.key[frame.file]>>
           defined  == Intern(functions, function, 1)
           location == <<defined.key[function], frame.line>>
           placed   == Intern(locations, location, 1)
           id       == placed.key[location]
<1>1. /\ strings' = named /\ functions' = defined /\ locations' = placed
      /\ ids' = Append(ids, id)
      /\ UNCHANGED <<samples, call, adding>>
      /\ adding /\ Len(ids) < Len(call)
  BY DEF AddFrame
<1>2. /\ Coherent(strings, Strings, 0)
      /\ Coherent(functions, Nat \X Nat, 1)
      /\ Coherent(locations, Nat \X Lines, 1)
      /\ call \in Seq(Frames) /\ ids \in Seq(Nat)
  BY <1>1 DEF DecodeInv, TablesInv, IdsInv
<1>3. frame \in Frames
  <2>1. Len(ids) \in Nat /\ Len(call) \in Nat  BY <1>2, SeqFacts
  <2>2. Len(ids) < Len(call)  BY <1>1
  <2>3. Len(ids) + 1 \in 1..Len(call)  BY Zenon, <2>1, <2>2, Below
  <2>4. QED  BY <1>2, <2>3, SeqFacts
<1>4. frame.name \in Strings /\ frame.file \in Strings /\ frame.line \in Lines
  BY <1>3 DEF Frames, Strings
<1> HIDE DEF frame
<1>5. Coherent(once, Strings, 0) /\ Grows(strings, once) /\ frame.name \in DOMAIN once.key
  BY <1>2, <1>4, InternFacts
<1> HIDE DEF once
<1>6. Coherent(named, Strings, 0) /\ Grows(once, named) /\ frame.file \in DOMAIN named.key
  BY <1>4, <1>5, InternFacts
<1> HIDE DEF named
<1>7. /\ frame.name \in DOMAIN named.key
      /\ Len(strings.list) <= Len(named.list)
      /\ \A i \in 1..Len(strings.list) : named.list[i] = strings.list[i]
  <2>1. Len(strings.list) \in Nat /\ Len(once.list) \in Nat /\ Len(named.list) \in Nat
    BY <1>2, <1>5, <1>6, CoherentFacts
  <2>2. QED  BY <2>1, <1>5, <1>6 DEF Grows
<1>8. /\ named.key[frame.name] \in Nat /\ named.key[frame.name] + 1 \in 1..Len(named.list)
      /\ named.list[named.key[frame.name] + 1] = frame.name
      /\ named.key[frame.file] \in Nat /\ named.key[frame.file] + 1 \in 1..Len(named.list)
      /\ named.list[named.key[frame.file] + 1] = frame.file
  <2>1. \A k \in Nat : k + 1 - 0 = k + 1  OBVIOUS
  <2>2. QED  BY <2>1, <1>6, <1>7 DEF Coherent
<1>9. /\ function \in Nat \X Nat
      /\ function[1] = named.key[frame.name] /\ function[2] = named.key[frame.file]
  BY <1>8
<1> HIDE DEF function
<1>10. /\ Coherent(defined, Nat \X Nat, 1) /\ Grows(functions, defined)
       /\ function \in DOMAIN defined.key
       /\ \A i \in 1..Len(defined.list) :
            i \in 1..Len(functions.list) \/ defined.list[i] = function
  BY <1>2, <1>9, InternFacts
<1> HIDE DEF defined
<1>11. /\ defined.key[function] \in Nat
       /\ defined.key[function] \in 1..Len(defined.list)
       /\ defined.list[defined.key[function]] = function
  <2>1. \A k \in Nat : k + 1 - 1 = k  OBVIOUS
  <2>2. QED  BY <2>1, <1>10 DEF Coherent
<1>12. /\ location \in Nat \X Lines
       /\ location[1] = defined.key[function] /\ location[2] = frame.line
  BY <1>4, <1>11
<1> HIDE DEF location
<1>13. /\ Coherent(placed, Nat \X Lines, 1) /\ Grows(locations, placed)
       /\ location \in DOMAIN placed.key
       /\ \A i \in 1..Len(placed.list) :
            i \in 1..Len(locations.list) \/ placed.list[i] = location
  BY <1>2, <1>12, InternFacts
<1> HIDE DEF placed
<1>14. /\ id \in Nat
       /\ id \in 1..Len(placed.list)
       /\ placed.list[id] = location
  <2>1. \A k \in Nat : k + 1 - 1 = k  OBVIOUS
  <2>2. QED  BY <2>1, <1>13 DEF Coherent
<1> HIDE DEF id
<1>15. /\ Len(strings.list) \in Nat /\ Len(named.list) \in Nat
       /\ Len(functions.list) \in Nat /\ Len(defined.list) \in Nat
       /\ Len(locations.list) \in Nat /\ Len(placed.list) \in Nat
  BY <1>2, <1>6, <1>10, <1>13, CoherentFacts
<1>16. TablesInv'
  <2>1. ASSUME NEW i \in 1..Len(defined.list)
        PROVE  /\ defined.list[i][1] < Len(named.list)
               /\ defined.list[i][2] < Len(named.list)
    <3>1. CASE i \in 1..Len(functions.list)
      <4>1. defined.list[i] = functions.list[i]  BY <3>1, <1>10 DEF Grows
      <4>2. functions.list[i] \in Nat \X Nat  BY <3>1, <1>2, CoherentFacts
      <4>3. functions.list[i][1] \in Nat /\ functions.list[i][2] \in Nat  BY <4>2
      <4>4. /\ functions.list[i][1] < Len(strings.list)
            /\ functions.list[i][2] < Len(strings.list)
        BY <3>1 DEF DecodeInv, TablesInv
      <4>5. /\ functions.list[i][1] < Len(named.list)
            /\ functions.list[i][2] < Len(named.list)
        BY Zenon, <4>3, <4>4, <1>7, <1>15, Further
      <4>6. QED  BY Zenon, <4>1, <4>5
    <3>2. CASE defined.list[i] = function
      <4>1. named.key[frame.name] < Len(named.list) /\ named.key[frame.file] < Len(named.list)
        BY Zenon, <1>8, <1>15, Below
      <4>2. QED  BY Zenon, <3>2, <4>1, <1>9
    <3>3. QED  BY <3>1, <3>2, <1>10
  <2>2. ASSUME NEW i \in 1..Len(placed.list)
        PROVE  placed.list[i][1] \in 1..Len(defined.list)
    <3>1. CASE i \in 1..Len(locations.list)
      <4>1. placed.list[i] = locations.list[i]  BY <3>1, <1>13 DEF Grows
      <4>2. locations.list[i][1] \in 1..Len(functions.list)
        BY <3>1 DEF DecodeInv, TablesInv
      <4>3. QED  BY <4>1, <4>2, <1>10, <1>15 DEF Grows
    <3>2. CASE placed.list[i] = location  BY <3>2, <1>11, <1>12
    <3>3. QED  BY <3>1, <3>2, <1>13
  <2>3. QED  BY <1>1, <1>6, <1>10, <1>13, <2>1, <2>2 DEF TablesInv
<1>17. ASSUME NEW d, NEW f, Denotes(d, f) PROVE Denotes(d, f)'
  <2> DEFINE l == locations.list[d]
             g == functions.list[l[1]]
  <2>1. d \in 1..Len(locations.list) /\ l[2] = f.line
        /\ strings.list[g[1] + 1] = f.name /\ strings.list[g[2] + 1] = f.file
    BY <1>17 DEF Denotes
  <2>2. d \in 1..Len(placed.list) /\ placed.list[d] = l  BY <2>1, <1>13, <1>15 DEF Grows
  <2>3. l[1] \in 1..Len(functions.list)  BY <2>1 DEF DecodeInv, TablesInv
  <2>4. defined.list[l[1]] = g  BY <2>3, <1>10 DEF Grows
  <2>5. /\ g[1] \in Nat /\ g[1] < Len(strings.list)
        /\ g[2] \in Nat /\ g[2] < Len(strings.list)
    <3>1. g \in Nat \X Nat  BY <2>3, <1>2, CoherentFacts
    <3>2. g[1] < Len(strings.list) /\ g[2] < Len(strings.list)
      BY <2>3 DEF DecodeInv, TablesInv
    <3>3. QED  BY <3>1, <3>2
  <2> HIDE DEF l, g
  <2>6. g[1] + 1 \in 1..Len(strings.list) /\ g[2] + 1 \in 1..Len(strings.list)
    BY Zenon, <2>5, <1>15, Below
  <2>7. named.list[g[1] + 1] = f.name /\ named.list[g[2] + 1] = f.file
    BY <2>1, <2>6, <1>7
  <2>8. QED  BY <1>1, <2>1, <2>2, <2>4, <2>7 DEF Denotes
<1>18. /\ id \in 1..Len(placed.list)
       /\ placed.list[id][2] = frame.line
       /\ named.list[defined.list[placed.list[id][1]][1] + 1] = frame.name
       /\ named.list[defined.list[placed.list[id][1]][2] + 1] = frame.file
  BY <1>8, <1>9, <1>11, <1>12, <1>14
<1>19. IdsInv'
  <2>1. ids' \in Seq(Nat) /\ Len(ids') = Len(ids) + 1 /\ Len(ids) \in Nat
        /\ (\A i \in 1..Len(ids) : ids'[i] = ids[i]) /\ ids'[Len(ids) + 1] = id
    BY <1>1, <1>2, <1>14, AppendFacts
  <2>2. Len(ids') <= Len(call')
    <3>1. Len(call) \in Nat  BY <1>2, SeqFacts
    <3>2. QED  BY <1>1, <2>1, <3>1
  <2>3. ASSUME NEW i \in 1..Len(ids') PROVE Denotes(ids[i], call[i])'
    <3>1. CASE i \in 1..Len(ids)
      <4>1. Denotes(ids[i], call[i])  BY <1>1, <3>1 DEF DecodeInv, IdsInv
      <4>2. Denotes(ids[i], call[i])'  BY <1>1, <1>17, <2>1, <3>1, <4>1
      <4>3. QED  BY <4>2
    <3>2. CASE i = Len(ids) + 1
      <4>1. ids'[i] = id /\ call'[i] = frame  BY <1>1, <2>1, <3>2 DEF frame
      <4>2. QED  BY <1>1, <1>18, <4>1 DEF Denotes
    <3>3. QED  BY <2>1, <3>1, <3>2
  <2>4. ASSUME NEW locs \in DOMAIN samples', NEW i \in DOMAIN locs
        PROVE  locs[i] \in 1..Len(placed.list)
    <3>1. locs[i] \in 1..Len(locations.list)  BY <1>1 DEF DecodeInv, IdsInv
    <3>2. QED  BY <3>1, <1>13, <1>15 DEF Grows
  <2>5. QED  BY <1>1, <1>2, <2>1, <2>2, <2>3, <2>4 DEF IdsInv
<1>20. QED  BY <1>16, <1>17, <1>19 DEF DecodeInv

LEMMA SameTables == ASSUME DecodeInv, UNCHANGED builderVars PROVE DecodeInv'
BY DEF builderVars, DecodeInv, TablesInv, IdsInv, Denotes

LEMMA NextDecode == DecodeInv /\ [Next]_vars => DecodeInv'
<1> SUFFICES ASSUME DecodeInv, [Next]_vars PROVE DecodeInv'  OBVIOUS
<1>1. CASE UNCHANGED builderVars  BY <1>1, SameTables
<1>2. ASSUME NEW stack \in Stacks, WriteSample(stack) PROVE DecodeInv'
  BY <1>2, BeginDecode DEF WriteSample
<1>3. CASE WriteFrame  BY <1>3, AddDecode DEF WriteFrame
<1>4. CASE Written  BY <1>4, EndDecode DEF Written
<1>5. CASE TakeWindow  BY <1>5, ResetDecode DEF TakeWindow
<1>6. CASE Finish  BY <1>1, <1>6 DEF Finish
<1>7. CASE CheckDue  BY <1>1, <1>7 DEF CheckDue
<1>8. CASE PushNothing  BY <1>1, <1>8 DEF PushNothing
<1>9. CASE PostTimesOut  BY <1>1, <1>9 DEF PostTimesOut, PostRefused, PostEnds
<1>10. CASE Stamp  BY <1>1, <1>10 DEF Stamp
<1>11. CASE PostAccepted  BY <1>1, <1>11 DEF PostAccepted, PostEnds
<1>12. CASE PostRefused  BY <1>1, <1>12 DEF PostRefused, PostEnds
<1>13. CASE Tick  BY <1>1, <1>13 DEF Tick
<1>14. CASE UNCHANGED vars  BY <1>1, <1>14 DEF vars
<1>15. CASE \E s \in Skews : SetClock(s)  BY <1>1, <1>15 DEF SetClock
<1>16. QED
  BY <1>2, <1>3, <1>4, <1>5, <1>6, <1>7, <1>8, <1>9, <1>10, <1>11, <1>12, <1>13, <1>14, <1>15
  DEF Next, Working

\* The ids add() gives to the frames of a stack stand for just those frames: what
\* earlier stacks, and earlier windows, have left in the tables never answers for
\* another name, file or line.
THEOREM AddedAsSampled ==
  Spec => [](adding => \A i \in 1..Len(ids) : Denotes(ids[i], call[i]))
<1>1. DecodeInv => (adding => \A i \in 1..Len(ids) : Denotes(ids[i], call[i]))
  BY DEF DecodeInv, IdsInv
<1>2. QED  BY InitDecode, NextDecode, <1>1, PTL DEF Spec

\* Every id in a profile leads somewhere in it.
WellFormed(p) ==
  /\ \A locs \in DOMAIN p.sample : \A i \in DOMAIN locs : locs[i] \in 1..Len(p.location)
  /\ \A i \in 1..Len(p.location) : p.location[i][1] \in 1..Len(p.function)
  /\ \A i \in 1..Len(p.function) : /\ p.function[i][1] < Len(p.string_table)
                                   /\ p.function[i][2] < Len(p.string_table)

LEMMA TakenWellFormed == ASSUME DecodeInv, NEW t PROVE WellFormed(Profile(t))
<1> DEFINE p == Profile(t)
           once == Intern(strings, "count", 0)
           twice == Intern(once, "samples", 0)
<1>1. /\ p.sample = samples /\ p.location = locations.list
      /\ p.function = functions.list /\ p.string_table = twice.list
  BY DEF Profile
<1> HIDE DEF p
<1>2. Coherent(strings, Strings, 0) /\ Coherent(functions, Nat \X Nat, 1)
  BY DEF DecodeInv, TablesInv
<1>3. "count" \in Strings /\ "samples" \in Strings  BY DEF Strings
<1>4. Coherent(once, Strings, 0) /\ Grows(strings, once)  BY <1>2, <1>3, InternFacts
<1> HIDE DEF once
<1>5. Coherent(twice, Strings, 0) /\ Grows(once, twice)  BY <1>3, <1>4, InternFacts
<1> HIDE DEF twice
<1>6. Len(strings.list) \in Nat /\ Len(once.list) \in Nat /\ Len(twice.list) \in Nat
  BY <1>2, <1>4, <1>5, CoherentFacts
<1>7. Len(strings.list) <= Len(twice.list)  BY <1>4, <1>5, <1>6 DEF Grows
<1>8. ASSUME NEW i \in 1..Len(functions.list)
      PROVE  /\ functions.list[i][1] < Len(twice.list)
             /\ functions.list[i][2] < Len(twice.list)
  <2>1. functions.list[i] \in Nat \X Nat  BY <1>2, CoherentFacts
  <2>2. functions.list[i][1] \in Nat /\ functions.list[i][2] \in Nat  BY <2>1
  <2>3. functions.list[i][1] < Len(strings.list) /\ functions.list[i][2] < Len(strings.list)
    BY DEF DecodeInv, TablesInv
  <2>4. QED  BY Zenon, <1>6, <1>7, <2>2, <2>3, Further
<1>9. /\ \A locs \in DOMAIN samples : \A i \in DOMAIN locs : locs[i] \in 1..Len(locations.list)
      /\ \A i \in 1..Len(locations.list) : locations.list[i][1] \in 1..Len(functions.list)
  BY DEF DecodeInv, TablesInv, IdsInv
<1>10. WellFormed(p)  BY Zenon, <1>1, <1>8, <1>9 DEF WellFormed
<1>11. QED  BY <1>10 DEF p

BodyInv == pc = "post" => WellFormed(body)

LEMMA NextBody == DecodeInv /\ BodyInv /\ [Next]_vars => BodyInv'
<1> SUFFICES ASSUME DecodeInv, BodyInv, [Next]_vars PROVE BodyInv'  OBVIOUS
<1>1. CASE pc' # "post"  BY <1>1 DEF BodyInv
<1>2. CASE pc = "post" /\ body' = body  BY <1>2 DEF BodyInv
<1>3. CASE TakeWindow
  <2>1. body' = Profile(wall)  BY <1>3 DEF TakeWindow
  <2>2. WellFormed(Profile(wall))  BY TakenWellFormed
  <2>3. WellFormed(body')  BY <2>1, <2>2
  <2>4. QED  BY <2>3 DEF BodyInv
<1>4. ASSUME NEW stack \in Stacks, WriteSample(stack) PROVE BodyInv'
  BY <1>1, <1>4 DEF WriteSample
<1>5. CASE WriteFrame  BY <1>1, <1>5 DEF WriteFrame, sinkVars
<1>6. CASE Written  BY <1>1, <1>6 DEF Written
<1>7. CASE CheckDue  BY <1>1, <1>7 DEF CheckDue
<1>8. CASE PushNothing  BY <1>1, <1>8 DEF PushNothing, Return
<1>9. CASE Finish  BY <1>1, <1>9 DEF Finish
<1>10. CASE PostTimesOut  BY <1>1, <1>10 DEF PostTimesOut, PostRefused, PostEnds
<1>11. CASE Stamp  BY <1>1, <1>11 DEF Stamp, Return
<1>12. CASE PostAccepted  BY <1>1, <1>12 DEF PostAccepted, PostEnds
<1>13. CASE PostRefused  BY <1>1, <1>13 DEF PostRefused, PostEnds
<1>14. CASE Tick  BY <1>1, <1>2, <1>14 DEF Tick, sinkVars
<1>15. CASE UNCHANGED vars  BY <1>1, <1>2, <1>15 DEF vars, sinkVars
<1>16. CASE \E s \in Skews : SetClock(s)  BY <1>1, <1>2, <1>16 DEF SetClock, sinkVars
<1>17. QED
  BY <1>3, <1>4, <1>5, <1>6, <1>7, <1>8, <1>9, <1>10, <1>11, <1>12, <1>13, <1>14, <1>15, <1>16
  DEF Next, Working

\* No profile that is sent has an id that leads nowhere, however the windows before
\* it were filled, sent or lost.
THEOREM NoIdDangles == Spec => [](pc = "post" => WellFormed(body))
<1>1. Init => BodyInv  BY Zenon DEF Init, BodyInv
<1>2. QED  BY InitDecode, NextDecode, NextBody, <1>1, PTL DEF Spec, BodyInv

(***************************************************************************)
(* What is decoded is what was added                                       *)
(***************************************************************************)

\* The frame a location id stands for, and the stack a list of them.
Stands(id) ==
  [name |-> strings.list[functions.list[locations.list[id][1]][1] + 1],
   file |-> strings.list[functions.list[locations.list[id][1]][2] + 1],
   line |-> locations.list[id][2]]

Meant(locs) == [i \in DOMAIN locs |-> Stands(locs[i])]

Ids == 1..Len(locations.list)

LEMMA OnePlaceEach ==
  ASSUME NEW S, NEW table, NEW base \in {0, 1}, Coherent(table, S, base),
         NEW i \in 1..Len(table.list), NEW j \in 1..Len(table.list),
         table.list[i] = table.list[j]
  PROVE  i = j
BY DEF Coherent

\* Where an id leads in tables that hold together.
LEMMA IdLeads ==
  ASSUME TablesInv, NEW id \in Ids
  PROVE  LET l == locations.list[id]
             f == functions.list[l[1]]
         IN  /\ l \in Nat \X Lines
             /\ l[1] \in 1..Len(functions.list)
             /\ f \in Nat \X Nat
             /\ f[1] \in Nat /\ f[1] < Len(strings.list)
             /\ f[2] \in Nat /\ f[2] < Len(strings.list)
             /\ f[1] + 1 \in 1..Len(strings.list)
             /\ f[2] + 1 \in 1..Len(strings.list)
<1> DEFINE l == locations.list[id]
           f == functions.list[l[1]]
<1>1. /\ Coherent(strings, Strings, 0)
      /\ Coherent(functions, Nat \X Nat, 1)
      /\ Coherent(locations, Nat \X Lines, 1)
  BY DEF TablesInv
<1>2. l \in Nat \X Lines  BY <1>1, CoherentFacts DEF Ids
<1>3. l[1] \in 1..Len(functions.list)  BY DEF TablesInv, Ids
<1>4. f[1] < Len(strings.list) /\ f[2] < Len(strings.list)  BY <1>3 DEF TablesInv
<1> HIDE DEF l
<1>5. f \in Nat \X Nat  BY <1>1, <1>3, CoherentFacts
<1>6. Len(strings.list) \in Nat  BY <1>1, CoherentFacts
<1> HIDE DEF f
<1>7. f[1] \in Nat /\ f[2] \in Nat  BY <1>5
<1>8. f[1] + 1 \in 1..Len(strings.list) /\ f[2] + 1 \in 1..Len(strings.list)
  BY Zenon, <1>4, <1>6, <1>7, Below
<1>9. QED  BY <1>2, <1>3, <1>4, <1>5, <1>7, <1>8 DEF l, f

\* Two ids never stand for the same frame.
LEMMA OneIdEach ==
  ASSUME TablesInv, NEW a \in Ids, NEW b \in Ids, Stands(a) = Stands(b)
  PROVE  a = b
<1> DEFINE la == locations.list[a]
           lb == locations.list[b]
           fa == functions.list[la[1]]
           fb == functions.list[lb[1]]
<1>1. /\ Coherent(strings, Strings, 0)
      /\ Coherent(functions, Nat \X Nat, 1)
      /\ Coherent(locations, Nat \X Lines, 1)
  BY DEF TablesInv
<1>2. /\ la \in Nat \X Lines /\ la[1] \in 1..Len(functions.list) /\ fa \in Nat \X Nat
      /\ fa[1] + 1 \in 1..Len(strings.list) /\ fa[2] + 1 \in 1..Len(strings.list)
      /\ fa[1] \in Nat /\ fa[2] \in Nat
  BY IdLeads
<1>3. /\ lb \in Nat \X Lines /\ lb[1] \in 1..Len(functions.list) /\ fb \in Nat \X Nat
      /\ fb[1] + 1 \in 1..Len(strings.list) /\ fb[2] + 1 \in 1..Len(strings.list)
      /\ fb[1] \in Nat /\ fb[2] \in Nat
  BY IdLeads
<1>4. /\ la[2] = lb[2]
      /\ strings.list[fa[1] + 1] = strings.list[fb[1] + 1]
      /\ strings.list[fa[2] + 1] = strings.list[fb[2] + 1]
  BY DEF Stands
<1> HIDE DEF fa, fb
<1>5. fa[1] + 1 = fb[1] + 1 /\ fa[2] + 1 = fb[2] + 1
  BY <1>1, <1>2, <1>3, <1>4, OnePlaceEach
<1>6. fa = fb  BY <1>2, <1>3, <1>5
<1>7. la[1] = lb[1]
  <2> HIDE DEF la, lb
  <2>1. functions.list[la[1]] = functions.list[lb[1]]  BY <1>6 DEF fa, fb
  <2>2. QED  BY <1>1, <1>2, <1>3, <2>1, OnePlaceEach
<1>8. la = lb
  <2>1. la \in Nat \X Lines /\ lb \in Nat \X Lines  BY <1>2, <1>3
  <2> HIDE DEF la, lb
  <2>2. QED  BY <2>1, <1>4, <1>7
<1>9. QED  BY <1>1, <1>8, OnePlaceEach DEF Ids

\* Two lists of ids never stand for the same stack.
LEMMA OneListEach ==
  ASSUME TablesInv, NEW a \in Seq(Ids), NEW b \in Seq(Ids), Meant(a) = Meant(b)
  PROVE  a = b
<1>1. DOMAIN a = DOMAIN b /\ \A i \in DOMAIN a : Stands(a[i]) = Stands(b[i])
  BY DEF Meant
<1>2. \A i \in DOMAIN a : a[i] \in Ids /\ b[i] \in Ids  BY <1>1, SeqFacts
<1>3. \A i \in DOMAIN a : a[i] = b[i]  BY <1>1, <1>2, OneIdEach
<1> HIDE DEF Ids
<1>4. QED  BY <1>1, <1>3

\* The samples of the window, in the order of the ids, and the stacks they were added
\* as, are the same bag.
WindowInv ==
  /\ IsABag(samples) /\ IsABag(window)
  /\ DOMAIN samples \subseteq Seq(Ids)
  /\ DOMAIN window = {Meant(locs) : locs \in DOMAIN samples}
  /\ \A locs \in DOMAIN samples : window[Meant(locs)] = samples[locs]

LEMMA EmptyIsABag == IsABag(EmptyBag) /\ DOMAIN EmptyBag = {}
BY DEF EmptyBag, SetToBag, IsABag

LEMMA NothingIn == ASSUME NEW B, IsABag(B), DOMAIN B = {} PROVE B = EmptyBag
BY DEF EmptyBag, SetToBag, IsABag

LEMMA AddIsABag ==
  ASSUME NEW B, IsABag(B), NEW x
  PROVE  /\ IsABag(BagAdd(B, x))
         /\ DOMAIN BagAdd(B, x) = DOMAIN B \cup {x}
         /\ \A e \in DOMAIN B : e # x => BagAdd(B, x)[e] = B[e]
         /\ BagAdd(B, x)[x] = (IF x \in DOMAIN B THEN B[x] ELSE 0) + 1
BY DEF IsABag, BagAdd

\* A reader of the profile sees the window.
LEMMA WindowDecoded ==
  ASSUME DecodeInv, WindowInv, NEW t PROVE Decoded(Profile(t)) = window
<1> DEFINE p == Profile(t)
           once == Intern(strings, "count", 0)
           twice == Intern(once, "samples", 0)
<1>1. /\ p.sample = samples /\ p.location = locations.list
      /\ p.function = functions.list /\ p.string_table = twice.list
  BY DEF Profile
<1> HIDE DEF p
<1>2. Coherent(strings, Strings, 0) /\ Coherent(functions, Nat \X Nat, 1)
      /\ Coherent(locations, Nat \X Lines, 1) /\ TablesInv
  BY DEF DecodeInv, TablesInv
<1>3. "count" \in Strings /\ "samples" \in Strings  BY DEF Strings
<1>4. Coherent(once, Strings, 0) /\ Grows(strings, once)  BY <1>2, <1>3, InternFacts
<1> HIDE DEF once
<1>5. Coherent(twice, Strings, 0) /\ Grows(once, twice)  BY <1>3, <1>4, InternFacts
<1> HIDE DEF twice
<1>6. Len(strings.list) \in Nat /\ Len(once.list) \in Nat /\ Len(twice.list) \in Nat
  BY <1>2, <1>4, <1>5, CoherentFacts
<1>7. /\ Len(strings.list) <= Len(twice.list)
      /\ \A i \in 1..Len(strings.list) : twice.list[i] = strings.list[i]
  BY <1>4, <1>5, <1>6 DEF Grows
<1>8. DOMAIN locations.list = 1..Len(locations.list)
      /\ DOMAIN functions.list = 1..Len(functions.list)
  BY <1>2, SeqFacts DEF Coherent
<1>9. ASSUME NEW id \in Ids PROVE FrameOf(p, id) = Stands(id)
  <2> DEFINE l == locations.list[id]
             f == functions.list[l[1]]
  <2>1. /\ l[1] \in DOMAIN p.function
        /\ f[1] \in Nat /\ f[1] < Len(strings.list)
        /\ f[2] \in Nat /\ f[2] < Len(strings.list)
        /\ f[1] + 1 \in 1..Len(strings.list)
        /\ f[2] + 1 \in 1..Len(strings.list)
    BY <1>1, <1>2, <1>8, IdLeads
  <2>2. id \in DOMAIN p.location  BY <1>1, <1>8 DEF Ids
  <2>3. p.location[id] = l /\ p.function[l[1]] = f  BY <1>1
  <2> HIDE DEF l, f
  <2>4. f[1] < Len(p.string_table) /\ f[2] < Len(p.string_table)
    BY Zenon, <1>1, <1>6, <1>7, <2>1, Further
  <2>5. /\ p.string_table[f[1] + 1] = strings.list[f[1] + 1]
        /\ p.string_table[f[2] + 1] = strings.list[f[2] + 1]
    BY Zenon, <1>1, <1>7, <2>1
  <2>6. FrameOf(p, id) = [name |-> strings.list[f[1] + 1],
                          file |-> strings.list[f[2] + 1], line |-> l[2]]
    BY Zenon, <2>1, <2>2, <2>3, <2>4, <2>5 DEF FrameOf
  <2>7. QED  BY Zenon, <2>6 DEF Stands, l, f
<1>10. ASSUME NEW locs \in DOMAIN samples PROVE StackOf(p, locs) = Meant(locs)
  <2>1. \A i \in DOMAIN locs : locs[i] \in Ids  BY SeqFacts DEF WindowInv
  <2>2. QED  BY <1>9, <2>1 DEF StackOf, Meant
<1>11. {StackOf(p, locs) : locs \in DOMAIN p.sample} = DOMAIN window
  BY <1>1, <1>10 DEF WindowInv
<1>12. ASSUME NEW stack \in DOMAIN window
       PROVE  p.sample[CHOOSE locs \in DOMAIN p.sample : StackOf(p, locs) = stack]
                = window[stack]
  <2> DEFINE c == CHOOSE locs \in DOMAIN p.sample : StackOf(p, locs) = stack
  <2>1. c \in DOMAIN p.sample /\ StackOf(p, c) = stack  BY <1>11
  <2> HIDE DEF c
  <2>2. c \in DOMAIN samples /\ Meant(c) = stack  BY <1>1, <1>10, <2>1
  <2>3. p.sample[c] = window[stack]  BY <1>1, <2>2 DEF WindowInv
  <2>4. QED  BY <2>3 DEF c
<1>13. window = [stack \in DOMAIN window |-> window[stack]]  BY DEF WindowInv, IsABag
<1>14. Decoded(p) = [stack \in DOMAIN window |-> window[stack]]
  BY <1>11, <1>12 DEF Decoded
<1>15. QED  BY <1>13, <1>14 DEF p

\* The ids of a finished stack stand for it.
LEMMA MeantAsCalled ==
  ASSUME DecodeInv, adding, Len(ids) = Len(call)
  PROVE  ids \in Seq(Ids) /\ Meant(ids) = call
<1>1. /\ call \in Seq(Frames) /\ ids \in Seq(Nat)
      /\ \A i \in 1..Len(ids) : Denotes(ids[i], call[i])
  BY DEF DecodeInv, IdsInv
<1>2. DOMAIN ids = 1..Len(ids) /\ DOMAIN call = 1..Len(ids)
      /\ \A i \in 1..Len(ids) : call[i] \in Frames
  BY <1>1, SeqFacts
<1>3. \A i \in 1..Len(ids) : ids[i] \in Ids  BY <1>1 DEF Denotes, Ids
<1>4. ids \in Seq(Ids)
  <2> HIDE DEF Ids
  <2>1. QED  BY <1>1, <1>2, <1>3
<1>5. ASSUME NEW i \in 1..Len(ids) PROVE Stands(ids[i]) = call[i]
  <2>1. Denotes(ids[i], call[i]) /\ call[i] \in Frames  BY <1>1, <1>2
  <2>2. call[i] = [name |-> call[i].name, file |-> call[i].file, line |-> call[i].line]
    BY <2>1 DEF Frames
  <2>3. QED  BY Zenon, <2>1, <2>2 DEF Stands, Denotes
<1>6. call = [i \in 1..Len(ids) |-> call[i]]  BY <1>1, <1>2
<1>7. Meant(ids) = [i \in 1..Len(ids) |-> call[i]]  BY <1>2, <1>5 DEF Meant
<1>8. QED  BY <1>4, <1>6, <1>7

\* Counting a stack under its ids and counting it as it was is one thing.
LEMMA EndWindow == ASSUME DecodeInv, WindowInv, EndAdd PROVE WindowInv'
<1>1. /\ adding /\ Len(ids) = Len(call)
      /\ samples' = BagAdd(samples, ids) /\ window' = BagAdd(window, call)
      /\ UNCHANGED <<strings, functions, locations>>
  BY DEF EndAdd
<1>2. ids \in Seq(Ids) /\ Meant(ids) = call  BY <1>1, MeantAsCalled
<1>3. TablesInv /\ IsABag(samples) /\ IsABag(window)  BY DEF DecodeInv, WindowInv
<1>4. /\ IsABag(samples')
      /\ DOMAIN samples' = DOMAIN samples \cup {ids}
      /\ \A e \in DOMAIN samples : e # ids => samples'[e] = samples[e]
      /\ samples'[ids] = (IF ids \in DOMAIN samples THEN samples[ids] ELSE 0) + 1
  BY Zenon, <1>1, <1>3, AddIsABag
<1>5. /\ IsABag(window')
      /\ DOMAIN window' = DOMAIN window \cup {call}
      /\ \A e \in DOMAIN window : e # call => window'[e] = window[e]
      /\ window'[call] = (IF call \in DOMAIN window THEN window[call] ELSE 0) + 1
  BY Zenon, <1>1, <1>3, AddIsABag
<1>6. /\ DOMAIN samples \subseteq Seq(Ids)
      /\ DOMAIN window = {Meant(locs) : locs \in DOMAIN samples}
      /\ \A locs \in DOMAIN samples : window[Meant(locs)] = samples[locs]
  BY DEF WindowInv
<1>7. \A locs \in DOMAIN samples : Meant(locs) = call => locs = ids
  BY <1>2, <1>3, <1>6, OneListEach
<1>8. call \in DOMAIN window <=> ids \in DOMAIN samples  BY <1>2, <1>6, <1>7
<1>9. DOMAIN window' = {Meant(locs) : locs \in DOMAIN samples'}
  BY <1>2, <1>4, <1>5, <1>6
<1>10. ASSUME NEW locs \in DOMAIN samples' PROVE window'[Meant(locs)] = samples'[locs]
  <2>1. CASE locs = ids  BY <1>2, <1>4, <1>5, <1>6, <1>8, <2>1
  <2>2. CASE locs # ids
    <3>1. locs \in DOMAIN samples /\ Meant(locs) # call  BY <1>4, <1>7, <2>2
    <3>2. Meant(locs) \in DOMAIN window  BY <1>6, <3>1
    <3>3. QED  BY <1>4, <1>5, <1>6, <2>2, <3>1, <3>2
  <2>3. QED  BY <2>1, <2>2
<1>11. Ids' = Ids /\ \A locs : Meant(locs)' = Meant(locs)
  BY <1>1 DEF Ids, Meant, Stands
<1>12. DOMAIN samples' \subseteq Seq(Ids)  BY <1>2, <1>4, <1>6
<1>13. QED  BY <1>4, <1>5, <1>9, <1>10, <1>11, <1>12 DEF WindowInv

\* What one more frame puts into the tables leaves the older ids alone.
LEMMA AddWindow == ASSUME DecodeInv, WindowInv, AddFrame PROVE WindowInv'
<1>1. \A d, f : Denotes(d, f) => Denotes(d, f)'  BY AddDecode
<1>2. samples' = samples /\ window' = window  BY DEF AddFrame
<1>3. ASSUME NEW id \in Ids PROVE Denotes(id, Stands(id)) BY DEF Denotes, Stands, Ids
<1>4. ASSUME NEW id \in Ids PROVE id \in Ids' /\ Stands(id)' = Stands(id)
  <2> DEFINE s == Stands(id)
  <2>1. Denotes(id, s)  BY <1>3
  <2>2. \A f : Denotes(id, f) => /\ id \in 1..Len(locations'.list)
                                /\ locations'.list[id][2] = f.line
                                /\ strings'.list[functions'.list[locations'.list[id][1]][1] + 1]
                                     = f.name
                                /\ strings'.list[functions'.list[locations'.list[id][1]][2] + 1]
                                     = f.file
    BY Zenon, <1>1 DEF Denotes
  <2>3. s = [name |-> s.name, file |-> s.file, line |-> s.line]  BY DEF Stands
  <2> HIDE DEF s
  <2>4. /\ id \in 1..Len(locations'.list)
        /\ s = [name |-> strings'.list[functions'.list[locations'.list[id][1]][1] + 1],
                file |-> strings'.list[functions'.list[locations'.list[id][1]][2] + 1],
                line |-> locations'.list[id][2]]
    BY Zenon, <2>1, <2>2, <2>3
  <2>5. QED  BY Zenon, <2>4 DEF Ids, Stands, s
<1>5. ASSUME NEW locs \in DOMAIN samples PROVE locs \in Seq(Ids') /\ Meant(locs)' = Meant(locs)
  <2>1. locs \in Seq(Ids)  BY DEF WindowInv
  <2>2. DOMAIN locs = 1..Len(locs) /\ \A i \in DOMAIN locs : locs[i] \in Ids
    <3> HIDE DEF Ids
    <3>1. QED  BY <2>1, SeqFacts
  <2>3. \A i \in DOMAIN locs : locs[i] \in Ids' /\ Stands(locs[i])' = Stands(locs[i])
    BY Zenon, <1>4, <2>2
  <2>4. Meant(locs)' = Meant(locs)  BY <2>3 DEF Meant
  <2>5. Ids \subseteq Ids'  BY Zenon, <1>4
  <2> HIDE DEF Ids
  <2>6. locs \in Seq(Ids')  BY <2>1, <2>5
  <2>7. QED  BY <2>4, <2>6
<1>6. /\ DOMAIN samples' \subseteq Seq(Ids')
      /\ DOMAIN window' = {Meant(locs)' : locs \in DOMAIN samples'}
      /\ \A locs \in DOMAIN samples' : window'[Meant(locs)'] = samples'[locs]
  BY <1>2, <1>5 DEF WindowInv
<1>7. IsABag(samples') /\ IsABag(window')  BY <1>2 DEF WindowInv
<1>8. QED  BY <1>6, <1>7 DEF WindowInv

LEMMA EmptiedWindow == samples = EmptyBag /\ window = EmptyBag => WindowInv
<1> SUFFICES ASSUME samples = EmptyBag, window = EmptyBag PROVE WindowInv  OBVIOUS
<1>1. DOMAIN samples = {} /\ DOMAIN window = {} /\ IsABag(samples) /\ IsABag(window)
  BY EmptyIsABag
<1>2. QED  BY <1>1 DEF WindowInv

LEMMA ResetWindow == ASSUME NEW t, Reset(t) PROVE WindowInv'
<1>1. samples' = EmptyBag /\ window' = EmptyBag  BY DEF Reset
<1>2. DOMAIN samples' = {} /\ DOMAIN window' = {} /\ IsABag(samples') /\ IsABag(window')
  BY <1>1, EmptyIsABag
<1>3. QED  BY <1>2 DEF WindowInv

LEMMA InitWindow == Init => WindowInv
BY Zenon, EmptiedWindow DEF Init, BuilderInit

LEMMA SameWindow ==
  ASSUME WindowInv, UNCHANGED <<strings, functions, locations, samples, window>>
  PROVE  WindowInv'
<1>1. Ids' = Ids /\ \A locs : Meant(locs)' = Meant(locs)  BY DEF Ids, Meant, Stands
<1>2. QED  BY <1>1 DEF WindowInv

LEMMA NextWindow == DecodeInv /\ WindowInv /\ [Next]_vars => WindowInv'
<1> SUFFICES ASSUME DecodeInv, WindowInv, [Next]_vars PROVE WindowInv'  OBVIOUS
<1>1. CASE UNCHANGED builderVars  BY <1>1, SameWindow DEF builderVars
<1>2. ASSUME NEW stack \in Stacks, WriteSample(stack) PROVE WindowInv'
  BY <1>2, SameWindow DEF WriteSample, BeginAdd
<1>3. CASE WriteFrame  BY <1>3, AddWindow DEF WriteFrame
<1>4. CASE Written  BY <1>4, EndWindow DEF Written
<1>5. CASE TakeWindow  BY <1>5, ResetWindow DEF TakeWindow
<1>6. CASE Finish  BY <1>1, <1>6 DEF Finish
<1>7. CASE CheckDue  BY <1>1, <1>7 DEF CheckDue
<1>8. CASE PushNothing  BY <1>1, <1>8 DEF PushNothing
<1>9. CASE PostTimesOut  BY <1>1, <1>9 DEF PostTimesOut, PostRefused, PostEnds
<1>10. CASE Stamp  BY <1>1, <1>10 DEF Stamp
<1>11. CASE PostAccepted  BY <1>1, <1>11 DEF PostAccepted, PostEnds
<1>12. CASE PostRefused  BY <1>1, <1>12 DEF PostRefused, PostEnds
<1>13. CASE Tick  BY <1>1, <1>13 DEF Tick
<1>14. CASE UNCHANGED vars  BY <1>1, <1>14 DEF vars
<1>15. CASE \E s \in Skews : SetClock(s)  BY <1>1, <1>15 DEF SetClock
<1>16. QED
  BY <1>2, <1>3, <1>4, <1>5, <1>6, <1>7, <1>8, <1>9, <1>10, <1>11, <1>12, <1>13, <1>14, <1>15
  DEF Next, Working

(***************************************************************************)
(* The books balance                                                       *)
(***************************************************************************)

LEMMA SumIsABag ==
  ASSUME NEW A, NEW B, IsABag(A), IsABag(B)
  PROVE  IsABag(A (+) B) /\ DOMAIN (A (+) B) = DOMAIN A \cup DOMAIN B
BY DEF IsABag, (+)

LEMMA SumWithNothing == ASSUME NEW A, IsABag(A) PROVE A (+) EmptyBag = A
<1>1. /\ A (+) EmptyBag = [e \in DOMAIN A |-> A[e] + 0]
      /\ A = [e \in DOMAIN A |-> A[e]]
      /\ \A e \in DOMAIN A : A[e] \in Nat
  BY EmptyIsABag DEF IsABag, (+)
<1>2. QED  BY <1>1

\* What is moved from the last to the first or second of three bags stays in the sum.
LEMMA SumMoved ==
  ASSUME NEW A, NEW B, NEW C, IsABag(A), IsABag(B), IsABag(C)
  PROVE  /\ (A (+) B) (+) C = (A (+) C) (+) B
         /\ (A (+) B) (+) C = A (+) (B (+) C)
<1> DEFINE n(X, e) == IF e \in DOMAIN X THEN X[e] ELSE 0
           all == DOMAIN A \cup DOMAIN B \cup DOMAIN C
<1>1. \A e : n(A, e) \in Nat /\ n(B, e) \in Nat /\ n(C, e) \in Nat  BY DEF IsABag
<1>2. (A (+) B) (+) C = [e \in all |-> (n(A, e) + n(B, e)) + n(C, e)]
  BY <1>1 DEF (+)
<1>3. (A (+) C) (+) B = [e \in all |-> (n(A, e) + n(C, e)) + n(B, e)]
  BY <1>1 DEF (+)
<1>4. A (+) (B (+) C) = [e \in all |-> n(A, e) + (n(B, e) + n(C, e))]
  BY <1>1 DEF (+)
<1> HIDE DEF n
<1>5. \A e : /\ (n(A, e) + n(B, e)) + n(C, e) = (n(A, e) + n(C, e)) + n(B, e)
             /\ (n(A, e) + n(B, e)) + n(C, e) = n(A, e) + (n(B, e) + n(C, e))
  BY <1>1
<1>6. QED  BY <1>2, <1>3, <1>4, <1>5

LEMMA SumAdd ==
  ASSUME NEW A, NEW B, IsABag(A), IsABag(B), NEW x
  PROVE  BagAdd(A (+) B, x) = A (+) BagAdd(B, x)
<1> DEFINE n(X, e) == IF e \in DOMAIN X THEN X[e] ELSE 0
           all == DOMAIN A \cup DOMAIN B \cup {x}
<1>1. \A e : n(A, e) \in Nat /\ n(B, e) \in Nat  BY DEF IsABag
<1>2. BagAdd(A (+) B, x) = [e \in all |-> IF e = x THEN (n(A, e) + n(B, e)) + 1
                                                   ELSE n(A, e) + n(B, e)]
  <2> DEFINE sum == A (+) B
  <2>1. sum = [e \in DOMAIN A \cup DOMAIN B |-> n(A, e) + n(B, e)]  BY DEF (+)
  <2>2. x \notin DOMAIN A \cup DOMAIN B => n(A, x) = 0 /\ n(B, x) = 0  OBVIOUS
  <2> HIDE DEF sum, n
  <2>3. BagAdd(sum, x) = [e \in all |-> IF e = x THEN (n(A, e) + n(B, e)) + 1
                                                 ELSE n(A, e) + n(B, e)]
    <3>1. DOMAIN sum = DOMAIN A \cup DOMAIN B
          /\ \A e \in DOMAIN sum : sum[e] = n(A, e) + n(B, e)
      BY <2>1
    <3>2. CASE x \in DOMAIN sum
      <4>1. all = DOMAIN sum  BY <3>1, <3>2
      <4>2. BagAdd(sum, x) = [e \in DOMAIN sum |-> IF e = x THEN sum[e] + 1 ELSE sum[e]]
        BY <3>2 DEF BagAdd
      <4> HIDE DEF all
      <4>3. QED  BY Zenon, <3>1, <4>1, <4>2
    <3>3. CASE x \notin DOMAIN sum
      <4>1. all = DOMAIN sum \cup {x} /\ (n(A, x) + n(B, x)) + 1 = 1
        BY <2>2, <3>1, <3>3
      <4>2. BagAdd(sum, x) = [e \in DOMAIN sum \cup {x} |-> IF e = x THEN 1 ELSE sum[e]]
        BY <3>3 DEF BagAdd
      <4>3. \A e \in DOMAIN sum \cup {x} : e # x => sum[e] = n(A, e) + n(B, e)
        BY <3>1
      <4> HIDE DEF all
      <4>4. QED  BY Zenon, <4>1, <4>2, <4>3
    <3>4. QED  BY <3>2, <3>3
  <2>4. QED  BY <2>3 DEF sum
<1>3. A (+) BagAdd(B, x) = [e \in all |-> IF e = x THEN n(A, e) + (n(B, e) + 1)
                                                   ELSE n(A, e) + n(B, e)]
  BY <1>1 DEF (+), BagAdd
<1> HIDE DEF n
<1>4. \A e : (n(A, e) + n(B, e)) + 1 = n(A, e) + (n(B, e) + 1)  BY <1>1
<1>5. QED  BY <1>2, <1>3, <1>4

\* Every stack that was written is with the server, or failed with a POST, or in the
\* window, or, while it is POSTed, in the profile that was taken from the window. After
\* that the window is empty until the next sample.
BooksInv ==
  /\ IsABag(accepted) /\ IsABag(failed)
  /\ pc # "post" => written = (accepted (+) failed) (+) window
  /\ pc = "post" => /\ IsABag(Decoded(body))
                    /\ written = (accepted (+) failed) (+) Decoded(body)
  /\ pc \in {"post", "stamp", "done"} => window = EmptyBag

LEMMA PostBooks ==
  ASSUME BooksInv, PostEnds, window' = window,
         \/ accepted' = accepted (+) Decoded(body) /\ failed' = failed
         \/ failed' = failed (+) Decoded(body) /\ accepted' = accepted
  PROVE  BooksInv'
<1> DEFINE D == Decoded(body)
<1>1. /\ pc = "post" /\ pc' = "stamp" /\ written' = written /\ window' = EmptyBag
      /\ IsABag(accepted) /\ IsABag(failed) /\ IsABag(D)
      /\ written = (accepted (+) failed) (+) D
  BY DEF PostEnds, BooksInv
<1> HIDE DEF D
<1>2. /\ IsABag(accepted') /\ IsABag(failed')
      /\ written = accepted' (+) failed'
  <2>1. CASE accepted' = accepted (+) D /\ failed' = failed
    <3>1. IsABag(accepted (+) D)  BY Zenon, <1>1, SumIsABag
    <3>2. (accepted (+) failed) (+) D = (accepted (+) D) (+) failed  BY <1>1, SumMoved
    <3>3. QED  BY <1>1, <2>1, <3>1, <3>2
  <2>2. CASE failed' = failed (+) D /\ accepted' = accepted
    <3>1. IsABag(failed (+) D)  BY Zenon, <1>1, SumIsABag
    <3>2. (accepted (+) failed) (+) D = accepted (+) (failed (+) D)  BY <1>1, SumMoved
    <3>3. QED  BY <1>1, <2>2, <3>1, <3>2
  <2>3. QED  BY <2>1, <2>2 DEF D
<1>3. IsABag(accepted' (+) failed')  BY Zenon, <1>2, SumIsABag
<1>4. written' = (accepted' (+) failed') (+) window'
  BY Zenon, <1>1, <1>2, <1>3, SumWithNothing
<1>5. QED  BY <1>1, <1>2, <1>4 DEF BooksInv

LEMMA NextBooks == ClockInv /\ DecodeInv /\ WindowInv /\ BooksInv /\ [Next]_vars => BooksInv'
<1> SUFFICES ASSUME ClockInv, DecodeInv, WindowInv, BooksInv, [Next]_vars PROVE BooksInv'
  OBVIOUS
<1>1. ASSUME UNCHANGED <<written, accepted, failed, window>>, pc # "post", pc' # "post",
             pc' \in {"stamp", "done"} => pc \in {"post", "stamp", "done"}
      PROVE  BooksInv'
  BY <1>1 DEF BooksInv
<1>2. CASE UNCHANGED <<written, accepted, failed, window, pc, body>>  BY <1>2 DEF BooksInv
<1>3. ASSUME NEW stack \in Stacks, WriteSample(stack) PROVE BooksInv'
  BY <1>1, <1>3 DEF WriteSample, BeginAdd, bookVars
<1>4. CASE WriteFrame  BY <1>2, <1>4 DEF WriteFrame, AddFrame, bookVars, sinkVars
<1>5. CASE Written
  <2>1. /\ pc = "add" /\ pc' = "check" /\ UNCHANGED <<accepted, failed>>
        /\ written' = BagAdd(written, call) /\ window' = BagAdd(window, call)
    BY <1>5 DEF Written, EndAdd
  <2>2. /\ IsABag(accepted (+) failed) /\ IsABag(window)
        /\ written = (accepted (+) failed) (+) window
    BY <2>1, SumIsABag DEF BooksInv, WindowInv
  <2> DEFINE sum == accepted (+) failed
  <2> HIDE DEF sum
  <2>5. IsABag(sum) /\ IsABag(window) /\ written = sum (+) window  BY <2>2 DEF sum
  <2>6. BagAdd(sum (+) window, call) = sum (+) BagAdd(window, call)  BY <2>5, SumAdd
  <2>3. written' = (accepted (+) failed) (+) window'  BY Zenon, <2>1, <2>5, <2>6 DEF sum
  <2>4. QED  BY <2>1, <2>3 DEF BooksInv
<1>6. CASE CheckDue  BY <1>1, <1>6 DEF CheckDue, builderVars, bookVars
<1>7. CASE PushNothing
  <2>1. DOMAIN window = {}  BY <1>7, EmptyIsABag DEF PushNothing, WindowInv
  <2>2. window = EmptyBag  BY <2>1, NothingIn DEF WindowInv
  <2>3. /\ pc = "push" /\ pc' \in {"done", "idle"}
        /\ UNCHANGED <<written, accepted, failed, window>>
    BY <1>7 DEF PushNothing, Return, builderVars, bookVars
  <2>4. QED  BY <2>2, <2>3 DEF BooksInv
<1>8. CASE TakeWindow
  <2>1. /\ pc = "push" /\ pc' = "post" /\ UNCHANGED <<written, accepted, failed>>
        /\ body' = Profile(wall) /\ window' = EmptyBag
    BY <1>8 DEF TakeWindow, Reset
  <2>2. Decoded(Profile(wall)) = window  BY WindowDecoded
  <2>3. Decoded(body') = window  BY <2>1, <2>2
  <2>4. QED  BY <2>1, <2>3 DEF BooksInv, WindowInv
<1>9. CASE Finish  BY <1>1, <1>9 DEF Finish, builderVars, bookVars
<1>10. CASE PostAccepted  BY <1>10, PostBooks DEF PostAccepted, PostEnds, builderVars
<1>11. CASE PostRefused  BY <1>11, PostBooks DEF PostRefused, PostEnds, builderVars
<1>12. CASE PostTimesOut  BY <1>11, <1>12 DEF PostTimesOut
<1>13. CASE Stamp
  <2>1. /\ pc = "stamp" /\ pc' \in {"done", "idle"}
        /\ UNCHANGED <<written, accepted, failed, window>>
    BY <1>13 DEF Stamp, Return, builderVars, bookVars
  <2>2. QED  BY <1>1, <2>1
<1>14. CASE Tick  BY <1>2, <1>14 DEF Tick, builderVars, bookVars, sinkVars
<1>15. CASE UNCHANGED vars  BY <1>2, <1>15 DEF vars, builderVars, bookVars, sinkVars
<1>16. CASE \E s \in Skews : SetClock(s)  BY <1>2, <1>16 DEF SetClock, builderVars, sinkVars
<1>17. QED
  BY <1>3, <1>4, <1>5, <1>6, <1>7, <1>8, <1>9, <1>10, <1>11, <1>12, <1>13, <1>14, <1>15, <1>16
  DEF Next, Working

LEMMA InitBooks == Init => BooksInv
<1> SUFFICES ASSUME Init PROVE BooksInv  OBVIOUS
<1>1. /\ pc = "idle" /\ window = EmptyBag
      /\ written = EmptyBag /\ accepted = EmptyBag /\ failed = EmptyBag
  BY Zenon DEF Init, BuilderInit
<1>2. (EmptyBag (+) EmptyBag) (+) EmptyBag = EmptyBag
  BY Zenon, EmptyIsABag, SumWithNothing
<1>3. QED  BY <1>1, <1>2, EmptyIsABag DEF BooksInv

\* Between two calls each stack written is in exactly one place, as often as it was
\* written: decoded from what the server took, in what failed, or decoded from the
\* window. No name, function or location of one window answers for another's.
THEOREM NothingLostOrCountedTwice == Spec => []AllAccountedFor
<1>1. DecodeInv /\ WindowInv /\ BooksInv => AllAccountedFor
  BY WindowDecoded DEF BooksInv, AllAccountedFor
<1>2. QED
  BY InitClock, NextClock, InitDecode, NextDecode, InitWindow, NextWindow,
     InitBooks, NextBooks, <1>1, PTL DEF Spec

\* After finish() the window holds nothing: all that no POST failed for is with the
\* server.
THEOREM FinishLeavesNothing == Spec => []FinishFlushes
<1>1. ASSUME BooksInv, pc = "done" PROVE written = accepted (+) failed
  <2>1. IsABag(accepted (+) failed)  BY <1>1, SumIsABag DEF BooksInv
  <2>2. written = (accepted (+) failed) (+) EmptyBag  BY <1>1 DEF BooksInv
  <2>3. QED  BY Zenon, <2>1, <2>2, SumWithNothing
<1>2. BooksInv => FinishFlushes  BY <1>1 DEF FinishFlushes
<1>3. QED
  BY InitClock, NextClock, InitDecode, NextDecode, InitWindow, NextWindow,
     InitBooks, NextBooks, <1>2, PTL DEF Spec

(***************************************************************************)
(* Types                                                                   *)
(***************************************************************************)

\* Besides the clock, the tables and the books: the bounds, and that all stacks anywhere
\* are stacks that were sampled.
TypeInv ==
  /\ now \in 0..MaxTime /\ waited \in 0..Timeout
  /\ adding \in BOOLEAN
  /\ call \in Stacks \cup {<< >>} /\ (adding => call \in Stacks)
  /\ DOMAIN accepted \subseteq Stacks /\ DOMAIN failed \subseteq Stacks
  /\ DOMAIN window \subseteq Stacks
  /\ pc = "post" => DOMAIN Decoded(body) \subseteq Stacks

LEMMA KnownIn ==
  ASSUME NEW S, NEW table, NEW base, Coherent(table, S, base) PROVE DOMAIN table.key \subseteq S
<1> SUFFICES ASSUME NEW e \in DOMAIN table.key PROVE e \in S  OBVIOUS
<1> DEFINE at == table.key[e] + 1 - base
<1>1. at \in 1..Len(table.list) /\ table.list[at] = e  BY DEF Coherent
<1> HIDE DEF at
<1>2. QED  BY <1>1, CoherentFacts

LEMMA PostTypes ==
  ASSUME BooksInv, TypeInv, PostEnds, UNCHANGED <<builderVars, clockVars>>,
         \/ accepted' = accepted (+) Decoded(body) /\ failed' = failed
         \/ failed' = failed (+) Decoded(body) /\ accepted' = accepted
  PROVE  TypeInv'
<1> DEFINE D == Decoded(body)
<1>1. /\ IsABag(accepted) /\ IsABag(failed) /\ IsABag(D) /\ DOMAIN D \subseteq Stacks
      /\ pc' = "stamp"
  BY DEF PostEnds, BooksInv, TypeInv
<1> HIDE DEF D
<1>2. /\ DOMAIN (accepted (+) D) = DOMAIN accepted \cup DOMAIN D
      /\ DOMAIN (failed (+) D) = DOMAIN failed \cup DOMAIN D
  BY Zenon, <1>1, SumIsABag
<1>3. DOMAIN accepted' \subseteq Stacks /\ DOMAIN failed' \subseteq Stacks
  <2>1. CASE accepted' = accepted (+) D /\ failed' = failed
    BY <1>1, <1>2, <2>1 DEF TypeInv
  <2>2. CASE failed' = failed (+) D /\ accepted' = accepted
    BY <1>1, <1>2, <2>2 DEF TypeInv
  <2>3. QED  BY <2>1, <2>2 DEF D
<1>4. QED  BY <1>1, <1>3 DEF TypeInv, builderVars, clockVars

LEMMA NextType ==
  DecodeInv /\ WindowInv /\ BooksInv /\ TypeInv /\ [Next]_vars => TypeInv'
<1> SUFFICES ASSUME DecodeInv, WindowInv, BooksInv, TypeInv, [Next]_vars PROVE TypeInv'
  OBVIOUS
<1>1. ASSUME UNCHANGED <<accepted, failed, window, now, waited, adding, call>>,
             pc' # "post" \/ UNCHANGED <<pc, body>>
      PROVE  TypeInv'
  BY <1>1 DEF TypeInv
<1>2. ASSUME NEW stack \in Stacks, WriteSample(stack) PROVE TypeInv'
  BY <1>2 DEF WriteSample, BeginAdd, TypeInv, clockVars, bookVars
<1>3. CASE WriteFrame
  BY <1>1, <1>3 DEF WriteFrame, AddFrame, sinkVars, clockVars, bookVars
<1>4. CASE Written
  <2>1. /\ adding /\ adding' = FALSE /\ call' = << >> /\ pc' = "check"
        /\ window' = BagAdd(window, call)
        /\ UNCHANGED <<accepted, failed, now, waited>>
    BY <1>4 DEF Written, EndAdd, clockVars
  <2>2. DOMAIN window' = DOMAIN window \cup {call}
    BY <2>1, AddIsABag DEF WindowInv
  <2>3. QED  BY <2>1, <2>2 DEF TypeInv
<1>5. CASE CheckDue  BY <1>1, <1>5 DEF CheckDue, builderVars, clockVars, bookVars
<1>6. CASE PushNothing
  BY <1>1, <1>6 DEF PushNothing, Return, builderVars, clockVars, bookVars
<1>7. CASE TakeWindow
  <2>1. /\ pc' = "post" /\ body' = Profile(wall) /\ window' = EmptyBag /\ waited' = 0
        /\ UNCHANGED <<accepted, failed, now, adding, call>>
    BY <1>7 DEF TakeWindow, Reset
  <2>2. Decoded(Profile(wall)) = window  BY WindowDecoded
  <2>3. Decoded(body') = window  BY <2>1, <2>2
  <2>4. DOMAIN window' = {} /\ 0 \in 0..Timeout  BY <2>1, EmptyIsABag
  <2>5. QED  BY <2>1, <2>3, <2>4 DEF TypeInv
<1>8. CASE Finish  BY <1>1, <1>8 DEF Finish, builderVars, clockVars, bookVars
<1>9. CASE PostAccepted  BY <1>9, PostTypes DEF PostAccepted, PostEnds
<1>10. CASE PostRefused  BY <1>10, PostTypes DEF PostRefused, PostEnds
<1>11. CASE PostTimesOut  BY <1>10, <1>11 DEF PostTimesOut
<1>12. CASE Stamp  BY <1>1, <1>12 DEF Stamp, Return, builderVars, clockVars, bookVars
<1>13. CASE Tick
  <2>1. now' \in 0..MaxTime /\ waited' \in 0..Timeout  BY <1>13 DEF Tick, TypeInv
  <2>2. QED  BY <1>13, <2>1 DEF Tick, TypeInv, builderVars, sinkVars, bookVars
<1>14. CASE UNCHANGED vars
  BY <1>1, <1>14 DEF vars, builderVars, sinkVars, clockVars, bookVars
<1>15. CASE \E s \in Skews : SetClock(s)  BY <1>1, <1>15 DEF SetClock, builderVars, sinkVars
<1>16. QED
  BY <1>2, <1>3, <1>4, <1>5, <1>6, <1>7, <1>8, <1>9, <1>10, <1>11, <1>12, <1>13, <1>14, <1>15
  DEF Next, Working

\* The state of the sink and its builder stays well typed, whatever is sampled and
\* whatever the server answers: no id given to a frame lies outside the location table.
THEOREM TypeCorrect == Spec => []TypeOK
<1>1. Init => TypeInv
  <2> SUFFICES ASSUME Init PROVE TypeInv  OBVIOUS
  <2>1. /\ pc = "idle" /\ now = 0 /\ waited = 0 /\ adding \in BOOLEAN /\ ~adding
        /\ call = << >> /\ accepted = EmptyBag /\ failed = EmptyBag /\ window = EmptyBag
    BY Zenon DEF Init, BuilderInit
  <2>2. QED  BY <2>1, EmptyIsABag DEF TypeInv
<1>2. ClockInv /\ DecodeInv /\ WindowInv /\ BooksInv /\ TypeInv => TypeOK
  <2> SUFFICES ASSUME ClockInv, DecodeInv, WindowInv, BooksInv, TypeInv PROVE TypeOK
    OBVIOUS
  <2>1. IsABag(written) /\ DOMAIN written \subseteq Stacks
    <3> DEFINE rest == IF pc = "post" THEN Decoded(body) ELSE window
               sum == accepted (+) failed
    <3>1. /\ IsABag(rest) /\ DOMAIN rest \subseteq Stacks /\ written = sum (+) rest
      BY DEF BooksInv, WindowInv, TypeInv
    <3>2. IsABag(sum) /\ DOMAIN sum = DOMAIN accepted \cup DOMAIN failed
      BY SumIsABag DEF BooksInv
    <3> HIDE DEF rest, sum
    <3>3. IsABag(sum (+) rest) /\ DOMAIN (sum (+) rest) = DOMAIN sum \cup DOMAIN rest
      BY <3>1, <3>2, SumIsABag
    <3>4. QED  BY <3>1, <3>2, <3>3 DEF TypeInv
  <2>2. strings.list \in Seq(Strings) /\ DOMAIN strings.key \subseteq Strings
    <3>1. Coherent(strings, Strings, 0)  BY DEF DecodeInv, TablesInv
    <3>2. DOMAIN strings.key \subseteq Strings  BY <3>1, KnownIn
    <3>3. QED  BY <3>1, <3>2 DEF Coherent
  <2>3. ASSUME adding, NEW i \in DOMAIN ids PROVE ids[i] \in 1..Len(locations.list)
    <3>1. IdsInv  BY DEF DecodeInv
    <3>2. ids \in Seq(Nat)  BY <2>3, <3>1 DEF IdsInv
    <3>3. i \in 1..Len(ids)  BY <3>2, SeqFacts
    <3>4. Denotes(ids[i], call[i])  BY Zenon, <2>3, <3>1, <3>3 DEF IdsInv
    <3>5. QED  BY Zenon, <3>4 DEF Denotes
  <2>4. /\ pc \in Pcs
        /\ {finishing, adding, set} \subseteq BOOLEAN
        /\ now \in 0..MaxTime
        /\ {last_push, opened, ended} \subseteq 0..now
        /\ skew \in Skews \cup {0} /\ window_start \in Int
        /\ waited \in 0..Timeout
        /\ call \in Stacks \cup {<< >>}
    BY DEF ClockInv, TypeInv
  <2>5. \A bag \in {written, accepted, failed, window} :
          IsABag(bag) /\ DOMAIN bag \subseteq Stacks
    BY <2>1 DEF BooksInv, WindowInv, TypeInv
  <2>6. QED  BY <2>2, <2>3, <2>4, <2>5 DEF TypeOK, Pcs, WindowInv
<1>3. QED
  BY InitClock, NextClock, InitDecode, NextDecode, InitWindow, NextWindow,
     InitBooks, NextBooks, NextType, <1>1, <1>2, PTL DEF Spec
=============================================================================
