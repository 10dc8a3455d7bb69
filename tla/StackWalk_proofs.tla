-------------------------- MODULE StackWalk_proofs --------------------------
(***************************************************************************)
(* What the walker may claim about a target it does not stop, for every    *)
(* number of frames, strings and moves of the target.                      *)
(***************************************************************************)
EXTENDS StackWalk, FiniteSetTheorems, WellFoundedInduction, TLAPS

USE PointersAssumption, GarbageAssumption, BoundsAssumption

LEMMA SeqFacts ==
  ASSUME NEW S, NEW s \in Seq(S)
  PROVE  /\ Len(s) \in Nat
         /\ \A i \in 1..Len(s) : s[i] \in S
         /\ \A e \in S : /\ Append(s, e) \in Seq(S)
                         /\ Len(Append(s, e)) = Len(s) + 1
                         /\ \A i \in 1..Len(s) : Append(s, e)[i] = s[i]
                         /\ Append(s, e)[Len(s) + 1] = e
         /\ \A n \in 0..Len(s) : /\ SubSeq(s, 1, n) \in Seq(S)
                                 /\ Len(SubSeq(s, 1, n)) = n
                                 /\ \A i \in 1..n : SubSeq(s, 1, n)[i] = s[i]
OBVIOUS

LEMMA InItself == ASSUME NEW S, NEW s \in Seq(S) PROVE s \in Seq(On(s))
<1>1. \A i \in 1..Len(s) : s[i] \in On(s)  BY DEF On
<1> QED  BY <1>1

LEMMA FrontFacts ==
  ASSUME NEW S, NEW s \in Seq(S), s # <<>>
  PROVE  LET t == SubSeq(s, 1, Len(s) - 1) IN
           t \in Seq(S) /\ Len(t) = Len(s) - 1 /\ \A i \in 1..Len(t) : t[i] = s[i]
<1> DEFINE n == Len(s) - 1
<1>1. n \in 0..Len(s)  OBVIOUS
<1> HIDE DEF n
<1>2. SubSeq(s, 1, n) \in Seq(S) /\ Len(SubSeq(s, 1, n)) = n
      /\ \A i \in 1..n : SubSeq(s, 1, n)[i] = s[i]
  BY <1>1, SeqFacts
<1> QED  BY <1>2 DEF n

(***************************************************************************)
(* Types and bounds                                                        *)
(***************************************************************************)

\* The VM's stack is linked: every frame's caller is the one below it.
Linked ==
  \A i \in 1..Len(stack) :
    /\ slot[stack[i]] \in Frames
    /\ slot[stack[i]].prev = IF i = 1 THEN Null ELSE stack[i - 1]

Named(f) == {s \in Strings : Function[f].name[s] \in Addrs}

\* The frame being read is the newest of the trail and there is room for it;
\* what it wants to resolve are strings.
Resolving ==
  /\ Len(trail) = Len(frames) + IF pc \in {"function", "name", "value"} THEN 1 ELSE 0
  /\ pc \in {"function", "name", "value"} => Len(frames) < MaxDepth /\ local.held.func # Null
  /\ pc \in {"name", "value"} =>
       /\ local.held.func \in Funcs
       /\ local.want \in Seq(Named(local.held.func))
  /\ pc = "value" => local.want # <<>> /\ local.memo \in Names

\* The answers are those to the first of the Vars.
Asked ==
  /\ meta \in Seq(On(meta))
  /\ Len(meta) <= Len(Vars)
  /\ pc \in {"server", "var"} => Len(meta) < Len(Vars)
  /\ pc \notin {"server", "var", "write"} => meta = <<>>

TypeInv == TypeOK /\ Linked /\ Resolving /\ Asked /\ IsFiniteSet(DOMAIN cache)

LEMMA AskingOnly ==
  ReadServer \/ ReadVar =>
    /\ pc \in {"server", "var"} /\ pc' \in {"server", "var", "write"}
    /\ UNCHANGED <<target, ex, local, frames, cache, trail, clean, touched>>
    /\ UNCHANGED <<seen, moves, stale>>
BY DEF ReadServer, ReadVar, Answer

LEMMA AskedKept ==
  Asked /\ UNCHANGED <<meta, pc>> => Asked'
BY DEF Asked, On

LEMMA AskedNot ==
  Asked /\ pc \notin {"server", "var", "write"} /\ UNCHANGED meta => Asked'
<1> SUFFICES ASSUME Asked, pc \notin {"server", "var", "write"}, UNCHANGED meta PROVE Asked'
  OBVIOUS
<1>1. meta = <<>> /\ meta' = <<>>  BY DEF Asked
<1>2. meta' \in Seq(On(meta'))  BY <1>1
<1>3. Len(meta') = 0 /\ Len(Vars) = 2  BY <1>1 DEF Vars
<1> QED  BY <1>1, <1>2, <1>3 DEF Asked

LEMMA OneMoreAnswer ==
  ASSUME Asked, pc \in {"server", "var"}, NEW value, Answer(value)
  PROVE  /\ Asked'
         /\ Len(meta) \in {0, 1} /\ Len(meta') = Len(meta) + 1
         /\ \A i \in 1..Len(meta) : meta'[i] = meta[i]
         /\ meta'[Len(meta) + 1] = value
         /\ pc' = IF Len(meta') = Len(Vars) THEN "write" ELSE "server"
<1> DEFINE S == On(meta)
<1>1. meta \in Seq(S) /\ Len(meta) < 2 /\ Len(Vars) = 2  BY DEF Asked, Vars
<1>2. meta' = Append(meta, value)
      /\ pc' = IF Len(meta') = Len(Vars) THEN "write" ELSE "server"
  BY DEF Answer
<1> DEFINE T == S \cup {value}
<1>3. meta \in Seq(T)  BY <1>1
<1> HIDE DEF S, T
<1>4. /\ meta' \in Seq(T) /\ Len(meta') = Len(meta) + 1 /\ Len(meta) \in Nat
      /\ \A i \in 1..Len(meta) : meta'[i] = meta[i]
      /\ meta'[Len(meta) + 1] = value
  <2>1. value \in T  BY DEF T
  <2> QED  BY <1>2, <1>3, <2>1, SeqFacts
<1>5. meta' \in Seq(On(meta'))  BY <1>4, InItself
<1>6. Len(meta) \in {0, 1} /\ Len(meta') <= 2
  <2> DEFINE n == Len(meta)
  <2>1. n \in Nat /\ n < 2 /\ Len(meta') = n + 1  BY <1>1, <1>4
  <2> HIDE DEF n
  <2>2. n \in {0, 1} /\ Len(meta') <= 2  BY <2>1
  <2> QED  BY <2>2 DEF n
<1>7. pc' \in {"server", "write"} /\ (pc' = "server" => Len(meta') < Len(Vars))
  BY <1>1, <1>2, <1>4, <1>6
<1>8. Asked'  BY <1>1, <1>5, <1>6, <1>7 DEF Asked
<1> QED  BY <1>2, <1>4, <1>6, <1>8

LEMMA TopType == ASSUME NEW s \in Seq(Slots) PROVE Top(s) \in Slots \cup {Null}
BY DEF Top

LEMMA UnknownType == Unknown \in Frame /\ NoLocals.part \in Frame
BY DEF Unknown, NoName, NoLocals, Frame, Strings

LEMMA NoLocalsType ==
  NoLocals \in [held : ExecuteData, want : Seq(Strings), part : Frame,
                memo : Names \cup {Null}]
BY UnknownType DEF NoLocals, ExecuteData

LEMMA InitType == Init => TypeInv
<1> SUFFICES ASSUME Init PROVE TypeInv  OBVIOUS
<1> USE DEF Init, TypeInv, TypeOK
<1>1. cache \in [{} -> Texts \cup {Torn}] /\ DOMAIN cache = {}  OBVIOUS
<1>2. cache \in UNION {[A -> Texts \cup {Torn}] : A \in SUBSET Addrs}  BY <1>1
<1>3. IsFiniteSet(DOMAIN cache) /\ Cardinality(DOMAIN cache) = 0
  BY <1>1, FS_EmptySet
<1>4. Bounded  BY <1>3 DEF Bounded
<1>5. Linked /\ Resolving  BY DEF Linked, Resolving
<1>8. Asked
  <2>1. meta = <<>> /\ pc = "idle" /\ Len(meta) = 0 /\ Len(Vars) = 2  BY DEF Vars
  <2>2. meta \in Seq(On(meta))  BY <2>1
  <2> QED  BY <2>1, <2>2 DEF Asked
<1>6. /\ stack \in Seq(Slots) /\ frames \in Seq(Frame) /\ trail \in Seq(Places)
      /\ slot \in [Slots -> Frames \cup {Junk}] /\ text \in [Addrs -> Names]
  OBVIOUS
<1>7. moves \in 0..MaxMoves /\ pc \in {"idle", "frame", "function", "name", "value",
        "server", "var", "write", "error"}
  OBVIOUS
<1>9. Len(meta) <= Len(Vars)  BY <1>8 DEF Asked
<1> QED  BY <1>2, <1>3, <1>4, <1>5, <1>6, <1>7, <1>8, <1>9, NoLocalsType

LEMMA CaptureType == TypeInv /\ CaptureStack => TypeInv'
<1> SUFFICES ASSUME TypeInv, CaptureStack PROVE TypeInv'  OBVIOUS
<1> USE DEF TypeInv, TypeOK, CaptureStack, target
<1>1. ex' \in Slots \cup {Null}  BY TopType
<1>2. seen' \subseteq Places
  <2> SUFFICES ASSUME NEW i \in 1..Len(stack) PROVE At(stack[i], slot[stack[i]]) \in Places
    BY DEF On
  <2> QED  BY DEF Frames, Places, At, Linked
<1>3. Linked'  BY DEF Linked
<1>4. Asked' /\ Len(meta') <= Len(Vars)  BY AskedNot
<1> QED  BY <1>1, <1>2, <1>3, <1>4 DEF Resolving, Bounded

LEMMA ReadExecuteDataType == TypeInv /\ ReadExecuteData => TypeInv'
<1> SUFFICES ASSUME TypeInv, ReadExecuteData PROVE TypeInv'  OBVIOUS
<1> USE DEF TypeInv, TypeOK, target
<1>1. PICK held \in IF slot[ex] = Junk THEN Garbage ELSE {slot[ex]} :
        /\ trail' = Append(trail, At(ex, held))
        /\ IF held.func = Null
           THEN /\ frames' = Append(frames, Unknown)
                /\ ex' = held.prev
                /\ UNCHANGED <<pc, local>>
           ELSE /\ pc' = "function"
                /\ local' = [NoLocals EXCEPT !.held = held]
                /\ UNCHANGED <<frames, ex>>
  BY DEF ReadExecuteData
<1>2. ex \in Slots /\ Len(frames) < MaxDepth /\ pc = "frame"
  BY DEF ReadExecuteData, WalkOver, Bounded
<1>3. held \in ExecuteData  BY <1>1, <1>2 DEF Frames, ExecuteData
<1>4. At(ex, held) \in Places  BY <1>2, <1>3 DEF At, Places, ExecuteData
<1>5. trail' \in Seq(Places)  BY <1>1, <1>4, SeqFacts
<1>6. /\ frames' \in Seq(Frame) /\ Len(frames') <= MaxDepth
      /\ held.func # Null => Len(frames') < MaxDepth
  <2>1. CASE held.func = Null
    <3>1. frames' = Append(frames, Unknown)  BY <1>1, <2>1
    <3>2. frames' \in Seq(Frame) /\ Len(frames') = Len(frames) + 1
      BY <3>1, UnknownType, SeqFacts
    <3> QED  BY <1>2, <2>1, <3>2
  <2>2. CASE held.func # Null  BY <1>1, <1>2, <2>2
  <2> QED  BY <2>1, <2>2
<1>7. /\ local' \in [held : ExecuteData, want : Seq(Strings), part : Frame,
                     memo : Names \cup {Null}]
      /\ held.func # Null => local'.held = held
  BY <1>1, <1>3, NoLocalsType DEF NoLocals
<1>8. ex' \in Slots \cup {Null, Wild}  BY <1>1, <1>2, <1>3 DEF ExecuteData
<1>9. clean' \in BOOLEAN  BY DEF ReadExecuteData
<1>10. Resolving'
  <2>1. Len(trail') = Len(frames) + 1  BY <1>1, <1>2, <1>4, SeqFacts DEF Resolving
  <2>2. CASE held.func = Null
    <3>1. Len(frames') = Len(frames) + 1 /\ pc' = "frame"
      BY <1>1, <1>2, <2>2, UnknownType, SeqFacts
    <3> QED  BY <1>6, <2>1, <3>1 DEF Resolving
  <2>3. CASE held.func # Null
    <3>1. frames' = frames /\ pc' = "function"  BY <1>1, <2>3
    <3> QED  BY <1>6, <1>7, <2>1, <2>3, <3>1 DEF Resolving
  <2> QED  BY <2>2, <2>3
<1>11. Linked'  BY DEF Linked, ReadExecuteData
<1>12. Bounded'  BY <1>6 DEF Bounded, ReadExecuteData
<1>13. Asked' /\ Len(meta') <= Len(Vars)  BY <1>2, AskedNot DEF ReadExecuteData
<1> QED
  BY <1>1, <1>2, <1>5, <1>6, <1>7, <1>8, <1>9, <1>10, <1>11, <1>12, <1>13
  DEF ReadExecuteData

LEMMA WantType ==
  ASSUME NEW f \in Funcs, NEW s \in Strings
  PROVE  Want(Function[f], s) \in Seq(Named(f))
<1>1. CASE Function[f].name[s] # Null
  <2>1. Function[f].name[s] \in Addrs \cup {Null}  BY FunctionAssumption
  <2>2. s \in Named(f)  BY <1>1, <2>1 DEF Named
  <2> QED  BY <2>2 DEF Want
<1>2. CASE Function[f].name[s] = Null  BY <1>2 DEF Want
<1> QED  BY <1>1, <1>2

LEMMA SeqSubset ==
  ASSUME NEW S, NEW T, S \subseteq T, NEW s \in Seq(S) PROVE s \in Seq(T)
OBVIOUS

LEMMA ReadFunctionType == TypeInv /\ ReadFunction => TypeInv'
<1> SUFFICES ASSUME TypeInv, ReadFunction PROVE TypeInv'  OBVIOUS
<1> USE DEF TypeInv, TypeOK, target
<1> DEFINE f == local.held.func
<1> DEFINE want == Want(Function[f], "function") \o Want(Function[f], "class")
                     \o Want(Function[f], "file")
<1> DEFINE part == [NoName EXCEPT !["function"] = "{main}",
                      !["file"] = IF Function[f].type = "internal" THEN "<internal>"
                                         ELSE Null]
<1>1. f \in Funcs /\ pc = "function"
  BY DEF ReadFunction, ExecuteData, Resolving
<1>2. want \in Seq(Named(f)) /\ want \in Seq(Strings)
  <2>1. "function" \in Strings /\ "class" \in Strings /\ "file" \in Strings  BY DEF Strings
  <2> DEFINE a == Want(Function[f], "function")
  <2> DEFINE b == Want(Function[f], "class")
  <2> DEFINE c == Want(Function[f], "file")
  <2>2. a \in Seq(Named(f)) /\ b \in Seq(Named(f)) /\ c \in Seq(Named(f))
    BY <1>1, <2>1, WantType
  <2> HIDE DEF a, b, c, f
  <2>3. (a \o b) \o c \in Seq(Named(f))  BY <2>2
  <2>4. want \in Seq(Named(f))  BY <2>3 DEF a, b, c
  <2>5. Named(f) \subseteq Strings  BY DEF Named
  <2> HIDE DEF want
  <2> QED  BY <2>4, <2>5, SeqSubset
<1>3. part \in Frame  BY DEF NoName, Frame, Strings
<1>4. local' = [local EXCEPT !.want = want, !.part = part]  BY DEF ReadFunction
<1> HIDE DEF want, part
<1>5. local' \in [held : ExecuteData, want : Seq(Strings), part : Frame,
                  memo : Names \cup {Null}]
      /\ local'.held = local.held /\ local'.want = want
  BY <1>2, <1>3, <1>4
<1>6. Resolving'  BY <1>1, <1>2, <1>5 DEF Resolving, ReadFunction
<1>7. Linked' /\ Bounded'  BY DEF Linked, Bounded, ReadFunction
<1>8. Asked' /\ Len(meta') <= Len(Vars)  BY <1>1, AskedNot DEF ReadFunction
<1> QED  BY <1>5, <1>6, <1>7, <1>8 DEF ReadFunction

LEMMA AddrType ==
  ASSUME TypeInv, pc \in {"name", "value"}, local.want # <<>> PROVE Addr \in Addrs
<1>1. local.want \in Seq(Named(local.held.func))  BY DEF TypeInv, Resolving
<1>2. Head(local.want) \in Named(local.held.func)  BY <1>1
<1> QED  BY <1>2 DEF Named, Addr

LEMMA ResolveType ==
  ASSUME NEW name \in Texts \cup {Torn}, TypeInv, pc \in {"name", "value"},
         local.want # <<>>, Resolve(name), UNCHANGED <<frames, trail>>
  PROVE  /\ local' \in [held : ExecuteData, want : Seq(Strings), part : Frame,
                        memo : Names \cup {Null}]
         /\ Resolving'
<1> USE DEF TypeInv, TypeOK
<1> DEFINE N == Named(local.held.func)
<1>0. local.want \in Seq(N)  BY DEF Resolving
<1>1. /\ Head(local.want) \in Strings /\ Tail(local.want) \in Seq(Strings)
      /\ Tail(local.want) \in Seq(N)
  <2> HIDE DEF N
  <2> QED  BY <1>0
<1>2. [local.part EXCEPT ![Head(local.want)] = name] \in Frame  BY <1>1 DEF Frame
<1>3. local' = [local EXCEPT !.part = [local.part EXCEPT ![Head(local.want)] = name],
                             !.want = Tail(local.want), !.memo = Null]
  BY DEF Resolve
<1>4. local' \in [held : ExecuteData, want : Seq(Strings), part : Frame,
                  memo : Names \cup {Null}]
      /\ local'.held = local.held /\ local'.want = Tail(local.want)
  BY <1>1, <1>2, <1>3
<1>5. Resolving'  BY <1>1, <1>4 DEF Resolving, Resolve, Named
<1> QED  BY <1>4, <1>5

LEMMA InsertType ==
  ASSUME cache \in UNION {[A -> Texts \cup {Torn}] : A \in SUBSET Addrs},
         NEW a \in Addrs, NEW n \in Texts \cup {Torn}
  PROVE  /\ Insert(a, n) \in UNION {[A -> Texts \cup {Torn}] : A \in SUBSET Addrs}
         /\ DOMAIN Insert(a, n) = DOMAIN cache \cup {a}
<1>1. PICK A \in SUBSET Addrs : cache \in [A -> Texts \cup {Torn}]  OBVIOUS
<1>2. Insert(a, n) \in [A \cup {a} -> Texts \cup {Torn}]  BY <1>1 DEF Insert
<1>3. A \cup {a} \in SUBSET Addrs  OBVIOUS
<1> QED  BY <1>1, <1>2, <1>3 DEF Insert

LEMMA OneMore ==
  ASSUME NEW D, IsFiniteSet(D), NEW a
  PROVE  /\ Cardinality(D) \in Nat
         /\ IsFiniteSet(D \cup {a})
         /\ Cardinality(D \cup {a}) \in Nat
         /\ Cardinality(D \cup {a}) <= Cardinality(D) + 1
<1>1. IsFiniteSet(D \cup {a})
      /\ (Cardinality(D \cup {a}) = Cardinality(D) \/ Cardinality(D \cup {a}) = Cardinality(D) + 1)
  BY FS_AddElement
<1>2. Cardinality(D) \in Nat /\ Cardinality(D \cup {a}) \in Nat
  BY <1>1, FS_CardinalityType
<1> QED  BY <1>1, <1>2

LEMMA ReadValueType == TypeInv /\ ReadValue => TypeInv'
<1> SUFFICES ASSUME TypeInv, ReadValue PROVE TypeInv'  OBVIOUS
<1> USE DEF TypeInv, TypeOK, target
<1> DEFINE name == IF text[Addr] = local.memo THEN Cut[local.memo] ELSE Torn
<1>1. pc = "value" /\ local.want # <<>> /\ local.memo \in Names
  BY DEF ReadValue, Resolving
<1>2. Addr \in Addrs /\ name \in Texts \cup {Torn}  BY <1>1, AddrType DEF Texts
<1>3. Resolve(name) /\ cache' = IF CacheFull THEN cache ELSE Insert(Addr, name)
  BY DEF ReadValue
<1> HIDE DEF name
<1>4. /\ local' \in [held : ExecuteData, want : Seq(Strings), part : Frame,
                     memo : Names \cup {Null}]
      /\ Resolving'
  BY <1>1, <1>2, <1>3, ResolveType DEF ReadValue
<1>5. cache' \in UNION {[A -> Texts \cup {Torn}] : A \in SUBSET Addrs}
      /\ (DOMAIN cache' = DOMAIN cache \/ (~CacheFull /\ DOMAIN cache' = DOMAIN cache \cup {Addr}))
  BY <1>2, <1>3, InsertType
<1>6. IsFiniteSet(DOMAIN cache') /\ Cardinality(DOMAIN cache') <= CacheMax
  <2>1. /\ Cardinality(DOMAIN cache) \in Nat
        /\ IsFiniteSet(DOMAIN cache \cup {Addr})
        /\ Cardinality(DOMAIN cache \cup {Addr}) <= Cardinality(DOMAIN cache) + 1
        /\ Cardinality(DOMAIN cache \cup {Addr}) \in Nat
    BY OneMore
  <2>2. CASE DOMAIN cache' = DOMAIN cache  BY <2>2 DEF Bounded
  <2>3. CASE ~CacheFull /\ DOMAIN cache' = DOMAIN cache \cup {Addr}
    BY <2>1, <2>3 DEF CacheFull
  <2> QED  BY <1>5, <2>2, <2>3
<1>7. Bounded' /\ Linked'  BY <1>6 DEF Bounded, Linked, ReadValue
<1>8. touched' \subseteq Addrs  BY <1>2 DEF ReadValue
<1>9. pc' = "name"  BY <1>3 DEF Resolve
<1>10. Asked' /\ Len(meta') <= Len(Vars)  BY <1>1, AskedNot DEF ReadValue
<1> QED  BY <1>4, <1>5, <1>6, <1>7, <1>8, <1>9, <1>10 DEF ReadValue

LEMMA PushFrameType == TypeInv /\ PushFrame => TypeInv'
<1> SUFFICES ASSUME TypeInv, PushFrame PROVE TypeInv'  OBVIOUS
<1> USE DEF TypeInv, TypeOK, PushFrame, target
<1>1. frames' \in Seq(Frame) /\ Len(frames') = Len(frames) + 1
  <2>1. local.part \in Frame  OBVIOUS
  <2> QED  BY <2>1, SeqFacts
<1>2. Len(frames) < MaxDepth  BY DEF Resolving
<1>3. Bounded'  BY <1>1, <1>2 DEF Bounded
<1>4. ex' \in Slots \cup {Null, Wild}  BY DEF NextFrame, ExecuteData
<1>5. Linked' /\ Resolving'  BY DEF Linked, Resolving
<1>6. Asked' /\ Len(meta') <= Len(Vars)  BY AskedNot
<1> QED  BY <1>1, <1>3, <1>4, <1>5, <1>6, NoLocalsType

LEMMA ReadFailsType == TypeInv /\ ReadFails => TypeInv'
<1> SUFFICES ASSUME TypeInv, ReadFails PROVE TypeInv'  OBVIOUS
<1> USE DEF TypeInv, TypeOK, ReadFails, target
<1>1. trail' \in Seq(Places)
  <2>1. Len(frames) \in 0..Len(trail)  BY DEF Resolving
  <2> QED  BY <2>1, SeqFacts
<1>2. Len(trail') = Len(frames)
  <2>1. Len(frames) \in 0..Len(trail)  BY DEF Resolving
  <2> QED  BY <2>1, SeqFacts
<1>3. pc' \in {"server", "write"}  BY DEF Walked
<1>4. Resolving'
  <2>1. pc' \notin {"function", "name", "value"}  BY <1>3
  <2>2. Len(trail') = Len(frames') + 0  BY <1>2
  <2> QED  BY <2>1, <2>2 DEF Resolving
<1>5. Linked' /\ Bounded'  BY DEF Linked, Bounded
<1>6. Asked' /\ Len(meta') <= Len(Vars)
  <2>1. pc \notin {"server", "var", "write"}  BY DEF ReadFailing, Wanted
  <2> QED  BY <2>1, AskedNot
<1> QED  BY <1>1, <1>3, <1>4, <1>5, <1>6, NoLocalsType

LEMMA OtherWalkerTypes ==
  TypeInv /\ (CaptureFails \/ EndWalk \/ NameCached \/ ReadLength \/ ReadServer
              \/ ReadVar \/ WriteSample) => TypeInv'
<1> SUFFICES ASSUME TypeInv PROVE (CaptureFails \/ EndWalk \/ NameCached \/ ReadLength
                                   \/ ReadServer \/ ReadVar \/ WriteSample) => TypeInv'
  OBVIOUS
<1> USE DEF TypeInv, TypeOK, target, Linked, Bounded
<1>0. ASSUME pc \notin {"server", "var", "write"}, UNCHANGED meta
      PROVE  Asked' /\ Len(meta') <= Len(Vars)
  BY <1>0, AskedNot
<1>1. CASE CaptureFails  BY <1>0, <1>1 DEF CaptureFails, Resolving
<1>2. CASE EndWalk  BY <1>0, <1>2 DEF EndWalk, Walked, Resolving
<1>3. CASE NameCached
  <2>1. cache[Addr] \in Texts \cup {Torn}  BY <1>3 DEF NameCached
  <2>2. pc = "name" /\ local.want # <<>> /\ Resolve(cache[Addr]) /\ UNCHANGED <<frames, trail>>
    BY <1>3 DEF NameCached, Wanted
  <2>3. /\ local' \in [held : ExecuteData, want : Seq(Strings), part : Frame,
                       memo : Names \cup {Null}]
        /\ Resolving'
    BY <2>1, <2>2, ResolveType
  <2>4. pc' = "name"  BY <2>2 DEF Resolve
  <2> QED  BY <1>0, <1>3, <2>2, <2>3, <2>4 DEF NameCached
<1>4. CASE ReadLength
  <2>1. pc = "name" /\ local.want # <<>>  BY <1>4 DEF ReadLength, Wanted
  <2>2. text[Addr] \in Names  BY <2>1, AddrType
  <2>3. /\ local' \in [held : ExecuteData, want : Seq(Strings), part : Frame,
                       memo : Names \cup {Null}]
        /\ local'.held = local.held /\ local'.want = local.want
        /\ local'.memo \in Names
    BY <1>4, <2>2 DEF ReadLength
  <2>4. Resolving'  BY <1>4, <2>1, <2>3 DEF Resolving, ReadLength
  <2> QED  BY <1>0, <1>4, <2>1, <2>3, <2>4 DEF ReadLength
<1>5. CASE ReadServer
  <2>1. CASE pc' = "var" /\ UNCHANGED meta
    <3>1. Asked' /\ Len(meta') <= Len(Vars)  BY <1>5, <2>1 DEF Asked, On, ReadServer
    <3> QED  BY <1>5, <2>1, <3>1 DEF ReadServer, Resolving
  <2>2. CASE Answer(NoValue)
    <3>1. Asked' /\ Len(meta') <= Len(Vars) /\ pc' \in {"server", "write"}
      BY <1>5, <2>2, OneMoreAnswer DEF ReadServer, Asked
    <3> QED  BY <1>5, <3>1 DEF ReadServer, Resolving
  <2> QED  BY <1>5, <2>1, <2>2 DEF ReadServer
<1>6. CASE ReadVar
  <2>1. Asked' /\ Len(meta') <= Len(Vars) /\ pc' \in {"server", "write"}
    BY <1>6, OneMoreAnswer DEF ReadVar, Asked
  <2> QED  BY <1>6, <2>1 DEF ReadVar, Resolving
<1>7. CASE WriteSample
  <2>1. meta' = <<>> /\ pc' = "idle" /\ Len(meta') = 0 /\ Len(Vars) = 2
    BY <1>7 DEF WriteSample, Vars
  <2>2. meta' \in Seq(On(meta'))  BY <2>1
  <2>3. Asked' /\ Len(meta') <= Len(Vars)  BY <2>1, <2>2 DEF Asked
  <2> QED  BY <1>7, <2>3 DEF WriteSample, Resolving
<1> QED  BY <1>1, <1>2, <1>3, <1>4, <1>5, <1>6, <1>7

LEMMA MovesType == TypeInv /\ Moves => moves' \in 0..MaxMoves
BY DEF TypeInv, TypeOK, Moves

LEMMA ResolvingKept == Resolving /\ UNCHANGED walker => Resolving'
BY DEF Resolving, walker

LEMMA CallType == TypeInv /\ Call => TypeInv'
<1> SUFFICES ASSUME TypeInv, Call PROVE TypeInv'  OBVIOUS
<1> USE DEF TypeInv, TypeOK
<1>1. PICK a \in Slots \ On(stack), f \in Callees :
        /\ slot' = [slot EXCEPT ![a] = [func |-> f, prev |-> Top(stack)]]
        /\ stack' = Append(stack, a)
        /\ seen' = IF Sampling THEN seen \cup {At(a, slot'[a])} ELSE seen
  BY DEF Call
<1>2. [func |-> f, prev |-> Top(stack)] \in Frames
  BY TopType, CalleesAssumption DEF Frames
<1>3. slot' \in [Slots -> Frames \cup {Junk}] /\ slot'[a] \in Frames  BY <1>1, <1>2
<1>4. stack' \in Seq(Slots) /\ Len(stack') = Len(stack) + 1  BY <1>1
<1>5. At(a, slot'[a]) \in Places  BY <1>3 DEF At, Frames, Places
<1>6. Linked'
  <2> SUFFICES ASSUME NEW i \in 1..Len(stack')
               PROVE  /\ slot'[stack'[i]] \in Frames
                      /\ slot'[stack'[i]].prev = IF i = 1 THEN Null ELSE stack'[i - 1]
    BY DEF Linked
  <2>1. CASE i = Len(stack) + 1
    <3>1. stack'[i] = a /\ slot'[a] = [func |-> f, prev |-> Top(stack)]  BY <1>1, <2>1
    <3>2. CASE stack = <<>>  BY <1>2, <2>1, <3>1, <3>2 DEF Top
    <3>3. CASE stack # <<>>
      <4>1. Len(stack) \in Nat \ {0} /\ stack'[i - 1] = stack[Len(stack)]  BY <1>1, <2>1, <3>3
      <4> QED  BY <1>2, <2>1, <3>1, <3>3, <4>1 DEF Top
    <3> QED  BY <3>2, <3>3
  <2>2. CASE i # Len(stack) + 1
    <3>1. i \in 1..Len(stack) /\ stack'[i] = stack[i] /\ stack[i] # a
      BY <1>1, <1>4, <2>2 DEF On
    <3>2. slot'[stack'[i]] = slot[stack[i]]  BY <1>1, <3>1
    <3>3. i # 1 => stack'[i - 1] = stack[i - 1]  BY <1>1, <3>1
    <3> QED  BY <3>1, <3>2, <3>3 DEF Linked
  <2> QED  BY <2>1, <2>2
<1>7. UNCHANGED walker  BY DEF Call, Moves
<1>8. Resolving'  BY <1>7, ResolvingKept
<1>9. moves' \in 0..MaxMoves  BY MovesType DEF Call
<1>10. UNCHANGED <<text, request, alive, stale>> /\ Asked' /\ Len(meta') <= Len(Vars)
  BY <1>7, AskedKept DEF Call, walker
<1>11. seen' \subseteq Places  BY <1>1, <1>5
<1> QED  BY <1>3, <1>4, <1>6, <1>7, <1>8, <1>9, <1>10, <1>11 DEF walker, Bounded

LEMMA OtherTargetTypes ==
  TypeInv /\ (Leave \/ Overlay \/ Reuse \/ NextRequest \/ Exit) => TypeInv'
<1> SUFFICES ASSUME TypeInv, Leave \/ Overlay \/ Reuse \/ NextRequest \/ Exit PROVE TypeInv'
  OBVIOUS
<1> USE DEF TypeInv, TypeOK
<1>1. UNCHANGED walker /\ moves' \in 0..MaxMoves
  BY MovesType DEF Leave, Overlay, Reuse, NextRequest, Exit, Moves
<1>2. Resolving' /\ Bounded' /\ IsFiniteSet(DOMAIN cache') /\ Asked' /\ Len(meta') <= Len(Vars)
  BY <1>1, ResolvingKept, AskedKept DEF Bounded, walker
<1>3. CASE Leave
  <2>1. stack' \in Seq(Slots) /\ Len(stack') = Len(stack) - 1
        /\ \A i \in 1..Len(stack') : stack'[i] = stack[i]
    BY <1>3, FrontFacts DEF Leave
  <2>2. Linked'  BY <1>3, <2>1 DEF Leave, Linked
  <2> QED  BY <1>1, <1>2, <1>3, <2>1, <2>2 DEF Leave, walker
<1>4. CASE Overlay
  <2>1. slot' \in [Slots -> Frames \cup {Junk}]
        /\ \A i \in 1..Len(stack) : slot'[stack[i]] = slot[stack[i]]
    BY <1>4 DEF Overlay, On
  <2>2. Linked'  BY <1>4, <2>1 DEF Overlay, Linked
  <2> QED  BY <1>1, <1>2, <1>4, <2>1, <2>2 DEF Overlay, walker
<1>5. CASE Reuse
  <2>1. Linked'  BY <1>5 DEF Reuse, Linked
  <2>2. text' \in [Addrs -> Names] /\ stale' \subseteq Addrs  BY <1>5 DEF Reuse
  <2> QED  BY <1>1, <1>2, <1>5, <2>1, <2>2 DEF Reuse, walker
<1>6. CASE NextRequest
  <2>1. Linked'  BY <1>6 DEF NextRequest, Linked
  <2> QED  BY <1>1, <1>2, <1>6, <2>1 DEF NextRequest, walker
<1>7. CASE Exit
  <2>1. Linked'  BY <1>7 DEF Exit, Linked
  <2> QED  BY <1>1, <1>2, <1>7, <2>1 DEF Exit, walker
<1> QED  BY <1>3, <1>4, <1>5, <1>6, <1>7

LEMMA NextType == TypeInv /\ [Next]_vars => TypeInv'
<1> SUFFICES ASSUME TypeInv, UNCHANGED vars PROVE TypeInv'
  BY CaptureType, ReadExecuteDataType, ReadFunctionType, ReadValueType, PushFrameType,
     ReadFailsType, OtherWalkerTypes, CallType, OtherTargetTypes DEF Next, Walker
<1>1. Asked'  BY AskedKept DEF TypeInv, vars, walker
<1> QED
  BY <1>1 DEF TypeInv, TypeOK, Linked, Resolving, Bounded, vars, target, walker

\* Every part keeps its type: --max-depth bounds a sample and the cache never
\* outgrows its bound, whatever the walker reads.
THEOREM TypeCorrect == Spec => []TypeOK
<1>1. TypeInv => TypeOK  BY DEF TypeInv
<1> QED  BY <1>1, InitType, NextType, PTL DEF Spec

(***************************************************************************)
(* The frames of a sample were live                                        *)
(***************************************************************************)

\* What a pointer leads to was on the stack during the sample, or is no frame.
LeadsToSeen(ptr) ==
  ptr \in Slots => slot[ptr] = Junk \/ At(ptr, slot[ptr]) \in seen

\* Every frame that was on the stack during the sample leads to another one, for
\* as long as memory holds a frame: a caller outlives what it calls, and a new
\* frame at its address is one of the sample too.
FrameInv ==
  /\ ~Sampling => trail = <<>>
  /\ Sampling => /\ \A i \in 1..Len(stack) : At(stack[i], slot[stack[i]]) \in seen
                 /\ \A p \in seen : LeadsToSeen(p.prev)
  /\ Sampling /\ clean =>
       /\ \A i \in 1..Len(trail) : trail[i] \in seen
       /\ pc = "frame" => LeadsToSeen(ex)
       /\ pc \in {"function", "name", "value"} => LeadsToSeen(local.held.prev)

LEMMA CaptureLive == TypeInv /\ FrameInv /\ CaptureStack => FrameInv'
<1> SUFFICES ASSUME TypeInv, FrameInv, CaptureStack PROVE FrameInv'  OBVIOUS
<1>1. stack \in Seq(Slots) /\ stack' = stack /\ slot' = slot /\ pc' = "frame"
      /\ trail' = trail /\ trail = <<>> /\ ex' = Top(stack)
      /\ seen' = {At(a, slot[a]) : a \in On(stack)}
  BY DEF CaptureStack, target, FrameInv, Sampling, TypeInv, TypeOK
<1>2. \A i \in 1..Len(stack) : At(stack[i], slot[stack[i]]) \in seen'  BY <1>1 DEF On
<1>3. \A p \in seen' : LeadsToSeen(p.prev)'
  <2> SUFFICES ASSUME NEW i \in 1..Len(stack)
               PROVE  LET ptr == slot[stack[i]].prev IN
                        ptr \in Slots => At(ptr, slot[ptr]) \in seen'
    BY <1>1 DEF On, At, LeadsToSeen
  <2>1. slot[stack[i]].prev = IF i = 1 THEN Null ELSE stack[i - 1]  BY DEF TypeInv, Linked
  <2>2. CASE i = 1  BY <2>1, <2>2
  <2>3. CASE i # 1
    <3>1. i - 1 \in 1..Len(stack)  BY <1>1, <2>3
    <3> QED  BY <1>1, <1>2, <2>1, <2>3, <3>1
  <2> QED  BY <2>2, <2>3
<1>4. LeadsToSeen(ex)'
  <2>1. CASE stack = <<>>  BY <1>1, <2>1 DEF Top, LeadsToSeen
  <2>2. CASE stack # <<>>
    <3>1. Len(stack) \in 1..Len(stack) /\ ex' = stack[Len(stack)]  BY <1>1, <2>2 DEF Top
    <3> QED  BY <1>1, <1>2, <3>1 DEF LeadsToSeen
  <2> QED  BY <2>1, <2>2
<1> QED  BY <1>1, <1>2, <1>3, <1>4 DEF FrameInv, Sampling

LEMMA ReadExecuteDataLive == TypeInv /\ FrameInv /\ ReadExecuteData => FrameInv'
<1> SUFFICES ASSUME TypeInv, FrameInv, ReadExecuteData PROVE FrameInv'  OBVIOUS
<1>1. PICK held \in IF slot[ex] = Junk THEN Garbage ELSE {slot[ex]} :
        /\ trail' = Append(trail, At(ex, held))
        /\ IF held.func = Null
           THEN ex' = held.prev /\ pc' = pc
           ELSE pc' = "function" /\ local'.held = held
  BY DEF ReadExecuteData, NoLocals
<1>2. /\ pc = "frame" /\ ex \in Slots /\ trail \in Seq(Places)
      /\ UNCHANGED <<stack, slot, seen>> /\ clean' = (clean /\ slot[ex] # Junk)
  BY DEF ReadExecuteData, target, WalkOver, TypeInv, TypeOK
<1>3. Sampling /\ Sampling'  BY <1>1, <1>2 DEF Sampling
<1>4. \A p \in seen : LeadsToSeen(p.prev)  BY <1>3 DEF FrameInv
<1>5. \A ptr : LeadsToSeen(ptr)' <=> LeadsToSeen(ptr)  BY <1>2 DEF LeadsToSeen
<1>6. ASSUME clean'
      PROVE  /\ \A i \in 1..Len(trail') : trail'[i] \in seen'
             /\ LeadsToSeen(held.prev)
  <2>1. clean /\ held = slot[ex] /\ At(ex, held) \in seen
    BY <1>1, <1>2, <1>3, <1>6 DEF FrameInv, LeadsToSeen
  <2>2. At(ex, held).prev = held.prev  BY DEF At
  <2>3. \A i \in 1..Len(trail) : trail[i] \in seen  BY <1>3, <2>1 DEF FrameInv
  <2> QED  BY <1>1, <1>2, <1>4, <2>1, <2>2, <2>3
<1>7. clean' => /\ pc' = "frame" => LeadsToSeen(ex)'
                /\ pc' \in {"function", "name", "value"} => LeadsToSeen(local.held.prev)'
  <2>1. CASE held.func = Null  BY <1>1, <1>2, <1>5, <1>6, <2>1
  <2>2. CASE held.func # Null
    <3>1. local.held.prev' = held.prev /\ pc' = "function"  BY <1>1, <2>2
    <3> QED  BY <1>2, <1>6, <3>1 DEF LeadsToSeen
  <2> QED  BY <2>1, <2>2
<1> QED  BY <1>2, <1>3, <1>4, <1>5, <1>6, <1>7 DEF FrameInv

LEMMA OtherWalkersLive ==
  TypeInv /\ FrameInv
    /\ (CaptureFails \/ EndWalk \/ ReadFunction \/ NameCached \/ ReadLength \/ ReadValue
        \/ PushFrame \/ ReadFails \/ ReadServer \/ ReadVar \/ WriteSample) => FrameInv'
<1> SUFFICES ASSUME TypeInv, FrameInv
             PROVE  (CaptureFails \/ EndWalk \/ ReadFunction \/ NameCached \/ ReadLength
                     \/ ReadValue \/ PushFrame \/ ReadFails \/ ReadServer \/ ReadVar
                     \/ WriteSample) => FrameInv'
  OBVIOUS
<1> USE DEF FrameInv, Sampling, LeadsToSeen, target
<1>1. CASE CaptureFails  BY <1>1 DEF CaptureFails
<1>2. CASE EndWalk  BY <1>2 DEF EndWalk, Walked
<1>3. CASE ReadFunction
  <2>1. local'.held = local.held  BY <1>3 DEF ReadFunction, TypeInv, TypeOK
  <2> QED  BY <1>3, <2>1 DEF ReadFunction
<1>4. CASE NameCached
  <2>1. local'.held = local.held  BY <1>4 DEF NameCached, Resolve, TypeInv, TypeOK
  <2> QED  BY <1>4, <2>1 DEF NameCached, Resolve, Wanted
<1>5. CASE ReadLength
  <2>1. local'.held = local.held  BY <1>5 DEF ReadLength, TypeInv, TypeOK
  <2> QED  BY <1>5, <2>1 DEF ReadLength, Wanted
<1>6. CASE ReadValue
  <2>1. local'.held = local.held  BY <1>6 DEF ReadValue, Resolve, TypeInv, TypeOK
  <2> QED  BY <1>6, <2>1 DEF ReadValue, Resolve
<1>7. CASE PushFrame  BY <1>7 DEF PushFrame, NextFrame
<1>8. CASE ReadFails
  <2>1. Len(frames) \in 0..Len(trail) /\ trail \in Seq(Places)
    BY DEF TypeInv, TypeOK, Resolving
  <2>2. Len(trail') = Len(frames) /\ \A i \in 1..Len(frames) : trail'[i] = trail[i]
    BY <1>8, <2>1, SeqFacts DEF ReadFails
  <2>3. pc' \in {"server", "write"} /\ UNCHANGED <<stack, slot, seen, clean>>
    BY <1>8 DEF ReadFails, Walked
  <2>4. pc \in {"frame", "function", "name", "value"}
    BY <1>8 DEF ReadFails, ReadFailing, Wanted
  <2>5. clean => \A i \in 1..Len(trail') : trail'[i] \in seen  BY <2>1, <2>2, <2>4
  <2> QED  BY <2>3, <2>4, <2>5
<1>9. CASE ReadServer  BY <1>9, AskingOnly
<1>10. CASE ReadVar  BY <1>10, AskingOnly
<1>11. CASE WriteSample  BY <1>11 DEF WriteSample
<1> QED  BY <1>1, <1>2, <1>3, <1>4, <1>5, <1>6, <1>7, <1>8, <1>9, <1>10, <1>11

LEMMA CallLive == TypeInv /\ FrameInv /\ Call => FrameInv'
<1> SUFFICES ASSUME TypeInv, FrameInv, Call PROVE FrameInv'  OBVIOUS
<1>1. PICK a \in Slots \ On(stack), f \in Callees :
        /\ slot' = [slot EXCEPT ![a] = [func |-> f, prev |-> Top(stack)]]
        /\ stack' = Append(stack, a)
        /\ seen' = IF Sampling THEN seen \cup {At(a, slot'[a])} ELSE seen
  BY DEF Call
<1>2. UNCHANGED walker /\ slot \in [Slots -> Frames \cup {Junk}] /\ stack \in Seq(Slots)
      /\ seen \subseteq seen'
  BY <1>1 DEF Call, Moves, TypeInv, TypeOK
<1>3. Sampling' <=> Sampling  BY <1>2 DEF walker, Sampling
<1>4. \A p \in Slots : p # a => slot'[p] = slot[p]  BY <1>1, <1>2
<1> DEFINE Led(ptr) == ptr \in Slots => slot'[ptr] = Junk \/ At(ptr, slot'[ptr]) \in seen'
<1>5. Sampling => \A ptr : LeadsToSeen(ptr) => Led(ptr)
  <2> SUFFICES ASSUME Sampling, NEW ptr, LeadsToSeen(ptr) PROVE Led(ptr)
    OBVIOUS
  <2>1. CASE ptr = a  BY <1>1, <2>1 DEF LeadsToSeen
  <2>2. CASE ptr # a  BY <1>2, <1>4, <2>2 DEF LeadsToSeen
  <2> QED  BY <2>1, <2>2
<1>6. ASSUME Sampling
      PROVE  /\ \A i \in 1..Len(stack') : At(stack'[i], slot'[stack'[i]]) \in seen'
             /\ \A p \in seen' : Led(p.prev)
  <2>1. \A i \in 1..Len(stack) : At(stack[i], slot[stack[i]]) \in seen
        /\ stack[i] \in Slots /\ stack[i] # a
    BY <1>2, <1>6 DEF FrameInv, On
  <2>2. ASSUME NEW i \in 1..Len(stack') PROVE At(stack'[i], slot'[stack'[i]]) \in seen'
    <3>1. CASE i = Len(stack) + 1  BY <1>1, <1>2, <1>6, <3>1
    <3>2. CASE i # Len(stack) + 1
      <4>1. i \in 1..Len(stack) /\ stack'[i] = stack[i]  BY <1>1, <1>2, <3>2
      <4> QED  BY <1>2, <1>4, <2>1, <4>1
    <3> QED  BY <3>1, <3>2
  <2>3. ASSUME NEW p \in seen PROVE Led(p.prev)
    BY <1>5, <1>6 DEF FrameInv
  <2>4. At(a, slot'[a]).prev = Top(stack)  BY <1>1, <1>2 DEF At
  <2>5. LeadsToSeen(Top(stack))
    <3>1. CASE stack = <<>>  BY <3>1 DEF Top, LeadsToSeen
    <3>2. CASE stack # <<>>  BY <1>2, <2>1, <3>2 DEF Top, LeadsToSeen
    <3> QED  BY <3>1, <3>2
  <2>6. Led(Top(stack))  BY <1>5, <1>6, <2>5
  <2>7. seen' = seen \cup {At(a, slot'[a])}  BY <1>1, <1>6
  <2> HIDE DEF Led
  <2> QED  BY <2>2, <2>3, <2>4, <2>6, <2>7
<1>7. /\ pc' = pc /\ ex' = ex /\ local' = local /\ trail' = trail /\ clean' = clean
  BY <1>2 DEF walker
<1>8. Sampling /\ clean =>
        /\ \A i \in 1..Len(trail') : trail'[i] \in seen'
        /\ pc' = "frame" => Led(ex')
        /\ pc' \in {"function", "name", "value"} => Led(local'.held.prev)
  BY <1>2, <1>5, <1>7 DEF FrameInv
<1> QED  BY <1>3, <1>6, <1>7, <1>8 DEF FrameInv, LeadsToSeen

LEMMA OtherTargetLive ==
  TypeInv /\ FrameInv /\ (Leave \/ Overlay \/ Reuse \/ NextRequest \/ Exit) => FrameInv'
<1> SUFFICES ASSUME TypeInv, FrameInv, Leave \/ Overlay \/ Reuse \/ NextRequest \/ Exit
             PROVE  FrameInv'
  OBVIOUS
<1>1. /\ pc' = pc /\ ex' = ex /\ local' = local /\ trail' = trail /\ clean' = clean
      /\ seen' = seen /\ stack \in Seq(Slots) /\ slot \in [Slots -> Frames \cup {Junk}]
  BY DEF Leave, Overlay, Reuse, NextRequest, Exit, Moves, walker, TypeInv, TypeOK
<1> USE DEF FrameInv, Sampling, LeadsToSeen
<1>2. CASE Leave
  <2>1. Len(stack') = Len(stack) - 1 /\ \A i \in 1..Len(stack') : stack'[i] = stack[i]
    BY <1>1, <1>2, FrontFacts DEF Leave
  <2>2. slot' = slot  BY <1>2 DEF Leave
  <2>3. \A i \in 1..Len(stack') : i \in 1..Len(stack)  BY <1>1, <2>1
  <2>4. Sampling => \A i \in 1..Len(stack') : At(stack'[i], slot'[stack'[i]]) \in seen
    BY <2>1, <2>2, <2>3
  <2> QED  BY <1>1, <2>2, <2>4
<1>3. CASE Overlay
  <2>1. \A a \in Slots : slot'[a] = slot[a] \/ slot'[a] = Junk  BY <1>1, <1>3 DEF Overlay
  <2>2. \A i \in 1..Len(stack) : slot'[stack[i]] = slot[stack[i]]
    BY <1>1, <1>3 DEF Overlay, On
  <2> QED  BY <1>1, <1>3, <2>1, <2>2 DEF Overlay
<1>4. CASE Reuse  BY <1>1, <1>4 DEF Reuse
<1>5. CASE NextRequest  BY <1>1, <1>5 DEF NextRequest
<1>6. CASE Exit  BY <1>1, <1>6 DEF Exit
<1> QED  BY <1>2, <1>3, <1>4, <1>5, <1>6

LEMMA FrameStep == TypeInv /\ FrameInv /\ [Next]_vars => FrameInv'
<1> SUFFICES ASSUME TypeInv, FrameInv, UNCHANGED vars PROVE FrameInv'
  BY CaptureLive, ReadExecuteDataLive, OtherWalkersLive, CallLive, OtherTargetLive
     DEF Next, Walker
<1> QED  BY DEF FrameInv, Sampling, LeadsToSeen, vars, target, walker

\* No frame of a sample is older than the sample, as long as no memory of a
\* frame that was left is used for something else while it is taken.
THEOREM SamplesAreLive == Spec => []FramesWereLive
<1>1. Init => FrameInv  BY DEF Init, FrameInv, Sampling
<1>2. FrameInv => FramesWereLive  BY DEF FrameInv, FramesWereLive
<1>3. Spec => []TypeInv  BY InitType, NextType, PTL DEF Spec
<1> QED  BY <1>1, <1>2, <1>3, FrameStep, PTL DEF Spec

(***************************************************************************)
(* The string cache                                                        *)
(***************************************************************************)

\* A string half read is the one in memory or has changed since.
CacheInv ==
  /\ CacheCoherent
  /\ pc = "value" => local.memo = text[Addr] \/ Addr \in stale

LEMMA CacheStep == TypeInv /\ CacheInv /\ [Next]_vars => CacheInv'
<1> SUFFICES ASSUME TypeInv, CacheInv, [Next]_vars PROVE CacheInv'  OBVIOUS
<1> USE DEF CacheInv, CacheCoherent
<1>1. CASE UNCHANGED <<cache, text, stale>> /\ (pc' # "value" \/ UNCHANGED <<pc, local>>)
  BY <1>1 DEF Addr
<1>2. CASE ReadLength
  <2>1. Addr' = Addr /\ local'.memo = text[Addr]
    BY <1>2 DEF ReadLength, Addr, TypeInv, TypeOK
  <2> QED  BY <1>2, <2>1 DEF ReadLength, target
<1>3. CASE ReadValue
  <2> DEFINE name == IF text[Addr] = local.memo THEN Cut[local.memo] ELSE Torn
  <2>1. pc = "value" /\ pc' = "name" /\ UNCHANGED <<text, stale>>
        /\ cache' = IF CacheFull THEN cache ELSE Insert(Addr, name)
    BY <1>3 DEF ReadValue, Resolve, target
  <2>2. name = Cut[text[Addr]] \/ Addr \in stale  BY <2>1
  <2> QED  BY <2>1, <2>2 DEF Insert
<1>4. CASE WriteSample  BY <1>4 DEF WriteSample, target
<1>5. CASE Reuse
  <2>1. PICK a \in Addrs \ InUse, n \in Names :
          /\ text' = [text EXCEPT ![a] = n]
          /\ stale' = IF a \in DOMAIN cache \/ (pc = "value" /\ a = Addr)
                      THEN stale \cup {a} ELSE stale
    BY <1>5 DEF Reuse
  <2>2. UNCHANGED <<cache, pc, local>>  BY <1>5 DEF Reuse, Moves, walker
  <2>3. Addr' = Addr  BY <2>2 DEF Addr
  <2>4. \A b \in Addrs : b # a => text'[b] = text[b]
    BY <2>1 DEF TypeInv, TypeOK
  <2>5. DOMAIN cache \subseteq Addrs  BY DEF TypeInv, TypeOK
  <2>6. pc = "value" => Addr \in Addrs  BY AddrType DEF TypeInv, Resolving
  <2>7. CacheCoherent'  BY <2>1, <2>2, <2>4, <2>5
  <2>8. pc' = "value" => local'.memo = text'[Addr'] \/ Addr' \in stale'
    BY <2>1, <2>2, <2>3, <2>4, <2>6
  <2> QED  BY <2>7, <2>8
<1>6. CASE NameCached
  BY <1>6, <1>1 DEF NameCached, Resolve, target
<1>7. CASE Walker /\ ~NameCached /\ ~ReadLength /\ ~ReadValue /\ ~WriteSample
  <2>1. UNCHANGED <<cache, text, stale>> /\ pc' # "value"
    BY <1>7, AskingOnly
    DEF Walker, CaptureStack, CaptureFails, EndWalk, ReadExecuteData, ReadFunction,
        PushFrame, ReadFails, Walked, target
  <2> QED  BY <1>1, <2>1
<1>8. CASE Call \/ Leave \/ Overlay \/ NextRequest \/ Exit
  BY <1>1, <1>8 DEF Call, Leave, Overlay, NextRequest, Exit, Moves, walker
<1>9. CASE UNCHANGED vars  BY <1>1, <1>9 DEF vars, target, walker
<1> QED  BY <1>2, <1>3, <1>4, <1>5, <1>6, <1>7, <1>8, <1>9 DEF Next

\* The cache is wrong only about strings that were freed and reused since they
\* were read, or while they were.
THEOREM CacheIsCoherent == Spec => []CacheCoherent
<1>1. Init => CacheInv  BY DEF Init, CacheInv, CacheCoherent
<1>2. CacheInv => CacheCoherent  BY DEF CacheInv
<1>3. Spec => []TypeInv  BY InitType, NextType, PTL DEF Spec
<1> QED  BY <1>1, <1>2, <1>3, CacheStep, PTL DEF Spec

\* What was read while there was room is in the cache, and only a string that
\* is not is being read.
TouchInv ==
  /\ touched \subseteq DOMAIN cache
  /\ pc = "value" => Addr \notin DOMAIN cache

LEMMA TouchStep == TypeInv /\ TouchInv /\ [Next]_vars => TouchInv'
<1> SUFFICES ASSUME TypeInv, TouchInv, [Next]_vars PROVE TouchInv'  OBVIOUS
<1> USE DEF TouchInv
<1>1. CASE UNCHANGED <<cache, touched>> /\ (pc' # "value" \/ UNCHANGED <<pc, local>>)
  BY <1>1 DEF Addr
<1>2. CASE ReadLength
  <2>1. Addr' = Addr  BY <1>2 DEF ReadLength, Addr, TypeInv, TypeOK
  <2> QED  BY <1>2, <2>1 DEF ReadLength, Wanted
<1>3. CASE ReadValue
  <2>1. /\ pc' = "name"
        /\ touched' = IF CacheFull THEN touched ELSE touched \cup {Addr}
        /\ DOMAIN cache' = IF CacheFull THEN DOMAIN cache ELSE DOMAIN cache \cup {Addr}
    BY <1>3 DEF ReadValue, Resolve, Insert
  <2> QED  BY <2>1
<1>4. CASE NameCached  BY <1>1, <1>4 DEF NameCached, Resolve
<1>5. CASE Walker /\ ~NameCached /\ ~ReadLength /\ ~ReadValue
  <2>1. UNCHANGED <<cache, touched>> /\ pc' # "value"
    BY <1>5, AskingOnly
    DEF Walker, CaptureStack, CaptureFails, EndWalk, ReadExecuteData, ReadFunction,
        PushFrame, ReadFails, WriteSample, Walked
  <2> QED  BY <1>1, <2>1
<1>6. CASE Call \/ Leave \/ Overlay \/ Reuse \/ NextRequest \/ Exit
  BY <1>1, <1>6 DEF Call, Leave, Overlay, Reuse, NextRequest, Exit, Moves, walker
<1>7. CASE UNCHANGED vars  BY <1>1, <1>7 DEF vars, walker
<1> QED  BY <1>2, <1>3, <1>4, <1>5, <1>6, <1>7 DEF Next

\* A string read while the cache had room is never read from the target again.
THEOREM StringsAreTouchedOnce == Spec => []TouchedOnce
<1>1. Init => TouchInv  BY DEF Init, TouchInv
<1>2. TouchInv => TouchedOnce  BY DEF TouchInv, TouchedOnce
<1>3. Spec => []TypeInv  BY InitType, NextType, PTL DEF Spec
<1> QED  BY <1>1, <1>2, <1>3, TouchStep, PTL DEF Spec

(***************************************************************************)
(* A quiet sample is exact                                                 *)
(***************************************************************************)

LEMMA Least ==
  ASSUME NEW m \in Nat, NEW n \in Nat
  PROVE  Min({m, n}) = IF m <= n THEN m ELSE n
BY DEF Min

\* In a table within the scan there is one entry to find, and the scan finds it.
LEMMA LookupIsTrue ==
  ASSUME NEW table, IsTable(table), Len(table) <= BucketMax, NEW key
  PROVE  HtGetString(table, key) = TrueValue(table, key)
<1> DEFINE I == {k \in 1..Len(table) : Matches(table[k], key)}
           S == ToSet(table)
           i == IF I # {} THEN CHOOSE x \in I : \A y \in I : x <= y ELSE 0
           entries == {b \in Live(table, key) : Deref(b) = "string"}
<1>1. table \in Seq(S)  BY DEF IsTable
<1>2. S = {table[k] : k \in 1..Len(table)}
  <2> HIDE DEF S
  <2>1. DOMAIN table = 1..Len(table)  BY <1>1
  <2> QED  BY <2>1 DEF S, ToSet
<1> HIDE DEF S
<1>3. Scanned(table) = table
  <2>1. Len(table) \in Nat /\ BucketMax \in Nat  BY <1>1
  <2>2. Min({Len(table), BucketMax}) = Len(table)  BY <2>1, Least
  <2> QED  BY <1>1, <2>2 DEF Scanned
<1>4. HtGetString(table, key)
        = IF i > 0 /\ Deref(table[i]) = "string" THEN Cut[table[i].val] ELSE NoValue
  BY <1>3 DEF HtGetString, SelectInSeq, Min
<1>5. TrueValue(table, key)
        = IF entries = {} THEN NoValue ELSE Cut[(CHOOSE b \in entries : TRUE).val]
  BY DEF TrueValue
<1>6. CASE I = {}
  <2>1. entries = {}  BY <1>2, <1>6 DEF Matches, Live, S
  <2> QED  BY <1>4, <1>5, <1>6, <2>1
<1>7. ASSUME NEW k \in I PROVE HtGetString(table, key) = TrueValue(table, key)
  <2>1. I = {k}  BY <1>7 DEF IsTable, Matches
  <2>2. k \in 1..Len(table) /\ Matches(table[k], key)  BY <1>7
  <2>3. k \in Nat /\ k > 0  BY <1>1, <2>2
  <2> HIDE DEF I
  <2>4. i = k  BY <2>1, <2>3
  <2>5. \A j \in 1..Len(table) : Matches(table[j], key) => j = k  BY <2>1 DEF I
  <2>6. entries = IF Deref(table[k]) = "string" THEN {table[k]} ELSE {}
    BY <1>2, <2>2, <2>5 DEF Matches, Live, S
  <2> HIDE DEF i, entries
  <2>7. CASE Deref(table[k]) = "string"
    <3>1. entries = {table[k]}  BY <2>6, <2>7
    <3>2. (CHOOSE b \in entries : TRUE) = table[k]  BY <3>1
    <3> QED  BY <1>4, <1>5, <2>3, <2>4, <2>7, <3>1, <3>2
  <2>8. CASE Deref(table[k]) # "string"  BY <1>4, <1>5, <2>4, <2>6, <2>8
  <2> QED  BY <2>7, <2>8
<1> QED  BY <1>6, <1>7

LEMMA LeastOf ==
  ASSUME NEW I, I \subseteq Nat, I # {}
  PROVE  \E i \in I : \A j \in I : i <= j
<1>1. PICK i \in I : \A j \in I : ~ (<<j, i>> \in OpToRel(<, Nat))
  BY NatLessThanWellFounded, WFMin
<1>2. \A j \in I : i <= j
  <2> SUFFICES ASSUME NEW j \in I PROVE i <= j  OBVIOUS
  <2>1. <<j, i>> \in Nat \X Nat  OBVIOUS
  <2>2. ~ (j < i)  BY <1>1, <2>1 DEF OpToRel
  <2> QED  BY <2>2
<1> QED  BY <1>2

\* The array found is the one PHP has, and it is found unless it was unset once.
LEMMA ServerIsTrue ==
  ASSUME NEW globals, IsGlobals(globals), Len(globals) <= BucketMax
  PROVE  /\ FindServer(globals) => TrueServer(globals)
         /\ TrueServer(globals) => FindServer(globals) \/ Unset(globals)
<1> DEFINE I == {k \in 1..Len(globals) : globals[k].key = "_SERVER"}
           i == IF I # {} THEN CHOOSE x \in I : \A y \in I : x <= y ELSE 0
           S == ToSet(globals)
<1>1. globals \in Seq(S)  BY DEF IsGlobals, IsTable
<1>2. S = {globals[k] : k \in 1..Len(globals)}
  <2> HIDE DEF S
  <2>1. DOMAIN globals = 1..Len(globals)  BY <1>1
  <2> QED  BY <2>1 DEF S, ToSet
<1> HIDE DEF S
<1>3. Scanned(globals) = globals
  <2>1. Len(globals) \in Nat /\ BucketMax \in Nat  BY <1>1
  <2>2. Min({Len(globals), BucketMax}) = Len(globals)  BY <2>1, Least
  <2> QED  BY <1>1, <2>2 DEF Scanned
<1>4. FindServer(globals) <=> i > 0 /\ globals[i].tag \in {"array", "reference"}
  BY <1>3 DEF FindServer, SelectInSeq, Min
<1>5. I # {} => i \in I
  <2> SUFFICES ASSUME I # {} PROVE i \in I  OBVIOUS
  <2>1. I \subseteq Nat  BY <1>1
  <2>2. \E x \in I : \A y \in I : x <= y  BY <2>1, LeastOf
  <2> HIDE DEF I
  <2> QED  BY <2>2
<1>6. TrueServer(globals) <=>
        \E k \in I : globals[k].tag # "undef" /\ Deref(globals[k]) = "array"
  BY <1>2 DEF TrueServer, Live, S
<1>7. Unset(globals) <=> \E k \in I : globals[k].tag = "undef"
  BY <1>2 DEF Unset, S
<1>8. \A k \in I : globals[k].tag = "reference" => globals[k].inner = "array"
  BY <1>2 DEF IsGlobals, S
<1>9. \A k, n \in I : globals[k].tag # "undef" /\ globals[n].tag # "undef" => k = n
  BY DEF IsGlobals, IsTable
<1>10. I = {} => i = 0  OBVIOUS
<1>11. \A k \in I : k > 0  BY <1>1
<1> HIDE DEF I, i
<1>12. ASSUME FindServer(globals) PROVE TrueServer(globals)
  <2>1. i \in I /\ globals[i].tag \in {"array", "reference"}  BY <1>4, <1>5, <1>10, <1>12
  <2>2. Deref(globals[i]) = "array"  BY <1>8, <2>1 DEF Deref
  <2> QED  BY <1>6, <2>1, <2>2
<1>13. ASSUME TrueServer(globals), ~Unset(globals) PROVE FindServer(globals)
  <2>1. PICK k \in I : globals[k].tag # "undef" /\ Deref(globals[k]) = "array"
    BY <1>6, <1>13
  <2>2. i \in I /\ i = k  BY <1>5, <1>7, <1>9, <1>13, <2>1
  <2>3. globals[i].tag \in {"array", "reference"}  BY <2>1, <2>2 DEF Deref
  <2> QED  BY <1>4, <1>11, <2>2, <2>3
<1> QED  BY <1>12, <1>13

\* The n-th frame from the top, and the end of the chain below the last one.
Nth(n) == IF n > Len(stack) THEN Null ELSE stack[Len(stack) + 1 - n]

\* The names of the frame being read that are not to be resolved any more.
PartInv ==
  LET f == Function[local.held.func] IN
    /\ \A s \in On(local.want) : f.name[s] # Null /\ (s = "file" => f.type = "user")
    /\ \A s \in Strings : s \in On(local.want) \/ RightName(f, s, local.part[s])

\* The tables of the request are within the scan.
Within == Max({Len(request.globals), Len(request.server)}) <= BucketMax

\* The answers so far are right, and a sample with frames has them all.
AnswersInv ==
  /\ Within => \A i \in 1..Len(meta) : RightVar(Vars[i], meta[i])
  /\ Within /\ pc = "var" => TrueServer(request.globals)
  /\ pc = "write" /\ frames # <<>> => Len(meta) = Len(Vars)

\* As long as the target does nothing the walker is on the chain, between the
\* frames it has and those that follow.
QuietInv ==
  Sampling /\ moves = 0 =>
    /\ alive
    /\ Len(frames) <= Len(stack)
    /\ \A i \in 1..Len(frames) : RightFrame(frames[i], slot[Nth(i)].func)
    /\ pc = "frame" => ex = Nth(Len(frames) + 1)
    /\ pc \in {"function", "name", "value"} =>
         Len(frames) < Len(stack) /\ local.held = slot[Nth(Len(frames) + 1)]
    /\ pc \in {"name", "value"} => PartInv
    /\ pc \in {"server", "var", "write"} => Len(frames) = Min({Len(stack), MaxDepth})
    /\ AnswersInv

LEMMA QuietIsExact == TypeInv /\ QuietInv => QuietSampleIsExact
<1> SUFFICES ASSUME TypeInv, QuietInv, pc = "write", moves = 0 PROVE QuietSampleIsExact
  BY DEF QuietSampleIsExact
<1>1. Sampling  BY DEF Sampling
<1>2. frames \in Seq(Frame) /\ stack \in Seq(Slots)  BY DEF TypeInv, TypeOK
<1>3. \A i \in 1..Len(frames) : Nth(i) = stack[Len(stack) + 1 - i]
  BY <1>1, <1>2 DEF QuietInv, Nth
<1>4. AnswersInv  BY <1>1 DEF QuietInv
<1> QED  BY <1>1, <1>3, <1>4 DEF QuietInv, QuietSampleIsExact, AnswersInv, Within

\* What the target does makes the sample one that is not quiet.
LEMMA TargetQuiet ==
  (Call \/ Leave \/ Overlay \/ Reuse \/ NextRequest \/ Exit) /\ TypeInv => QuietInv'
<1>1. Moves /\ TypeInv => QuietInv'
  <2> SUFFICES ASSUME Moves, TypeInv PROVE QuietInv'  OBVIOUS
  <2>1. moves \in Nat /\ pc' = pc  BY DEF Moves, walker, TypeInv, TypeOK
  <2>2. Sampling' => moves' = moves + 1  BY <2>1 DEF Moves, Sampling
  <2>3. ~(Sampling' /\ moves' = 0)  BY <2>1, <2>2
  <2> QED  BY <2>3 DEF QuietInv
<1> QED  BY <1>1 DEF Call, Leave, Overlay, Reuse, NextRequest, Exit

LEMMA NthFacts ==
  ASSUME TypeInv
  PROVE  /\ Nth(1) = Top(stack)
         /\ \A n \in 1..Len(stack) :
              /\ Nth(n) \in Slots /\ slot[Nth(n)] \in Frames
              /\ slot[Nth(n)].prev = Nth(n + 1)
         /\ Nth(Len(stack) + 1) = Null
<1>1. stack \in Seq(Slots) /\ Len(stack) \in Nat  BY DEF TypeInv, TypeOK
<1>2. Nth(1) = Top(stack) /\ Nth(Len(stack) + 1) = Null
  <2>1. CASE stack = <<>>  BY <2>1 DEF Nth, Top
  <2>2. CASE stack # <<>>  BY <1>1, <2>2 DEF Nth, Top
  <2> QED  BY <1>1, <2>1, <2>2 DEF Nth
<1>3. ASSUME NEW n \in 1..Len(stack)
      PROVE  /\ Nth(n) \in Slots /\ slot[Nth(n)] \in Frames
             /\ slot[Nth(n)].prev = Nth(n + 1)
  <2> DEFINE i == Len(stack) + 1 - n
  <2>1. i \in 1..Len(stack) /\ Nth(n) = stack[i]  BY <1>1 DEF Nth
  <2>2. /\ stack[i] \in Slots /\ slot[stack[i]] \in Frames
        /\ slot[stack[i]].prev = IF i = 1 THEN Null ELSE stack[i - 1]
    BY <1>1, <2>1 DEF TypeInv, Linked
  <2>3. Nth(n + 1) = IF i = 1 THEN Null ELSE stack[i - 1]  BY <1>1 DEF Nth
  <2> QED  BY <2>1, <2>2, <2>3
<1> QED  BY <1>2, <1>3

LEMMA NoAnswers ==
  ASSUME meta' = <<>>, pc' # "var", pc' = "write" => frames' = <<>>
  PROVE  AnswersInv'
<1>1. Len(meta') = 0  OBVIOUS
<1> QED  BY <1>1 DEF AnswersInv

LEMMA CaptureQuiet == TypeInv /\ FrameInv /\ CaptureStack => QuietInv'
<1> SUFFICES ASSUME TypeInv, FrameInv, CaptureStack PROVE QuietInv'  OBVIOUS
<1>1. /\ pc = "idle" /\ pc' = "frame" /\ alive' = TRUE /\ ex' = Top(stack)
      /\ UNCHANGED <<stack, frames>>
  BY DEF CaptureStack, target, TypeInv, TypeOK
<1>2. Len(trail) = Len(frames) /\ trail = <<>>
  BY <1>1 DEF TypeInv, TypeOK, Resolving, FrameInv, Sampling
<1>3. Len(frames) = 0 /\ Len(stack) \in Nat  BY <1>2 DEF TypeInv, TypeOK
<1>4. ex' = Nth(1)  BY <1>1, NthFacts
<1>5. Nth(1)' = Nth(1)  BY <1>1 DEF Nth
<1>6. AnswersInv'
  <2>1. meta' = <<>>  BY <1>1 DEF CaptureStack, TypeInv, Asked
  <2> QED  BY <1>1, <2>1, NoAnswers
<1> QED  BY <1>1, <1>3, <1>4, <1>5, <1>6 DEF QuietInv

\* The walker looks on and the target stands still.
Looking ==
  /\ TypeInv /\ QuietInv /\ CacheInv /\ Sampling /\ moves = 0
  /\ UNCHANGED <<target, stale, moves>>

LEMMA LookingFacts ==
  ASSUME Looking
  PROVE  /\ \A n : Nth(n)' = Nth(n)
         /\ UNCHANGED <<stack, slot, text, request, alive, stale>>
         /\ \A frame, func : RightFrame(frame, func)' <=> RightFrame(frame, func)
         /\ \A f, s, name : RightName(f, s, name)' <=> RightName(f, s, name)
         /\ alive /\ Len(frames) \in Nat /\ Len(stack) \in Nat /\ Len(frames) <= Len(stack)
         /\ \A i \in 1..Len(frames) : RightFrame(frames[i], slot[Nth(i)].func)
<1> USE DEF Looking, target
<1>1. \A f, s, name : RightName(f, s, name)' <=> RightName(f, s, name)  BY DEF RightName
<1>2. \A frame, func : RightFrame(frame, func)' <=> RightFrame(frame, func)
  BY DEF RightFrame, RightName
<1>3. \A n : Nth(n)' = Nth(n)  BY DEF Nth
<1> QED  BY <1>1, <1>2, <1>3 DEF QuietInv, TypeInv, TypeOK

\* What a step that adds no frame has to show.
LEMMA SameFrames ==
  ASSUME Looking, UNCHANGED frames,
         pc' = "frame" => ex' = Nth(Len(frames) + 1),
         pc' \in {"function", "name", "value"} =>
           Len(frames) < Len(stack) /\ local'.held = slot[Nth(Len(frames) + 1)],
         pc' \in {"name", "value"} => PartInv',
         pc' \in {"server", "var", "write"} => Len(frames) = Min({Len(stack), MaxDepth}),
         AnswersInv'
  PROVE  QuietInv'
BY LookingFacts DEF QuietInv

\* Nothing is asked as long as frames are read.
LEMMA NotAskedYet ==
  ASSUME Looking, pc \notin {"server", "var", "write"}, UNCHANGED meta,
         pc' # "var", pc' = "write" => frames' = <<>>
  PROVE  AnswersInv'
<1>1. meta' = <<>>  BY DEF Looking, TypeInv, Asked
<1> QED  BY <1>1, NoAnswers

LEMMA WalkOverQuiet == Looking /\ (EndWalk \/ ReadFails) => QuietInv'
<1> SUFFICES ASSUME Looking, EndWalk \/ ReadFails PROVE QuietInv'  OBVIOUS
<1> USE DEF Looking
<1>1. ~ReadFails
  <2> SUFFICES ASSUME ReadFailing PROVE FALSE  BY DEF ReadFails
  <2>1. pc = "frame" => ex # Wild
    <3>1. CASE Len(frames) = Len(stack)  BY <3>1, NthFacts DEF QuietInv
    <3>2. CASE Len(frames) # Len(stack)
      <4>1. Len(frames) + 1 \in 1..Len(stack)  BY <3>2, LookingFacts
      <4> QED  BY <4>1, NthFacts DEF QuietInv
    <3> QED  BY <3>1, <3>2
  <2>2. pc = "function" => local.held.func # Wild
    <3> SUFFICES ASSUME pc = "function" PROVE local.held.func # Wild  OBVIOUS
    <3>1. Len(frames) + 1 \in 1..Len(stack) /\ local.held = slot[Nth(Len(frames) + 1)]
      BY LookingFacts DEF QuietInv
    <3> QED  BY <3>1, NthFacts DEF Frames
  <2> QED  BY <2>1, <2>2, LookingFacts DEF ReadFailing
<1>2. EndWalk  BY <1>1
<1>3. /\ pc = "frame" /\ UNCHANGED frames
      /\ ex = Null \/ Len(frames) = MaxDepth
      /\ pc' = IF frames = <<>> THEN "write" ELSE "server"
  BY <1>2 DEF EndWalk, WalkOver, Walked
<1>4. Len(frames) <= MaxDepth /\ ex = Nth(Len(frames) + 1)
  <2>1. ex = Nth(Len(frames) + 1)  BY <1>3 DEF QuietInv
  <2>2. Len(frames) <= MaxDepth  BY DEF TypeInv, TypeOK, Bounded
  <2> QED  BY <2>1, <2>2
<1>5. ex = Null => Len(frames) = Len(stack)
  <2> SUFFICES ASSUME ex = Null, Len(frames) # Len(stack) PROVE FALSE  OBVIOUS
  <2>1. Len(frames) + 1 \in 1..Len(stack)  BY LookingFacts
  <2> QED  BY <1>4, <2>1, NthFacts
<1>6. Len(frames) = Min({Len(stack), MaxDepth})
  <2>1. MaxDepth \in Nat  OBVIOUS
  <2> QED  BY <1>3, <1>4, <1>5, <2>1, LookingFacts, Least
<1>7. AnswersInv'  BY <1>2, <1>3, NotAskedYet DEF EndWalk
<1> QED  BY <1>3, <1>6, <1>7, SameFrames

LEMMA MoreFrames ==
  ASSUME Looking, NEW frame, Len(frames) < Len(stack),
         frames' = Append(frames, frame), frame \in Frame, pc' = "frame",
         RightFrame(frame, slot[Nth(Len(frames) + 1)].func),
         ex' = slot[Nth(Len(frames) + 1)].prev,
         AnswersInv'
  PROVE  QuietInv'
<1>1. frames \in Seq(Frame)  BY DEF Looking, TypeInv, TypeOK
<1>2. /\ Len(frames') = Len(frames) + 1
      /\ \A i \in 1..Len(frames) : frames'[i] = frames[i]
      /\ frames'[Len(frames) + 1] = frame
  BY <1>1, SeqFacts
<1>3. Len(frames) + 1 \in 1..Len(stack)  BY LookingFacts
<1>4. ex' = Nth(Len(frames') + 1)
  <2>1. slot[Nth(Len(frames) + 1)].prev = Nth(Len(frames) + 1 + 1)
    BY <1>3, NthFacts DEF Looking
  <2> QED  BY <1>2, <2>1
<1>5. \A i \in 1..Len(frames') : RightFrame(frames'[i], slot[Nth(i)].func)
  <2> SUFFICES ASSUME NEW i \in 1..Len(frames')
               PROVE  RightFrame(frames'[i], slot[Nth(i)].func)
    OBVIOUS
  <2>1. CASE i = Len(frames) + 1  BY <1>2, <2>1
  <2>2. CASE i # Len(frames) + 1
    <3>1. i \in 1..Len(frames)  BY <1>2, <2>2, LookingFacts
    <3> QED  BY <1>2, <3>1, LookingFacts
  <2> QED  BY <2>1, <2>2
<1>6. Len(frames') <= Len(stack')  BY <1>2, <1>3, LookingFacts
<1> QED  BY <1>4, <1>5, <1>6, LookingFacts DEF QuietInv

LEMMA ReadExecuteDataQuiet == Looking /\ ReadExecuteData => QuietInv'
<1> SUFFICES ASSUME Looking, ReadExecuteData PROVE QuietInv'  OBVIOUS
<1> DEFINE n == Len(frames) + 1
<1>1. pc = "frame" /\ ex # Null  BY DEF ReadExecuteData, WalkOver
<1>2. ex = Nth(n)  BY <1>1 DEF Looking, QuietInv
<1>3. Len(frames) < Len(stack)  BY <1>1, <1>2, NthFacts, LookingFacts DEF Looking
<1>4. n \in 1..Len(stack)  BY <1>3, LookingFacts
<1>5. slot[ex] \in Frames /\ slot[ex] # Junk  BY <1>2, <1>4, NthFacts DEF Looking, Frames
<1>6. IF slot[ex].func = Null
      THEN frames' = Append(frames, Unknown) /\ ex' = slot[ex].prev /\ pc' = pc
      ELSE pc' = "function" /\ local'.held = slot[ex] /\ UNCHANGED frames
  BY <1>5 DEF ReadExecuteData, NoLocals
<1>9. AnswersInv'  BY <1>1, <1>6, NotAskedYet DEF ReadExecuteData
<1>7. CASE slot[ex].func = Null
  <2>1. RightFrame(Unknown, slot[Nth(n)].func)  BY <1>2, <1>7 DEF RightFrame
  <2> HIDE DEF n
  <2> QED  BY <1>1, <1>2, <1>3, <1>6, <1>7, <1>9, <2>1, MoreFrames, UnknownType DEF n
<1>8. CASE slot[ex].func # Null
  BY <1>2, <1>3, <1>6, <1>8, <1>9, SameFrames
<1> QED  BY <1>7, <1>8

LEMMA OnBoth ==
  ASSUME NEW S, NEW s \in Seq(S), NEW t \in Seq(S)
  PROVE  On(s \o t) = On(s) \cup On(t)
<1>1. Len(s \o t) = Len(s) + Len(t)  OBVIOUS
<1>2. \A i \in 1..Len(s) : (s \o t)[i] = s[i]  OBVIOUS
<1>3. \A i \in 1..Len(t) : Len(s) + i \in 1..Len(s \o t) /\ (s \o t)[Len(s) + i] = t[i]
  OBVIOUS
<1>4. \A i \in 1..Len(s \o t) : i \in 1..Len(s) \/ \E j \in 1..Len(t) : i = Len(s) + j
  <2> SUFFICES ASSUME NEW i \in 1..Len(s \o t), i \notin 1..Len(s)
               PROVE  \E j \in 1..Len(t) : i = Len(s) + j
    OBVIOUS
  <2>1. i - Len(s) \in 1..Len(t) /\ i = Len(s) + (i - Len(s))  BY <1>1
  <2> QED  BY <2>1
<1>5. On(s \o t) \subseteq On(s) \cup On(t)
  <2> SUFFICES ASSUME NEW i \in 1..Len(s \o t) PROVE (s \o t)[i] \in On(s) \cup On(t)
    BY DEF On
  <2>1. CASE i \in 1..Len(s)  BY <1>2, <2>1 DEF On
  <2>2. CASE i \notin 1..Len(s)  BY <1>3, <1>4, <2>2 DEF On
  <2> QED  BY <2>1, <2>2
<1>6. On(s) \subseteq On(s \o t)
  <2>1. \A i \in 1..Len(s) : i \in 1..Len(s \o t)  BY <1>1
  <2> QED  BY <1>2, <2>1 DEF On
<1>7. On(t) \subseteq On(s \o t)  BY <1>3 DEF On
<1> QED  BY <1>5, <1>6, <1>7

LEMMA OnWant ==
  ASSUME NEW f, NEW s
  PROVE  On(Want(f, s)) = IF f.name[s] # Null /\ (s = "file" => f.type = "user") THEN {s} ELSE {}
<1>1. On(<<s>>) = {s}  BY DEF On
<1>2. On(<<>>) = {}  BY DEF On
<1> QED  BY <1>1, <1>2 DEF Want

LEMMA WantSeq ==
  ASSUME NEW f, NEW s \in Strings
  PROVE  Want(f, s) \in Seq(Strings)
<1>1. <<s>> \in Seq(Strings)  OBVIOUS
<1>2. <<>> \in Seq(Strings)  OBVIOUS
<1> QED  BY <1>1, <1>2 DEF Want

LEMMA Wants ==
  ASSUME NEW f
  PROVE  LET want == Want(f, "function") \o Want(f, "class") \o Want(f, "file") IN
           \A s : s \in On(want) <=>
             s \in Strings /\ f.name[s] # Null /\ (s = "file" => f.type = "user")
<1> DEFINE a == Want(f, "function")
           b == Want(f, "class")
           c == Want(f, "file")
<1>1. "function" \in Strings /\ "class" \in Strings /\ "file" \in Strings  BY DEF Strings
<1>2. a \in Seq(Strings) /\ b \in Seq(Strings) /\ c \in Seq(Strings)  BY <1>1, WantSeq
<1>3. /\ On(a) = IF f.name["function"] # Null THEN {"function"} ELSE {}
      /\ On(b) = IF f.name["class"] # Null THEN {"class"} ELSE {}
      /\ On(c) = IF f.name["file"] # Null /\ f.type = "user" THEN {"file"} ELSE {}
  BY OnWant
<1> HIDE DEF a, b, c
<1>4. (a \o b) \in Seq(Strings)  BY <1>2
<1>5. On(a \o b) = On(a) \cup On(b)  BY <1>2, OnBoth
<1>6. On((a \o b) \o c) = On(a \o b) \cup On(c)
  <2> DEFINE ab == a \o b
  <2>1. ab \in Seq(Strings)  BY <1>4
  <2> HIDE DEF ab
  <2>2. On(ab \o c) = On(ab) \cup On(c)  BY <1>2, <2>1, OnBoth
  <2> QED  BY <2>2 DEF ab
<1>7. \A s : s \in On((a \o b) \o c) <=>
        s \in Strings /\ f.name[s] # Null /\ (s = "file" => f.type = "user")
  BY <1>3, <1>5, <1>6 DEF Strings
<1> QED  BY <1>7 DEF a, b, c

LEMMA PartStep ==
  ASSUME Looking, local'.held = local.held,
         NEW f, f = Function[local.held.func],
         \A s \in On(local'.want) : f.name[s] # Null /\ (s = "file" => f.type = "user"),
         \A s \in Strings : s \in On(local'.want) \/ RightName(f, s, local'.part[s])
  PROVE  PartInv'
<1>1. text' = text /\ stale' = stale  BY LookingFacts
<1> QED  BY <1>1 DEF PartInv, RightName

LEMMA ReadFunctionQuiet == Looking /\ ReadFunction => QuietInv'
<1> SUFFICES ASSUME Looking, ReadFunction PROVE QuietInv'  OBVIOUS
<1> DEFINE f == Function[local.held.func]
           want == Want(f, "function") \o Want(f, "class") \o Want(f, "file")
           part == [NoName EXCEPT !["function"] = "{main}",
                      !["file"] = IF f.type = "internal" THEN "<internal>" ELSE Null]
<1>1. /\ pc = "function" /\ pc' = "name" /\ UNCHANGED frames
      /\ local' = [local EXCEPT !.want = want, !.part = part]
  BY DEF ReadFunction
<1>2. \A s : s \in On(want) <=> s \in Strings /\ f.name[s] # Null /\ (s = "file" => f.type = "user")
  BY Wants
<1>3. part["function"] = "{main}" /\ part["class"] = Null
      /\ part["file"] = IF f.type = "internal" THEN "<internal>" ELSE Null
  BY DEF NoName, Strings
<1> HIDE DEF want, part
<1>4. local'.held = local.held /\ local'.want = want /\ local'.part = part
  BY <1>1 DEF Looking, TypeInv, TypeOK
<1>5. ASSUME NEW s \in Strings, s \notin On(want) PROVE RightName(f, s, part[s])
  <2>1. f.name[s] = Null \/ (s = "file" /\ f.type # "user")  BY <1>2, <1>5
  <2>2. CASE s = "file" /\ f.type # "user"  BY <1>3, <2>2 DEF RightName
  <2>3. CASE ~(s = "file" /\ f.type # "user") /\ f.name[s] = Null
    <3>1. part[s] = IF s = "function" THEN "{main}" ELSE Null  BY <1>3, <2>3 DEF Strings
    <3> QED  BY <2>3, <3>1 DEF RightName
  <2> QED  BY <2>1, <2>2, <2>3
<1>6. PartInv'  BY <1>2, <1>4, <1>5, PartStep
<1>7. Len(frames) < Len(stack) /\ local.held = slot[Nth(Len(frames) + 1)]
  BY <1>1 DEF Looking, QuietInv
<1>8. AnswersInv'  BY <1>1, NotAskedYet DEF ReadFunction
<1> QED  BY <1>1, <1>4, <1>6, <1>7, <1>8, SameFrames

\* A name that is the one in memory, or one that was reused.
LEMMA ResolveQuiet ==
  ASSUME Looking, pc \in {"name", "value"}, local.want # <<>>, UNCHANGED <<frames, meta>>,
         NEW name, Resolve(name), name = Cut[text[Addr]] \/ Addr \in stale
  PROVE  QuietInv'
<1> DEFINE f == Function[local.held.func]
           N == Named(local.held.func)
           s == Head(local.want)
<1>1. local.want \in Seq(N) /\ local.part \in Frame
  BY DEF Looking, TypeInv, TypeOK, Resolving
<1> HIDE DEF N
<1>2. /\ s = local.want[1] /\ 1 \in 1..Len(local.want)
      /\ \A i \in 1..Len(Tail(local.want)) :
           i + 1 \in 1..Len(local.want) /\ Tail(local.want)[i] = local.want[i + 1]
      /\ \A i \in 1..Len(local.want) :
           i # 1 =>
             i - 1 \in 1..Len(Tail(local.want)) /\ Tail(local.want)[i - 1] = local.want[i]
  BY <1>1
<1>3. On(Tail(local.want)) \subseteq On(local.want) /\ s \in On(local.want)
      /\ \A t \in On(local.want) : t = s \/ t \in On(Tail(local.want))
  BY <1>2 DEF On
<1>4. /\ local'.held = local.held /\ local'.want = Tail(local.want) /\ pc' = "name"
      /\ local'.part = [local.part EXCEPT ![s] = name]
  BY DEF Resolve, Looking, TypeInv, TypeOK
<1>5. \A t \in Strings : local'.part[t] = IF t = s THEN name ELSE local.part[t]
  BY <1>1, <1>4 DEF Frame
<1>6. PartInv  BY DEF Looking, QuietInv
<1>7. f.name[s] # Null /\ (s = "file" => f.type = "user")  BY <1>3, <1>6 DEF PartInv
<1>8. RightName(f, s, name)  BY <1>7 DEF RightName, Addr
<1>9. PartInv'
  <2>1. \A t \in On(local'.want) : f.name[t] # Null /\ (t = "file" => f.type = "user")
    BY <1>3, <1>4, <1>6 DEF PartInv
  <2>2. \A t \in Strings : t \in On(local'.want) \/ RightName(f, t, local'.part[t])
    BY <1>3, <1>4, <1>5, <1>6, <1>8 DEF PartInv
  <2> QED  BY <1>4, <2>1, <2>2, PartStep
<1>10. Len(frames) < Len(stack) /\ local.held = slot[Nth(Len(frames) + 1)]
  BY DEF Looking, QuietInv
<1>11. AnswersInv'  BY <1>4, NotAskedYet
<1> QED  BY <1>4, <1>9, <1>10, <1>11, SameFrames

LEMMA NameQuiet == Looking /\ (NameCached \/ ReadLength \/ ReadValue) => QuietInv'
<1> SUFFICES ASSUME Looking, NameCached \/ ReadLength \/ ReadValue PROVE QuietInv'
  OBVIOUS
<1>1. CASE NameCached
  <2>1. pc = "name" /\ local.want # <<>> /\ UNCHANGED <<frames, meta>> /\ Resolve(cache[Addr])
        /\ Addr \in DOMAIN cache
    BY <1>1 DEF NameCached, Wanted
  <2>2. cache[Addr] = Cut[text[Addr]] \/ Addr \in stale
    BY <2>1 DEF Looking, CacheInv, CacheCoherent
  <2> QED  BY <2>1, <2>2, ResolveQuiet
<1>2. CASE ReadLength
  <2>1. pc = "name" /\ pc' = "value" /\ UNCHANGED frames
        /\ local' = [local EXCEPT !.memo = text[Addr]]
    BY <1>2 DEF ReadLength, Wanted
  <2>2. local'.held = local.held /\ local'.want = local.want /\ local'.part = local.part
    BY <2>1 DEF Looking, TypeInv, TypeOK
  <2>3. PartInv /\ Len(frames) < Len(stack) /\ local.held = slot[Nth(Len(frames) + 1)]
    BY <2>1 DEF Looking, QuietInv
  <2>4. PartInv'  BY <2>2, <2>3, PartStep DEF PartInv
  <2>5. AnswersInv'  BY <1>2, <2>1, NotAskedYet DEF ReadLength
  <2> QED  BY <2>1, <2>2, <2>3, <2>4, <2>5, SameFrames
<1>3. CASE ReadValue
  <2> DEFINE name == IF text[Addr] = local.memo THEN Cut[local.memo] ELSE Torn
  <2>1. pc = "value" /\ UNCHANGED <<frames, meta>> /\ Resolve(name)  BY <1>3 DEF ReadValue
  <2>2. local.want # <<>> /\ (local.memo = text[Addr] \/ Addr \in stale)
    BY <2>1 DEF Looking, TypeInv, Resolving, CacheInv
  <2>3. name = Cut[text[Addr]] \/ Addr \in stale  BY <2>2
  <2> HIDE DEF name
  <2> QED  BY <2>1, <2>2, <2>3, ResolveQuiet
<1> QED  BY <1>1, <1>2, <1>3

LEMMA PushFrameQuiet == Looking /\ PushFrame => QuietInv'
<1> SUFFICES ASSUME Looking, PushFrame PROVE QuietInv'  OBVIOUS
<1>1. /\ pc = "name" /\ local.want = <<>> /\ pc' = "frame"
      /\ frames' = Append(frames, local.part) /\ ex' = local.held.prev
  BY DEF PushFrame, NextFrame
<1>2. PartInv /\ Len(frames) < Len(stack) /\ local.held = slot[Nth(Len(frames) + 1)]
  BY <1>1 DEF Looking, QuietInv
<1>3. local.part \in Frame /\ local.held.func # Null
  BY <1>1 DEF Looking, TypeInv, TypeOK, Resolving
<1>4. On(local.want) = {}  BY <1>1 DEF On
<1>5. RightFrame(local.part, local.held.func)  BY <1>2, <1>3, <1>4 DEF PartInv, RightFrame
<1>6. AnswersInv'  BY <1>1, NotAskedYet DEF PushFrame
<1> QED  BY <1>1, <1>2, <1>3, <1>5, <1>6, MoreFrames

\* One more right answer.
LEMMA AnswerQuiet ==
  ASSUME Looking, pc \in {"server", "var"}, UNCHANGED frames, NEW value, Answer(value),
         Within => RightVar(Vars[Len(meta) + 1], value)
  PROVE  AnswersInv' /\ pc' \in {"server", "write"}
<1>1. /\ Len(meta) \in {0, 1} /\ Len(meta') = Len(meta) + 1
      /\ \A i \in 1..Len(meta) : meta'[i] = meta[i]
      /\ meta'[Len(meta) + 1] = value
      /\ pc' = IF Len(meta') = Len(Vars) THEN "write" ELSE "server"
  BY OneMoreAnswer DEF Looking, TypeInv
<1>2. AnswersInv /\ request' = request  BY LookingFacts DEF Looking, QuietInv
<1>3. (Within' <=> Within) /\ \A key, v : RightVar(key, v)' <=> RightVar(key, v)
  BY <1>2 DEF Within, RightVar
<1>4. Within => \A i \in 1..Len(meta') : RightVar(Vars[i], meta'[i])
  BY <1>1, <1>2 DEF AnswersInv
<1> QED  BY <1>1, <1>3, <1>4 DEF AnswersInv

LEMMA WithinFacts ==
  ASSUME Looking, Within
  PROVE  /\ IsGlobals(request.globals) /\ Len(request.globals) <= BucketMax
         /\ IsTable(request.server) /\ Len(request.server) <= BucketMax
<1>1. request \in Requests  BY DEF Looking, TypeInv, TypeOK
<1>2. IsGlobals(request.globals) /\ IsTable(request.server)  BY <1>1, RequestsAssumption
<1>3. Len(request.globals) \in Nat /\ Len(request.server) \in Nat
  BY <1>2 DEF IsGlobals, IsTable
<1>4. \A m, n \in Nat : Max({m, n}) = IF m >= n THEN m ELSE n  BY DEF Max
<1> QED  BY <1>2, <1>3, <1>4 DEF Within

LEMMA RequestQuiet == Looking /\ (ReadServer \/ ReadVar) => QuietInv'
<1> SUFFICES ASSUME Looking, ReadServer \/ ReadVar PROVE QuietInv'  OBVIOUS
<1>1. alive /\ request' = request /\ UNCHANGED frames /\ AnswersInv
  BY LookingFacts DEF ReadServer, ReadVar, Looking, QuietInv
<1>2. pc \in {"server", "var"} /\ Len(frames) = Min({Len(stack), MaxDepth})
  BY DEF ReadServer, ReadVar, Looking, QuietInv
<1>3. CASE ReadServer /\ FindServer(request.globals)
  <2>1. pc' = "var" /\ UNCHANGED meta  BY <1>1, <1>3 DEF ReadServer
  <2>2. Within => TrueServer(request.globals)  BY <1>3, WithinFacts, ServerIsTrue
  <2>3. (Within' <=> Within) /\ \A key, v : RightVar(key, v)' <=> RightVar(key, v)
    BY <1>1 DEF Within, RightVar
  <2>4. AnswersInv'  BY <1>1, <2>1, <2>2, <2>3 DEF AnswersInv
  <2> QED  BY <1>1, <1>2, <2>1, <2>4, SameFrames
<1>4. CASE ReadServer /\ ~FindServer(request.globals)
  <2>1. Answer(NoValue)  BY <1>1, <1>4 DEF ReadServer
  <2>2. Within => RightVar(Vars[Len(meta) + 1], NoValue)
    BY <1>4, WithinFacts, ServerIsTrue DEF RightVar
  <2>3. AnswersInv' /\ pc' \in {"server", "write"}  BY <1>1, <1>2, <2>1, <2>2, AnswerQuiet
  <2> QED  BY <1>1, <1>2, <2>3, SameFrames
<1>5. CASE ReadVar
  <2> DEFINE key == Vars[Len(meta) + 1]
  <2>1. Answer(HtGetString(request.server, key)) /\ pc = "var"  BY <1>1, <1>5 DEF ReadVar
  <2>2. Within => TrueServer(request.globals)  BY <1>1, <2>1 DEF AnswersInv
  <2>3. Within => HtGetString(request.server, key) = TrueValue(request.server, key)
    <3> HIDE DEF key
    <3> QED  BY WithinFacts, LookupIsTrue
  <2>4. Within => RightVar(key, HtGetString(request.server, key))
    BY <2>2, <2>3 DEF RightVar
  <2>5. AnswersInv' /\ pc' \in {"server", "write"}  BY <1>1, <1>2, <2>1, <2>4, AnswerQuiet
  <2> QED  BY <1>1, <1>2, <2>5, SameFrames
<1> QED  BY <1>3, <1>4, <1>5

LEMMA QuietStep ==
  TypeInv /\ FrameInv /\ CacheInv /\ QuietInv /\ [Next]_vars => QuietInv'
<1> SUFFICES ASSUME TypeInv, FrameInv, CacheInv, QuietInv, [Next]_vars PROVE QuietInv'
  OBVIOUS
<1>1. CASE UNCHANGED vars
  <2> USE <1>1 DEF vars, target, walker
  <2>1. \A n : Nth(n)' = Nth(n)  BY DEF Nth
  <2>2. \A frame, func : RightFrame(frame, func)' <=> RightFrame(frame, func)
    BY DEF RightFrame, RightName
  <2>3. PartInv' <=> PartInv  BY DEF PartInv, RightName
  <2>4. Sampling' <=> Sampling  BY DEF Sampling
  <2>5. AnswersInv' <=> AnswersInv  BY DEF AnswersInv, Within, RightVar
  <2> QED  BY <2>1, <2>2, <2>3, <2>4, <2>5 DEF QuietInv
<1>2. CASE CaptureStack  BY <1>2, CaptureQuiet
<1>3. CASE CaptureFails \/ WriteSample
  BY <1>3 DEF CaptureFails, WriteSample, QuietInv, Sampling
<1>4. CASE Walker /\ ~CaptureStack /\ ~CaptureFails /\ ~WriteSample
  <2>1. Sampling
    BY <1>4 DEF Sampling, Walker, EndWalk, ReadExecuteData, ReadFunction, NameCached,
                ReadLength, ReadValue, PushFrame, ReadFails, ReadFailing, Wanted,
                ReadServer, ReadVar
  <2>2. UNCHANGED <<target, stale, moves>>
    BY <1>4 DEF Walker, EndWalk, ReadExecuteData, ReadFunction, NameCached, ReadLength,
                ReadValue, PushFrame, ReadFails, ReadServer, ReadVar
  <2>3. CASE moves = 0
    <3>1. Looking  BY <2>1, <2>2, <2>3 DEF Looking
    <3> QED
      BY <1>4, <3>1, WalkOverQuiet, ReadExecuteDataQuiet, ReadFunctionQuiet, NameQuiet,
         PushFrameQuiet, RequestQuiet DEF Walker
  <2>4. CASE moves # 0  BY <2>2, <2>4 DEF QuietInv
  <2> QED  BY <2>3, <2>4
<1>5. CASE Call \/ Leave \/ Overlay \/ Reuse \/ NextRequest \/ Exit  BY <1>5, TargetQuiet
<1> QED  BY <1>1, <1>2, <1>3, <1>4, <1>5 DEF Next

\* A sample during which the target did nothing is the stack itself, cut at the
\* maximal depth, under PHP's names and with PHP's URI and method of the request
\* (each cut at what is read of a string), whatever the names the cache has kept
\* from before, whatever the type of a function, and however many deleted entries
\* the tables hold.
THEOREM QuietSamplesAreExact == Spec => []QuietSampleIsExact
<1>1. Init => QuietInv  BY DEF Init, QuietInv, Sampling
<1>2. Init => FrameInv  BY DEF Init, FrameInv, Sampling
<1>3. Init => CacheInv  BY DEF Init, CacheInv, CacheCoherent
<1>4. Spec => []TypeInv  BY InitType, NextType, PTL DEF Spec
<1>5. Spec => []FrameInv  BY <1>2, <1>4, FrameStep, PTL DEF Spec
<1>6. Spec => []CacheInv  BY <1>3, <1>4, CacheStep, PTL DEF Spec
<1>7. TypeInv /\ QuietInv => QuietSampleIsExact  BY QuietIsExact
<1> QED  BY <1>1, <1>4, <1>5, <1>6, <1>7, QuietStep, PTL DEF Spec
=============================================================================
