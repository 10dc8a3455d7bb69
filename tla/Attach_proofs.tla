---------------------------- MODULE Attach_proofs ----------------------------
(***************************************************************************)
(* What an attach that succeeds has found, and what one is refused for, in *)
(* any world whose options are right. The decoders of the accessors are    *)
(* right for code of any length: they say what the processor would do.     *)
(***************************************************************************)
EXTENDS Attach, FiniteSetTheorems, FunctionTheorems, TLAPS

(***************************************************************************)
(* Induction over a set, as theorems that take an operator are out of      *)
(* reach: a number that were left out would bound a finite set with an     *)
(* injection into itself that is no surjection.                            *)
(***************************************************************************)

LEMMA Induct ==
  ASSUME NEW S, S \subseteq Nat, 0 \in S, \A n \in S : n + 1 \in S
  PROVE  S = Nat
<1> SUFFICES ASSUME NEW n \in Nat, n \notin S PROVE FALSE  OBVIOUS
<1> DEFINE T == S \cap (0..n)
           f == [i \in T |-> i + 1]
<1>1. IsFiniteSet(T)
  <2>1. IsFiniteSet(0..n)  BY FS_Interval
  <2>2. T \in SUBSET (0..n)  OBVIOUS
  <2> QED  BY <2>1, <2>2, FS_Subset
<1>2. 0 \in T /\ T \subseteq Nat  OBVIOUS
<1>3. ASSUME NEW i \in T PROVE i + 1 \in T
  <2>1. i \in S /\ i \in 0..n /\ i # n  OBVIOUS
  <2> QED  BY <2>1
<1> HIDE DEF T
<1>4. f \in Injection(T, T)
  <2>1. f \in [T -> T]  BY <1>3
  <2>2. ASSUME NEW i \in T, NEW j \in T, f[i] = f[j] PROVE i = j  BY <1>2, <2>2
  <2> HIDE DEF f
  <2> QED  BY <2>1, <2>2 DEF Injection, IsInjective
<1>5. f \in Surjection(T, T)  BY <1>1, <1>4, FS_Injection
<1>6. PICK i \in T : f[i] = 0  BY <1>2, <1>5 DEF Surjection
<1> QED  BY <1>2, <1>6

(***************************************************************************)
(* What is computed instruction by instruction                             *)
(***************************************************************************)

FirstTaken == [at |-> "start", halves |-> NoHalves]
Takes(t, code, k) ==
  t = [n \in 0..k |-> IF n = 0 THEN FirstTaken ELSE TakeInstruction(t[n - 1], code[n])]

FirstState(fn, regs) == [pc |-> fn, reg |-> regs, ret |-> FALSE]
Runs(t, fn, code, regs, k) ==
  t = [n \in 0..k |-> IF n = 0 THEN FirstState(fn, regs) ELSE Do(t[n - 1], code[n])]

LEMMA TakesExists == ASSUME NEW code PROVE \A k \in Nat : \E t : Takes(t, code, k)
<1> DEFINE S == {k \in Nat : \E t : Takes(t, code, k)}
<1>1. 0 \in S
  <2>1. Takes([n \in 0..0 |-> FirstTaken], code, 0)  BY DEF Takes
  <2> QED  BY <2>1
<1>2. ASSUME NEW k \in S PROVE k + 1 \in S
  <2>1. PICK t : Takes(t, code, k)  OBVIOUS
  <2> DEFINE u == [n \in 0..(k + 1) |-> IF n = k + 1 THEN TakeInstruction(t[k], code[k + 1])
                                        ELSE t[n]]
  <2>2. ASSUME NEW n \in 0..(k + 1)
        PROVE  u[n] = IF n = 0 THEN FirstTaken ELSE TakeInstruction(u[n - 1], code[n])
    <3>1. CASE n = k + 1
      <4>1. u[n] = TakeInstruction(t[k], code[k + 1]) /\ n - 1 = k /\ n # 0  BY <3>1
      <4>2. u[k] = t[k]  OBVIOUS
      <4> QED  BY <3>1, <4>1, <4>2
    <3>2. CASE n \in 0..k
      <4>1. u[n] = t[n]  BY <3>2
      <4>2. n # 0 => n - 1 \in 0..k /\ u[n - 1] = t[n - 1]  BY <3>2
      <4>3. t[n] = IF n = 0 THEN FirstTaken ELSE TakeInstruction(t[n - 1], code[n])
        BY <2>1, <3>2 DEF Takes
      <4> HIDE DEF u
      <4> QED  BY <4>1, <4>2, <4>3
    <3> QED  BY <3>1, <3>2
  <2>3. u = [n \in 0..(k + 1) |-> u[n]]  OBVIOUS
  <2> HIDE DEF u
  <2>4. Takes(u, code, k + 1)  BY <2>2, <2>3 DEF Takes
  <2>5. k + 1 \in Nat  OBVIOUS
  <2> QED  BY <2>4, <2>5
<1>3. S = Nat
  <2>1. S \subseteq Nat  OBVIOUS
  <2> HIDE DEF S
  <2> QED  BY <1>1, <1>2, <2>1, Induct
<1> QED  BY <1>3

LEMMA RunsExists ==
  ASSUME NEW fn, NEW code, NEW regs PROVE \A k \in Nat : \E t : Runs(t, fn, code, regs, k)
<1> DEFINE first == FirstState(fn, regs)
           S == {k \in Nat : \E t : Runs(t, fn, code, regs, k)}
<1>1. 0 \in S
  <2>1. Runs([n \in 0..0 |-> first], fn, code, regs, 0)  BY DEF Runs
  <2> QED  BY <2>1
<1>2. ASSUME NEW k \in S PROVE k + 1 \in S
  <2>1. PICK t : Runs(t, fn, code, regs, k)  OBVIOUS
  <2> DEFINE u == [n \in 0..(k + 1) |-> IF n = k + 1 THEN Do(t[k], code[k + 1]) ELSE t[n]]
  <2>2. ASSUME NEW n \in 0..(k + 1)
        PROVE  u[n] = IF n = 0 THEN first ELSE Do(u[n - 1], code[n])
    <3> HIDE DEF first
    <3>1. CASE n = k + 1
      <4>1. u[n] = Do(t[k], code[k + 1]) /\ n - 1 = k /\ n # 0  BY <3>1
      <4>2. u[k] = t[k]  OBVIOUS
      <4> QED  BY <3>1, <4>1, <4>2
    <3>2. CASE n \in 0..k
      <4>1. u[n] = t[n]  BY <3>2
      <4>2. n # 0 => n - 1 \in 0..k /\ u[n - 1] = t[n - 1]  BY <3>2
      <4>3. t[n] = IF n = 0 THEN first ELSE Do(t[n - 1], code[n])
        BY <2>1, <3>2 DEF Runs, first
      <4> HIDE DEF u
      <4> QED  BY <4>1, <4>2, <4>3
    <3> QED  BY <3>1, <3>2
  <2>3. u = [n \in 0..(k + 1) |-> u[n]]  OBVIOUS
  <2> HIDE DEF u
  <2>4. Runs(u, fn, code, regs, k + 1)  BY <2>2, <2>3 DEF Runs
  <2>5. k + 1 \in Nat  OBVIOUS
  <2> QED  BY <2>4, <2>5
<1>3. S = Nat
  <2>1. S \subseteq Nat  OBVIOUS
  <2> HIDE DEF S
  <2> QED  BY <1>1, <1>2, <2>1, Induct
<1> QED  BY <1>3

LEMMA TakenFacts ==
  ASSUME NEW code, Len(code) \in Nat
  PROVE  \E t : /\ t[0] = FirstTaken
                /\ \A n \in 1..Len(code) : t[n] = TakeInstruction(t[n - 1], code[n])
                /\ Taken(code) = t[Len(code)]
<1>1. PICK t : Takes(t, code, Len(code)) /\ Taken(code) = t[Len(code)]
  BY TakesExists DEF Taken, Takes, FirstTaken
<1>2. t[0] = FirstTaken /\ \A n \in 1..Len(code) : t[n] = TakeInstruction(t[n - 1], code[n])
  BY <1>1 DEF Takes
<1> QED  BY <1>1, <1>2

LEMMA RunFacts ==
  ASSUME NEW fn, NEW code, NEW regs, Len(code) \in Nat
  PROVE  \E t : /\ t[0] = FirstState(fn, regs)
                /\ \A n \in 1..Len(code) : t[n] = Do(t[n - 1], code[n])
                /\ Run(fn, code, regs) = t[Len(code)]
<1>1. PICK t : Runs(t, fn, code, regs, Len(code)) /\ Run(fn, code, regs) = t[Len(code)]
  <2> DEFINE N == Len(code)
  <2>1. \E t : Runs(t, fn, code, regs, N)  BY RunsExists
  <2>2. Run(fn, code, regs) = (CHOOSE t : Runs(t, fn, code, regs, N))[N]
    BY DEF Run, Runs, FirstState
  <2> HIDE DEF N
  <2>3. \E t : Runs(t, fn, code, regs, N) /\ Run(fn, code, regs) = t[N]  BY <2>1, <2>2
  <2> QED  BY <2>3 DEF N
<1>2. t[0] = FirstState(fn, regs) /\ \A n \in 1..Len(code) : t[n] = Do(t[n - 1], code[n])
  BY <1>1 DEF Runs
<1> QED  BY <1>1, <1>2

(***************************************************************************)
(* The decoders and the processor                                          *)
(***************************************************************************)

Words == [Halves -> 0..(Half - 1)]
Machines(regs) == [pc : Int, reg : [DOMAIN regs -> Int], ret : BOOLEAN]

LEMMA HalfFacts ==
  ASSUME NEW lo \in 0..(Half - 1), NEW hi \in 0..(Half - 1)
  PROVE  (lo + Half * hi) % Half = lo /\ (lo + Half * hi) \div Half = hi
BY HalfAssumption

\* A half that is written replaces that half of the value.
LEMMA ValueFacts ==
  /\ NoHalves \in Words /\ Value(NoHalves) = 0
  /\ \A w \in Words : Value(w) \in Int
  /\ \A w \in Words, h \in Halves, v \in 0..(Half - 1) :
       /\ [w EXCEPT ![h] = v] \in Words
       /\ WithHalf(Value(w), h, v) = Value([w EXCEPT ![h] = v])
<1>1. Half \in Nat /\ Half >= 1  BY HalfAssumption
<1>2. NoHalves \in Words /\ Value(NoHalves) = 0  BY <1>1 DEF NoHalves, Words, Halves, Value
<1>3. ASSUME NEW w \in Words PROVE Value(w) \in Int  BY <1>1, <1>3 DEF Words, Halves, Value
<1>4. ASSUME NEW w \in Words, NEW h \in Halves, NEW v \in 0..(Half - 1)
      PROVE  /\ [w EXCEPT ![h] = v] \in Words
             /\ WithHalf(Value(w), h, v) = Value([w EXCEPT ![h] = v])
  <2>1. w[0] \in 0..(Half - 1) /\ w[1] \in 0..(Half - 1)  BY DEF Words, Halves
  <2>2. HalfOf(Value(w), 0) = w[0] /\ HalfOf(Value(w), 1) = w[1]
    BY <2>1, HalfFacts DEF HalfOf, Value
  <2>3. [w EXCEPT ![h] = v] \in Words  BY DEF Words
  <2>4. h = 0 \/ h = 1  BY DEF Halves
  <2>5. CASE h = 0
    <3>1. [w EXCEPT ![0] = v][0] = v /\ [w EXCEPT ![0] = v][1] = w[1]  BY DEF Words, Halves
    <3>2. WithHalf(Value(w), 0, v) = v + Half * w[1]  BY <2>2 DEF WithHalf
    <3> QED  BY <2>3, <2>5, <3>1, <3>2 DEF Value
  <2>6. CASE h = 1
    <3>1. [w EXCEPT ![1] = v][1] = v /\ [w EXCEPT ![1] = v][0] = w[0]  BY DEF Words, Halves
    <3>2. WithHalf(Value(w), 1, v) = w[0] + Half * v  BY <2>2 DEF WithHalf
    <3> QED  BY <2>3, <2>6, <3>1, <3>2 DEF Value
  <2> QED  BY <2>4, <2>5, <2>6
<1> QED  BY <1>2, <1>3, <1>4

LEMMA DoFacts ==
  ASSUME NEW regs, 0 \in DOMAIN regs, NEW m \in Machines(regs), NEW i
  PROVE  /\ m.ret => Do(m, i) = m
         /\ ~m.ret => LET next == Do(m, i) IN
              /\ i.op = "pad" => /\ next \in Machines(regs) /\ ~next.ret
                                 /\ next.pc = m.pc + 1
              /\ i.op = "mov" /\ i.rd = 0 /\ i.imm \in Int =>
                   next \in Machines(regs) /\ ~next.ret /\ next.reg[0] = i.imm
              /\ i.op = "movz" /\ i.rd = 0 /\ i.hw \in Halves /\ i.imm \in 0..(Half - 1) =>
                   next \in Machines(regs) /\ ~next.ret /\ next.reg[0] = WithHalf(0, i.hw, i.imm)
              /\ i.op = "movk" /\ i.rd = 0 /\ i.hw \in Halves /\ i.imm \in 0..(Half - 1) =>
                   /\ next \in Machines(regs) /\ ~next.ret
                   /\ next.reg[0] = WithHalf(m.reg[0], i.hw, i.imm)
              /\ i.op = "lea" /\ i.rd = 0 /\ i.imm \in Int =>
                   /\ next \in Machines(regs) /\ ~next.ret
                   /\ next.reg[0] = m.pc + 1 + i.imm
              /\ i.op = "adrp" /\ i.rd = 0 /\ i.imm \in 0..(Page * Page - 1) =>
                   /\ next \in Machines(regs) /\ ~next.ret
                   /\ next.reg[0] = (m.pc \div Page + Signed(i.imm)) * Page
              /\ i.op = "add" /\ i.rd = 0 /\ i.imm \in Int =>
                   /\ next \in Machines(regs) /\ ~next.ret
                   /\ next.reg[0] = m.reg[0] + i.imm
              /\ i.op = "ret" => /\ next \in Machines(regs) /\ next.ret
                                 /\ next.reg[0] = m.reg[0]
<1> DEFINE set(v) == [[m EXCEPT !.pc = @ + 1] EXCEPT !.reg[0] = v]
<1>1. m.pc \in Int /\ m.reg \in [DOMAIN regs -> Int] /\ m.ret \in BOOLEAN  BY DEF Machines
<1>2. ASSUME NEW v \in Int
      PROVE  set(v) \in Machines(regs) /\ set(v).ret = m.ret /\ set(v).reg[0] = v
  <2> DEFINE next == [m EXCEPT !.pc = @ + 1]
             reg == [m.reg EXCEPT ![0] = v]
  <2>1. next \in Machines(regs) /\ next.reg = m.reg /\ next.ret = m.ret
    BY <1>1 DEF Machines
  <2>2. reg \in [DOMAIN regs -> Int] /\ reg[0] = v  BY <1>1
  <2>3. set(v) = [next EXCEPT !.reg = reg]  BY <2>1
  <2> HIDE DEF next, reg, set
  <2>4. /\ [next EXCEPT !.reg = reg] \in Machines(regs)
        /\ [next EXCEPT !.reg = reg].ret = next.ret
        /\ [next EXCEPT !.reg = reg].reg = reg
    BY <2>1, <2>2 DEF Machines
  <2> QED  BY <2>1, <2>2, <2>3, <2>4
<1>3. ASSUME NEW r \in Int, NEW h \in Halves, NEW v \in 0..(Half - 1)
      PROVE  WithHalf(r, h, v) \in Int
  BY HalfAssumption DEF WithHalf, HalfOf
<1>4. m.reg[0] \in Int  BY <1>1
<1>5. m.ret => Do(m, i) = m  BY DEF Do
<1>6. ASSUME ~m.ret, i.op = "pad"
      PROVE  Do(m, i) \in Machines(regs) /\ ~Do(m, i).ret /\ Do(m, i).pc = m.pc + 1
  <2>1. Do(m, i) = [m EXCEPT !.pc = @ + 1]  BY <1>6 DEF Do
  <2> QED  BY <1>1, <1>6, <2>1 DEF Machines
<1>7. ASSUME ~m.ret, i.op = "mov", i.rd = 0 PROVE Do(m, i) = set(i.imm)
  BY <1>7 DEF Do
<1>8. ASSUME ~m.ret, i.op = "movz", i.rd = 0 PROVE Do(m, i) = set(WithHalf(0, i.hw, i.imm))
  BY <1>8 DEF Do
<1>9. ASSUME ~m.ret, i.op = "movk", i.rd = 0
      PROVE  Do(m, i) = set(WithHalf(m.reg[0], i.hw, i.imm))
  BY <1>9 DEF Do
<1>10. ASSUME ~m.ret, i.op = "ret"
       PROVE  Do(m, i) \in Machines(regs) /\ Do(m, i).ret /\ Do(m, i).reg[0] = m.reg[0]
  <2>1. Do(m, i) = [m EXCEPT !.ret = TRUE]  BY <1>10 DEF Do
  <2> QED  BY <1>1, <2>1 DEF Machines
<1>11. ASSUME ~m.ret, i.op = "lea", i.rd = 0 PROVE Do(m, i) = set(m.pc + 1 + i.imm)
  BY <1>11 DEF Do
<1>12. ASSUME ~m.ret, i.op = "adrp", i.rd = 0
       PROVE  Do(m, i) = set((m.pc \div Page + Signed(i.imm)) * Page)
  BY <1>12 DEF Do
<1>13. ASSUME ~m.ret, i.op = "add", i.rd = 0 PROVE Do(m, i) = set(m.reg[0] + i.imm)
  BY <1>13 DEF Do
<1>14. \A imm \in 0..(Page * Page - 1) : (m.pc \div Page + Signed(imm)) * Page \in Int
  BY <1>1, PageAssumption DEF Signed
<1>15. \A imm \in Int : m.pc + 1 + imm \in Int /\ m.reg[0] + imm \in Int  BY <1>1, <1>4
<1> HIDE DEF set
<1>16. 0 \in Int  OBVIOUS
<1> QED  BY <1>2, <1>3, <1>4, <1>5, <1>6, <1>7, <1>8, <1>9, <1>10, <1>11, <1>12, <1>13, <1>14,
            <1>15, <1>16

Goes(t, code, N) == \A n \in 1..N : t[n] = Do(t[n - 1], code[n])

\* A function that has returned does nothing more.
LEMMA ReturnIsLast ==
  ASSUME NEW regs, 0 \in DOMAIN regs, NEW code, NEW t, NEW N \in Nat, Goes(t, code, N),
         NEW k \in 0..N, t[k] \in Machines(regs), t[k].ret
  PROVE  t[N] = t[k]
<1> DEFINE S == {n \in Nat : k + n <= N => t[k + n] = t[k]}
<1>1. 0 \in S  OBVIOUS
<1>2. ASSUME NEW n \in S PROVE n + 1 \in S
  <2> SUFFICES ASSUME k + (n + 1) <= N PROVE t[k + (n + 1)] = t[k]  OBVIOUS
  <2>1. t[k + n] = t[k] /\ k + (n + 1) \in 1..N /\ k + (n + 1) - 1 = k + n  OBVIOUS
  <2>2. t[k + (n + 1)] = Do(t[k], code[k + (n + 1)])  BY <2>1 DEF Goes
  <2> QED  BY <2>2, DoFacts
<1>3. S = Nat
  <2>1. S \subseteq Nat  OBVIOUS
  <2> HIDE DEF S
  <2> QED  BY <1>1, <1>2, <2>1, Induct
<1>4. N - k \in Nat /\ k + (N - k) = N /\ N <= N  OBVIOUS
<1> QED  BY <1>3, <1>4

\* The landing pad is one instruction, which returns nothing.
LEMMA PadFacts ==
  ASSUME NEW code, code \in Seq(ToSet(code))
  PROVE  LET c == SkipPad(code)
             p == Len(code) - Len(c)
         IN  /\ c \in Seq(ToSet(code)) /\ p \in {0, 1} /\ Len(c) \in Nat /\ Len(code) \in Nat
             /\ Len(code) = p + Len(c)
             /\ p = 1 => code[1].op = "pad"
             /\ \A n \in 1..Len(c) : c[n] = code[p + n] /\ c[n] \in ToSet(code)
<1> DEFINE S == ToSet(code)
<1>1. code \in Seq(S)  OBVIOUS
<1> HIDE DEF S
<1>2. CASE code # <<>> /\ code[1].op = "pad"
  <2>1. SkipPad(code) = Tail(code)  BY <1>2 DEF SkipPad
  <2>2. /\ Tail(code) \in Seq(S) /\ Len(Tail(code)) = Len(code) - 1 /\ Len(code) \in Nat
        /\ Len(code) # 0
        /\ \A n \in 1..(Len(code) - 1) : Tail(code)[n] = code[1 + n]
    BY <1>1, <1>2
  <2> DEFINE c == Tail(code)
             N == Len(code)
  <2>3. c \in Seq(S) /\ Len(c) = N - 1 /\ N \in Nat /\ N # 0
        /\ \A n \in 1..(N - 1) : c[n] = code[1 + n]
    BY <2>2
  <2>4. \A n \in 1..Len(c) : c[n] \in S  BY <2>3
  <2> HIDE DEF c, N
  <2>5. N - Len(c) = 1 /\ Len(c) \in Nat /\ N = 1 + Len(c)  BY <2>3
  <2> QED  BY <1>2, <2>1, <2>3, <2>4, <2>5 DEF c, N, S
<1>3. CASE ~(code # <<>> /\ code[1].op = "pad")
  <2>1. SkipPad(code) = code  BY <1>3 DEF SkipPad
  <2>2. Len(code) \in Nat /\ Len(code) - Len(code) = 0 /\ \A n \in 1..Len(code) : code[n] \in S
    BY <1>1
  <2>3. \A n \in 1..Len(code) : 0 + n = n  BY <2>2
  <2> QED  BY <1>1, <2>1, <2>2, <2>3 DEF S
<1> QED  BY <1>2, <1>3

LEMMA AfterPad ==
  ASSUME NEW fn \in Int, NEW code, NEW regs, IsCode(code, regs)
  PROVE  LET p == Len(code) - Len(SkipPad(code)) IN
           \E t : /\ t[p] \in Machines(regs) /\ ~t[p].ret /\ t[p].pc = fn + p
                  /\ Goes(t, code, Len(code))
                  /\ Run(fn, code, regs) = t[Len(code)]
<1> DEFINE p == Len(code) - Len(SkipPad(code))
<1>1. code \in Seq(ToSet(code)) /\ 0 \in DOMAIN regs /\ regs \in [DOMAIN regs -> Int]
  BY DEF IsCode
<1>2. /\ p \in {0, 1} /\ Len(code) \in Nat /\ Len(SkipPad(code)) \in Nat
      /\ Len(code) = p + Len(SkipPad(code))
      /\ p = 1 => code[1].op = "pad"
  BY <1>1, PadFacts
<1> HIDE DEF p
<1>3. PICK t : /\ t[0] = FirstState(fn, regs)
               /\ Goes(t, code, Len(code))
               /\ Run(fn, code, regs) = t[Len(code)]
  <2>1. Len(code) \in Nat  BY <1>2
  <2> QED  BY <2>1, RunFacts DEF Goes
<1>4. t[0] \in Machines(regs) /\ ~t[0].ret /\ t[0].pc = fn
  BY <1>1, <1>3 DEF FirstState, Machines
<1>5. CASE p = 0
  <2>1. t[p] \in Machines(regs) /\ ~t[p].ret /\ t[p].pc = fn + p  BY <1>4, <1>5
  <2> QED  BY <1>3, <2>1 DEF p
<1>6. CASE p = 1
  <2>1. 1 \in 1..Len(code) /\ 1 - 1 = 0  BY <1>2, <1>6
  <2>2. t[1] = Do(t[0], code[1]) /\ code[1].op = "pad"  BY <1>2, <1>3, <1>6, <2>1 DEF Goes
  <2>3. t[1] \in Machines(regs) /\ ~t[1].ret /\ t[1].pc = fn + 1
    BY <1>1, <1>4, <2>2, DoFacts
  <2> QED  BY <1>3, <1>6, <2>3 DEF p
<1> QED  BY <1>2, <1>5, <1>6

\* What the decoder for x86_64 recognises returns what it says.
LEMMA TcbX86 ==
  ASSUME NEW fn \in Int, NEW code, NEW regs, IsCode(code, regs), DecodeTcbX86(code) # Bad
  PROVE  Execute(fn, code, regs) = DecodeTcbX86(code)
<1> DEFINE c == SkipPad(code)
           p == Len(code) - Len(c)
           N == Len(code)
<1>1. /\ Len(c) >= 2 /\ c[1].op = "mov" /\ c[1].rd = 0 /\ c[2].op = "ret"
      /\ DecodeTcbX86(code) = c[1].imm
  BY DEF DecodeTcbX86
<1>2. /\ p \in {0, 1} /\ N \in Nat /\ Len(c) \in Nat /\ N = p + Len(c)
      /\ \A n \in 1..Len(c) : c[n] = code[p + n] /\ c[n] \in ToSet(code)
  BY PadFacts DEF IsCode
<1>3. PICK t : /\ t[p] \in Machines(regs) /\ ~t[p].ret
               /\ Goes(t, code, N)
               /\ Run(fn, code, regs) = t[N]
  BY AfterPad
<1> HIDE DEF c, p, N
<1>4. /\ 1 \in 1..Len(c) /\ 2 \in 1..Len(c) /\ p + 1 \in 1..N /\ p + 2 \in 1..N
      /\ p + 1 - 1 = p /\ p + 2 - 1 = p + 1 /\ p + 2 \in 0..N
  BY <1>1, <1>2
<1>5. 0 \in DOMAIN regs /\ c[1].imm \in Int  BY <1>1, <1>2, <1>4 DEF IsCode
<1>6. t[p + 1] = Do(t[p], c[1]) /\ t[p + 2] = Do(t[p + 1], c[2])  BY <1>2, <1>3, <1>4 DEF Goes
<1>7. t[p + 1] \in Machines(regs) /\ ~t[p + 1].ret /\ t[p + 1].reg[0] = c[1].imm
  BY <1>1, <1>3, <1>5, <1>6, DoFacts
<1>8. t[p + 2] \in Machines(regs) /\ t[p + 2].ret /\ t[p + 2].reg[0] = c[1].imm
  BY <1>1, <1>5, <1>6, <1>7, DoFacts
<1>9. t[N] = t[p + 2]
  <2> DEFINE k == p + 2
  <2>1. k \in 0..N /\ t[k] \in Machines(regs) /\ t[k].ret  BY <1>4, <1>8
  <2>2. Goes(t, code, N)  BY <1>3
  <2> HIDE DEF k
  <2>3. N \in Nat /\ 0 \in DOMAIN regs  BY <1>2, <1>5
  <2>4. t[N] = t[k]  BY <2>1, <2>2, <2>3, ReturnIsLast
  <2> QED  BY <2>4 DEF k
<1> QED  BY <1>1, <1>3, <1>8, <1>9 DEF Execute

Stages == {"start", "moved", "done", "bad"}
Decoded == [at : Stages, halves : Words]

\* The decoder for aarch64 keeps the value of the returned register, from the first
\* movz to the return.
Follows(d, m, regs) ==
  /\ d \in Decoded
  /\ d.at # "bad" => m \in Machines(regs)
  /\ d.at \in {"start", "moved"} => ~m.ret
  /\ d.at \in {"moved", "done"} => m.reg[0] = Value(d.halves)
  /\ d.at = "done" => m.ret

LEMMA FollowsOn ==
  ASSUME NEW regs, 0 \in DOMAIN regs, NEW d, NEW m, Follows(d, m, regs), NEW i,
         i.op \in {"movz", "movk"} => i.hw \in Halves /\ i.imm \in 0..(Half - 1)
  PROVE  Follows(TakeInstruction(d, i), Do(m, i), regs)
<1> DEFINE e == TakeInstruction(d, i)
           next == Do(m, i)
<1> SUFFICES Follows(e, next, regs)  OBVIOUS
<1>1. d \in Decoded /\ d.at \in Stages /\ d.halves \in Words  BY DEF Follows, Decoded
<1>2. CASE d.at = "bad"
  <2>1. e = d  BY <1>2 DEF TakeInstruction
  <2> QED  BY <1>2, <2>1 DEF Follows
<1>3. CASE d.at = "done"
  <2>1. e = d  BY <1>3 DEF TakeInstruction
  <2>2. next = m  BY <1>3, DoFacts DEF Follows
  <2> QED  BY <2>1, <2>2
<1>4. CASE d.at \in {"start", "moved"}
  <2>1. m \in Machines(regs) /\ ~m.ret  BY <1>4 DEF Follows
  <2>2. CASE d.at = "moved" /\ i.op = "ret"
    <3>1. e = [d EXCEPT !.at = "done"]  BY <2>2 DEF TakeInstruction
    <3>2. e \in Decoded /\ e.at = "done" /\ e.halves = d.halves
      BY <1>1, <3>1 DEF Decoded, Stages
    <3>3. next \in Machines(regs) /\ next.ret /\ next.reg[0] = m.reg[0]
      BY <2>1, <2>2, DoFacts
    <3>4. m.reg[0] = Value(d.halves)  BY <2>2 DEF Follows
    <3> HIDE DEF e, next
    <3> QED  BY <3>2, <3>3, <3>4 DEF Follows
  <2>3. CASE i.op = "movz" /\ i.rd = 0
    <3> DEFINE w == [NoHalves EXCEPT ![i.hw] = i.imm]
    <3>1. e = [at |-> "moved", halves |-> w]  BY <1>4, <2>3 DEF TakeInstruction
    <3>2. i.hw \in Halves /\ i.imm \in 0..(Half - 1)  BY <2>3
    <3>3. w \in Words /\ WithHalf(0, i.hw, i.imm) = Value(w)  BY <3>2, ValueFacts
    <3>4. next \in Machines(regs) /\ ~next.ret /\ next.reg[0] = WithHalf(0, i.hw, i.imm)
      BY <2>1, <2>3, <3>2, DoFacts
    <3> HIDE DEF w, next
    <3>5. e \in Decoded /\ e.at = "moved" /\ e.halves = w  BY <3>1, <3>3 DEF Decoded, Stages
    <3> HIDE DEF e
    <3> QED  BY <3>3, <3>4, <3>5 DEF Follows
  <2>4. CASE d.at = "moved" /\ i.op = "movk" /\ i.rd = 0
    <3> DEFINE w == [d.halves EXCEPT ![i.hw] = i.imm]
    <3>1. e = [d EXCEPT !.halves = w]  BY <2>4 DEF TakeInstruction, Movk
    <3>2. i.hw \in Halves /\ i.imm \in 0..(Half - 1)  BY <2>4
    <3>3. w \in Words /\ WithHalf(Value(d.halves), i.hw, i.imm) = Value(w)
      BY <1>1, <3>2, ValueFacts
    <3>4. next \in Machines(regs) /\ ~next.ret
          /\ next.reg[0] = WithHalf(m.reg[0], i.hw, i.imm)
      BY <2>1, <2>4, <3>2, DoFacts
    <3>5. m.reg[0] = Value(d.halves)  BY <2>4 DEF Follows
    <3> HIDE DEF w, next
    <3>6. e \in Decoded /\ e.at = "moved" /\ e.halves = w
      BY <1>1, <2>4, <3>1, <3>3 DEF Decoded, Stages
    <3> HIDE DEF e
    <3> QED  BY <3>3, <3>4, <3>5, <3>6 DEF Follows
  <2>5. CASE ~(d.at = "moved" /\ i.op = "ret") /\ ~(i.op = "movz" /\ i.rd = 0)
             /\ ~(d.at = "moved" /\ i.op = "movk" /\ i.rd = 0)
    <3>1. e = [d EXCEPT !.at = "bad"]  BY <1>4, <2>5 DEF TakeInstruction
    <3>2. e \in Decoded /\ e.at = "bad"  BY <1>1, <3>1 DEF Decoded, Stages
    <3> HIDE DEF e, next
    <3> QED  BY <3>2 DEF Follows
  <2> QED  BY <2>2, <2>3, <2>4, <2>5
<1> QED  BY <1>1, <1>2, <1>3, <1>4 DEF Stages

\* What the decoder for aarch64 recognises returns what it says.
LEMMA TcbArm ==
  ASSUME NEW fn \in Int, NEW code, NEW regs, IsCode(code, regs), DecodeTcbArm(code) # Bad
  PROVE  Execute(fn, code, regs) = DecodeTcbArm(code)
<1> DEFINE c == SkipPad(code)
           p == Len(code) - Len(c)
           N == Len(code)
           L == Len(c)
<1>1. /\ p \in {0, 1} /\ N \in Nat /\ L \in Nat /\ N = p + L
      /\ \A n \in 1..L : c[n] = code[p + n] /\ c[n] \in ToSet(code)
  BY PadFacts DEF IsCode
<1>2. PICK t : t[p] \in Machines(regs) /\ ~t[p].ret /\ Goes(t, code, N)
               /\ Run(fn, code, regs) = t[N]
  BY AfterPad
<1>3. PICK d : /\ d[0] = FirstTaken
               /\ \A n \in 1..L : d[n] = TakeInstruction(d[n - 1], c[n])
               /\ Taken(c) = d[L]
  BY <1>1, TakenFacts
<1>4. 0 \in DOMAIN regs
      /\ \A i \in ToSet(code) :
           i.op \in {"movz", "movk"} => i.hw \in Halves /\ i.imm \in 0..(Half - 1)
  BY DEF IsCode
<1>5. DecodeTcbArm(code) = IF Taken(c).at = "done" THEN Value(Taken(c).halves) ELSE Bad
  BY DEF DecodeTcbArm
<1> HIDE DEF c, p, N, L
<1> DEFINE S == {n \in Nat : n <= L => Follows(d[n], t[p + n], regs)}
<1>6. 0 \in S
  <2>1. d[0] \in Decoded /\ d[0].at = "start"
    BY <1>3, ValueFacts DEF FirstTaken, Decoded, Stages
  <2>2. p + 0 = p  BY <1>1
  <2>3. Follows(d[0], t[p + 0], regs)  BY <1>2, <2>1, <2>2 DEF Follows
  <2> QED  BY <2>3
<1>7. ASSUME NEW n \in S PROVE n + 1 \in S
  <2> SUFFICES ASSUME n + 1 <= L PROVE Follows(d[n + 1], t[p + (n + 1)], regs)  OBVIOUS
  <2>1. /\ n \in Nat /\ n + 1 \in 1..L /\ n + 1 - 1 = n
        /\ p + (n + 1) \in 1..N /\ p + (n + 1) - 1 = p + n
    BY <1>1
  <2>2. Follows(d[n], t[p + n], regs)  BY <1>1, <2>1
  <2>3. d[n + 1] = TakeInstruction(d[n], c[n + 1])  BY <1>3, <2>1
  <2>4. t[p + (n + 1)] = Do(t[p + n], c[n + 1])  BY <1>1, <1>2, <2>1 DEF Goes
  <2>5. c[n + 1] \in ToSet(code)  BY <1>1, <2>1
  <2> DEFINE i == c[n + 1]
  <2>6. i.op \in {"movz", "movk"} => i.hw \in Halves /\ i.imm \in 0..(Half - 1)
    BY <1>4, <2>5
  <2> HIDE DEF i, S
  <2>7. Follows(TakeInstruction(d[n], i), Do(t[p + n], i), regs)
    BY <1>4, <2>2, <2>6, FollowsOn
  <2> QED  BY <2>3, <2>4, <2>7 DEF i
<1>8. S = Nat
  <2>1. S \subseteq Nat  OBVIOUS
  <2> HIDE DEF S
  <2> QED  BY <1>6, <1>7, <2>1, Induct
<1>9. Follows(d[L], t[N], regs)
  <2>1. L \in S /\ L <= L  BY <1>1, <1>8
  <2> QED  BY <1>1, <2>1
<1>10. d[L].at = "done" /\ DecodeTcbArm(code) = Value(d[L].halves)  BY <1>3, <1>5
<1>11. t[N].ret /\ t[N].reg[0] = Value(d[L].halves)  BY <1>9, <1>10 DEF Follows
<1> QED  BY <1>2, <1>10, <1>11 DEF Execute

LEMMA VersionX86 ==
  ASSUME NEW fn \in Int, NEW code, NEW regs, IsCode(code, regs),
         IsVersionAccessor(FALSE, code)
  PROVE  /\ DecodeVersionX86(fn, code) \in Int
         /\ Execute(fn, code, regs) = DecodeVersionX86(fn, code)
<1> DEFINE c == SkipPad(code)
           p == Len(code) - Len(c)
           N == Len(code)
<1>1. Len(c) >= 2 /\ c[1].op = "lea" /\ c[1].rd = 0 /\ c[2].op = "ret"
  BY DEF IsVersionAccessor
<1>2. DecodeVersionX86(fn, code) = fn + p + 1 + c[1].imm  BY <1>1 DEF DecodeVersionX86
<1>3. /\ p \in {0, 1} /\ N \in Nat /\ Len(c) \in Nat /\ N = p + Len(c)
      /\ \A n \in 1..Len(c) : c[n] = code[p + n] /\ c[n] \in ToSet(code)
  BY PadFacts DEF IsCode
<1>4. PICK t : /\ t[p] \in Machines(regs) /\ ~t[p].ret /\ t[p].pc = fn + p
               /\ Goes(t, code, N)
               /\ Run(fn, code, regs) = t[N]
  BY AfterPad
<1> HIDE DEF c, p, N
<1>5. /\ 1 \in 1..Len(c) /\ 2 \in 1..Len(c) /\ p + 1 \in 1..N /\ p + 2 \in 1..N
      /\ p + 1 - 1 = p /\ p + 2 - 1 = p + 1 /\ p + 2 \in 0..N
  BY <1>1, <1>3
<1>6. 0 \in DOMAIN regs /\ c[1].imm \in Int  BY <1>1, <1>3, <1>5 DEF IsCode
<1>7. t[p + 1] = Do(t[p], c[1]) /\ t[p + 2] = Do(t[p + 1], c[2])  BY <1>3, <1>4, <1>5 DEF Goes
<1>8. t[p + 1] \in Machines(regs) /\ ~t[p + 1].ret /\ t[p + 1].reg[0] = fn + p + 1 + c[1].imm
  BY <1>1, <1>4, <1>6, <1>7, DoFacts
<1>9. t[p + 2] \in Machines(regs) /\ t[p + 2].ret /\ t[p + 2].reg[0] = fn + p + 1 + c[1].imm
  BY <1>1, <1>6, <1>7, <1>8, DoFacts
<1>10. t[N] = t[p + 2]
  <2> DEFINE k == p + 2
  <2>1. k \in 0..N /\ t[k] \in Machines(regs) /\ t[k].ret  BY <1>5, <1>9
  <2>2. Goes(t, code, N)  BY <1>4
  <2> HIDE DEF k
  <2>3. N \in Nat /\ 0 \in DOMAIN regs  BY <1>3, <1>6
  <2>4. t[N] = t[k]  BY <2>1, <2>2, <2>3, ReturnIsLast
  <2> QED  BY <2>4 DEF k
<1>11. fn + p + 1 + c[1].imm \in Int  BY <1>3, <1>6
<1> QED  BY <1>2, <1>4, <1>9, <1>10, <1>11 DEF Execute

\* The distance of adrp is extended to what the processor makes of it.
LEMMA Extended == ASSUME NEW imm \in 0..(Page * Page - 1) PROVE SignExtend(imm) = Signed(imm)
<1> DEFINE P == Page * Page
           h == P \div 2
<1>1. P \in Nat /\ P >= 1  BY PageAssumption
<1>2. SignExtend(imm) = ((imm + h) % P) - h  BY DEF SignExtend
<1>3. Signed(imm) = IF 2 * imm >= P THEN imm - P ELSE imm  BY DEF Signed
<1> HIDE DEF P
<1>4. imm \in 0..(P - 1)  BY DEF P
<1>5. h \in Nat /\ 2 * h <= P /\ P <= 2 * h + 1  BY <1>1
<1> HIDE DEF h
<1>6. CASE 2 * imm >= P
  <2>1. imm + h >= P /\ imm + h < 2 * P  BY <1>1, <1>4, <1>5, <1>6
  <2>2. (imm + h) % P = imm + h - P  BY <1>1, <1>4, <1>5, <2>1
  <2> QED  BY <1>1, <1>2, <1>3, <1>4, <1>5, <1>6, <2>2
<1>7. CASE ~(2 * imm >= P)
  <2>1. imm + h < P  BY <1>1, <1>4, <1>5, <1>7
  <2>2. (imm + h) % P = imm + h  BY <1>1, <1>4, <1>5, <2>1
  <2> QED  BY <1>1, <1>2, <1>3, <1>4, <1>5, <1>7, <2>2
<1> QED  BY <1>6, <1>7

LEMMA VersionArm ==
  ASSUME NEW fn \in Int, NEW code, NEW regs, IsCode(code, regs),
         IsVersionAccessor(TRUE, code)
  PROVE  /\ DecodeVersionArm(fn, code) \in Int
         /\ Execute(fn, code, regs) = DecodeVersionArm(fn, code)
<1> DEFINE c == SkipPad(code)
           p == Len(code) - Len(c)
           N == Len(code)
           page == ((fn + p) \div Page + Signed(c[1].imm)) * Page
<1>1. /\ Len(c) >= 3 /\ c[1].op = "adrp" /\ c[2].op = "add" /\ c[3].op = "ret"
      /\ c[1].rd = 0 /\ c[2].rd = 0
  BY DEF IsVersionAccessor
<1>2. DecodeVersionArm(fn, code)
        = ((fn + N - Len(c)) \div Page) * Page + SignExtend(c[1].imm) * Page + c[2].imm
  BY <1>1 DEF DecodeVersionArm
<1>3. /\ p \in {0, 1} /\ N \in Nat /\ Len(c) \in Nat /\ N = p + Len(c)
      /\ \A n \in 1..Len(c) : c[n] = code[p + n] /\ c[n] \in ToSet(code)
  BY PadFacts DEF IsCode
<1>4. PICK t : /\ t[p] \in Machines(regs) /\ ~t[p].ret /\ t[p].pc = fn + p
               /\ Goes(t, code, N)
               /\ Run(fn, code, regs) = t[N]
  BY AfterPad
<1> HIDE DEF c, p, N
<1>5. /\ 1 \in 1..Len(c) /\ 2 \in 1..Len(c) /\ 3 \in 1..Len(c)
      /\ p + 1 \in 1..N /\ p + 2 \in 1..N /\ p + 3 \in 1..N /\ p + 3 \in 0..N
      /\ p + 1 - 1 = p /\ p + 2 - 1 = p + 1 /\ p + 3 - 1 = p + 2
  BY <1>1, <1>3
<1>6. 0 \in DOMAIN regs /\ c[1].imm \in 0..(Page * Page - 1) /\ c[2].imm \in Int
  BY <1>1, <1>3, <1>5 DEF IsCode
<1>7. /\ t[p + 1] = Do(t[p], c[1]) /\ t[p + 2] = Do(t[p + 1], c[2])
      /\ t[p + 3] = Do(t[p + 2], c[3])
  BY <1>3, <1>4, <1>5 DEF Goes
<1>8. t[p + 1] \in Machines(regs) /\ ~t[p + 1].ret /\ t[p + 1].reg[0] = page
  BY <1>1, <1>4, <1>6, <1>7, DoFacts
<1> HIDE DEF page
<1>9. t[p + 2] \in Machines(regs) /\ ~t[p + 2].ret /\ t[p + 2].reg[0] = page + c[2].imm
  BY <1>1, <1>6, <1>7, <1>8, DoFacts
<1>10. t[p + 3] \in Machines(regs) /\ t[p + 3].ret /\ t[p + 3].reg[0] = page + c[2].imm
  BY <1>1, <1>6, <1>7, <1>9, DoFacts
<1>11. t[N] = t[p + 3]
  <2> DEFINE k == p + 3
  <2>1. k \in 0..N /\ t[k] \in Machines(regs) /\ t[k].ret  BY <1>5, <1>10
  <2>2. Goes(t, code, N)  BY <1>4
  <2> HIDE DEF k
  <2>3. N \in Nat /\ 0 \in DOMAIN regs  BY <1>3, <1>6
  <2>4. t[N] = t[k]  BY <2>1, <2>2, <2>3, ReturnIsLast
  <2> QED  BY <2>4 DEF k
<1>12. Execute(fn, code, regs) = page + c[2].imm  BY <1>4, <1>10, <1>11 DEF Execute
<1>13. DecodeVersionArm(fn, code) = page + c[2].imm /\ page \in Int
  <2> DEFINE q == (fn + p) \div Page
             s == Signed(c[1].imm)
  <2>1. fn + N - Len(c) = fn + p  BY <1>3
  <2>2. SignExtend(c[1].imm) = s  BY <1>6, Extended
  <2>3. DecodeVersionArm(fn, code) = q * Page + s * Page + c[2].imm  BY <1>2, <2>1, <2>2
  <2>4. q \in Int /\ s \in Int /\ Page \in Int  BY <1>3, <1>6, PageAssumption DEF Signed
  <2>5. page = (q + s) * Page  BY DEF page
  <2> HIDE DEF q, s
  <2>6. (q + s) * Page = q * Page + s * Page /\ (q + s) * Page \in Int  BY <2>4
  <2> QED  BY <2>3, <2>5, <2>6
<1> QED  BY <1>6, <1>12, <1>13

\* For code of any length, whatever the registers held: what a decoder of the TLS slot
\* recognises returns the value it says; what a compiler makes of php_version returns
\* the address its decoder says, for every distance and position.
THEOREM DecodersAreRight ==
  ASSUME NEW fn \in Int, NEW code, NEW regs, IsCode(code, regs)
  PROVE  /\ DecodeTcbX86(code) # Bad => Execute(fn, code, regs) = DecodeTcbX86(code)
         /\ DecodeTcbArm(code) # Bad => Execute(fn, code, regs) = DecodeTcbArm(code)
         /\ IsVersionAccessor(FALSE, code) =>
              Execute(fn, code, regs) = DecodeVersionX86(fn, code)
         /\ IsVersionAccessor(TRUE, code) =>
              Execute(fn, code, regs) = DecodeVersionArm(fn, code)
BY TcbX86, TcbArm, VersionX86, VersionArm

(***************************************************************************)
(* The first of something: a mapping, a literal                            *)
(***************************************************************************)

LEMMA MinFacts ==
  ASSUME NEW S, S \subseteq Nat, S # {}
  PROVE  Min(S) \in S /\ \A y \in S : Min(S) <= y
<1>1. \E x \in S : \A y \in S : x <= y
  <2> SUFFICES ASSUME \A x \in S : \E y \in S : y < x PROVE FALSE
    <3>1. \A x \in S, y \in S : ~(x <= y) => y < x  OBVIOUS
    <3> QED  BY <3>1
  <2> DEFINE T == {n \in Nat : \A y \in S : n < y}
  <2>1. 0 \in T
    <3>1. ASSUME NEW y \in S PROVE 0 < y
      <4>1. PICK z \in S : z < y  OBVIOUS
      <4> QED  BY <4>1
    <3> QED  BY <3>1
  <2>2. ASSUME NEW n \in T PROVE n + 1 \in T
    <3>1. ASSUME NEW y \in S PROVE n + 1 < y
      <4>1. PICK z \in S : z < y  OBVIOUS
      <4>2. n < z  BY <4>1
      <4> QED  BY <4>1, <4>2
    <3> QED  BY <3>1
  <2>3. T = Nat
    <3>1. T \subseteq Nat  OBVIOUS
    <3> HIDE DEF T
    <3> QED  BY <2>1, <2>2, <3>1, Induct
  <2>4. PICK x \in S : TRUE  OBVIOUS
  <2>5. x \in T  BY <2>3, <2>4
  <2> QED  BY <2>4, <2>5
<1> QED  BY <1>1 DEF Min

LEMMA FirstFacts ==
  ASSUME NEW I, I \subseteq Nat \ {0}
  PROVE  LET first == IF I # {} THEN Min(I) ELSE 0
         IN  /\ first = 0 => I = {}
             /\ first # 0 => first \in I /\ \A j \in I : first <= j
BY MinFacts

\* The principal binary is that of the first text.
LEMMA PrincipalFacts ==
  ASSUME NEW w \in Worlds
  PROVE  LET b == PrincipalBinary(w.maps)
         IN  /\ b = None => \A i \in 1..Len(w.maps) : ~IsText(w.maps[i])
             /\ b # None =>
                  \E i \in 1..Len(w.maps) :
                    /\ IsText(w.maps[i])
                    /\ \A j \in 1..Len(w.maps) : j < i => ~IsText(w.maps[j])
                    /\ b = [path |-> w.maps[i].path,
                            base |-> Min({m.start : m \in {n \in ToSet(w.maps) :
                               n.path = w.maps[i].path /\ n.kind = w.maps[i].kind}})]
                    /\ b.base \in Nat
<1> DEFINE maps == w.maps
           I == {i \in 1..Len(maps) : IsText(maps[i])}
           i == IF I # {} THEN Min(I) ELSE 0
           base(k) == Min({m.start : m \in {n \in ToSet(maps) :
                         n.path = maps[k].path /\ n.kind = maps[k].kind}})
           b == PrincipalBinary(maps)
<1>1. b = IF i = 0 THEN None ELSE [path |-> maps[i].path, base |-> base(i)]
  BY DEF PrincipalBinary, SelectInSeq
<1>2. /\ maps \in Seq(ToSet(maps)) /\ \A m \in ToSet(maps) : m.start \in Nat
      /\ None \notin [path : {m.path : m \in ToSet(maps)}, base : Nat]
  BY WorldsAssumption DEF MapsAreRight
<1> HIDE DEF maps
<1>3. /\ i = 0 => I = {}
      /\ i # 0 => i \in I /\ \A j \in I : i <= j
  <2>1. I \subseteq Nat \ {0}  BY <1>2
  <2> HIDE DEF I
  <2> QED  BY <2>1, FirstFacts
<1> HIDE DEF i, b
<1>4. CASE i = 0
  <2>1. \A j \in 1..Len(maps) : ~IsText(maps[j])  BY <1>3, <1>4
  <2> QED  BY <1>1, <1>4, <2>1 DEF b, maps
<1>5. CASE i # 0
  <2>1. i \in 1..Len(maps) /\ IsText(maps[i])  BY <1>3, <1>5
  <2>2. ASSUME NEW j \in 1..Len(maps), j < i PROVE ~IsText(maps[j])
    <3>1. i \in Int /\ j \in Int  BY <1>2, <2>1
    <3> QED  BY <1>3, <1>5, <2>2, <3>1
  <2>3. maps[i] \in ToSet(maps)  BY <1>2, <2>1 DEF ToSet
  <2>4. base(i) \in Nat
    <3> DEFINE S == {m.start : m \in {n \in ToSet(maps) :
                       n.path = maps[i].path /\ n.kind = maps[i].kind}}
    <3>1. S \subseteq Nat /\ maps[i].start \in S  BY <1>2, <2>3
    <3> HIDE DEF S
    <3>2. Min(S) \in Nat  BY <3>1, MinFacts
    <3> QED  BY <3>2 DEF S
  <2> HIDE DEF base
  <2>5. b = [path |-> maps[i].path, base |-> base(i)]  BY <1>1, <1>5
  <2>6. b.base \in Nat /\ b # None  BY <1>2, <2>3, <2>4, <2>5
  <2>7. \A j \in 1..Len(maps) : j < i => ~IsText(maps[j])  BY <2>2
  <2> QED  BY <2>1, <2>5, <2>6, <2>7 DEF b, base, maps
<1> QED  BY <1>4, <1>5

\* A version that can be found is.
LEMMA ScanFinds ==
  ASSUME NEW runs, runs \in Seq(ToSet(runs)), NEW r \in ToSet(runs), Matches(r)
  PROVE  ScanForVersion(runs) # None
<1> DEFINE I == {i \in 1..Len(runs) : Matches(runs[i])}
           first == IF I # {} THEN Min(I) ELSE 0
<1>1. ScanForVersion(runs) = IF first = 0 THEN None ELSE runs[first].minor
  BY DEF ScanForVersion, SelectInSeq
<1>2. PICK i \in 1..Len(runs) : runs[i] = r  BY DEF ToSet
<1>3. /\ first = 0 => I = {}
      /\ first # 0 => first \in I
  <2>1. I \subseteq Nat \ {0}  OBVIOUS
  <2> HIDE DEF I
  <2> QED  BY <2>1, FirstFacts
<1> HIDE DEF first
<1>4. first # 0 /\ Matches(runs[first])  BY <1>2, <1>3
<1> QED  BY <1>1, <1>4 DEF Matches

LEMMA FindFinds ==
  ASSUME NEW sections, sections \in Seq(ToSet(sections)), NEW runs \in ToSet(sections),
         ScanForVersion(runs) # None
  PROVE  FindVersion(sections) # None
<1> DEFINE I == {i \in 1..Len(sections) : ScanForVersion(sections[i]) # None}
           first == IF I # {} THEN Min(I) ELSE 0
<1>1. FindVersion(sections) = IF first = 0 THEN None ELSE ScanForVersion(sections[first])
  BY DEF FindVersion, SelectInSeq
<1>2. PICK i \in 1..Len(sections) : sections[i] = runs  BY DEF ToSet
<1>3. /\ first = 0 => I = {}
      /\ first # 0 => first \in I
  <2>1. I \subseteq Nat \ {0}  OBVIOUS
  <2> HIDE DEF I
  <2> QED  BY <2>1, FirstFacts
<1> HIDE DEF first
<1>4. first # 0 /\ ScanForVersion(sections[first]) # None  BY <1>2, <1>3
<1> QED  BY <1>1, <1>4

(***************************************************************************)
(* The attach                                                              *)
(***************************************************************************)

Found == pc \in {"open", "resolve", "zts", "version", "done"} =>
           binary # None /\ binary = PrincipalBinary(world.maps)

Opened == pc \in {"resolve", "zts", "version", "done"} =>
            elf # None /\ elf \in {world.own[binary.path], world.disk[binary.path]}

Resolved ==
  pc \in {"zts", "version", "done"} =>
    /\ binary.path = Php
    /\ ~Shadowed /\ ~Replaced => IF pc = "zts" THEN php.zts ELSE eg \in TrueEgs

\* What the later steps rely on: which binary was found, which file was opened for it
\* and what was read from that.
IInv ==
  /\ world \in Worlds
  /\ pc \in Steps \cup {"done", "error"}
  /\ Found /\ Opened /\ Resolved
  /\ AttachedRight /\ RefusedForAReason

LEMMA InitInv == Init => IInv
<1> SUFFICES ASSUME Init PROVE IInv  OBVIOUS
<1>1. world \in Worlds /\ pc = "maps"  BY DEF Init
<1> QED  BY <1>1 DEF IInv, Found, Opened, Resolved, AttachedRight, RefusedForAReason, Steps

LEMMA ReadMapsInv == IInv /\ ReadMaps => IInv'
<1> SUFFICES ASSUME IInv, ReadMaps PROVE IInv'  OBVIOUS
<1> DEFINE b == PrincipalBinary(world.maps)
<1>1. /\ pc = "maps" /\ world' = world /\ alive' = alive
      /\ binary' = IF alive THEN b ELSE None
      /\ pc' = IF binary' # None THEN "open" ELSE "error"
  BY DEF ReadMaps, GoesOn
<1>2. world \in Worlds  BY DEF IInv
<1>3. pc' = "error" /\ alive =>
        ~(Sound /\ PhpIsRight(world) /\ MapsAreRight(world))
  <2> SUFFICES ASSUME pc' = "error", alive, Sound, MapsAreRight(world) PROVE FALSE  OBVIOUS
  <2>1. \A i \in 1..Len(world.maps) : ~IsText(world.maps[i])
    BY <1>1, <1>2, PrincipalFacts
  <2>2. PICK m \in ToSet(world.maps) : m.path = Php /\ m.exec  BY DEF Sound
  <2>3. m.kind # "deleted"  BY <2>2 DEF Sound, Replaced
  <2>4. m.private /\ m.kind = "file"  BY <2>2, <2>3 DEF MapsAreRight
  <2>5. PICK i \in 1..Len(world.maps) : world.maps[i] = m  BY DEF ToSet
  <2> QED  BY <2>1, <2>2, <2>4, <2>5 DEF IsText
<1>4. PhpIsRight(world) /\ MapsAreRight(world)  BY <1>2, WorldsAssumption
<1>5. Sound' = Sound  BY <1>1 DEF Sound, Shadowed, Replaced, php
<1>6. RefusedForAReason'
  BY <1>1, <1>3, <1>4, <1>5 DEF RefusedForAReason
<1>7. pc' \in {"open", "error"} /\ Found'  BY <1>1 DEF Found
<1> QED  BY <1>1, <1>2, <1>6, <1>7 DEF IInv, Opened, Resolved, AttachedRight, Steps

\* Unless the code of another file comes first, PHP is found.
LEMMA PhpIsFound ==
  ASSUME world \in Worlds, Sound, ~Embedded, binary # None,
         binary = PrincipalBinary(world.maps)
  PROVE  binary.path = Php
<1>1. PICK i \in 1..Len(world.maps) :
        /\ IsText(world.maps[i])
        /\ \A j \in 1..Len(world.maps) : j < i => ~IsText(world.maps[j])
        /\ binary.path = world.maps[i].path
  <2>1. PICK i \in 1..Len(world.maps) :
          /\ IsText(world.maps[i])
          /\ \A j \in 1..Len(world.maps) : j < i => ~IsText(world.maps[j])
          /\ binary = [path |-> world.maps[i].path,
                       base |-> Min({m.start : m \in {n \in ToSet(world.maps) :
                          n.path = world.maps[i].path /\ n.kind = world.maps[i].kind}})]
    BY PrincipalFacts
  <2>2. binary.path = world.maps[i].path  BY <2>1
  <2> QED  BY <2>1, <2>2
<1>2. MapsAreRight(world)  BY WorldsAssumption
<1>3. DOMAIN world.maps = 1..Len(world.maps) /\ Len(world.maps) \in Nat  BY <1>2 DEF MapsAreRight
<1>4. PICK j \in 1..i : world.maps[j].path = Php /\ world.maps[j].exec
  BY <1>1, <1>3 DEF Embedded, IsText
<1>5. j \in 1..Len(world.maps)  BY <1>3
<1>6. world.maps[j] \in ToSet(world.maps)  BY <1>5 DEF ToSet
<1>7. world.maps[j].kind # "deleted"  BY <1>4, <1>6 DEF Sound, Replaced
<1>8. IsText(world.maps[j])  BY <1>2, <1>4, <1>6, <1>7 DEF MapsAreRight, IsText
<1>9. j = i  BY <1>1, <1>5, <1>8
<1> QED  BY <1>1, <1>4, <1>9

LEMMA OpenBinaryInv == IInv /\ OpenBinary => IInv'
<1> SUFFICES ASSUME IInv, OpenBinary PROVE IInv'  OBVIOUS
<1>1. /\ pc = "open" /\ world' = world /\ alive' = alive /\ binary' = binary
      /\ elf' = IF world.own[binary.path] # None THEN world.own[binary.path]
                ELSE IF alive THEN world.disk[binary.path] ELSE None
      /\ pc' = IF elf' # None THEN "resolve" ELSE "error"
  BY DEF OpenBinary, GoesOn
<1>2. world \in Worlds  BY DEF IInv
<1>3. binary # None /\ binary = PrincipalBinary(world.maps)  BY <1>1 DEF IInv, Found
<1>4. ASSUME pc' = "error", alive, Sound PROVE Embedded
  <2> SUFFICES ASSUME ~Embedded PROVE FALSE  OBVIOUS
  <2>1. binary.path = Php  BY <1>2, <1>3, <1>4, PhpIsFound
  <2>2. world.disk[Php] # None  BY <1>2, WorldsAssumption DEF PhpIsRight
  <2> QED  BY <1>1, <1>4, <2>1, <2>2
<1>5. Sound' = Sound /\ Embedded' = Embedded
  BY <1>1 DEF Sound, Shadowed, Replaced, php, Embedded
<1>6. RefusedForAReason'  BY <1>1, <1>4, <1>5 DEF RefusedForAReason
<1>7. Opened' /\ Found' /\ pc' \in {"resolve", "error"}
  BY <1>1, <1>3 DEF Opened, Found
<1> QED  BY <1>1, <1>2, <1>6, <1>7 DEF IInv, Resolved, AttachedRight, Steps

\* Where PHP was found and where it was loaded are one, as none of its mappings is of
\* a deleted file.
LEMMA BaseIsRight ==
  ASSUME world \in Worlds, binary # None, binary = PrincipalBinary(world.maps),
         binary.path = Php, ~Replaced, elf = php
  PROVE  Bias = TrueBias
<1> DEFINE All == {n \in ToSet(world.maps) : n.path = Php}
           Same(k) == {n \in ToSet(world.maps) : n.path = Php /\ n.kind = k}
<1>1. PICK i \in 1..Len(world.maps) :
        /\ IsText(world.maps[i])
        /\ binary = [path |-> world.maps[i].path,
                     base |-> Min({m.start : m \in {n \in ToSet(world.maps) :
                        n.path = world.maps[i].path /\ n.kind = world.maps[i].kind}})]
  BY PrincipalFacts
<1>2. world.maps[i].path = Php /\ world.maps[i].kind = "file"  BY <1>1 DEF IsText
<1>3. binary.base = Min({m.start : m \in Same("file")})  BY <1>1, <1>2
<1>4. Same("file") = All
  BY WorldsAssumption DEF MapsAreRight, Replaced
<1>5. binary.base = Min({m.start : m \in All})  BY <1>3, <1>4
<1> QED  BY <1>5 DEF Bias, TrueBias, TrueBiasOf, php

LEMMA ResolveInv == IInv /\ Resolve => IInv'
<1> SUFFICES ASSUME IInv, Resolve PROVE IInv'  OBVIOUS
<1> DEFINE zts == IsZts(elf.symbols)
           ok == /\ elf.type \in {"DYN", "EXEC"} /\ elf.native
                 /\ zts => ZtsComplete(elf.symbols)
                 /\ world.override # None \/ Has("executor_globals") \/ zts
<1>1. /\ pc = "resolve" /\ world' = world /\ alive' = alive /\ binary' = binary /\ elf' = elf
      /\ pc' = IF ok THEN (IF zts /\ eg' = 0 THEN "zts" ELSE "version") ELSE "error"
      /\ eg' = IF ~ok THEN 0
               ELSE IF world.override # None THEN ApplyOverride(world.override)
               ELSE IF Has("executor_globals") THEN elf.at["executor_globals"] + Bias
               ELSE 0
  BY DEF Resolve, GoesOn
<1>2. world \in Worlds /\ PhpIsRight(world) /\ OthersAreRight(world) /\ OptionsAreRight(world)
  BY WorldsAssumption DEF IInv
<1>3. /\ binary # None /\ binary = PrincipalBinary(world.maps)
      /\ elf # None /\ elf \in {world.own[binary.path], world.disk[binary.path]}
  BY <1>1 DEF IInv, Found, Opened
<1>4. binary.path = Php /\ ~Shadowed => elf = php  BY <1>3 DEF Shadowed, php
<1> HIDE DEF ok, zts
<1>5. ok => binary.path = Php
  <2> SUFFICES ASSUME ok, binary.path # Php PROVE FALSE  OBVIOUS
  <2>1. PICK i \in 1..Len(world.maps) :
          binary = [path |-> world.maps[i].path,
                    base |-> Min({m.start : m \in {n \in ToSet(world.maps) :
                       n.path = world.maps[i].path /\ n.kind = world.maps[i].kind}})]
    BY <1>2, <1>3, PrincipalFacts
  <2>2. binary.path = world.maps[i].path /\ world.maps[i] \in ToSet(world.maps)
    BY <2>1 DEF ToSet
  <2>3. elf.symbols \cap Names = {}  BY <1>3, <2>2 , <1>2 DEF OthersAreRight
  <2>4. ~Has("executor_globals") /\ ~zts  BY <2>3 DEF Has, zts, IsZts, Names
  <2>5. world.override # None  BY <2>4 DEF ok
  <2> QED  BY <1>2, <1>3, <2>5 DEF OptionsAreRight
<1>6. ASSUME ok, ~Shadowed, ~Replaced
      PROVE  IF pc' = "zts" THEN php.zts ELSE eg' \in TrueEgs
  <2>1. binary.path = Php /\ elf = php /\ Bias = TrueBias
    BY <1>2, <1>3, <1>4, <1>5, <1>6, BaseIsRight
  <2>2. zts => php.zts  BY <1>2, <2>1 DEF PhpIsRight, php, zts
  <2>3. CASE world.override # None
    <3>1. eg' = ApplyOverride(world.override)  BY <1>1, <1>6, <2>3
    <3>2. binary.base \in Nat  BY <1>2, <1>3, PrincipalFacts
    <3>3. ApplyOverride(world.override) \in TrueEgsOf(world)
      BY <1>2, <1>3, <2>3, <3>2 DEF OptionsAreRight, ApplyOverride
    <3> QED  BY <1>1, <2>2, <3>1, <3>3 DEF TrueEgs
  <2>4. CASE world.override = None /\ Has("executor_globals")
    <3>1. eg' = php.at["executor_globals"] + TrueBias  BY <1>1, <1>6, <2>1, <2>4
    <3>2. ~php.zts  BY <1>2, <2>1, <2>4 DEF PhpIsRight, Has, php
    <3>3. eg' \in TrueEgs  BY <3>1, <3>2 DEF TrueEgs, TrueEgsOf, TrueBias, php
    <3> QED  BY <1>1, <1>6, <2>2, <3>2, <3>3
  <2>5. CASE world.override = None /\ ~Has("executor_globals")
    <3>1. eg' = 0  BY <1>1, <1>6, <2>5
    <3>2. zts  BY <1>6, <2>5 DEF ok
    <3> QED  BY <1>1, <1>6, <2>2, <3>1, <3>2
  <2> QED  BY <2>3, <2>4, <2>5
<1>7. ASSUME ~ok, Sound, KnowsAddress, ~Embedded, ~PartlyStripped PROVE FALSE
  <2>1. elf = php /\ binary.path = Php  BY <1>2, <1>3, <1>4, <1>7, PhpIsFound DEF Sound
  <2>2. elf.type \in {"DYN", "EXEC"} /\ elf.native  BY <1>7, <2>1 DEF Sound
  <2>3. zts => ZtsComplete(elf.symbols)
    BY <1>2, <1>7, <2>1 DEF PartlyStripped, PhpIsRight, php, zts
  <2>4. world.override # None \/ Has("executor_globals") \/ zts
    BY <1>7, <2>1 DEF KnowsAddress, Has, zts, IsZts, ZtsComplete
  <2> QED  BY <1>7, <2>2, <2>3, <2>4 DEF ok
<1>8. /\ Shadowed' = Shadowed /\ Replaced' = Replaced /\ Sound' = Sound /\ TrueEgs' = TrueEgs
      /\ php' = php /\ KnowsAddress' = KnowsAddress /\ Embedded' = Embedded
      /\ PartlyStripped' = PartlyStripped
  BY <1>1 DEF Shadowed, Replaced, Sound, TrueEgs, php, KnowsAddress, Embedded, PartlyStripped
<1>9. RefusedForAReason'
  <2>1. pc' = "error" => ~ok  BY <1>1
  <2> QED  BY <1>7, <1>8, <2>1 DEF RefusedForAReason
<1>10. Found' /\ Opened'  BY <1>1, <1>3 DEF Found, Opened
<1>11. Resolved'
  <2>1. pc' \in {"zts", "version", "done"} => ok  BY <1>1
  <2> QED  BY <1>1, <1>5, <1>6, <1>8, <2>1 DEF Resolved
<1>12. pc' \in {"zts", "version", "error"}  BY <1>1
<1> QED  BY <1>1, <1>2, <1>9, <1>10, <1>11, <1>12 DEF IInv, AttachedRight, Steps

LEMMA ResolveZtsInv == IInv /\ ResolveZts => IInv'
<1> SUFFICES ASSUME IInv, ResolveZts PROVE IInv'  OBVIOUS
<1>1. /\ pc = "zts" /\ world' = world /\ alive' = alive /\ binary' = binary /\ elf' = elf
      /\ \/ /\ pc' = "version" /\ DecodeTcb # Bad
            /\ \E t \in PhpTasks : eg' = IF DecodeTcb = TrueTcb THEN EgOf[t] ELSE 0
         \/ pc' = "error" /\ failed' = "zts"
  BY DEF ResolveZts, GoesOn
<1>2. world \in Worlds /\ PhpIsRight(world)  BY WorldsAssumption DEF IInv
<1>3. /\ binary # None /\ binary = PrincipalBinary(world.maps)
      /\ elf # None /\ elf \in {world.own[binary.path], world.disk[binary.path]}
      /\ binary.path = Php /\ (~Shadowed /\ ~Replaced => php.zts)
  BY <1>1 DEF IInv, Found, Opened, Resolved
<1>4. ASSUME pc' = "version", ~Shadowed, ~Replaced PROVE eg' \in TrueEgs
  <2> DEFINE code == php.code["tsrm_get_ls_cache_tcb_offset"]
  <2>1. elf = php  BY <1>3, <1>4 DEF Shadowed, php
  <2>2. Bias = TrueBias  BY <1>2, <1>3, <1>4, <2>1, BaseIsRight
  <2>3. CodeAt("tsrm_get_ls_cache_tcb_offset") = code  BY <2>1, <2>2 DEF CodeAt, php
  <2>4. php.zts /\ IsCode(code, world.regs)  BY <1>2, <1>3, <1>4 DEF PhpIsRight, php
  <2>5. TrueTcb = Execute(0, code, world.regs)  BY DEF TrueTcb, php
  <2>6. DecodeTcb = IF world.arm THEN DecodeTcbArm(code) ELSE DecodeTcbX86(code)
    BY <2>3 DEF DecodeTcb
  <2> HIDE DEF code
  <2>7. DecodeTcb # Bad  BY <1>1, <1>4
  <2>8. 0 \in Int  OBVIOUS
  <2>9. DecodeTcb = TrueTcb
    <3>1. CASE world.arm  BY <2>4, <2>5, <2>6, <2>7, <2>8, <3>1, TcbArm
    <3>2. CASE ~world.arm  BY <2>4, <2>5, <2>6, <2>7, <2>8, <3>2, TcbX86
    <3> QED  BY <3>1, <3>2
  <2>10. PICK t \in PhpTasks : eg' = EgOf[t]  BY <1>1, <1>4, <2>9
  <2> QED  BY <2>4, <2>10 DEF TrueEgs, TrueEgsOf, php
<1>5. /\ Shadowed' = Shadowed /\ Replaced' = Replaced /\ TrueEgs' = TrueEgs
  BY <1>1 DEF Shadowed, Replaced, TrueEgs, php
<1>6. Found' /\ Opened' /\ pc' \in {"version", "error"}  BY <1>1, <1>3 DEF Found, Opened
<1>7. Resolved'
  <2>1. pc' # "zts" /\ (pc' = "version" \/ pc' = "error")  BY <1>1
  <2> QED  BY <1>1, <1>3, <1>4, <1>5, <2>1 DEF Resolved
<1>8. RefusedForAReason'  BY <1>1 DEF RefusedForAReason
<1> QED  BY <1>1, <1>2, <1>6, <1>7, <1>8 DEF IInv, AttachedRight, Steps

\* A version is PHP's, if it is not the literal of another library.
LEMMA VersionIsRight ==
  ASSUME elf = php, ~ForeignLiteral, OptionsAreRight(world)
  PROVE  Version \in {None, php.minor}
<1>1. world.version \in {None, php.minor}  BY DEF OptionsAreRight, php
<1>2. FindVersion(elf.sections) \in {None, php.minor}  BY DEF ForeignLiteral
<1>3. ReadVersion \in {None, php.minor}  BY DEF ReadVersion, php
<1> QED  BY <1>1, <1>2, <1>3 DEF Version

\* It is known, if there is a way to know it.
LEMMA VersionIsKnown ==
  ASSUME elf = php, Bias = TrueBias, Bias \in Int, PhpIsRight(world), alive,
         KnowsVersion, ~ShortLiteral
  PROVE  Version # None
<1>1. CASE world.version # None  BY <1>1 DEF Version
<1>2. CASE \E runs \in ToSet(php.sections) : \E r \in ToSet(runs) :
             r.ended /\ r.minor = php.minor
  <2>1. PICK runs \in ToSet(php.sections) : \E r \in ToSet(runs) :
          r.ended /\ r.minor = php.minor
    BY <1>2
  <2>2. PICK r \in ToSet(runs) : r.ended /\ r.minor = php.minor  BY <2>1
  <2>3. php.minor # None  BY NoneAssumption DEF PhpIsRight, php
  <2>4. r.length \in Nat /\ r.length >= 5 /\ r.length # 5
    BY <2>2, <2>3 DEF PhpIsRight, ShortLiteral, php
  <2>5. Matches(r)  BY <2>2, <2>3, <2>4 DEF Matches
  <2>6. runs \in Seq(ToSet(runs)) /\ php.sections \in Seq(ToSet(php.sections))
    BY DEF PhpIsRight, php
  <2>7. FindVersion(php.sections) # None
    <3>1. ScanForVersion(runs) # None  BY <2>5, <2>6, ScanFinds
    <3> QED  BY <2>6, <3>1, FindFinds
  <2> QED  BY <2>7 DEF Version
<1>3. CASE "php_version" \in php.symbols /\ world.permitted
  <2> DEFINE fn == elf.at["php_version"] + Bias
             code == php.code["php_version"]
             at == IF world.arm THEN DecodeVersionArm(fn, code) ELSE DecodeVersionX86(fn, code)
  <2>1. CodeAt("php_version") = code  BY DEF CodeAt, php
  <2>2. IsCode(code, world.regs) /\ IsVersionAccessor(world.arm, code)
    BY <1>3 DEF PhpIsRight, php
  <2>3. fn \in Int  BY DEF PhpIsRight, Names, php
  <2>4. ReadVersion = IF Readable /\ at # Bad /\ at = Execute(fn, code, world.regs)
                      THEN php.minor ELSE None
    BY <2>1 DEF ReadVersion, php
  <2> HIDE DEF fn, code
  <2>5. at \in Int /\ at = Execute(fn, code, world.regs)
    <3>1. CASE world.arm
      <4>1. IsVersionAccessor(TRUE, code)  BY <2>2, <3>1 DEF IsVersionAccessor
      <4> QED  BY <2>2, <2>3, <3>1, <4>1, VersionArm
    <3>2. CASE ~world.arm
      <4>1. IsVersionAccessor(FALSE, code)  BY <2>2, <3>2 DEF IsVersionAccessor
      <4> QED  BY <2>2, <2>3, <3>2, <4>1, VersionX86
    <3> QED  BY <3>1, <3>2
  <2>6. php.minor # None  BY NoneAssumption DEF PhpIsRight, php
  <2>7. ReadVersion # None  BY <1>3, <2>4, <2>5, <2>6, BadAssumption DEF Readable
  <2> QED  BY <1>3, <2>7 DEF Version, Has
<1> QED  BY <1>1, <1>2, <1>3 DEF KnowsVersion

LEMMA DetectVersionInv == IInv /\ DetectVersion => IInv'
<1> SUFFICES ASSUME IInv, DetectVersion PROVE IInv'  OBVIOUS
<1>1. /\ pc = "version" /\ world' = world /\ alive' = alive /\ binary' = binary /\ elf' = elf
      /\ eg' = eg
      /\ layout' = IF Version = None THEN None ELSE Pick(Version)
      /\ pc' = IF layout' # None THEN "done" ELSE "error"
  BY DEF DetectVersion, GoesOn
<1>2. world \in Worlds /\ PhpIsRight(world) /\ OptionsAreRight(world)
  BY WorldsAssumption DEF IInv
<1>3. /\ binary # None /\ binary = PrincipalBinary(world.maps)
      /\ elf # None /\ elf \in {world.own[binary.path], world.disk[binary.path]}
      /\ binary.path = Php /\ (~Shadowed /\ ~Replaced => eg \in TrueEgs)
  BY <1>1 DEF IInv, Found, Opened, Resolved
<1>4. ~Shadowed => elf = php  BY <1>3 DEF Shadowed, php
<1>5. php.minor \in Nat  BY <1>2 DEF PhpIsRight, php
<1>6. php.minor < 10 => Leading(php.minor) = php.minor  BY <1>5 DEF Leading
<1>7. ASSUME pc' = "done", ~Shadowed, ~Replaced, ~TwoDigits, ~ForeignLiteral
      PROVE  layout' = Layouts[php.minor]
  <2>1. Version = php.minor  BY <1>1, <1>2, <1>4, <1>7, VersionIsRight
  <2>2. Leading(php.minor) = php.minor  BY <1>5, <1>6, <1>7 DEF TwoDigits
  <2> QED  BY <1>1, <1>7, <2>1, <2>2 DEF Pick
<1>8. ASSUME pc' = "error", alive, Sound, KnowsVersion, ~ShortLiteral, ~ForeignLiteral
      PROVE  FALSE
  <2>1. elf = php  BY <1>4, <1>8 DEF Sound
  <2>2. Bias = TrueBias  BY <1>2, <1>3, <1>8, <2>1, BaseIsRight DEF Sound
  <2>3. Bias \in Int
    <3>1. binary.base \in Nat  BY <1>2, <1>3, PrincipalFacts
    <3> QED  BY <3>1 DEF Bias
  <2>4. Version = php.minor /\ Version # None
    BY <1>2, <1>8, <2>1, <2>2, <2>3, VersionIsRight, VersionIsKnown
  <2>5. php.minor \in DOMAIN Layouts  BY <1>8 DEF Sound
  <2>6. Leading(php.minor) = php.minor /\ Layouts[php.minor] # None
    BY <1>5, <1>6, <2>5, LayoutsAssumption
  <2>7. Pick(Version) # None  BY <2>4, <2>5, <2>6 DEF Pick
  <2> QED  BY <1>1, <1>8, <2>4, <2>7
<1>9. /\ Shadowed' = Shadowed /\ Replaced' = Replaced /\ Sound' = Sound /\ TrueEgs' = TrueEgs
      /\ php' = php /\ TwoDigits' = TwoDigits /\ ForeignLiteral' = ForeignLiteral
      /\ KnowsVersion' = KnowsVersion /\ ShortLiteral' = ShortLiteral
  BY <1>1 DEF Shadowed, Replaced, Sound, TrueEgs, php, TwoDigits, ForeignLiteral, KnowsVersion,
              ShortLiteral
<1>10. AttachedRight'  BY <1>1, <1>3, <1>7, <1>9 DEF AttachedRight
<1>11. RefusedForAReason'  BY <1>1, <1>8, <1>9 DEF RefusedForAReason
<1>12. pc' \in {"done", "error"} /\ Found' /\ Opened'  BY <1>1, <1>3 DEF Found, Opened
<1>13. Resolved'  BY <1>1, <1>3, <1>9, <1>12 DEF Resolved
<1> QED  BY <1>1, <1>2, <1>10, <1>11, <1>12, <1>13 DEF IInv

LEMMA ExitInv == IInv /\ Exit => IInv'
<1> SUFFICES ASSUME IInv, Exit PROVE IInv'  OBVIOUS
<1>1. /\ world' = world /\ pc' = pc /\ binary' = binary /\ elf' = elf /\ eg' = eg
      /\ pc \notin {"done", "error"}
  BY DEF Exit
<1>2. /\ Shadowed' = Shadowed /\ Replaced' = Replaced /\ TrueEgs' = TrueEgs /\ php' = php
  BY <1>1 DEF Shadowed, Replaced, TrueEgs, php
<1>3. Found' /\ Opened' /\ Resolved'  BY <1>1, <1>2 DEF IInv, Found, Opened, Resolved
<1> QED  BY <1>1, <1>3 DEF IInv, AttachedRight, RefusedForAReason

LEMMA StutterInv == IInv /\ UNCHANGED vars => IInv'
<1> SUFFICES ASSUME IInv, UNCHANGED vars PROVE IInv'  OBVIOUS
<1>1. /\ world' = world /\ pc' = pc /\ binary' = binary /\ elf' = elf /\ eg' = eg
      /\ alive' = alive /\ layout' = layout /\ failed' = failed
  BY DEF vars
<1>2. /\ Shadowed' = Shadowed /\ Replaced' = Replaced /\ TrueEgs' = TrueEgs /\ php' = php
      /\ Sound' = Sound /\ TwoDigits' = TwoDigits /\ ForeignLiteral' = ForeignLiteral
      /\ KnowsAddress' = KnowsAddress /\ KnowsVersion' = KnowsVersion
      /\ Embedded' = Embedded /\ PartlyStripped' = PartlyStripped
      /\ ShortLiteral' = ShortLiteral
  BY <1>1 DEF Shadowed, Replaced, TrueEgs, php, Sound, TwoDigits, ForeignLiteral, KnowsAddress,
              KnowsVersion, Embedded, PartlyStripped, ShortLiteral
<1>3. Found' /\ Opened' /\ Resolved'  BY <1>1, <1>2 DEF IInv, Found, Opened, Resolved
<1>4. AttachedRight' /\ RefusedForAReason'
  BY <1>1, <1>2 DEF IInv, AttachedRight, RefusedForAReason
<1> QED  BY <1>1, <1>3, <1>4 DEF IInv

LEMMA Invariant == Spec => []IInv
<1>1. Init => IInv  BY InitInv
<1>2. IInv /\ [Next]_vars => IInv'
  BY ReadMapsInv, OpenBinaryInv, ResolveInv, ResolveZtsInv, DetectVersionInv, ExitInv, StutterInv
     DEF Next
<1> QED  BY <1>1, <1>2, PTL DEF Spec

\* In every world whose options are right, an attach that succeeds to a PHP whose file
\* is the one that runs reads the executor_globals of the target, and reads them by
\* the layout of its version: for code of the accessor of any length and shape, any
\* number of mappings, sections and literals.
THEOREM AttachedRightHolds == Spec => []AttachedRight
<1>1. IInv => AttachedRight  BY DEF IInv
<1> QED  BY <1>1, Invariant, PTL

\* In every such world, an attach to a running PHP that could have been made is refused
\* for one of the reasons that are listed, and for no other.
THEOREM RefusedForAReasonHolds == Spec => []RefusedForAReason
<1>1. IInv => RefusedForAReason  BY DEF IInv
<1> QED  BY <1>1, Invariant, PTL

=============================================================================
