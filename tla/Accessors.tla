------------------------------ MODULE Accessors ------------------------------
(***************************************************************************)
(* Two tiny functions of PHP that the profiler never calls: it reads their *)
(* code and works out what they return. tsrm_get_ls_cache_tcb_offset       *)
(* returns a constant, php_version the address of a string.                *)
(*                                                                         *)
(* Code is a sequence of instructions; each is an opcode, the register it  *)
(* writes (0 is the one that is returned), for movz and movk which half of *)
(* the register, and an immediate. "pad" is a landing pad (endbr64, bti).  *)
(***************************************************************************)
EXTENDS Integers, SequencesExt

CONSTANTS
  Bad,     \* the code was not recognised
  Half,    \* values of half a register
  Page     \* bytes in a page; half of Page * Page pages lie on either side

ASSUME HalfAssumption == Half \in Nat \ {0}
ASSUME PageAssumption == Page \in Nat \ {0}
ASSUME BadAssumption == Bad \notin Int

Halves == 0..1
Value(halves) == halves[0] + Half * halves[1]
NoHalves == [h \in Halves |-> 0]

SkipPad(code) == IF code # <<>> /\ code[1].op = "pad" THEN Tail(code) ELSE code

\* x86_64: mov imm32, %rax (sign-extended); ret.
DecodeTcbX86(code) ==
  LET c == SkipPad(code)
  IN  IF Len(c) >= 2 /\ c[1].op = "mov" /\ c[1].rd = 0 /\ c[2].op = "ret"
      THEN c[1].imm ELSE Bad

Movk(halves, i) == [halves EXCEPT ![i.hw] = i.imm]

\* aarch64: movz, any movk, ret, all of them of the returned register.
TakeInstruction(acc, i) ==
  CASE acc.at \in {"done", "bad"} -> acc
    [] acc.at = "moved" /\ i.op = "ret" -> [acc EXCEPT !.at = "done"]
    [] acc.at \in {"start", "moved"} /\ i.op = "movz" /\ i.rd = 0 ->
         [at |-> "moved", halves |-> [NoHalves EXCEPT ![i.hw] = i.imm]]
    [] acc.at = "moved" /\ i.op = "movk" /\ i.rd = 0 ->
         [acc EXCEPT !.halves = Movk(@, i)]
    [] OTHER -> [acc EXCEPT !.at = "bad"]

Taken(code) ==
  LET after[n \in 0..Len(code)] == IF n = 0 THEN [at |-> "start", halves |-> NoHalves]
                                   ELSE TakeInstruction(after[n - 1], code[n])
  IN  after[Len(code)]

DecodeTcbArm(code) ==
  LET end == Taken(SkipPad(code))
  IN  IF end.at = "done" THEN Value(end.halves) ELSE Bad

\* adrp's page distance: its top bit is moved up to that of the word, and down
\* again with its sign.
SignExtend(imm) ==
  LET half == (Page * Page) \div 2
  IN  ((imm + half) % (Page * Page)) - half

\* x86_64: lea disp32(%rip), %rax; ret. The distance counts from the ret.
DecodeVersionX86(fn, code) ==
  LET c == SkipPad(code)
      pad == Len(code) - Len(c)
  IN  IF Len(c) >= 2 /\ c[1].op = "lea" /\ c[1].rd = 0 /\ c[2].op = "ret"
      THEN fn + pad + 1 + c[1].imm ELSE Bad

\* aarch64: adrp, add, ret. Neither the registers nor the shift of the add are
\* looked at.
DecodeVersionArm(fn, code) ==
  LET c == SkipPad(code)
      pc == fn + Len(code) - Len(c)
  IN  IF Len(c) >= 3 /\ c[1].op = "adrp" /\ c[2].op = "add" /\ c[3].op = "ret"
      THEN (pc \div Page) * Page + SignExtend(c[1].imm) * Page + c[2].imm
      ELSE Bad

(***************************************************************************)
(* What the processor does: the value the function returns, whatever the   *)
(* registers held before.                                                  *)
(***************************************************************************)

Signed(imm) == IF 2 * imm >= Page * Page THEN imm - Page * Page ELSE imm

HalfOf(r, h) == IF h = 0 THEN r % Half ELSE r \div Half
WithHalf(r, h, v) == IF h = 0 THEN v + Half * HalfOf(r, 1) ELSE HalfOf(r, 0) + Half * v

\* The machine after an instruction; an unknown one leaves anything.
Do(m, i) ==
  LET next == [m EXCEPT !.pc = @ + 1]
      set(v) == [next EXCEPT !.reg[i.rd] = v]
  IN  CASE m.ret -> m
        [] ~m.ret /\ i.op = "pad"  -> next
        [] ~m.ret /\ i.op = "mov"  -> set(i.imm)
        [] ~m.ret /\ i.op = "lea"  -> set(m.pc + 1 + i.imm)
        [] ~m.ret /\ i.op = "movz" -> set(WithHalf(0, i.hw, i.imm))
        [] ~m.ret /\ i.op = "movk" -> set(WithHalf(m.reg[i.rd], i.hw, i.imm))
        [] ~m.ret /\ i.op = "adrp" -> set((m.pc \div Page + Signed(i.imm)) * Page)
        [] ~m.ret /\ i.op = "add"  -> set(m.reg[i.rd] + i.imm)
        [] ~m.ret /\ i.op = "ret"  -> [m EXCEPT !.ret = TRUE]
        [] OTHER                   -> set(Half * Half)

Run(fn, code, regs0) ==
  LET after[n \in 0..Len(code)] == IF n = 0 THEN [pc |-> fn, reg |-> regs0, ret |-> FALSE]
                                   ELSE Do(after[n - 1], code[n])
  IN  after[Len(code)]

Execute(fn, code, regs0) ==
  LET end == Run(fn, code, regs0) IN IF end.ret THEN end.reg[0] ELSE Bad

\* Halves that are written fit, and there is a register to return.
IsCode(code, regs) ==
  /\ code \in Seq(ToSet(code))
  /\ regs \in [DOMAIN regs -> Int] /\ 0 \in DOMAIN regs
  /\ \A i \in ToSet(code) : /\ i.op \in {"movz", "movk"} => i.hw \in Halves /\ i.imm \in 0..(Half - 1)
                            /\ i.op \in {"mov", "lea", "add"} => i.imm \in Int
                            /\ i.op = "adrp" => i.imm \in 0..(Page * Page - 1)

\* The address of a constant, in the register that is returned, and ret.
IsVersionAccessor(arm, code) ==
  LET c == SkipPad(code)
  IN  IF arm THEN /\ Len(c) >= 3 /\ c[1].op = "adrp" /\ c[2].op = "add" /\ c[3].op = "ret"
                  /\ c[1].rd = 0 /\ c[2].rd = 0
      ELSE Len(c) >= 2 /\ c[1].op = "lea" /\ c[1].rd = 0 /\ c[2].op = "ret"
=============================================================================
