------------------------------- MODULE RefCPU -------------------------------
(* The reference processor of the tester: lib/ref_cpu.c.  It keeps register *)
(* pairs, with the flags as the upper half of the low byte of AF, and       *)
(* decodes with masks, the first match of the else-if chain being taken.    *)
EXTENDS Bytes, Sequences

CONSTANT InstructionMemSize    (* instruction_mem_size                      *)

VARIABLES
  ref,         (* emu_state                                                 *)
  memory,      (* instruction_mem, shared with the processor under test     *)
  refAccesses  (* mem_accesses                                              *)

GbState == [BC : Word, DE : Word, HL : Word, AF : Word, sp : Word, pc : Word,
            halted : BOOLEAN, interrupts_master_enabled : BOOLEAN]

-----------------------------------------------------------------------------
(* Mock MMU                                                                 *)

mmu_read(a) == IF a < InstructionMemSize THEN memory[a] ELSE 170
Inc16(w, k) == (w + k) % 65536
mmu_read16(a) == mmu_read(a) + 256 * mmu_read(Inc16(a, 1))

Silent == UNCHANGED <<memory, refAccesses>>
mmu_write(ws) == refAccesses' = refAccesses \o ws /\ UNCHANGED memory
Bytes16(a, w) == << <<a, Low(w)>>, <<Inc16(a, 1), High(w)>> >>

-----------------------------------------------------------------------------
(* Registers and the operands a mask selects.                               *)

\* reg16_lut and reg16s_lut.
Reg16  == <<"BC", "DE", "HL", "sp">>
Reg16s == <<"BC", "DE", "HL", "AF">>

\* reg8_lut: index 6 has no register and stands for mem(HL).
A(s) == High(s.AF)
F(s) == Low(s.AF)
Pair(i) == <<"BC", "BC", "DE", "DE", "HL", "HL", "HL", "AF">>[i + 1]
IsHigh(i) == i \in {0, 2, 4, 7}
REG8(s, i) == CASE i = 6 -> mmu_read(s.HL)
                [] IsHigh(i) -> High(s[Pair(i)])
                [] OTHER -> Low(s[Pair(i)])
Put8(s, i, v) ==
  CASE i = 6 -> s
    [] IsHigh(i) -> [s EXCEPT ![Pair(i)] = Join(v, Low(@))]
    [] OTHER -> [s EXCEPT ![Pair(i)] = Join(High(@), v)]
Write8(s, i, v) == mmu_write(IF i = 6 THEN << <<s.HL, v>> >> ELSE << >>)

SetA(s, v) == Put8(s, 7, v)
CF == Bit(ref.AF, 4)
HF == Bit(ref.AF, 5)
NF == Bit(ref.AF, 6)
B2N(b) == IF b THEN 1 ELSE 0

\* Assignments to the bit fields keep the lower half of F, those to F do not.
SetFlags(s, zf, nf, hf, cf) ==
  [s EXCEPT !.AF = Join(High(@), 128 * B2N(zf) + 64 * nf + 32 * hf + 16 * cf + Nibble(@))]
SetF(s, v) == [s EXCEPT !.AF = Join(High(@), v)]
ZF(s) == Bit(s.AF, 7)

opcode == mmu_read(ref.pc)
M(o, value, mask) == And(o, mask) = value
r3 == (opcode \div 8) % 8
r0 == opcode % 8
rp == (opcode \div 16) % 4
s1 == [ref EXCEPT !.pc = Inc16(@, 1)]
IMM8  == mmu_read(s1.pc)
IMM16 == mmu_read16(s1.pc)
Skip(s, k) == [s EXCEPT !.pc = Inc16(@, k)]

\* flagmasks: bit 1 of the condition selects the carry, bit 0 its value.
FLAG(cc) == IF cc \div 2 = 0 THEN ZF(ref) ELSE CF
CondHolds == FLAG(r3 % 4) = (r3 % 4) % 2

-----------------------------------------------------------------------------
(* Loads                                                                    *)

R_NOP      == opcode = 0 /\ ref' = s1 /\ Silent
R_HALT     == opcode \in {16, 118} /\ ref' = [s1 EXCEPT !.halted = TRUE] /\ Silent
R_LD16_imm == M(opcode, 1, 207) /\ ref' = Skip([s1 EXCEPT ![Reg16[rp + 1]] = IMM16], 2) /\ Silent
R_INC16    == M(opcode, 3, 207) /\ ref' = [s1 EXCEPT ![Reg16[rp + 1]] = Inc16(@, 1)] /\ Silent
R_DEC16    == M(opcode, 11, 207) /\ ref' = [s1 EXCEPT ![Reg16[rp + 1]] = Inc16(@, 65535)] /\ Silent
R_ADD16 ==
  LET src == ref[Reg16[rp + 1]]
      sum == ref.HL + src
      hf  == B2N((ref.HL % 4096) + (src % 4096) > 4095)
  IN /\ M(opcode, 9, 207) /\ Silent
     /\ ref' = [SetFlags(s1, ZF(ref) = 1, 0, hf, B2N(sum > 65535)) EXCEPT !.HL = sum % 65536]

\* LD (BC),A  LD (DE),A  LD A,(BC)  LD A,(DE)
R_LD_mem_A == opcode \in {2, 18} /\ ref' = s1
              /\ mmu_write(<< <<ref[Reg16[rp + 1]], A(ref)>> >>)
R_LD_A_mem == opcode \in {10, 26} /\ Silent
              /\ ref' = SetA(s1, mmu_read(ref[Reg16[rp + 1]]))

\* LDI and LDD
Moved(s) == [s EXCEPT !.HL = Inc16(@, IF opcode < 48 THEN 1 ELSE 65535)]
R_LDI_mem == opcode \in {34, 50} /\ ref' = Moved(s1) /\ mmu_write(<< <<ref.HL, A(ref)>> >>)
R_LDI_A   == opcode \in {42, 58} /\ ref' = Moved(SetA(s1, mmu_read(ref.HL))) /\ Silent

R_LD8_imm == /\ M(opcode, 6, 199) /\ ref' = Put8(Skip(s1, 1), r3, IMM8)
             /\ Write8(ref, r3, IMM8)
R_LD8 == /\ M(opcode, 64, 192) /\ opcode # 118
         /\ ref' = Put8(s1, r3, REG8(ref, r0))
         /\ Write8(ref, r3, REG8(ref, r0))

R_LD_imm16_SP == opcode = 8 /\ ref' = Skip(s1, 2) /\ mmu_write(Bytes16(IMM16, ref.sp))
R_LDH_imm_A   == opcode = 224 /\ ref' = Skip(s1, 1) /\ mmu_write(<< <<65280 + IMM8, A(ref)>> >>)
R_LDH_C_A     == opcode = 226 /\ ref' = s1 /\ mmu_write(<< <<65280 + Low(ref.BC), A(ref)>> >>)
R_LD_imm16_A  == opcode = 234 /\ ref' = Skip(s1, 2) /\ mmu_write(<< <<IMM16, A(ref)>> >>)
R_LDH_A_imm   == opcode = 240 /\ ref' = SetA(Skip(s1, 1), mmu_read(65280 + IMM8)) /\ Silent
R_LDH_A_C     == opcode = 242 /\ ref' = SetA(s1, mmu_read(65280 + Low(ref.BC))) /\ Silent
R_LD_A_imm16  == opcode = 250 /\ ref' = SetA(Skip(s1, 2), mmu_read(IMM16)) /\ Silent
R_LD_SP_HL    == opcode = 249 /\ ref' = [s1 EXCEPT !.sp = ref.HL] /\ Silent

\* ADD SP,imm8s and LD HL,SP+imm8
SpFlags(s) == SetFlags(s, FALSE, 0, B2N((ref.sp % 16) + (IMM8 % 16) > 15),
                       B2N(Low(ref.sp) + IMM8 > 255))
SpSum == (ref.sp + Signed(IMM8)) % 65536
R_ADD_SP == opcode = 232 /\ ref' = [SpFlags(Skip(s1, 1)) EXCEPT !.sp = SpSum] /\ Silent
R_LD_HL_SP == opcode = 248 /\ ref' = [SpFlags(Skip(s1, 1)) EXCEPT !.HL = SpSum] /\ Silent

-----------------------------------------------------------------------------
(* Arithmetic: s gets the result of A with v.                               *)

Added(s, v, c) ==
  LET sum == A(s) + v + c
      hf  == Bit(Xor(Xor(A(s), v), Low(sum)), 4)
  IN SetA(SetFlags(s, Low(sum) = 0, 0, hf, Bit(sum, 8)), Low(sum))

Subtracted(s, v, c) ==
  LET dif == Low(A(s) - v - c)
      hf  == B2N((A(s) % 16) - (v % 16) - c < 0)
  IN SetA(SetFlags(s, dif = 0, 1, hf, B2N(A(s) < v + c)), dif)

Anded(s, v) == SetA(SetFlags(s, And(A(s), v) = 0, 0, 1, 0), And(A(s), v))
Logic(s, v) == SetF(SetA(s, v), IF v = 0 THEN 128 ELSE 0)
Compared(s, v) == SetFlags(s, A(s) = v, 1, B2N(Nibble(A(s)) < Nibble(v)), B2N(A(s) < v))

Applied(s, v) == CASE r3 = 0 -> Added(s, v, 0)
                   [] r3 = 1 -> Added(s, v, CF)
                   [] r3 = 2 -> Subtracted(s, v, 0)
                   [] r3 = 3 -> Subtracted(s, v, CF)
                   [] r3 = 4 -> Anded(s, v)
                   [] r3 = 5 -> Logic(s, Xor(A(s), v))
                   [] r3 = 6 -> Logic(s, Or(A(s), v))
                   [] r3 = 7 -> Compared(s, v)

R_Arith8    == M(opcode, 128, 192) /\ ref' = Applied(s1, REG8(ref, r0)) /\ Silent
R_Arith_imm == M(opcode, 198, 199) /\ ref' = Applied(Skip(s1, 1), IMM8) /\ Silent

R_INC8 ==
  LET v == REG8(ref, r3)
      n == Low(v + 1)
  IN /\ M(opcode, 4, 199)
     /\ ref' = Put8(SetFlags(s1, n = 0, 0, B2N(v % 16 = 15), CF), r3, n)
     /\ Write8(ref, r3, n)
R_DEC8 ==
  LET n == Low(REG8(ref, r3) + 255)
  IN /\ M(opcode, 5, 199)
     /\ ref' = Put8(SetFlags(s1, n = 0, 1, B2N(n % 16 = 15), CF), r3, n)
     /\ Write8(ref, r3, n)

\* RLCA, RRCA and RLA assign F, RRA the bit fields.
R_RotateA ==
  LET a == A(ref)
  IN /\ opcode \in {7, 15, 23, 31} /\ Silent
     /\ ref' = CASE opcode = 7  -> SetF(SetA(s1, Low(2 * a) + a \div 128), 16 * (a \div 128))
                 [] opcode = 15 -> SetF(SetA(s1, a \div 2 + 128 * (a % 2)), 16 * (a % 2))
                 [] opcode = 23 -> SetF(SetA(s1, Low(2 * a) + CF), 16 * Bit(a, 7))
                 [] opcode = 31 -> SetA(SetFlags(s1, FALSE, 0, 0, a % 2), a \div 2 + 128 * CF)

R_DAA ==
  LET a    == A(ref)
      low  == (NF = 0 /\ a % 16 > 9) \/ HF = 1
      high == (NF = 0 /\ a > 153) \/ CF = 1
      fix  == (IF low THEN 6 ELSE 0) + (IF high THEN 96 ELSE 0)
      v    == Low(IF NF = 1 THEN a - fix ELSE a + fix)
  IN opcode = 39 /\ Silent /\ ref' = SetA(SetFlags(s1, v = 0, NF, 0, B2N(high)), v)

R_CPL == opcode = 47 /\ Silent
         /\ ref' = SetA(SetFlags(s1, ZF(ref) = 1, 1, 1, CF), 255 - A(ref))
R_SCF == opcode = 55 /\ ref' = SetFlags(s1, ZF(ref) = 1, 0, 0, 1) /\ Silent
R_CCF == opcode = 63 /\ ref' = SetFlags(s1, ZF(ref) = 1, 0, 0, 1 - CF) /\ Silent

-----------------------------------------------------------------------------
(* Jumps, calls and the stack                                               *)

Jump(s, a) == [s EXCEPT !.pc = a]
push16(s, w) == mmu_write(Bytes16(Inc16(s.sp, 65534), w))
Push(s) == [s EXCEPT !.sp = Inc16(@, 65534)]
PopTo(s) == [s EXCEPT !.sp = Inc16(@, 2)]

R_JR    == opcode = 24 /\ ref' = Jump(s1, (s1.pc + Signed(IMM8) + 1) % 65536) /\ Silent
R_JR_cc == /\ M(opcode, 32, 231) /\ Silent
           /\ ref' = IF CondHolds THEN Jump(s1, (s1.pc + Signed(IMM8) + 1) % 65536)
                     ELSE Skip(s1, 1)
R_JP    == opcode = 195 /\ ref' = Jump(s1, IMM16) /\ Silent
R_JP_cc == M(opcode, 194, 231) /\ ref' = (IF CondHolds THEN Jump(s1, IMM16) ELSE Skip(s1, 2)) /\ Silent
R_JP_HL == opcode = 233 /\ ref' = Jump(s1, ref.HL) /\ Silent
R_CALL  == opcode = 205 /\ ref' = Jump(Push(s1), IMM16) /\ push16(ref, Inc16(s1.pc, 2))
R_CALL_cc == M(opcode, 196, 231)
             /\ IF CondHolds THEN ref' = Jump(Push(s1), IMM16) /\ push16(ref, Inc16(s1.pc, 2))
                ELSE ref' = Skip(s1, 2) /\ Silent
R_RST   == M(opcode, 199, 199) /\ ref' = Jump(Push(s1), 8 * r3) /\ push16(ref, s1.pc)
R_RET   == opcode = 201 /\ ref' = Jump(PopTo(s1), mmu_read16(ref.sp)) /\ Silent
R_RETI  == opcode = 217 /\ Silent
           /\ ref' = [Jump(PopTo(s1), mmu_read16(ref.sp)) EXCEPT !.interrupts_master_enabled = TRUE]
R_RET_cc == M(opcode, 192, 231) /\ Silent
            /\ ref' = IF CondHolds THEN Jump(PopTo(s1), mmu_read16(ref.sp)) ELSE s1
R_PUSH  == M(opcode, 197, 207) /\ ref' = Push(s1) /\ push16(ref, ref[Reg16s[rp + 1]])
R_POP   == LET s == [PopTo(s1) EXCEPT ![Reg16s[rp + 1]] = mmu_read16(ref.sp)]
           IN M(opcode, 193, 207) /\ Silent /\ ref' = SetF(s, F(s) - Nibble(F(s)))
R_DI    == opcode = 243 /\ ref' = [s1 EXCEPT !.interrupts_master_enabled = FALSE] /\ Silent
R_EI    == opcode = 251 /\ ref' = [s1 EXCEPT !.interrupts_master_enabled = TRUE] /\ Silent

-----------------------------------------------------------------------------
(* cpu_do_cb_instruction                                                    *)

cb  == IMM8
cb3 == (cb \div 8) % 8
s2  == Skip(s1, 1)
Val == REG8(ref, cb % 8)
CbPut(s, v) == ref' = Put8(s, cb % 8, v) /\ Write8(ref, cb % 8, v)
CbShift(v, c) == CbPut(SetFlags(s2, v = 0, 0, 0, c), v)

R_CB_Shift ==
  /\ opcode = 203 /\ M(cb, 0, 192)
  /\ CASE cb3 = 0 -> CbShift(Low(2 * Val) + Val \div 128, Val \div 128)
       [] cb3 = 1 -> CbShift(Val \div 2 + 128 * (Val % 2), Val % 2)
       [] cb3 = 2 -> CbShift(Low(2 * Val) + CF, Val \div 128)
       [] cb3 = 3 -> CbShift(Val \div 2 + 128 * CF, Val % 2)
       [] cb3 = 4 -> CbShift(Low(2 * Val), Val \div 128)
       [] cb3 = 5 -> CbShift(Val \div 2 + And(Val, 128), Val % 2)
       [] cb3 = 6 -> LET v == Low(16 * Val) + Val \div 16
                     IN CbPut(SetF(s2, IF v = 0 THEN 128 ELSE 0), v)
       [] cb3 = 7 -> CbShift(Val \div 2, Val % 2)
R_CB_BIT == opcode = 203 /\ M(cb, 64, 192) /\ Silent
            /\ ref' = SetFlags(s2, Bit(Val, cb3) = 0, 0, 1, CF)
R_CB_RES == opcode = 203 /\ M(cb, 128, 192) /\ CbPut(s2, And(Val, 255 - Pow2[cb3 + 1]))
R_CB_SET == opcode = 203 /\ M(cb, 192, 192) /\ CbPut(s2, Or(Val, Pow2[cb3 + 1]))

-----------------------------------------------------------------------------

R_Loads == R_NOP \/ R_HALT \/ R_LD16_imm \/ R_INC16 \/ R_DEC16 \/ R_ADD16
           \/ R_LD_mem_A \/ R_LD_A_mem \/ R_LDI_mem \/ R_LDI_A \/ R_LD8_imm
           \/ R_LD8 \/ R_LD_imm16_SP \/ R_LDH_imm_A \/ R_LDH_C_A \/ R_LD_imm16_A
           \/ R_LDH_A_imm \/ R_LDH_A_C \/ R_LD_A_imm16 \/ R_LD_SP_HL
           \/ R_ADD_SP \/ R_LD_HL_SP
R_Arith == R_Arith8 \/ R_Arith_imm \/ R_INC8 \/ R_DEC8 \/ R_RotateA \/ R_DAA
           \/ R_CPL \/ R_SCF \/ R_CCF
R_Jumps == R_JR \/ R_JR_cc \/ R_JP \/ R_JP_cc \/ R_JP_HL \/ R_CALL \/ R_CALL_cc
           \/ R_RST \/ R_RET \/ R_RETI \/ R_RET_cc \/ R_PUSH \/ R_POP \/ R_DI \/ R_EI
R_CB == R_CB_Shift \/ R_CB_BIT \/ R_CB_RES \/ R_CB_SET

\* What rcpu_step() returns for the opcode o, or 0xCB and o, in machine cycles
\* of four clock cycles: the first 64 opcodes, the loads, the arithmetic (CP H
\* is one too many in the table), and the last 64.
cycles_0 == <<1, 3, 2, 2, 1, 1, 2, 1, 5, 2, 2, 2, 1, 1, 2, 1,
              1, 3, 2, 2, 1, 1, 2, 1, 3, 2, 2, 2, 1, 1, 2, 1,
              2, 3, 2, 2, 1, 1, 2, 1, 2, 2, 2, 2, 1, 1, 2, 1,
              2, 3, 2, 2, 3, 3, 3, 1, 2, 2, 2, 2, 1, 1, 2, 1>>
cycles_3 == <<2, 3, 3, 4, 3, 4, 2, 4, 2, 4, 3, 0, 3, 6, 2, 4,
              2, 3, 3, 1, 3, 4, 2, 4, 2, 4, 3, 1, 3, 1, 2, 4,
              3, 3, 2, 1, 1, 4, 2, 4, 4, 1, 4, 1, 1, 1, 2, 4,
              3, 3, 2, 1, 1, 4, 2, 4, 3, 2, 4, 1, 0, 1, 2, 4>>
cycles_per_instruction(o) ==
  CASE o < 64  -> cycles_0[o + 1]
    [] o > 191 -> cycles_3[o - 191]
    [] o = 118 -> 1
    [] o = 188 -> 2
    [] OTHER   -> IF o % 8 = 6 \/ o \in 112 .. 119 THEN 2 ELSE 1
cycles_per_instruction_cb(o) ==
  IF o % 8 # 6 THEN 2 ELSE IF o \in 64 .. 127 THEN 3 ELSE 4

\* cpu_do_instruction
rcpu_step == R_Loads \/ R_Arith \/ R_Jumps \/ R_CB
=============================================================================
