-------------------------------- MODULE CPU --------------------------------
(* The processor: CPU::tick and CPU::executeInstruction of cpu.cpp on the    *)
(* Memory of mem.cpp.  Every group of cases of the switch is an     *)
(* action; the cases of a group differ only in the registers that three     *)
(* bits of the opcode name, so y and z below are those bits.  An opcode     *)
(* without a case ends the program with an exception: no action.            *)
(* An operator F_Xyz is a faulty variant of F, used to test the properties. *)
EXTENDS ALU, InstructionSet, Sequences, SequencesExt

CONSTANTS
  MEM_SIZE,             (* Memory::MEM_SIZE: higher addresses read as 0xAA  *)
  shouldWriteToMemory   (* FALSE in the tester: writes are only recorded    *)

VARIABLES
  cpu,      (* the object g_CPU.  cycles: what the last instruction added   *)
  romData,  (* CPU::romData, the first 257 bytes of the game                *)
  memory,   (* Memory::memory, the cells written so far; others hold 0      *)
  accesses, (* Memory::mem_accesses                                         *)
  events    (* what the last instruction told the listeners of              *)
            (* MEM_WRITE_BYTE: <<address, value>>, before each store        *)

cpuVars == <<cpu, romData, memory, accesses, events>>

CPUState ==
  [A : Byte, B : Byte, C : Byte, D : Byte, E : Byte, H : Byte, L : Byte,
   F : FlagsRegister, SP : Word, PC : Word, IME : BOOLEAN, halted : BOOLEAN,
   inBootRom : BOOLEAN, cycles : 0 .. 6]

-----------------------------------------------------------------------------
(* Memory                                                                   *)

readByte(a) ==
  IF a >= MEM_SIZE THEN 170
  ELSE IF a \in DOMAIN memory THEN memory[a] ELSE 0

Next16(a)   == (a + 1) % 65536
readWord(a) == Join(readByte(Next16(a)), readByte(a))

DIV == 65284                                                     \* 0xFF04

\* writeByte for each <<address, value>> in turn.  The divider reads zero
\* after any write.
Stored_KeepDiv(a, v) == v
Stored(a, v) == IF a = DIV THEN 0 ELSE v
AsStored(ws) == [i \in DOMAIN ws |-> <<ws[i][1], Stored(ws[i][1], ws[i][2])>>]
After(m, ws) ==
  LET at(a) == {i \in DOMAIN ws : ws[i][1] = a}
      cells == {ws[i][1] : i \in DOMAIN ws}
  IN [a \in DOMAIN m \cup cells |->
        IF a \in cells THEN ws[CHOOSE i \in at(a) : \A j \in at(a) : j <= i][2] ELSE m[a]]
Write(ws) ==
  IF shouldWriteToMemory
    THEN memory' = After(memory, ws) /\ UNCHANGED accesses
    ELSE accesses' = accesses \o ws /\ UNCHANGED memory
Store(ws) == Write(AsStored(ws)) /\ events' = AsStored(ws)

NoStore == UNCHANGED <<memory, accesses>> /\ events' = << >>

\* writeWord: the high byte first; a word stored at the divider is zero, and
\* no listener of MEM_WRITE_BYTE hears of it.
StoreWord(a, w) ==
  LET v == IF a = DIV THEN 0 ELSE w
  IN /\ Write(AsStored(<< <<Next16(a), High(v)>>, <<a, Low(v)>> >>))
     /\ events' = << >>

\* push() and pop() on a CPU state c.
PushStores_LowFirst(c, w) ==
  << <<(c.SP - 1) % 65536, Low(w)>>, <<(c.SP - 2) % 65536, High(w)>> >>
PushStores(c, w) ==
  << <<(c.SP - 1) % 65536, High(w)>>, <<(c.SP - 2) % 65536, Low(w)>> >>
Pushed(c)        == [c EXCEPT !.SP = (@ - 2) % 65536]
PopWord(c)       == readWord(c.SP)
Popped_NoWrap(c) == [c EXCEPT !.SP = @ + 2]
Popped(c)        == [c EXCEPT !.SP = (@ + 2) % 65536]

-----------------------------------------------------------------------------
(* Registers                                                                *)

\* getTargetRef: register 6 is the byte at HL.
Reg8 == <<"B", "C", "D", "E", "H", "L", "HL", "A">>
HL(c) == Join(c.H, c.L)
get8(c, i) == IF i = 6 THEN readByte(HL(c)) ELSE c[Reg8[i + 1]]
set8(c, i, v) == IF i = 6 THEN c ELSE [c EXCEPT ![Reg8[i + 1]] = v]
Stores8(c, i, v) == IF i = 6 THEN << <<HL(c), v>> >> ELSE << >>

\* get_BC() .. set_HL() and SP.
get16(c, i) == CASE i = 0 -> Join(c.B, c.C)
                 [] i = 1 -> Join(c.D, c.E)
                 [] i = 2 -> HL(c)
                 [] i = 3 -> c.SP
set16(c, i, w) == CASE i = 0 -> [c EXCEPT !.B = High(w), !.C = Low(w)]
                    [] i = 1 -> [c EXCEPT !.D = High(w), !.E = Low(w)]
                    [] i = 2 -> [c EXCEPT !.H = High(w), !.L = Low(w)]
                    [] i = 3 -> [c EXCEPT !.SP = w]

\* The pairs of PUSH and POP: the fourth is AF.
getStack(c, i) == IF i = 3 THEN Join(c.A, FlagByte(c.F)) ELSE get16(c, i)
setStack(c, i, w) ==
  IF i = 3 THEN [c EXCEPT !.A = High(w), !.F = FlagsOf(Low(w))] ELSE set16(c, i, w)

-----------------------------------------------------------------------------
(* The instruction at PC and its parts.                                     *)

op  == readByte(cpu.PC)
y   == (op \div 8) % 8
z   == op % 8
rr_ == (op \div 16) % 4
d8  == readByte(Next16(cpu.PC))
d16 == readWord(Next16(cpu.PC))

Condition(f, cc) == CASE cc = 0 -> ~f.zero
                      [] cc = 1 -> f.zero
                      [] cc = 2 -> ~f.carry
                      [] cc = 3 -> f.carry
Taken == Condition(cpu.F, y % 4)

\* The end of a case: the state c with PC moved, and the cycles added.
Finish(c, len, n) == cpu' = [c EXCEPT !.PC = (@ + len) % 65536, !.cycles = n]
Goto(c, a, n)     == cpu' = [c EXCEPT !.PC = a, !.cycles = n]
WithA(r)          == [cpu EXCEPT !.A = r.val, !.F = r.f]
Relative(pc)      == (pc + 2 + Signed(d8)) % 65536

-----------------------------------------------------------------------------
(* Loads                                                                    *)

\* HALT and STOP only set halted.
NOP  == op = 0 /\ Finish(cpu, 1, 1) /\ NoStore
HALT == op \in {16, 118} /\ Finish([cpu EXCEPT !.halted = TRUE], 1, 1) /\ NoStore

\* LD r,r' by the register that is loaded; LD A,(HL) adds one cycle, the
\* other loads from (HL) two.
Load(r, n) ==
  /\ op \in LoadOps /\ op # 118
  /\ Reg8[y + 1] = r
  /\ Finish([cpu EXCEPT ![r] = get8(cpu, z)], 1, n)
  /\ NoStore
LD_A_r  == Load("A", 1)
LD_B_r  == z # 6 /\ Load("B", 1)
LD_C_r  == z # 6 /\ Load("C", 1)
LD_D_r  == z # 6 /\ Load("D", 1)
LD_E_r  == z # 6 /\ Load("E", 1)
LD_H_r  == z # 6 /\ Load("H", 1)
LD_L_r  == z # 6 /\ Load("L", 1)
LD_r_HL == z = 6 /\ \E r \in {"B", "C", "D", "E", "H", "L"} : Load(r, 2)
LD_HL_r == /\ op \in LoadOps /\ y = 6 /\ z # 6
           /\ Finish(cpu, 1, 2)
           /\ Store(<< <<HL(cpu), get8(cpu, z)>> >>)

LD_r_d8 ==
  /\ op \in MiscOps /\ z = 6
  /\ Finish(set8(cpu, y, d8), 2, IF y = 6 THEN 3 ELSE 2)
  /\ Store(Stores8(cpu, y, d8))

LD_rr_d16 ==
  /\ op \in {1, 17, 33, 49}
  /\ Finish(set16(cpu, rr_, d16), 3, 3)
  /\ NoStore

LD_rr_A == op \in {2, 18} /\ Finish(cpu, 1, 2)
           /\ Store(<< <<get16(cpu, rr_), cpu.A>> >>)
LD_A_rr == op \in {10, 26} /\ NoStore
           /\ Finish([cpu EXCEPT !.A = readByte(get16(cpu, rr_))], 1, 2)

\* LD (HL+),A  LD (HL-),A  LD A,(HL+)  LD A,(HL-)
Stepped(c) == set16(c, 2, (IF op < 48 THEN HL(c) + 1 ELSE HL(c) - 1) % 65536)
LD_HL_inc_A == op \in {34, 50} /\ Finish(Stepped(cpu), 1, 2)
               /\ Store(<< <<HL(cpu), cpu.A>> >>)
LD_A_HL_inc == op \in {42, 58} /\ NoStore
               /\ Finish(Stepped([cpu EXCEPT !.A = readByte(HL(cpu))]), 1, 2)

LD_a16_SP == op = 8 /\ Finish(cpu, 3, 5) /\ StoreWord(d16, cpu.SP)
LD_a16_A  == op = 234 /\ Finish(cpu, 3, 4) /\ Store(<< <<d16, cpu.A>> >>)
LD_A_a16  == op = 250 /\ Finish([cpu EXCEPT !.A = readByte(d16)], 3, 4) /\ NoStore

HighPage == 65280                                                \* 0xFF00
LD_A_a8    == op = 240 /\ Finish([cpu EXCEPT !.A = readByte(HighPage + d8)], 2, 3) /\ NoStore
LD_mem_C_A == op = 226 /\ Finish(cpu, 1, 2) /\ Store(<< <<HighPage + cpu.C, cpu.A>> >>)
LD_A_mem_C == op = 242 /\ Finish([cpu EXCEPT !.A = readByte(HighPage + cpu.C)], 1, 2) /\ NoStore

\* LDH (a8),A.  At (0x50) in the boot ROM the first 257 bytes of the game are
\* copied over it, and the address is then read from the copy.
\* The tester, whose romData is empty, has no such input.
RomCopy_Short == [a \in DOMAIN memory \cup 0 .. 255 |->
                    IF a \in 0 .. 255 THEN romData[a + 1] ELSE memory[a]]
RomCopy  == [a \in DOMAIN memory \cup 0 .. 256 |->
               IF a \in 0 .. 256 THEN romData[a + 1] ELSE memory[a]]
HandOver == d8 = 80 /\ cpu.inBootRom
LD_a8_A ==
  /\ op = 224 /\ ~HandOver
  /\ Finish(cpu, 2, 3)
  /\ Store(<< <<HighPage + d8, cpu.A>> >>)
LD_a8_A_HandOver ==
  LET a == HighPage + RomCopy[Next16(cpu.PC)]
  IN /\ op = 224 /\ HandOver /\ shouldWriteToMemory
     /\ Finish([cpu EXCEPT !.inBootRom = FALSE], 2, 3)
     /\ memory' = After(RomCopy, << <<a, Stored(a, cpu.A)>> >>)
     /\ events' = Append([i \in 1 .. 257 |-> <<i - 1, romData[i]>>], <<a, Stored(a, cpu.A)>>)
     /\ UNCHANGED accesses

LD_SP_HL    == op = 249 /\ Finish([cpu EXCEPT !.SP = HL(cpu)], 1, 2) /\ NoStore
ADD_SP_s8   == LET r == AddSigned(cpu.SP, d8)
               IN op = 232 /\ Finish([cpu EXCEPT !.SP = r.val, !.F = r.f], 2, 4) /\ NoStore
LD_HL_SP_s8 == LET r == AddSigned(cpu.SP, d8)
               IN op = 248 /\ Finish([set16(cpu, 2, r.val) EXCEPT !.F = r.f], 2, 3) /\ NoStore

-----------------------------------------------------------------------------
(* Arithmetic                                                               *)

\* Operation i of A and one of B, C, D, E, H, L, (HL), A.
Source == get8(cpu, z)
With_r(i, result, n) ==
  /\ op \in ArithmeticOps /\ y = i /\ NoStore
  /\ Finish(WithA(result), 1, IF z = 6 THEN n ELSE 1)

\* CP (HL) adds one cycle, the others two.
ADD_A_r == With_r(0, add(cpu.A, Source), 2)
ADC_A_r == With_r(1, adc(cpu.A, Source, cpu.F), 2)
SUB_r   == With_r(2, sub(cpu.A, Source), 2)
SBC_A_r == With_r(3, sbc(cpu.A, Source, cpu.F), 2)
AND_r   == With_r(4, and_(cpu.A, Source), 2)
XOR_r   == With_r(5, xor_(cpu.A, Source), 2)
OR_r    == With_r(6, or_(cpu.A, Source), 2)
CP_r    == With_r(7, cp(cpu.A, Source), 1)
Arithmetic_A_r == ADD_A_r \/ ADC_A_r \/ SUB_r \/ SBC_A_r
                  \/ AND_r \/ XOR_r \/ OR_r \/ CP_r

Immediate(v) == CASE y = 0 -> add(cpu.A, v)
                  [] y = 1 -> adc(cpu.A, v, cpu.F)
                  [] y = 2 -> sub(cpu.A, v)
                  [] y = 3 -> sbc(cpu.A, v, cpu.F)
                  [] y = 4 -> and_(cpu.A, v)
                  [] y = 5 -> xor_(cpu.A, v)
                  [] y = 6 -> or_(cpu.A, v)
                  [] y = 7 -> cp(cpu.A, v)
Arithmetic_A_d8 == op \in ControlOps /\ z = 6 /\ NoStore
                   /\ Finish(WithA(Immediate(d8)), 2, 2)

Stepped8 == IF z = 4 THEN inc(get8(cpu, y), cpu.F) ELSE dec(get8(cpu, y), cpu.F)
INC_DEC_r ==
  /\ op \in MiscOps /\ z \in {4, 5} /\ y # 6
  /\ Finish([set8(cpu, y, Stepped8.val) EXCEPT !.F = Stepped8.f], 1, 1)
  /\ NoStore
INC_DEC_mem_HL ==
  /\ op \in {52, 53}
  /\ Finish([cpu EXCEPT !.F = Stepped8.f], 1, 3)
  /\ Store(<< <<HL(cpu), Stepped8.val>> >>)

\* INC BC adds one cycle, the others two.
INC_rr == op \in {3, 19, 35, 51} /\ NoStore
          /\ Finish(set16(cpu, rr_, Next16(get16(cpu, rr_))), 1, IF op = 3 THEN 1 ELSE 2)
DEC_rr == op \in {11, 27, 43, 59} /\ NoStore
          /\ Finish(set16(cpu, rr_, (get16(cpu, rr_) - 1) % 65536), 1, 2)
ADD_HL_rr ==
  LET r == addCompoundRegisters(HL(cpu), get16(cpu, rr_), cpu.F)
  IN /\ op \in {9, 25, 41, 57} /\ NoStore
     /\ Finish([set16(cpu, 2, r.val) EXCEPT !.F = r.f], 1, 2)

RotateShift(k, v, f) == CASE k = 0 -> rlc(v)
                          [] k = 1 -> rrc(v)
                          [] k = 2 -> rl(v, f)
                          [] k = 3 -> rr(v, f)
                          [] k = 4 -> sla(v)
                          [] k = 5 -> sra(v)
                          [] k = 6 -> swap(v)
                          [] k = 7 -> srl(v)

\* RLCA RRCA RLA RRA: as the prefixed instructions, but Z is cleared.
RotateA_KeepZero ==
  /\ op \in {7, 15, 23, 31}
  /\ Finish(WithA(RotateShift(y, cpu.A, cpu.F)), 1, 1)
  /\ NoStore
RotateA ==
  /\ op \in {7, 15, 23, 31}
  /\ Finish([WithA(RotateShift(y, cpu.A, cpu.F)) EXCEPT !.F.zero = FALSE], 1, 1)
  /\ NoStore

DAA == op = 39 /\ Finish(WithA(daa(cpu.A, cpu.F)), 1, 1) /\ NoStore
CPL == op = 47 /\ Finish(WithA(cpl(cpu.A, cpu.F)), 1, 1) /\ NoStore
SCF_CCF == op \in {55, 63} /\ NoStore
           /\ LET c == IF op = 55 THEN TRUE ELSE ~cpu.F.carry
              IN Finish([cpu EXCEPT !.F = Flags(@.zero, FALSE, FALSE, c)], 1, 1)

-----------------------------------------------------------------------------
(* Jumps, calls and the stack                                               *)

JR    == op = 24 /\ Goto(cpu, Relative(cpu.PC), 2) /\ NoStore
JR_cc == /\ op \in {32, 40, 48, 56} /\ NoStore
         /\ IF Taken THEN Goto(cpu, Relative(cpu.PC), 3) ELSE Finish(cpu, 2, 2)

JP    == op = 195 /\ Goto(cpu, d16, 4) /\ NoStore
JP_cc == /\ op \in {194, 202, 210, 218} /\ NoStore
         /\ IF Taken THEN Goto(cpu, d16, 4) ELSE Finish(cpu, 3, 3)
JP_HL == op = 233 /\ Goto(cpu, HL(cpu), 1) /\ NoStore

Call_AsJump == /\ Goto(Pushed(cpu), d16, 4)
               /\ Store(PushStores(cpu, (cpu.PC + 3) % 65536))
Call == /\ Goto(Pushed(cpu), d16, 6)
        /\ Store(PushStores(cpu, (cpu.PC + 3) % 65536))
CALL == op = 205 /\ Call
CALL_cc == op \in {196, 204, 212, 220}
           /\ IF Taken THEN Call ELSE Finish(cpu, 3, 3) /\ NoStore
RST  == /\ op \in ControlOps /\ z = 7
        /\ Goto(Pushed(cpu), 8 * y, 4)
        /\ Store(PushStores(cpu, Next16(cpu.PC)))

RET    == op = 201 /\ Goto(Popped(cpu), PopWord(cpu), 4) /\ NoStore
RETI   == op = 217 /\ Goto([Popped(cpu) EXCEPT !.IME = TRUE], PopWord(cpu), 4) /\ NoStore
RET_cc == /\ op \in {192, 200, 208, 216} /\ NoStore
          /\ IF Taken THEN Goto(Popped(cpu), PopWord(cpu), 5) ELSE Finish(cpu, 1, 2)

PUSH == /\ op \in {197, 213, 229, 245}
        /\ Finish(Pushed(cpu), 1, 4)
        /\ Store(PushStores(cpu, getStack(cpu, rr_)))
POP  == /\ op \in {193, 209, 225, 241} /\ NoStore
        /\ Finish(setStack(Popped(cpu), rr_, PopWord(cpu)), 1, 3)

DI_EI == op \in {243, 251} /\ Finish([cpu EXCEPT !.IME = (op = 251)], 1, 1) /\ NoStore

-----------------------------------------------------------------------------
(* Prefixed instructions: x, y and z are the octal digits of the byte after *)
(* 0xCB.                                                                    *)

bitOf == (d8 \div 8) % 8
regOf == d8 % 8
Operand == get8(cpu, regOf)

CB_Write(c, v) ==
  /\ Finish(set8(c, regOf, v), 2, IF regOf = 6 THEN 4 ELSE 2)
  /\ Store(Stores8(c, regOf, v))

CB_RotateShift ==
  LET r == RotateShift(bitOf, Operand, cpu.F)
  IN op = 203 /\ d8 \in ShiftOps /\ CB_Write([cpu EXCEPT !.F = r.f], r.val)
CB_BIT ==
  /\ op = 203 /\ d8 \in BitOps /\ NoStore
  /\ Finish([cpu EXCEPT !.F = bit(Operand, bitOf, @)], 2, IF regOf = 6 THEN 3 ELSE 2)
CB_RES == op = 203 /\ d8 \in ResOps /\ CB_Write(cpu, res(Operand, bitOf))
CB_SET == op = 203 /\ d8 \in SetOps /\ CB_Write(cpu, set(Operand, bitOf))

-----------------------------------------------------------------------------

Loads == NOP \/ HALT \/ LD_A_r \/ LD_B_r \/ LD_C_r \/ LD_D_r \/ LD_E_r \/ LD_H_r
         \/ LD_L_r \/ LD_r_HL \/ LD_HL_r \/ LD_r_d8 \/ LD_rr_d16 \/ LD_rr_A \/ LD_A_rr
         \/ LD_HL_inc_A \/ LD_A_HL_inc \/ LD_a16_SP \/ LD_a16_A \/ LD_A_a16
         \/ LD_A_a8 \/ LD_mem_C_A \/ LD_A_mem_C \/ LD_a8_A \/ LD_a8_A_HandOver
         \/ LD_SP_HL \/ ADD_SP_s8 \/ LD_HL_SP_s8
Computes == Arithmetic_A_r \/ Arithmetic_A_d8 \/ INC_DEC_r \/ INC_DEC_mem_HL \/ INC_rr \/ DEC_rr
            \/ ADD_HL_rr \/ RotateA \/ DAA \/ CPL \/ SCF_CCF
Branches == JR \/ JR_cc \/ JP \/ JP_cc \/ JP_HL \/ CALL \/ CALL_cc \/ RST
            \/ RET \/ RETI \/ RET_cc \/ PUSH \/ POP \/ DI_EI
Prefixed == CB_RotateShift \/ CB_BIT \/ CB_RES \/ CB_SET

\* CPU::tick
tick == (Loads \/ Computes \/ Branches \/ Prefixed) /\ UNCHANGED romData
=============================================================================
