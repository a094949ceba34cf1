------------------------------ MODULE CPUTest ------------------------------
(* The instruction tester: run_state() of lib/tester.c runs one instruction *)
(* on the processor under test (CPU, through the mycpu_ functions of        *)
(* src/cpu.h) and on the reference (RefCPU) from the same input state and   *)
(* compares the two output states.                                          *)
(* An operator F_Xyz is a faulty variant of F, used to test the properties. *)
EXTENDS CPU

CONSTANTS
  Programs,    (* what assemble() puts in instruction_mem                   *)
  Registers,   (* the input states of registers, SP and IME                 *)
  FlagBytes,   (* the input values of F                                     *)
  AValues      (* the input values of A                                     *)

\* What the tester is set up with: programs of bytes in a memory that it does
\* not write to and that holds the longest instruction, and inputs of the
\* registers' widths. next_flags never sets the low half of F, which the
\* processor does not have.
TesterSettings ==
  /\ ~shouldWriteToMemory
  /\ MEM_SIZE \in Nat /\ MEM_SIZE > 2
  /\ Programs \subseteq [0 .. MEM_SIZE - 1 -> Byte]
  /\ Registers \subseteq [BC : Word, DE : Word, HL : Word, SP : Word, IME : BOOLEAN]
  /\ FlagBytes \subseteq {f \in Byte : Nibble(f) = 0} /\ AValues \subseteq Byte

VARIABLES
  ref,         (* the reference: see RefCPU                                 *)
  refAccesses,
  phase        (* where test_instruction and run_state are                  *)

testVars == <<cpuVars, ref, refAccesses, phase>>

Ref == INSTANCE RefCPU WITH InstructionMemSize <- MEM_SIZE

\* state_reset(), and the first input of test_instruction.
ZeroState ==
  [A |-> 0, B |-> 0, C |-> 0, D |-> 0, E |-> 0, H |-> 0, L |-> 0,
   F |-> FlagsOf(0), SP |-> 0, PC |-> 0, IME |-> FALSE, halted |-> FALSE,
   inBootRom |-> TRUE, cycles |-> 0]

\* mycpu_set_state(state)
SetState(g, a, f) ==
  [ZeroState EXCEPT !.A = a, !.F = FlagsOf(f), !.SP = g.SP, !.IME = g.IME,
     !.B = High(g.BC), !.C = Low(g.BC), !.D = High(g.DE), !.E = Low(g.DE),
     !.H = High(g.HL), !.L = Low(g.HL)]

\* rcpu_reset(state)
ResetRef(g, a, f) ==
  [BC |-> g.BC, DE |-> g.DE, HL |-> g.HL, AF |-> Join(a, f), sp |-> g.SP,
   pc |-> 0, halted |-> FALSE, interrupts_master_enabled |-> g.IME]

TestInit ==
  /\ cpu = ZeroState
  /\ ref = ResetRef([BC |-> 0, DE |-> 0, HL |-> 0, SP |-> 0, IME |-> FALSE], 0, 0)
  /\ memory \in Programs
  /\ romData = << >>
  /\ accesses = << >> /\ events = << >> /\ refAccesses = << >>
  /\ phase = "input"

\* The instruction under test with the next input.
NextInput ==
  /\ phase = "input"
  /\ \E g \in Registers, a \in AValues, f \in FlagBytes :
       /\ cpu' = SetState(g, a, f)
       /\ ref' = ResetRef(g, a, f)
  /\ accesses' = << >> /\ events' = << >> /\ refAccesses' = << >>
  /\ phase' = "step"
  /\ UNCHANGED <<memory, romData>>

\* run_state(): the processor under test, then the reference.
run_state == /\ phase = "step" /\ tick /\ Ref!rcpu_step
             /\ phase' = "compare"
NextTest  == /\ phase = "compare"
             /\ phase' = "input"
             /\ cpu' = ZeroState
             /\ ref' = ResetRef([BC |-> 0, DE |-> 0, HL |-> 0, SP |-> 0, IME |-> FALSE], 0, 0)
             /\ accesses' = << >> /\ events' = << >> /\ refAccesses' = << >>
             /\ UNCHANGED <<memory, romData>>

TestNext == NextInput \/ run_state \/ NextTest
TestSpec == TestInit /\ [][TestNext]_testVars

-----------------------------------------------------------------------------
(* The comparison                                                           *)

\* mycpu_get_state(state), in the shape of the reference's state.
Observed == [BC |-> Join(cpu.B, cpu.C), DE |-> Join(cpu.D, cpu.E), HL |-> HL(cpu),
             AF |-> Join(cpu.A, FlagByte(cpu.F)), sp |-> cpu.SP, pc |-> cpu.PC,
             halted |-> cpu.halted, interrupts_master_enabled |-> cpu.IME]

\* qsort with mem_access_cmp.
Sorted(log) ==
  LET order == CHOOSE p \in Bijection(DOMAIN log, DOMAIN log) :
                 \A i, j \in DOMAIN log : i < j => log[p[i]][1] <= log[p[j]][1]
  IN [i \in DOMAIN log |-> log[order[i]]]

\* The loop over the accesses compares the first ones every time.
states_mem_accesses_eq(s1, s2) ==
  Len(s1) = Len(s2) /\ (s1 = << >> \/ Sorted(s1)[1] = Sorted(s2)[1])
states_eq == Observed = ref /\ states_mem_accesses_eq(accesses, refAccesses)

-----------------------------------------------------------------------------
(* Properties                                                               *)

TestTypeOK ==
  /\ cpu \in CPUState
  /\ ref \in Ref!GbState
  /\ phase \in {"input", "step", "compare"}
  \* No instruction fills more than two of the sixteen places of mem_accesses.
  /\ \A log \in {accesses, refAccesses} :
       Len(log) <= 2 /\ \A i \in DOMAIN log : log[i] \in Word \X Byte

\* What the processor should log for the stores of the reference: what is
\* stored in the divider 0xFF04 is zero (src/mem.cpp:40), and so is the whole
\* word that LD (a16),SP stores there (src/mem.cpp:58).
Cleared(i) ==
  \/ refAccesses[i][1] = DIV
  \/ memory[0] = 8 /\ refAccesses[1][1] = DIV
Expected ==
  [i \in DOMAIN refAccesses |->
     IF Cleared(i) THEN <<refAccesses[i][1], 0>> ELSE refAccesses[i]]

\* The processor agrees with the reference on every register, flag and
\* pointer and on every byte it stores, in whatever order, except at the
\* divider; and the tester notices this exception at the lowest address of
\* the instruction only.
AgreesWithReference ==
  phase = "compare" =>
    /\ Observed = ref
    /\ Sorted(accesses) = Sorted(Expected)
    /\ states_eq <=> ~ \E v \in 1 .. 255 : /\ <<DIV, v>> \in Range(refAccesses)
                                           /\ DIV = Sorted(refAccesses)[1][1]

\* A conditional jump, call or return that is taken takes longer than tabled.
Extra(o) ==
  LET taken == Condition(cpu.F, (o \div 8) % 4)
  IN CASE o \in {32, 40, 48, 56, 194, 202, 210, 218} -> One(taken)
       [] o \in {196, 204, 212, 220, 192, 200, 208, 216} -> 3 * One(taken)
       [] OTHER -> 0
Tabled == IF memory[0] = 203 THEN Ref!cycles_per_instruction_cb(memory[1])
                             ELSE Ref!cycles_per_instruction(memory[0]) + Extra(memory[0])
\* INC BC, JR, LD A,(HL) and CP (HL) are one short, and CP H is wrong in the table.
Due == IF memory[0] \in {3, 24, 126, 188, 190} THEN Tabled - 1 ELSE Tabled

\* The cycles each case adds are those of the table of the reference, which
\* src/cpu.h repeats, but for INC BC, JR, LD A,(HL) and CP (HL), which are one
\* short, and for CP H, where the table is wrong.
CyclesAsTabled == phase = "compare" => cpu.cycles = Due
=============================================================================
