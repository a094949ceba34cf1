---------------------------- MODULE Instructions ----------------------------
(* The tables of the instruction tester: the rows of instructions[] and     *)
(* cb_instructions[] (lib/instructions.h), the opcodes that                 *)
(* print_coverage() counts (lib/tester.c), and which operands disassemble() *)
(* of lib/disassembler.c prints and how many bytes it reads.                *)
(* An operator F_Xyz is a faulty variant of F, used to test the properties. *)
EXTENDS InstructionSet, FiniteSets, TLC

\* A struct test_inst: the opcode its operands are ORed into, the weight that
\* each operand has there, and which registers and flags are worth changing.
\* In every row of the two tables, enabled is set.
Rows(opcodes, imm_size, at, test) ==
  {[opcode |-> o, is_cb_prefix |-> FALSE, imm_size |-> imm_size, at |-> at, test |-> test] :
     o \in opcodes}

no_operand == << >>
r8_0  == [reg8 |-> 1]
r8_3  == [reg8 |-> 8]
r8_r8 == [reg8 |-> 1, reg8_2 |-> 8]
r16_4 == [reg16 |-> 16]
cc_3  == [cond |-> 8]
bit_3 == [bit |-> 8]
r8_0_bit_3 == [reg8 |-> 1, bit |-> 8]
Pairs == {"BC", "DE", "HL"}

\* One line of these for each setting of the columns behind OP.
Rows_R8_Bits012 == Rows({4, 5}, 0, r8_0, Pairs)
Rows_R8 == Rows({4, 5}, 0, r8_3, Pairs)
instructions ==
  Rows({0, 16, 47}, 0, no_operand, {}) \cup Rows({2, 10, 226, 242}, 0, no_operand, {"BC"})
    \cup Rows({18, 26}, 0, no_operand, {"DE"}) \cup Rows({201}, 0, no_operand, {"SP"})
    \cup Rows({34, 42, 50, 58, 233}, 0, no_operand, {"HL"})
    \cup Rows({249}, 0, no_operand, {"HL", "SP"})
    \cup Rows({217}, 0, no_operand, {"SP", "IME"})
    \cup Rows({243, 251}, 0, no_operand, {"IME"})
    \cup Rows({7, 15, 23, 31, 39, 55, 63}, 0, no_operand, {"F"})
    \cup Rows({24, 198, 206, 214, 222, 224, 230, 238, 240, 246, 254}, 1, no_operand, {})
    \cup Rows({232}, 1, no_operand, {"SP"}) \cup Rows({248}, 1, no_operand, {"HL", "SP"})
    \cup Rows({195, 234, 250}, 2, no_operand, {}) \cup Rows({8, 205}, 2, no_operand, {"SP"})
    \cup Rows({1}, 2, r16_4, {}) \cup Rows({9}, 0, r16_4, Pairs)
    \cup Rows({3, 11, 193, 197}, 0, r16_4, Pairs \cup {"SP"}) \cup Rows_R8
    \cup Rows({6}, 1, r8_3, Pairs) \cup Rows({64}, 0, r8_r8, Pairs)
    \cup Rows({128, 144, 160, 168, 176, 184}, 0, r8_0, Pairs)
    \cup Rows({136, 152}, 0, r8_0, Pairs \cup {"F"}) \cup Rows({32}, 1, cc_3, {"F"})
    \cup Rows({192}, 0, cc_3, {"F", "SP"}) \cup Rows({194}, 2, cc_3, {"F"})
    \cup Rows({196}, 2, cc_3, {"F", "SP"}) \cup Rows({199}, 0, bit_3, {"SP"})

cb_instructions ==
  {[r EXCEPT !.is_cb_prefix = TRUE] :
     r \in Rows({0, 8, 16, 24, 32, 40, 48, 56}, 0, r8_0, Pairs \cup {"F"})
           \cup Rows({64, 128, 192}, 0, r8_0_bit_3, Pairs)}

Limit(w) == IF w \in {"cond", "reg16"} THEN 4 ELSE 8

\* assemble(): the byte it makes of the operands v of row r, and its length.
Weighted(r, v, w) == IF w \in DOMAIN r.at THEN r.at[w] * v[w] ELSE 0
opcodeOf(r, v) ==
  r.opcode + Weighted(r, v, "cond") + Weighted(r, v, "reg16") + Weighted(r, v, "reg8")
           + Weighted(r, v, "reg8_2") + Weighted(r, v, "bit")
Settings(r) == {u \in [DOMAIN r.at -> 0 .. 7] : \A w \in DOMAIN r.at : u[w] < Limit(w)}
Assembled(r) == {opcodeOf(r, u) : u \in Settings(r)}
AssembledLength(r) == (IF r.is_cb_prefix THEN 2 ELSE 1) + r.imm_size

is_valid_op == 0 .. 255 \ {203, 211, 219, 221, 227, 228, 235, 236, 237, 244, 252, 253}
is_valid_op_cb == 0 .. 255

-----------------------------------------------------------------------------
(* disassemble() returns how many bytes it has read.                        *)

\* The opcodes that an entry of opcodes[] stands for, with a pattern of these:
\* its mask leaves n values, step apart, from the pattern on.
Masked(patterns, step, n) ==
  {o \in 0 .. 255 : \E v \in patterns : v <= o /\ o < v + step * n /\ (o - v) % step = 0}

\* Mnemonics with %W, and those without an operand behind the opcode; the rest
\* has %B, %d or %n, and so does "DB %B", the last entry, which prints the byte
\* behind an opcode that has no other entry.
WordOperand ==
  {8, 195, 205, 234, 250} \cup Masked({1}, 16, 4) \cup Masked({194, 196}, 8, 4)
NoOperand ==
  {0, 2, 7, 10, 15, 16, 18, 23, 26, 31, 34, 39, 42, 47, 50, 55, 58, 63, 118, 201, 217, 226,
   233, 242, 243, 249, 251}
    \cup Masked({3, 9, 11, 193, 197}, 16, 4) \cup Masked({4, 5, 199}, 8, 8)
    \cup Masked({64}, 1, 64) \cup Masked({192}, 8, 4)
    \cup Masked({128, 136, 144, 152, 160, 168, 176, 184}, 1, 8)
cbOpcodes ==
  Masked({0, 8, 16, 24, 32, 40, 48, 56}, 1, 8) \cup Masked({64, 128, 192}, 1, 64)

\* What a mnemonic prints of the opcode's bits, as <<kind, weight>>: %r3, %r0,
\* %R4 or %t4, %c3, and %b or %P.
Registers3 == Masked({4, 5, 6}, 8, 8) \cup (Masked({64}, 1, 64) \ {118})
Registers0 == Masked({64}, 1, 128) \ {118}
Registers4 == Masked({1, 3, 9, 11, 193, 197}, 16, 4)
Conditions == Masked({32, 192, 194, 196}, 8, 4)
Printed(is_cb_prefix, o) ==
  LET of(opcodes, kind, weight) == IF o \in opcodes THEN {<<kind, weight>>} ELSE {}
  IN IF is_cb_prefix
       THEN of(cbOpcodes, "reg8", 1) \cup of(Masked({64}, 1, 192), "bit", 8)
       ELSE of(Registers3, "reg8", 8) \cup of(Registers0, "reg8", 1)
            \cup of(Registers4, "reg16", 16) \cup of(Conditions, "cond", 8)
            \cup of(Masked({199}, 8, 8), "bit", 8)

disassemble(is_cb_prefix, o) ==
  IF is_cb_prefix THEN IF o \in cbOpcodes THEN 2 ELSE 3
  ELSE CASE o \in WordOperand -> 3 [] o \in NoOperand -> 1 [] OTHER -> 2
=============================================================================
