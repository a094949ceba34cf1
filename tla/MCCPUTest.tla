----------------------------- MODULE MCCPUTest -----------------------------
(* Inputs for model checking CPUTest: every opcode with a case, with the    *)
(* values of next_val8 and next_val16 (lib/inputstate.c) that sit at a      *)
(* carry or borrow boundary, and addresses at the divider register.         *)
EXTENDS CPUTest

Imm8Ops  == {6, 14, 22, 30, 38, 46, 54, 62, 198, 206, 214, 222, 230, 238, 246, 254,
             224, 240, 232, 248, 24, 32, 40, 48, 56}
Imm16Ops == {1, 17, 33, 49, 8, 234, 250, 194, 195, 202, 210, 218,
             196, 204, 205, 212, 220}
InvalidOps == {203, 211, 219, 221, 227, 228, 235, 236, 237, 244, 252, 253}
PlainOps == 0 .. 255 \ (Imm8Ops \cup Imm16Ops \cup InvalidOps)

Code(b0, b1, b2) == (0 :> b0) @@ (1 :> b1) @@ (2 :> b2) @@ (3 :> 0)

MCPlain == {Code(o, 0, 0) : o \in PlainOps}
MCCb    == {Code(203, o, 0) : o \in 0 .. 255}
MCImm8  == {Code(o, i, 0) : o \in Imm8Ops, i \in {0, 1, 4, 15, 16, 239, 255}}
MCImm16 == {Code(o, Low(w), High(w)) : o \in Imm16Ops, w \in {0, 4095, 65283, 65284, 65535}}

MCPrograms == MCPlain \cup MCCb \cup MCImm8 \cup MCImm16

Regs(bc, de, hl, sp, ime) == [BC |-> bc, DE |-> de, HL |-> hl, SP |-> sp, IME |-> ime]
MCRegisters == {Regs(0, 0, 0, 0, FALSE),
                Regs(1, 4095, 65535, 65535, TRUE),
                Regs(4335, 61455, 4095, 1, FALSE),
                Regs(65284, 65283, 65284, 65286, TRUE),
                Regs(4351, 256, 32769, 65285, FALSE)}

MCFlags  == {0, 16, 32, 64, 80, 112, 128, 240}
MCA      == {0, 15, 16, 153, 154, 240, 255}

ASSUME InputsAreTyped == TesterSettings
=============================================================================
