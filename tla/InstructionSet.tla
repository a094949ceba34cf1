--------------------------- MODULE InstructionSet ---------------------------
(* enum Instruction::Type of src/cpu.h and the two switches over it in      *)
(* Instruction's constructor (src/cpu.cpp).                                 *)
(* Opcodes_NoHALT is a faulty variant, used to test the properties.         *)
EXTENDS Integers

\* The numbers of Instruction::Type.  Instruction's constructor throws for
\* the bytes that are missing, as 0xCB only announces a prefixed instruction.
MiscOps       == 0 .. 63                       \* NOP to CCF
LoadOps       == 64 .. 127                     \* LD B,B to LD A,A, and HALT
ArithmeticOps == 128 .. 191                    \* ADD A,B to CP A
ControlOps    == 192 .. 255 \ {203, 211, 219, 221, 227, 228, 235, 236, 237, 244, 252, 253}
Opcodes_NoHALT == (MiscOps \cup LoadOps \cup ArithmeticOps \cup ControlOps) \ {118}
Opcodes == MiscOps \cup LoadOps \cup ArithmeticOps \cup ControlOps

ShiftOps  == 0 .. 63                           \* 0xCB00, RLC B to SRL A
BitOps    == 64 .. 127
ResOps    == 128 .. 191
SetOps    == 192 .. 255
CBOpcodes == ShiftOps \cup BitOps \cup ResOps \cup SetOps
=============================================================================
