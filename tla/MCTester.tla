------------------------------ MODULE MCTester ------------------------------
(* Parts of the tables for model checking Tester.                           *)
EXTENDS Tester

RowOf(o) == CHOOSE r \in instructions : r.opcode = o

\* NOP, RLCA, LD A,(BC), LD r16,imm16, LD SP,HL, JR cc, RST, EI, RETI: a row
\* alone for each combination of wheels.
Single == {0, 7, 10, 1, 249, 32, 199, 251, 217}
Alone  == {[instructions |-> <<RowOf(o)>>, cb_instructions |-> << >>] : o \in Single}

\* Rows of both tables after each other.  RLC r8 and RRC r8 keep the wheels of
\* their operand, F and A only: with those of BC, DE and HL each has 204120
\* inputs.
Narrow(o) == [CHOOSE r \in cb_instructions : r.opcode = o EXCEPT !.test = {}]
Together ==
  {[instructions |-> <<RowOf(0), RowOf(251), RowOf(16)>>,
    cb_instructions |-> <<Narrow(0), Narrow(8)>>]}

MCSuites == Alone \cup Together
=============================================================================
