------------------------------- MODULE Tester -------------------------------
(* The instruction tester from main.cpp's flags to the program's exit code: *)
(* test_all_instructions(), test_instructions() for each of the two tables  *)
(* and test_instruction() for each row (lib/tester.c), which leaves out the *)
(* rest of an opcode's inputs once one of them has failed.  Whether a run   *)
(* fails is run_state() (CPUTest).  Rows are enabled, as in the tables.     *)
(* An operator F_Xyz is a faulty variant of F, used to test the properties. *)
EXTENDS InputState

CONSTANTS
  Suites,        (* parts of the two tables, each as a sequence of rows      *)
  MaxFailures    (* bound: how many opcodes fail                             *)

\* Rows are like those of the tables: operands have bits of their own in the
\* opcode, and no opcode is assembled by two rows.
Entries(r) == {<<r.is_cb_prefix, o>> : o \in Assembled(r)}
Fits(r) ==
  /\ r.imm_size \in 0 .. 2 /\ DOMAIN r.at \subseteq OperandWheels
  /\ Assembled(r) \subseteq 0 .. 255
  /\ \A u, v \in Settings(r) : opcodeOf(r, u) = opcodeOf(r, v) => u = v
ASSUME SuitesAssumption ==
  \A s \in Suites :
    /\ DOMAIN s = {"instructions", "cb_instructions"}
    /\ \A t \in DOMAIN s : s[t] \in Seq(Range(s[t])) /\ \A r \in Range(s[t]) : Fits(r)
    /\ \A t1, t2 \in DOMAIN s : \A i \in DOMAIN s[t1], j \in DOMAIN s[t2] :
         <<t1, i>> # <<t2, j>> => Entries(s[t1][i]) \cap Entries(s[t2][j]) = {}

VARIABLES
  suite,                 (* the rows of the two tables                      *)
  keep_going, enable_cb, (* keep_going_on_mismatch and                      *)
                         (* enable_cb_instruction_testing                   *)
  table, row,            (* the table under test and the place in it        *)
  input,                 (* op_state and the registers of state             *)
  last_op, last_op_had_failure, had_failure,
  op_success_table,      (* the entries of tested_op and tested_op_cb that  *)
                         (* are true, as <<is_cb_prefix, opcode>>           *)
  passed, tested,        (* num_instructions_passed and _tested             *)
  summaries,             (* the lines "Tested .. instructions", as <<tested,*)
                         (* num_instructions, passed>>                      *)
  pc,                    (* "rows", "test", "next", "returned" or "exit"    *)
  code,                  (* the exit code                                   *)
  reached,               (* history: the inputs of this row the loop has    *)
                         (* come to, each as the number its wheels show     *)
  failed                 (* history: the opcodes with a run that failed     *)

walkVars  == <<input, last_op, last_op_had_failure, reached>>
tableVars == <<table, row, passed, tested, summaries>>
flagVars  == <<suite, keep_going, enable_cb>>
vars == <<walkVars, tableVars, flagVars, had_failure, op_success_table, pc, code, failed>>

rows == suite[table]
inst == rows[row]
opcode == opcodeOf(inst, input)
Entry == <<inst.is_cb_prefix, opcode>>

-----------------------------------------------------------------------------
(* test_instruction                                                         *)

Skips == opcode = last_op /\ last_op_had_failure
Skip ==
  /\ pc = "test" /\ Skips
  /\ pc' = "next" /\ reached' = reached \cup {Number(inst, input)}
  /\ UNCHANGED <<input, last_op, last_op_had_failure, had_failure, op_success_table, failed,
                 code, tableVars, flagVars>>

Pass ==
  /\ pc = "test" /\ ~Skips
  /\ last_op' = opcode /\ last_op_had_failure' = FALSE
  /\ op_success_table' = op_success_table \cup {Entry}
  /\ pc' = "next" /\ reached' = reached \cup {Number(inst, input)}
  /\ UNCHANGED <<input, had_failure, failed, code, tableVars, flagVars>>

Fail ==
  /\ pc = "test" /\ ~Skips
  /\ Cardinality(failed) < MaxFailures
  /\ last_op' = opcode /\ last_op_had_failure' = TRUE
  /\ op_success_table' = op_success_table \ {Entry}
  /\ had_failure' = TRUE
  /\ pc' = (IF keep_going THEN "next" ELSE "returned")
  /\ reached' = reached \cup {Number(inst, input)} /\ failed' = failed \cup {Entry}
  /\ UNCHANGED <<input, code, tableVars, flagVars>>

\* The loop ends when every wheel has turned.
Advance ==
  /\ pc = "next" /\ input' = next_state(inst, input)
  /\ pc' = (IF LastTurned(inst, input) = 0 THEN "returned" ELSE "test")
  /\ UNCHANGED <<last_op, last_op_had_failure, had_failure, op_success_table, reached,
                 failed, code, tableVars, flagVars>>

-----------------------------------------------------------------------------
(* test_instructions                                                        *)

\* A row's locals are made anew.
StartRow_StaleFailure ==
  /\ pc = "rows" /\ row < Len(rows)
  /\ row' = row + 1 /\ pc' = "test"
  /\ input' = ZeroInput /\ last_op' = 0 /\ last_op_had_failure' = FALSE
  /\ reached' = {}
  /\ UNCHANGED <<table, passed, tested, summaries, had_failure, op_success_table, failed,
                 code, flagVars>>
StartRow ==
  /\ pc = "rows" /\ row < Len(rows)
  /\ row' = row + 1 /\ pc' = "test"
  /\ input' = ZeroInput /\ last_op' = 0 /\ last_op_had_failure' = FALSE
  /\ had_failure' = FALSE /\ reached' = {}
  /\ UNCHANGED <<table, passed, tested, summaries, op_success_table, failed, code, flagVars>>

GiveUp_IgnoresCB ==
  /\ pc = "returned" /\ had_failure /\ ~keep_going
  /\ pc' = "exit" /\ code' = (IF table = "instructions" THEN 1 ELSE 0)
  /\ UNCHANGED <<walkVars, tableVars, flagVars, had_failure, op_success_table, failed>>
GiveUp ==
  /\ pc = "returned" /\ had_failure /\ ~keep_going
  /\ pc' = "exit" /\ code' = 1
  /\ UNCHANGED <<walkVars, tableVars, flagVars, had_failure, op_success_table, failed>>

EndRow ==
  /\ pc = "returned" /\ ~(had_failure /\ ~keep_going)
  /\ pc' = "rows" /\ tested' = tested + 1
  /\ passed' = (IF had_failure THEN passed ELSE passed + 1)
  /\ UNCHANGED <<walkVars, table, row, summaries, flagVars, had_failure,
                 op_success_table, failed, code>>

\* The other table, or print_coverage() and the end.
EndTable ==
  /\ pc = "rows" /\ row = Len(rows)
  /\ summaries' = Append(summaries, <<tested, Len(rows), passed>>)
  /\ IF table = "instructions" /\ enable_cb
       THEN /\ table' = "cb_instructions" /\ row' = 0 /\ tested' = 0 /\ passed' = 0
            /\ UNCHANGED <<pc, code>>
       ELSE /\ pc' = "exit" /\ code' = 0
            /\ UNCHANGED <<table, row, tested, passed>>
  /\ UNCHANGED <<walkVars, flagVars, had_failure, op_success_table, failed>>

Exited == pc = "exit" /\ UNCHANGED vars

Init ==
  /\ suite \in Suites /\ keep_going \in BOOLEAN /\ enable_cb \in BOOLEAN
  /\ table = "instructions" /\ row = 0
  /\ input = ZeroInput /\ last_op = 0
  /\ last_op_had_failure = FALSE /\ had_failure = FALSE
  /\ op_success_table = {}
  /\ passed = 0 /\ tested = 0 /\ summaries = << >>
  /\ pc = "rows" /\ code = 0
  /\ reached = {} /\ failed = {}

Next == Skip \/ Pass \/ Fail \/ Advance \/ StartRow \/ GiveUp \/ EndRow \/ EndTable \/ Exited
Spec == Init /\ [][Next]_vars

-----------------------------------------------------------------------------
(* Properties                                                               *)

TypeOK ==
  /\ suite \in Suites /\ keep_going \in BOOLEAN /\ enable_cb \in BOOLEAN
  /\ table \in DOMAIN suite /\ row \in 0 .. Len(rows)
  /\ row > 0 => \A w \in AllWheels : input[w] \in Range(Shows(inst, w))
  /\ last_op \in 0 .. 255
  /\ last_op_had_failure \in BOOLEAN /\ had_failure \in BOOLEAN
  /\ passed \in 0 .. tested /\ tested \in 0 .. row
  /\ pc \in {"rows", "test", "next", "returned", "exit"} /\ code \in {0, 1}

\* The wheel IME hands on when it turns to one and not when it turns back, so
\* IME with zero everywhere else is the one combination that is never tested.
Unreached == IF "IME" \in inst.test THEN 1 ELSE 0

\* When test_instruction() has not given up, it has come to every combination
\* of what the wheels show but Unreached of them, and it comes to none twice.
EveryInputReached ==
  pc = "returned" /\ (keep_going \/ ~had_failure) =>
    Cardinality(reached) = Total(inst) - Unreached
NoInputTwice == pc = "test" => Number(inst, input) \notin reached

TablesTested == IF enable_cb THEN <<"instructions", "cb_instructions">> ELSE <<"instructions">>

\* The coverage that print_coverage() reports holds no opcode that has failed
\* and, unless the tester gave up, every opcode that has not.
CoverageIsTrue ==
  /\ op_success_table \cap failed = {}
  /\ pc = "exit" /\ code = 0 =>
       op_success_table \cup failed =
         UNION {Entries(r) : r \in UNION {Range(suite[t]) : t \in Range(TablesTested)}}

\* A table's summary is printed when its last row is done and before the other
\* table starts: it counts every row, and as passed those without a failure.
SummaryIsTrue ==
  /\ \A i \in DOMAIN summaries :
       LET t == suite[TablesTested[i]]
       IN summaries[i] = <<Len(t), Len(t),
                           Cardinality({n \in DOMAIN t : Entries(t[n]) \cap failed = {}})>>
  /\ pc = "exit" /\ code = 0 => Len(summaries) = Len(TablesTested)

\* A tester that is to stop at the first failure stops there: the one opcode that
\* has failed is the one it still stands at, in either table, and the failure is on
\* its way to a non-zero exit code, past the counters and the other table.  No
\* tester exits with such a code when nothing has failed.
StopsAtFailure ==
  /\ code # 0 => failed # {}
  /\ ~keep_going /\ failed # {} =>
       /\ failed = {Entry}
       /\ pc = "returned" \/ (pc = "exit" /\ code # 0)

\* tester_run "returns a non-zero value if one or more instructions did not test
\* successfully, and zero on success" (tester.h:22-24).
ExitTellsFailures == pc = "exit" => (code # 0 <=> failed # {})

CoverOnce(table_rows, opcodes) ==
  /\ UNION {Assembled(r) : r \in table_rows} = opcodes
  /\ \A r, s \in table_rows : r # s => Assembled(r) \cap Assembled(s) = {}

\* HALT takes the place of LD (HL),(HL) in the row of LD r8,r8.
Kind(w) == IF w = "reg8_2" THEN "reg8" ELSE w
Disassembles(r) ==
  \A o \in Assembled(r) :
    /\ disassemble(r.is_cb_prefix, o) = AssembledLength(r)
    /\ r.is_cb_prefix \/ o # 118 =>
         Printed(r.is_cb_prefix, o) = {<<Kind(w), r.at[w]>> : w \in DOMAIN r.at}
TestedIsDecoded ==
  /\ is_valid_op = Opcodes /\ CoverOnce(instructions, Opcodes)
  /\ is_valid_op_cb = CBOpcodes /\ CoverOnce(cb_instructions, CBOpcodes)
  /\ \A r \in instructions \cup cb_instructions : Disassembles(r) /\ Fits(r)

\* Each opcode that the CPU decodes is assembled by exactly one row, these are
\* the opcodes that count as valid, and disassemble() takes as many bytes and
\* prints the same operands as were assembled: a coverage of 100% means what it
\* says, and so does the instruction that a mismatch is reported for.  Every
\* row is as SuitesAssumption has it.
TablesAgree == pc = "exit" => TestedIsDecoded
=============================================================================
