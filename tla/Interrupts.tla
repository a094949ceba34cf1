----------------------------- MODULE Interrupts -----------------------------
(***************************************************************************)
(* GameBoy::tick and GameBoy::handleInterrupts (src/src/gameboy.cpp) with  *)
(* the instructions of the CPU (src/src/cpu.cpp) that touch the interrupt  *)
(* registers, the stack or the flow of control.                            *)
(*                                                                         *)
(* A call of tick is three steps: CpuPhase, PpuPhase, HandleInterrupts.    *)
(* The PPU is represented by what it does to IF (irq); module GameBoy puts the   *)
(* PPU itself in its place.                                                *)
(*                                                                         *)
(* The program is any one of this shape: a main loop and, at each          *)
(* interrupt vector, a handler of HandlerLen instructions and a return.    *)
(* Every instruction is chosen from MainOps or HandlerOps when it is       *)
(* executed; "NOP" stands for all those that neither jump nor touch IME,   *)
(* IE, IF or the stack, HALT among them: the CPU sets `halted' but never   *)
(* reads it.  A CALL goes to a subroutine that returns at once.            *)
(***************************************************************************)
EXTENDS Integers, Sequences

CONSTANTS
  MainStart, MainLen,    (* where the main loop is                         *)
  SubStart,              (* where the subroutine is                        *)
  HandlerLen,            (* instructions of a handler before its return    *)
  HandlerEnd,            (* its return: "RETI" or "RET"                    *)
  MainOps, HandlerOps,   (* the instructions they are made of              *)
  IeValues, IfValues,    (* what the program writes to IE and IF           *)
  MaxNesting             (* bound on the handlers that interrupt another   *)

Sources == {"VBLANK", "STAT", "TIMER", "SERIAL", "JOYPAD"}
PpuSources == {"VBLANK", "STAT"}

\* The order of the tests in handleInterrupts, and where they jump to.
Rank == [VBLANK |-> 0, STAT |-> 1, TIMER |-> 2, SERIAL |-> 3, JOYPAD |-> 4]
Vector(s) == 64 + 8 * Rank[s]

Ops == {"NOP", "EI", "DI", "CALL", "LD_IE", "LD_IF"}
Main == MainStart .. MainStart + MainLen - 1

ASSUME InterruptsAssumption ==
  /\ MainStart \in Nat /\ SubStart \in Nat
  /\ MainLen \in Nat \ {0}
  /\ HandlerLen \in 0 .. 7
  /\ HandlerEnd \in {"RETI", "RET"}
  /\ MainOps \subseteq Ops /\ HandlerOps \subseteq Ops
  /\ IeValues \subseteq SUBSET Sources /\ IfValues \subseteq SUBSET Sources
  /\ MaxNesting \in Nat \ {0}
  /\ 103 < MainStart /\ 103 < SubStart /\ SubStart \notin Main

VARIABLES
  clock,        (* GameBoy::ticks modulo 4                                 *)
  phase,        (* which part of GameBoy::tick is next                     *)
  IME,          (* CPU::IME                                                *)
  IE,           (* memory[0xFFFF], as the set of its bits                  *)
  irq,          (* memory[0xFF0F], as the set of its bits                  *)
  PC,           (* CPU::PC                                                 *)
  stack,        (* the words pushed, the last one on top: SP and memory    *)
  interrupted   (* a history: the heights of the stack at which handlers   *)
                (* that have not returned were entered                     *)

cpuVars == <<IME, IE, PC, stack, interrupted>>
vars == <<clock, phase, irq, cpuVars>>

InMain == PC \in Main
InHandler(k) == \E s \in Sources : PC = Vector(s) + k

-----------------------------------------------------------------------------
(* CPU: the instructions.                                                   *)

\* May the program have the instruction op at PC?
Has(op) ==
  \/ InMain /\ op \in MainOps
  \/ (\E k \in 0 .. HandlerLen - 1 : InHandler(k)) /\ op \in HandlerOps

AfterPC == IF PC = MainStart + MainLen - 1 THEN MainStart ELSE PC + 1

Push(v) == stack' = Append(stack, v)

\* pop() into PC; the history forgets the handler whose frame it was.
PopPC ==
  LET height == Len(stack) - 1
  IN  /\ stack # << >>
      /\ PC' = stack[height + 1]
      /\ stack' = SubSeq(stack, 1, height)
      /\ interrupted' =
           IF interrupted # << >> /\ interrupted[Len(interrupted)] = height
             THEN SubSeq(interrupted, 1, Len(interrupted) - 1) ELSE interrupted

Nop ==
  /\ Has("NOP")
  /\ PC' = AfterPC
  /\ UNCHANGED <<IME, IE, irq, stack, interrupted>>

EI ==
  /\ Has("EI")
  /\ Len(interrupted) < MaxNesting
  /\ IME' = TRUE
  /\ PC' = AfterPC
  /\ UNCHANGED <<IE, irq, stack, interrupted>>

DI ==
  /\ Has("DI")
  /\ IME' = FALSE
  /\ PC' = AfterPC
  /\ UNCHANGED <<IE, irq, stack, interrupted>>

LD_IE ==
  /\ Has("LD_IE")
  /\ IE' \in IeValues
  /\ PC' = AfterPC
  /\ UNCHANGED <<IME, irq, stack, interrupted>>

LD_IF ==
  /\ Has("LD_IF")
  /\ irq' \in IfValues
  /\ PC' = AfterPC
  /\ UNCHANGED <<IME, IE, stack, interrupted>>

CALL ==
  /\ Has("CALL")
  /\ Push(AfterPC)
  /\ PC' = SubStart
  /\ UNCHANGED <<IME, IE, irq, interrupted>>

AtReturn(op) ==
  \/ op = "RET" /\ PC = SubStart
  \/ op = HandlerEnd /\ InHandler(HandlerLen)

RET ==
  /\ AtReturn("RET")
  /\ PopPC
  /\ UNCHANGED <<IME, IE, irq>>

RETI ==
  /\ AtReturn("RETI")
  /\ PopPC
  /\ IME' = TRUE
  /\ UNCHANGED <<IE, irq>>

Instruction == Nop \/ EI \/ DI \/ LD_IE \/ LD_IF \/ CALL \/ RET \/ RETI

-----------------------------------------------------------------------------
(* GameBoy::tick                                                            *)

NextClock_Free == clock + 1
NextClock == (clock + 1) % 4

CpuPhase ==
  /\ phase = "cpu"
  /\ phase' = "ppu"
  /\ clock' = NextClock
  /\ IF clock' = 0 THEN Instruction ELSE UNCHANGED <<irq, cpuVars>>

PpuPhase ==
  /\ phase = "ppu"
  /\ phase' = "interrupts"
  /\ \E raised \in SUBSET PpuSources : irq' = irq \cup raised
  /\ UNCHANGED <<clock, cpuVars>>

fired_Masked == irq \ IE
fired == IE \cap irq

\* The request served is the first one that handleInterrupts tests.
Served_Last(s) == \A t \in fired : Rank[s] >= Rank[t]
Served(s) == \A t \in fired : Rank[s] <= Rank[t]

Cleared_Keep(s) == irq
Cleared(s) == irq \ {s}

\* The five handlers, which differ in their vector only.
EnterHandler_NoDI(s) ==
  /\ Push(PC)
  /\ PC' = Vector(s)
  /\ interrupted' = Append(interrupted, Len(stack))
  /\ UNCHANGED <<IME, IE>>

EnterHandler_NoPush(s) ==
  /\ IME' = FALSE
  /\ PC' = Vector(s)
  /\ interrupted' = Append(interrupted, Len(stack))
  /\ UNCHANGED <<IE, stack>>

EnterHandler_Skip(s) ==
  /\ IME' = FALSE
  /\ Push(AfterPC)
  /\ PC' = Vector(s)
  /\ interrupted' = Append(interrupted, Len(stack))
  /\ UNCHANGED IE

EnterHandler(s) ==
  /\ IME' = FALSE
  /\ Push(PC)
  /\ PC' = Vector(s)
  /\ interrupted' = Append(interrupted, Len(stack))
  /\ UNCHANGED IE

HandleInterrupts ==
  /\ phase = "interrupts"
  /\ phase' = "cpu"
  /\ UNCHANGED clock
  /\ IF IME /\ fired # {}
       THEN \E s \in fired :
              /\ Served(s)
              /\ irq' = Cleared(s)
              /\ EnterHandler(s)
       ELSE UNCHANGED <<irq, cpuVars>>

-----------------------------------------------------------------------------
(* CPU leaves IME and Memory leaves IE and IF uninitialised.                *)

Init ==
  /\ clock = 0
  /\ phase = "cpu"
  /\ IME \in BOOLEAN
  /\ IE \in IeValues
  /\ irq \in IfValues
  /\ PC = MainStart
  /\ stack = << >>
  /\ interrupted = << >>

Next == CpuPhase \/ PpuPhase \/ HandleInterrupts

Spec == Init /\ [][Next]_vars

-----------------------------------------------------------------------------
(* Properties                                                               *)

TypeOK ==
  /\ clock \in 0 .. 3
  /\ phase \in {"cpu", "ppu", "interrupts"}
  /\ IME \in BOOLEAN
  /\ IE \subseteq Sources /\ irq \subseteq Sources
  /\ PC \in Nat
  /\ stack \in Seq(Nat)
  /\ interrupted \in Seq(Nat)

\* What the interrupted program would see if its handlers were invisible: the
\* state it was in when the outermost handler was entered.
View ==
  IF interrupted = << >>
    THEN [pc |-> PC, stack |-> stack]
    ELSE LET h == interrupted[1]
         IN  [pc |-> stack[h + 1], stack |-> SubSeq(stack, 1, h)]

\* Handlers are transparent: whatever nests, and wherever requests come
\* between two instructions, the main loop runs as if never interrupted.
Uninterrupted == INSTANCE Program WITH pc <- View.pc, stack <- View.stack
Transparent == Uninterrupted!Spec

\* A handler is not interrupted unless it executes EI: dispatching turns IME
\* off, and it stays off until the handler has returned.
NoNesting ==
  /\ Len(interrupted) <= 1
  /\ interrupted # << >> => ~IME

Handlers == {Vector(s) + k : s \in Sources, k \in 0 .. HandlerLen}
CodeOf(level) == IF level = 0 THEN Main ELSE Handlers

\* Where the frame above that of handler number `level' begins.
Base(hs, level) == IF level = 0 THEN 0 ELSE hs[level] + 1

\* Code of that level, or the subroutine called from it, can be at address a
\* while the stack st holds n words.
Fits(hs, st, level, a, n) ==
  \/ a \in CodeOf(level) /\ n = Base(hs, level)
  \/ a = SubStart /\ n = Base(hs, level) + 1 /\ st[n] \in CodeOf(level)

\* The frames of the handlers that have not returned lie on the stack in the
\* order they were entered; each holds the address of code of the level it
\* interrupted, above the frame of the call that code was in, if any; and the
\* instruction executed next belongs to the last level.  So a return address
\* is never popped by another return than its own.
Frames(hs, st, n) ==
  \A j \in 1 .. n : /\ hs[j] < Len(st)
                    /\ Fits(hs, st, j - 1, st[hs[j] + 1], hs[j])
                    /\ \A i \in 1 .. j - 1 : hs[i] < hs[j]

FramesMatch ==
  /\ Frames(interrupted, stack, Len(interrupted))
  /\ Fits(interrupted, stack, Len(interrupted), PC, Len(stack))

\* A request leaves IF only when the program writes IF or when it is served:
\* then it was enabled, interrupts were on, no request tested before it was
\* pending, and the interrupted instruction can be returned to.
ServedInOrder ==
  [][phase = "interrupts" =>
       \A s \in irq \ irq' :
         /\ IME /\ s \in IE /\ PC' = Vector(s)
         /\ \A t \in irq' \cap IE : Rank[s] < Rank[t]
         /\ stack' = Append(stack, PC)]_vars
=============================================================================
