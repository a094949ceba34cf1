------------------------------ MODULE GameBoy ------------------------------
(***************************************************************************)
(* The Game Boy of src/src/gameboy.cpp: the PPU and the interrupt system,  *)
(* each as its module describes it, driven by GameBoy::tick.  They share   *)
(* IF (irq); the program changes the LCD registers between instructions.   *)
(*                                                                         *)
(* What PPU leaves to its environment and what Interrupts leaves to the    *)
(* PPU are here the steps of the other: that the two assumptions are met   *)
(* is the content of the properties PpuContract and InterruptsContract.    *)
(***************************************************************************)
EXTENDS Integers, Sequences

CONSTANTS
  OamTicks, LineTicks, Width, Height, LastLine, TileIds,
  LcdOnValues, TileSelValues, ScyValues, LycValues,
  MainStart, MainLen, SubStart, HandlerLen, HandlerEnd, MainOps, HandlerOps,
  IeValues, IfValues, MaxNesting

VARIABLES
  ticks, state, x, offset, LY, LYC, SCY, lcdOn, tileSel,
  fetchState, fetchTicks, tileIndex, mapAddr, tileLine, tileId, plane0, plane1,
  fifo,
  clock, phase, IME, IE, PC, stack, interrupted,
  irq

Ppu == INSTANCE PPU
Irq == INSTANCE Interrupts

ASSUME GameBoyAssumption ==
  /\ Ppu!PPUAssumption
  /\ Irq!InterruptsAssumption
  /\ IfValues \subseteq {{}}

lcdVars == <<LYC, SCY, lcdOn, tileSel>>
ppuVars == <<ticks, state, x, offset, LY, fetchState, fetchTicks, tileIndex,
             mapAddr, tileLine, tileId, plane0, plane1, fifo>>
cpuVars == <<IME, IE, PC, stack, interrupted>>
vars == <<lcdVars, ppuVars, cpuVars, clock, phase, irq>>

\* cpu.tick() in every fourth tick: an instruction, which may be a store to
\* one of the LCD registers.
StoreLCD ==
  /\ phase = "cpu" /\ phase' = "ppu"
  /\ clock' = Irq!NextClock /\ clock' = 0
  /\ Irq!Nop
  /\ Ppu!WriteLCDC \/ Ppu!WriteSCY \/ Ppu!WriteLYC

CpuPhase ==
  \/ Irq!CpuPhase /\ UNCHANGED <<ppuVars, lcdVars>>
  \/ StoreLCD

\* ppu.tick(), while bit 7 of LCDC is set.
PpuPhase_AlwaysOn ==
  /\ phase = "ppu"
  /\ phase' = "interrupts"
  /\ Ppu!OamScan \/ Ppu!PixelTransfer \/ Ppu!HBlank \/ Ppu!VBlank
  /\ UNCHANGED <<clock, cpuVars>>

PpuPhase ==
  /\ phase = "ppu"
  /\ phase' = "interrupts"
  /\ IF lcdOn THEN Ppu!Tick ELSE UNCHANGED <<ppuVars, lcdVars, irq>>
  /\ UNCHANGED <<clock, cpuVars>>

InterruptsPhase ==
  /\ Irq!HandleInterrupts
  /\ UNCHANGED <<ppuVars, lcdVars>>

Init == Ppu!Init /\ Irq!Init

Next == CpuPhase \/ PpuPhase \/ InterruptsPhase

\* run() calls tick for as long as the emulator runs.
Spec == Init /\ [][Next]_vars /\ WF_vars(Next)

-----------------------------------------------------------------------------
(* Properties                                                               *)

PpuContract        == Ppu!Spec
InterruptsContract == Irq!Spec

\* No handler of the composed machine is interrupted: none executes EI, and
\* the PPU's requests wait in IF until the handler has returned.
NoNesting == Irq!NoNesting

\* As long as the LCD stays on and the program enables the source, every
\* request of the PPU is served, the lower priority as well.
RequestsServed ==
  <>[](lcdOn /\ IE = Irq!PpuSources) /\ []<>IME =>
     \A s \in Irq!PpuSources : []<>(s \in irq) => []<>(PC = Irq!Vector(s))

\* While LY = LYC every tick raises STAT again, and each RETI is followed by
\* the next dispatch at once: the main loop stands still, but only until the
\* line is over, unless the handlers move LYC along with LY for ever.
ProgramProceeds ==
  (\E l \in LycValues : <>[](LYC = l)) =>
     []<>(phase = "cpu" /\ clock = 3 /\ interrupted = << >>)

\* A program whose main loop leaves interrupts on gets every VBLANK before
\* the next frame starts, in a storm of STAT requests as well.
VBlankServedInTime ==
  state = "OAM_SCAN" /\ LY = 0 /\ "VBLANK" \in irq \cap IE =>
     ~IME /\ interrupted = << >>
=============================================================================
