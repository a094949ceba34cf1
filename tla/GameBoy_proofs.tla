--------------------------- MODULE GameBoy_proofs ---------------------------
(***************************************************************************)
(* Proofs about GameBoy: the PPU and the interrupt system keep, in the     *)
(* composed machine, what each assumes of the other, so that what is       *)
(* proved of each by itself holds of the machine; and a program whose main *)
(* loop leaves interrupts on is served every VBLANK in time, which neither *)
(* part can promise alone: TimeInv weighs the ticks of the vertical blank  *)
(* against the instructions the running handler has left.                  *)
(***************************************************************************)
EXTENDS GameBoy, Windows, SequenceTheorems, TLAPS

PpuProofs == INSTANCE PPU_proofs
IrqProofs == INSTANCE Interrupts_proofs

-----------------------------------------------------------------------------
(* The theorems of PPU_proofs and Interrupts_proofs are about Ppu and Irq.  *)

LEMMA PpuAssumptionMet == PpuProofs!PPUAssumption
  BY GameBoyAssumption
     DEF PpuProofs!PPUAssumption, PpuProofs!Byte, Ppu!PPUAssumption,
         Ppu!Byte

LEMMA IrqAssumptionMet == IrqProofs!InterruptsAssumption
  BY GameBoyAssumption
     DEF IrqProofs!InterruptsAssumption, IrqProofs!Main, IrqProofs!Ops,
         IrqProofs!Sources, Irq!InterruptsAssumption, Irq!Main, Irq!Ops,
         Irq!Sources

LEMMA PpuSpecIs == Ppu!Spec <=> PpuProofs!Spec
<1>1. Ppu!Init <=> PpuProofs!Init
  BY
     DEF PpuProofs!Init, PpuProofs!InitAt, PpuProofs!TileMap,
         PpuProofs!TileData, Ppu!Init, Ppu!InitAt, Ppu!TileMap, Ppu!TileData
<1>2. [Ppu!Next]_Ppu!vars <=> [PpuProofs!Next]_PpuProofs!vars
  BY
     DEF PpuProofs!Next, PpuProofs!vars, PpuProofs!Tick, PpuProofs!OamScan,
         PpuProofs!PixelTransfer, PpuProofs!HBlank, PpuProofs!VBlank,
         PpuProofs!WriteLCDC, PpuProofs!WriteSCY, PpuProofs!WriteLYC,
         PpuProofs!Acknowledge, PpuProofs!ppuVars, PpuProofs!lcdVars,
         PpuProofs!fetchVars, PpuProofs!Coincidence,
         PpuProofs!FetcherStart, PpuProofs!MapRowAddr, PpuProofs!TileLine,
         PpuProofs!FetcherTick, PpuProofs!FetcherFires,
         PpuProofs!FetcherIdles, PpuProofs!ReadTileId,
         PpuProofs!ReadTileData0, PpuProofs!ReadTileData1,
         PpuProofs!PushToFifo, PpuProofs!FifoHasRoom, PpuProofs!Pushed,
         PpuProofs!TileRow, PpuProofs!TileRowAddr, PpuProofs!TileData,
         PpuProofs!TileMap, PpuProofs!Written, PpuProofs!PixelBytes,
         PpuProofs!LineBytes, PpuProofs!SCALE_FACTOR,
         PpuProofs!EnterVBlank, PpuProofs!IncLY, Ppu!Next, Ppu!vars,
         Ppu!Tick, Ppu!OamScan, Ppu!PixelTransfer, Ppu!HBlank, Ppu!VBlank,
         Ppu!WriteLCDC, Ppu!WriteSCY, Ppu!WriteLYC, Ppu!Acknowledge,
         Ppu!ppuVars, Ppu!lcdVars, Ppu!fetchVars, Ppu!Coincidence,
         Ppu!FetcherStart, Ppu!MapRowAddr, Ppu!TileLine, Ppu!FetcherTick,
         Ppu!FetcherFires, Ppu!FetcherIdles, Ppu!ReadTileId,
         Ppu!ReadTileData0, Ppu!ReadTileData1, Ppu!PushToFifo,
         Ppu!FifoHasRoom, Ppu!Pushed, Ppu!TileRow, Ppu!TileRowAddr,
         Ppu!TileData, Ppu!TileMap, Ppu!Written, Ppu!PixelBytes,
         Ppu!LineBytes, Ppu!SCALE_FACTOR, Ppu!EnterVBlank, Ppu!IncLY
<1> QED
  BY <1>1, <1>2, PTL DEF Ppu!Spec, PpuProofs!Spec

LEMMA IrqSpecIs == Irq!Spec <=> IrqProofs!Spec
<1> USE
     DEF IrqProofs!Init, IrqProofs!Next, IrqProofs!vars,
         IrqProofs!CpuPhase, IrqProofs!PpuPhase,
         IrqProofs!HandleInterrupts, IrqProofs!cpuVars,
         IrqProofs!NextClock, IrqProofs!Instruction, IrqProofs!Nop,
         IrqProofs!EI, IrqProofs!DI, IrqProofs!LD_IE, IrqProofs!LD_IF,
         IrqProofs!CALL, IrqProofs!RET, IrqProofs!RETI, IrqProofs!Has,
         IrqProofs!InMain, IrqProofs!InHandler, IrqProofs!Main,
         IrqProofs!Vector, IrqProofs!Rank, IrqProofs!Sources,
         IrqProofs!AfterPC, IrqProofs!Push, IrqProofs!PopPC,
         IrqProofs!AtReturn, IrqProofs!PpuSources, IrqProofs!fired,
         IrqProofs!Served, IrqProofs!Cleared, IrqProofs!EnterHandler,
         Irq!Init, Irq!Next, Irq!vars, Irq!CpuPhase, Irq!PpuPhase,
         Irq!HandleInterrupts, Irq!cpuVars, Irq!NextClock, Irq!Instruction,
         Irq!Nop, Irq!EI, Irq!DI, Irq!LD_IE, Irq!LD_IF, Irq!CALL, Irq!RET,
         Irq!RETI, Irq!Has, Irq!InMain, Irq!InHandler, Irq!Main,
         Irq!Vector, Irq!Rank, Irq!Sources, Irq!AfterPC, Irq!Push,
         Irq!PopPC, Irq!AtReturn, Irq!PpuSources, Irq!fired, Irq!Served,
         Irq!Cleared, Irq!EnterHandler
<1>1. Irq!Init <=> IrqProofs!Init
  OBVIOUS
<1>2. [Irq!Next]_Irq!vars <=> [IrqProofs!Next]_IrqProofs!vars
  OBVIOUS
<1> QED
  BY <1>1, <1>2, PTL DEF Irq!Spec, IrqProofs!Spec

-----------------------------------------------------------------------------
(* Every step of the machine is one of the PPU or of its environment.       *)

\* The CPU and handleInterrupts only take requests out of IF.
LEMMA CpuAcknowledges ==
  ASSUME Irq!CpuPhase
  PROVE  irq' \in SUBSET irq
<1>1. CASE Irq!LD_IF
  BY <1>1, GameBoyAssumption DEF Irq!LD_IF
<1>2. CASE ~Irq!LD_IF
  BY <1>2 DEF Irq!CpuPhase, Irq!Instruction, Irq!Nop, Irq!EI, Irq!DI, Irq!LD_IE,
       Irq!CALL, Irq!RET, Irq!RETI
<1> QED BY <1>1, <1>2

LEMMA DispatchAcknowledges ==
  ASSUME Irq!HandleInterrupts
  PROVE  irq' \in SUBSET irq
BY DEF Irq!HandleInterrupts, Irq!Cleared

LEMMA PpuSteps == [Next]_vars => [Ppu!Next]_Ppu!vars
<1> SUFFICES ASSUME [Next]_vars PROVE [Ppu!Next]_Ppu!vars
  OBVIOUS
<1>1. ASSUME irq' \in SUBSET irq, UNCHANGED <<ppuVars, lcdVars>>
      PROVE  Ppu!Acknowledge
  BY <1>1 DEF Ppu!Acknowledge, Ppu!ppuVars, Ppu!lcdVars, Ppu!fetchVars, ppuVars, lcdVars
<1>2. CASE Irq!CpuPhase /\ UNCHANGED <<ppuVars, lcdVars>>
  BY <1>1, <1>2, CpuAcknowledges DEF Ppu!Next
<1>3. CASE StoreLCD
  BY <1>3 DEF StoreLCD, Ppu!Next
<1>4. CASE PpuPhase /\ lcdOn
  BY <1>4 DEF PpuPhase, Ppu!Next
<1>5. CASE PpuPhase /\ ~lcdOn
  BY <1>5 DEF PpuPhase, Ppu!vars, Ppu!lcdVars, Ppu!fetchVars, ppuVars, lcdVars
<1>6. CASE InterruptsPhase
  BY <1>1, <1>6, DispatchAcknowledges DEF InterruptsPhase, Ppu!Next
<1>7. CASE UNCHANGED vars
  BY <1>7 DEF vars, Ppu!vars, Ppu!lcdVars, Ppu!fetchVars, ppuVars, lcdVars
<1> QED
  BY <1>2, <1>3, <1>4, <1>5, <1>6, <1>7 DEF Next, CpuPhase

\* The LCD registers and the PPU see nothing of the machine but steps that
\* PPU allows its environment: handleInterrupts and the program clear requests.
THEOREM PpuContractMet == Spec => PpuContract
<1>1. Init => Ppu!Init
  BY DEF Init
<1> QED
  BY <1>1, PpuSteps, PTL DEF Spec, PpuContract, Ppu!Spec

-----------------------------------------------------------------------------
(* Every step of the machine is one of the interrupt system.                *)

\* A tick of the PPU only adds requests to IF.
LEMMA PpuRaises ==
  ASSUME Ppu!Tick
  PROVE  \E raised \in SUBSET Irq!PpuSources : irq' = irq \cup raised
<1>1. ASSUME NEW raised \in SUBSET {"VBLANK", "STAT"}, irq' = irq \cup raised
      PROVE  \E r \in SUBSET Irq!PpuSources : irq' = irq \cup r
  BY <1>1 DEF Irq!PpuSources
<1>2. \E raised \in SUBSET {"VBLANK", "STAT"} : Ppu!Coincidence = irq \cup raised
  <2>1. Ppu!Coincidence = irq \cup {"STAT"} \/ Ppu!Coincidence = irq \cup {}
    BY DEF Ppu!Coincidence
  <2>2. {"STAT"} \in SUBSET {"VBLANK", "STAT"} /\ {} \in SUBSET {"VBLANK", "STAT"}
    OBVIOUS
  <2> QED BY <2>1, <2>2
<1>3. PICK raised \in SUBSET {"VBLANK", "STAT"} : Ppu!Coincidence = irq \cup raised
  BY <1>2
<1>4. \/ irq' = Ppu!Coincidence
      \/ irq' = Ppu!Coincidence \cup {"VBLANK"}
  BY DEF Ppu!Tick, Ppu!OamScan, Ppu!PixelTransfer, Ppu!HBlank, Ppu!VBlank,
         Ppu!EnterVBlank
<1>5. CASE irq' = Ppu!Coincidence
  BY <1>1, <1>3, <1>5
<1>6. CASE irq' = Ppu!Coincidence \cup {"VBLANK"}
  <2>1. raised \cup {"VBLANK"} \in SUBSET {"VBLANK", "STAT"}
    OBVIOUS
  <2>2. irq' = irq \cup (raised \cup {"VBLANK"})
    BY <1>3, <1>6
  <2> QED BY <1>1, <2>1, <2>2
<1> QED BY <1>4, <1>5, <1>6

LEMMA IrqSteps == [Next]_vars => [Irq!Next]_Irq!vars
<1> SUFFICES ASSUME [Next]_vars PROVE [Irq!Next]_Irq!vars
  OBVIOUS
<1>1. CASE Irq!CpuPhase
  BY <1>1 DEF Irq!Next
<1>2. CASE StoreLCD
  BY <1>2 DEF StoreLCD, Irq!Next, Irq!CpuPhase, Irq!Instruction
<1>3. CASE PpuPhase
  <2>1. \E raised \in SUBSET Irq!PpuSources : irq' = irq \cup raised
    <3>1. CASE lcdOn
      BY <1>3, <3>1, PpuRaises DEF PpuPhase
    <3>2. CASE ~lcdOn
      <4>1. irq' = irq \cup {} /\ {} \in SUBSET Irq!PpuSources
        BY <1>3, <3>2 DEF PpuPhase
      <4> QED BY <4>1
    <3> QED BY <3>1, <3>2
  <2> QED
    BY <1>3, <2>1 DEF PpuPhase, Irq!Next, Irq!PpuPhase, cpuVars, Irq!cpuVars
<1>4. CASE InterruptsPhase
  BY <1>4 DEF InterruptsPhase, Irq!Next
<1>5. CASE UNCHANGED vars
  BY <1>5 DEF vars, cpuVars, Irq!vars, Irq!cpuVars
<1> QED
  BY <1>1, <1>2, <1>3, <1>4, <1>5 DEF Next, CpuPhase

\* What the CPU and handleInterrupts see of the PPU is a raised request.
THEOREM InterruptsContractMet == Spec => InterruptsContract
<1>1. Init => Irq!Init
  BY DEF Init
<1> QED
  BY <1>1, IrqSteps, PTL DEF Spec, InterruptsContract, Irq!Spec

-----------------------------------------------------------------------------
(* What is proved of the parts holds of the machine.                        *)

\* No handler of the machine is interrupted unless one executes EI.
THEOREM NoHandlerInterrupted ==
  ASSUME "EI" \notin HandlerOps
  PROVE  Spec => []NoNesting
<1>1. IrqProofs!Spec => []IrqProofs!NoNesting
  BY IrqProofs!NeverNested, IrqAssumptionMet
<1>2. IrqProofs!NoNesting <=> NoNesting
  BY DEF NoNesting, Irq!NoNesting, IrqProofs!NoNesting
<1> QED
  BY <1>1, <1>2, IrqSpecIs, InterruptsContractMet, PTL DEF InterruptsContract

\* The Display's write position and LY never disagree in the machine, although
\* interrupts, stores to the LCD registers and ticks without LCD come between.
THEOREM RasterInMachine == Spec => []Ppu!Raster
<1>1. PpuProofs!Spec => []PpuProofs!Raster
  BY PpuProofs!RasterCorrect, PpuAssumptionMet
<1>2. PpuProofs!Raster <=> Ppu!Raster
  BY
     DEF PpuProofs!Raster, PpuProofs!RowBytes, PpuProofs!LineBytes,
         PpuProofs!PixelBytes, PpuProofs!SCALE_FACTOR, Ppu!Raster,
         Ppu!RowBytes, Ppu!LineBytes, Ppu!PixelBytes, Ppu!SCALE_FACTOR
<1> QED
  BY <1>1, <1>2, PpuSpecIs, PpuContractMet, PTL DEF PpuContract

\* The machine scans the screen as FrameScan describes, whatever its program
\* and its interrupt handlers do.
THEOREM MachineScansFrames == Spec => Ppu!ImplementsFrameScan
<1>1. PpuProofs!Spec => PpuProofs!ImplementsFrameScan
  BY PpuProofs!PPUImplementsFrameScan, PpuAssumptionMet
<1>2. PpuProofs!Frame!Init <=> Ppu!Frame!Init
  BY DEF PpuProofs!Frame!Init, Ppu!Frame!Init
<1>3. [PpuProofs!Frame!Next]_(PpuProofs!Frame!vars) <=> [Ppu!Frame!Next]_(Ppu!Frame!vars)
  BY
     DEF PpuProofs!Frame!Next, PpuProofs!Frame!vars,
         PpuProofs!Frame!ShowPixel, PpuProofs!Frame!NextRow,
         PpuProofs!Frame!EndFrame, PpuProofs!Frame!NextFrame,
         PpuProofs!Frame!Serve, Ppu!Frame!Next, Ppu!Frame!vars,
         Ppu!Frame!ShowPixel, Ppu!Frame!NextRow, Ppu!Frame!EndFrame,
         Ppu!Frame!NextFrame, Ppu!Frame!Serve
<1>4. PpuProofs!ImplementsFrameScan <=> Ppu!ImplementsFrameScan
  BY <1>2, <1>3, PTL DEF PpuProofs!ImplementsFrameScan, Ppu!ImplementsFrameScan,
     PpuProofs!Frame!Spec, Ppu!Frame!Spec
<1> QED
  BY <1>1, <1>4, PpuSpecIs, PpuContractMet, PTL DEF PpuContract

\* VBLANK is requested once in a frame's worth of ticks, with all the lines
\* in the pixel buffer, whatever the program does to the LCD registers and
\* whatever interrupts its handlers serve.
THEOREM MachineFramesInStep == Spec => Ppu!FramesInStep
<1>1. PpuProofs!Spec => PpuProofs!FramesInStep
  BY PpuProofs!FramesAlwaysInStep, PpuAssumptionMet
<1>2. PpuProofs!Tick <=> Ppu!Tick
  BY
     DEF PpuProofs!Tick, PpuProofs!OamScan, PpuProofs!PixelTransfer,
         PpuProofs!HBlank, PpuProofs!VBlank, PpuProofs!lcdVars,
         PpuProofs!fetchVars, PpuProofs!Coincidence,
         PpuProofs!FetcherStart, PpuProofs!MapRowAddr,
         PpuProofs!TileLine, PpuProofs!FetcherTick,
         PpuProofs!FetcherFires, PpuProofs!FetcherIdles,
         PpuProofs!ReadTileId, PpuProofs!ReadTileData0,
         PpuProofs!ReadTileData1, PpuProofs!PushToFifo,
         PpuProofs!FifoHasRoom, PpuProofs!Pushed, PpuProofs!TileRow,
         PpuProofs!TileRowAddr, PpuProofs!TileData, PpuProofs!TileMap,
         PpuProofs!Written, PpuProofs!PixelBytes, PpuProofs!LineBytes,
         PpuProofs!SCALE_FACTOR, PpuProofs!EnterVBlank,
         PpuProofs!IncLY, Ppu!Tick, Ppu!OamScan, Ppu!PixelTransfer,
         Ppu!HBlank, Ppu!VBlank, Ppu!lcdVars, Ppu!fetchVars,
         Ppu!Coincidence, Ppu!FetcherStart, Ppu!MapRowAddr,
         Ppu!TileLine, Ppu!FetcherTick, Ppu!FetcherFires,
         Ppu!FetcherIdles, Ppu!ReadTileId, Ppu!ReadTileData0,
         Ppu!ReadTileData1, Ppu!PushToFifo, Ppu!FifoHasRoom,
         Ppu!Pushed, Ppu!TileRow, Ppu!TileRowAddr, Ppu!TileData,
         Ppu!TileMap, Ppu!Written, Ppu!PixelBytes, Ppu!LineBytes,
         Ppu!SCALE_FACTOR, Ppu!EnterVBlank, Ppu!IncLY
<1>3. /\ PpuProofs!Position = Ppu!Position /\ PpuProofs!FrameTicks = Ppu!FrameTicks
      /\ PpuProofs!BufferBytes = Ppu!BufferBytes
  BY
     DEF PpuProofs!Position, PpuProofs!FrameTicks,
         PpuProofs!BufferBytes, PpuProofs!RowBytes,
         PpuProofs!LineBytes, PpuProofs!PixelBytes,
         PpuProofs!SCALE_FACTOR, Ppu!Position, Ppu!FrameTicks,
         Ppu!BufferBytes, Ppu!RowBytes, Ppu!LineBytes, Ppu!PixelBytes,
         Ppu!SCALE_FACTOR
<1>4. PpuProofs!vars = Ppu!vars
  BY
     DEF PpuProofs!vars, PpuProofs!lcdVars, PpuProofs!fetchVars,
         Ppu!vars, Ppu!lcdVars, Ppu!fetchVars
<1>5. [PpuProofs!InStep]_PpuProofs!vars <=> [Ppu!InStep]_Ppu!vars
  <2>1. PpuProofs!Position' = Ppu!Position'
    BY DEF PpuProofs!Position, Ppu!Position
  <2>2. PpuProofs!vars' = Ppu!vars'
    BY DEF PpuProofs!vars, PpuProofs!lcdVars, PpuProofs!fetchVars,
           Ppu!vars, Ppu!lcdVars, Ppu!fetchVars
  <2> QED
    BY <1>2, <1>3, <1>4, <2>1, <2>2 DEF PpuProofs!InStep, Ppu!InStep
<1>6. PpuProofs!FramesInStep <=> Ppu!FramesInStep
  BY <1>5, PTL DEF PpuProofs!FramesInStep, Ppu!FramesInStep
<1> QED
  BY <1>1, <1>6, PpuSpecIs, PpuContractMet, PTL DEF PpuContract

\* The main loop runs in the machine as if the PPU never interrupted it.
THEOREM MainLoopUndisturbed == Spec => Irq!Transparent
<1>1. IrqProofs!Spec => IrqProofs!Transparent
  BY IrqProofs!HandlersTransparent, IrqAssumptionMet
<1>2. IrqProofs!View = Irq!View
  BY DEF IrqProofs!View, Irq!View
<1>3. IrqProofs!Uninterrupted!Init <=> Irq!Uninterrupted!Init
  BY <1>2 DEF IrqProofs!Uninterrupted!Init, Irq!Uninterrupted!Init
<1>4. [IrqProofs!Uninterrupted!Next]_<<IrqProofs!View.pc, IrqProofs!View.stack>>
        <=> [Irq!Uninterrupted!Next]_<<Irq!View.pc, Irq!View.stack>>
  BY
     DEF IrqProofs!View, Irq!View,
         IrqProofs!Uninterrupted!Next, IrqProofs!Uninterrupted!Step,
         IrqProofs!Uninterrupted!Call, IrqProofs!Uninterrupted!Return,
         IrqProofs!Uninterrupted!Main, IrqProofs!Uninterrupted!After,
         Irq!Uninterrupted!Next, Irq!Uninterrupted!Step,
         Irq!Uninterrupted!Call, Irq!Uninterrupted!Return,
         Irq!Uninterrupted!Main, Irq!Uninterrupted!After
<1>5. IrqProofs!Transparent <=> Irq!Transparent
  BY <1>3, <1>4, PTL DEF IrqProofs!Transparent, Irq!Transparent,
     IrqProofs!Uninterrupted!Spec, Irq!Uninterrupted!Spec
<1> QED
  BY <1>1, <1>5, IrqSpecIs, InterruptsContractMet, PTL DEF InterruptsContract

-----------------------------------------------------------------------------
(* VBLANK is served in time.                                                *)

\* The parts' invariants, in the machine.
Parts ==
  /\ Irq!TypeOK /\ Irq!FramesMatch /\ NoNesting
  /\ Ppu!TypeOK /\ Ppu!Raster /\ Ppu!LineTiming

LEMMA PartsHold ==
  ASSUME "EI" \notin HandlerOps
  PROVE  Spec => []Parts
<1>1. IrqProofs!Spec => []IrqProofs!TypeOK
  BY IrqProofs!TypeCorrect, IrqAssumptionMet
<1>2. IrqProofs!TypeOK <=> Irq!TypeOK
  BY DEF IrqProofs!TypeOK, Irq!TypeOK, IrqProofs!Sources, Irq!Sources
<1>3. IrqProofs!Spec => []IrqProofs!FramesMatch
  BY IrqProofs!FramesAlwaysMatch, IrqAssumptionMet
<1>4. IrqProofs!FramesMatch <=> Irq!FramesMatch
  BY
     DEF IrqProofs!FramesMatch, IrqProofs!Frames, IrqProofs!Fits,
         IrqProofs!Base, IrqProofs!CodeOf, IrqProofs!Handlers,
         IrqProofs!Main, IrqProofs!Vector, IrqProofs!Rank,
         IrqProofs!Sources, Irq!FramesMatch, Irq!Frames, Irq!Fits,
         Irq!Base, Irq!CodeOf, Irq!Handlers, Irq!Main, Irq!Vector,
         Irq!Rank, Irq!Sources
<1>5. PpuProofs!Spec => []PpuProofs!TypeOK
  BY PpuProofs!TypeCorrect, PpuAssumptionMet
<1>6. PpuProofs!TypeOK <=> Ppu!TypeOK
  BY
     DEF PpuProofs!TypeOK, PpuProofs!Byte, PpuProofs!States,
         PpuProofs!FetchStates, Ppu!TypeOK, Ppu!Byte, Ppu!States,
         Ppu!FetchStates
<1>7. PpuProofs!Spec => []PpuProofs!LineTiming
  BY PpuProofs!TicksNeverMissed, PpuAssumptionMet
<1>8. PpuProofs!LineTiming <=> Ppu!LineTiming
  BY
     DEF PpuProofs!LineTiming, PpuProofs!Cycles, PpuProofs!Stage,
         Ppu!LineTiming, Ppu!Cycles, Ppu!Stage
<1>9. Spec => []NoNesting /\ []Ppu!Raster
  BY NoHandlerInterrupted, RasterInMachine, PTL
<1> QED
  BY <1>1, <1>2, <1>3, <1>4, <1>5, <1>6, <1>7, <1>8, <1>9, PpuSpecIs, IrqSpecIs,
     PpuContractMet, InterruptsContractMet, PTL DEF Parts, PpuContract, InterruptsContract

\* A program whose main loop leaves interrupts on, with handlers that only
\* compute and are done before the vertical blank is over.
LeavesInterruptsOn ==
  /\ MainOps \subseteq {"NOP", "CALL"} /\ HandlerOps \subseteq {"NOP"}
  /\ HandlerEnd = "RETI"
  /\ 4 * (HandlerLen + 1) < (LastLine - Height) * LineTicks

\* VBLANK waits for the program, which will let it through.
Waiting == "VBLANK" \in irq \cap IE /\ (IME \/ interrupted # << >>)

\* The ticks of the vertical blank so far, and those the PPU can still make
\* before handleInterrupts may serve it: the rest of the handler, its RETI
\* included, at four ticks an instruction.
Elapsed == (LY - Height) * LineTicks + ticks
Left    == (IF interrupted = << >> THEN 0 ELSE 4 * (HandlerLen + 1 - (PC % 8)) - clock)
             + (IF phase = "ppu" THEN 1 ELSE 0)

\* While VBLANK waits the vertical blank lasts; a handler holds it up, or the
\* tick is not over.
InTime ==
  Waiting => /\ state = "V_BLANK"
             /\ Elapsed + Left <= 4 * (HandlerLen + 1)
             /\ interrupted = << >> => phase # "cpu"

InItsHandler ==
  interrupted # << >> => \E s \in Irq!Sources, j \in 0 .. HandlerLen : PC = Irq!Vector(s) + j

TimeInv == InItsHandler /\ InTime

LEMMA VectorIs ==
  ASSUME NEW s \in Irq!Sources, NEW j \in 0 .. HandlerLen
  PROVE  /\ Irq!Vector(s) + j \in 64 .. 103 /\ (Irq!Vector(s) + j) % 8 = j
         /\ Irq!Vector(s) + j \notin Irq!Main /\ Irq!Vector(s) + j # SubStart
         /\ Irq!Rank[s] \in 0 .. 4 /\ Irq!Vector(s) \in Nat
<1>1. /\ HandlerLen \in 0 .. 7 /\ MainStart \in Nat /\ MainLen \in Nat /\ SubStart \in Nat
      /\ 103 < MainStart /\ 103 < SubStart
  BY GameBoyAssumption DEF Irq!InterruptsAssumption
<1>2. PICK r \in 0 .. 4 : Irq!Rank[s] = r
  BY DEF Irq!Rank, Irq!Sources
<1>3. Irq!Vector(s) = 64 + 8 * r
  BY <1>2 DEF Irq!Vector
<1>4. (64 + 8 * r + j) % 8 = j
  BY <1>1
<1> QED BY <1>1, <1>2, <1>3, <1>4 DEF Irq!Main

\* What each instruction does, seen from a handler and from the main loop.
LEMMA InHandlerIs ==
  ASSUME Parts, LeavesInterruptsOn, InItsHandler
  PROVE  /\ Irq!InMain => interrupted = << >>
         /\ PC = SubStart => interrupted = << >>
         /\ \A j \in 0 .. HandlerLen : Irq!InHandler(j) =>
              interrupted # << >> /\ PC % 8 = j /\ PC \notin Irq!Main /\ PC \in Nat
<1>1. (Irq!InMain => interrupted = << >>) /\ (PC = SubStart => interrupted = << >>)
  BY VectorIs DEF InItsHandler, Irq!InMain
<1>2. ASSUME NEW j \in 0 .. HandlerLen, Irq!InHandler(j)
      PROVE  interrupted # << >> /\ PC % 8 = j /\ PC \notin Irq!Main /\ PC \in Nat
  <2>1. PICK s \in Irq!Sources : PC = Irq!Vector(s) + j
    BY <1>2 DEF Irq!InHandler
  <2>2. PC % 8 = j /\ PC \notin Irq!Main /\ PC \in 64 .. 103 /\ PC # SubStart
    BY <2>1, VectorIs
  <2>3. interrupted # << >>
    <3> SUFFICES ASSUME interrupted = << >> PROVE FALSE
      OBVIOUS
    <3>1. Len(interrupted) = 0
      OBVIOUS
    <3>2. Irq!Fits(interrupted, stack, 0, PC, Len(stack))
      BY <3>1 DEF Parts, Irq!FramesMatch
    <3> QED BY <3>2, <2>2 DEF Irq!Fits, Irq!CodeOf
  <2> QED BY <2>2, <2>3
<1> QED BY <1>1, <1>2

LEMMA NopKeepsTime ==
  ASSUME Parts, LeavesInterruptsOn, TimeInv, phase = "cpu", phase' = "ppu",
         clock = 3, clock' = 0, Irq!Nop, UNCHANGED <<ticks, state, LY>>
  PROVE  TimeInv'
<1>1. PICK hl \in 0 .. 7 : hl = HandlerLen
  BY GameBoyAssumption DEF Irq!InterruptsAssumption
<1>2. CASE interrupted = << >>
  BY <1>2 DEF Irq!Nop, TimeInv, InItsHandler, InTime, Waiting
<1>3. CASE interrupted # << >>
  <2>1. PICK j \in 0 .. HandlerLen - 1 : Irq!InHandler(j)
    BY <1>3, InHandlerIs DEF Irq!Nop, Irq!Has, TimeInv
  <2>2. j \in 0 .. HandlerLen /\ j + 1 \in 0 .. HandlerLen
    BY <1>1
  <2>3. PICK s \in Irq!Sources : PC = Irq!Vector(s) + j
    BY <2>1 DEF Irq!InHandler
  <2>4. PC % 8 = j /\ PC \notin Irq!Main
    BY <2>2, <2>3, VectorIs
  <2>5. PC' = PC + 1
    <3>1. MainStart + MainLen - 1 \in Irq!Main
      BY GameBoyAssumption DEF Irq!InterruptsAssumption, Irq!Main
    <3> QED BY <2>4, <3>1 DEF Irq!Nop, Irq!AfterPC
  <2>6. PC' = Irq!Vector(s) + (j + 1) /\ PC' % 8 = j + 1
    BY <2>2, <2>3, <2>5, VectorIs
  <2>7. InItsHandler'
    BY <2>2, <2>6 DEF InItsHandler
  <2>8. Left' = Left
    BY <1>1, <1>3, <2>1, <2>4, <2>6 DEF Left, Irq!Nop
  <2>9. Elapsed' = Elapsed /\ (Waiting' <=> Waiting) /\ state' = state
        /\ interrupted' = interrupted
    BY DEF Elapsed, Waiting, Irq!Nop
  <2> QED
    BY <1>3, <2>7, <2>8, <2>9 DEF TimeInv, InTime
<1> QED BY <1>2, <1>3

LEMMA CpuKeepsTime ==
  ASSUME Parts, LeavesInterruptsOn, TimeInv, CpuPhase
  PROVE  TimeInv'
<1>1. PICK hl \in 0 .. 7 : hl = HandlerLen
  BY GameBoyAssumption DEF Irq!InterruptsAssumption
<1>2. /\ phase = "cpu" /\ phase' = "ppu" /\ clock' = (clock + 1) % 4 /\ clock \in 0 .. 3
      /\ UNCHANGED <<ticks, state, LY>>
  <2>1. UNCHANGED <<ticks, state, LY>>
    BY DEF CpuPhase, StoreLCD, ppuVars, Ppu!WriteLCDC, Ppu!WriteSCY, Ppu!WriteLYC,
       Ppu!ppuVars
  <2> QED
    BY <2>1 DEF CpuPhase, Irq!CpuPhase, StoreLCD, Irq!NextClock, Parts, Irq!TypeOK
<1>3. CASE clock' # 0
  <2>1. clock' = clock + 1
    BY <1>2, <1>3
  <2>2. UNCHANGED <<irq, IME, IE, PC, stack, interrupted>>
    BY <1>3 DEF CpuPhase, StoreLCD, Irq!CpuPhase, Irq!cpuVars
  <2>3. CASE interrupted = << >>
    BY <1>2, <2>2, <2>3 DEF TimeInv, InItsHandler, InTime, Waiting
  <2>4. CASE interrupted # << >>
    <3>1. PICK j \in 0 .. HandlerLen : PC % 8 = j
      BY <2>4, VectorIs DEF TimeInv, InItsHandler
    <3>2. Left' = Left
      BY <1>1, <1>2, <2>1, <2>2, <2>4, <3>1 DEF Left
    <3> QED
      BY <1>2, <2>2, <2>4, <3>2 DEF TimeInv, InItsHandler, InTime, Waiting, Elapsed
  <2> QED BY <2>3, <2>4
<1>4. CASE clock' = 0
  <2>1. clock = 3
    BY <1>2, <1>4
  <2>2. Irq!Instruction
    BY <1>4 DEF CpuPhase, StoreLCD, Irq!CpuPhase, Irq!Instruction
  <2>3. CASE Irq!Nop
    BY <1>2, <1>4, <2>1, <2>3, NopKeepsTime
  <2>4. CASE Irq!CALL
    <3>1. interrupted = << >>
      BY <2>4, InHandlerIs DEF Irq!CALL, Irq!Has, LeavesInterruptsOn, TimeInv
    <3> QED
      BY <1>2, <2>4, <3>1 DEF Irq!CALL, TimeInv, InItsHandler, InTime, Waiting
  <2>5. CASE Irq!RET
    <3>1. PC = SubStart
      BY <2>5 DEF Irq!RET, Irq!AtReturn, LeavesInterruptsOn
    <3>2. interrupted = << >>
      BY <3>1, InHandlerIs DEF TimeInv
    <3> QED
      BY <1>2, <2>5, <3>2 DEF Irq!RET, Irq!PopPC, TimeInv, InItsHandler, InTime, Waiting
  <2>6. CASE Irq!RETI
    <3>1. Irq!InHandler(HandlerLen) /\ HandlerLen \in 0 .. HandlerLen
      BY <1>1, <2>6 DEF Irq!RETI, Irq!AtReturn
    <3>2. interrupted # << >> /\ PC % 8 = HandlerLen
      BY <3>1, InHandlerIs DEF TimeInv
    <3>3. interrupted' = << >>
      <4>1. Len(interrupted) = 1 /\ interrupted \in Seq(Nat)
        <5>1. interrupted \in Seq(Nat) /\ Len(interrupted) <= 1
          BY DEF Parts, NoNesting, Irq!NoNesting, Irq!TypeOK
        <5>2. Len(interrupted) \in Nat /\ Len(interrupted) # 0
          BY <3>2, <5>1, EmptySeq
        <5>3. PICK n \in Nat : n = Len(interrupted)
          BY <5>2
        <5>4. n = 1
          BY <5>1, <5>2, <5>3
        <5> QED BY <5>1, <5>3, <5>4
      <4>2. PC \notin Irq!Main /\ PC # SubStart
        BY <3>1, <3>2, InHandlerIs DEF TimeInv
      <4>3. Irq!Fits(interrupted, stack, 1, PC, Len(stack))
        BY <4>1 DEF Parts, Irq!FramesMatch
      <4>4. Len(stack) = interrupted[1] + 1 /\ interrupted[1] \in Nat
        <5>1. interrupted[1] \in Nat
          <6>1. 1 \in 1 .. Len(interrupted)
            BY <4>1
          <6> QED BY <4>1, <6>1, ElementOfSeq
        <5>2. Irq!Base(interrupted, 1) = interrupted[1] + 1
          BY DEF Irq!Base
        <5> QED BY <4>2, <4>3, <5>1, <5>2 DEF Irq!Fits
      <4> QED BY <2>6, <3>2, <4>1, <4>4 DEF Irq!RETI, Irq!PopPC
    <3>4. Left' = 1 /\ Left = 1
      BY <1>1, <1>2, <1>4, <2>1, <3>2, <3>3 DEF Left
    <3>5. Waiting' => Waiting
      BY <2>6, <3>2 DEF Irq!RETI, Waiting
    <3> QED
      BY <1>2, <3>3, <3>4, <3>5 DEF TimeInv, InItsHandler, InTime, Elapsed
  <2>7. ~Irq!EI /\ ~Irq!DI /\ ~Irq!LD_IE /\ ~Irq!LD_IF
    BY DEF Irq!EI, Irq!DI, Irq!LD_IE, Irq!LD_IF, Irq!Has, LeavesInterruptsOn
  <2> QED
    BY <2>2, <2>3, <2>4, <2>5, <2>6, <2>7 DEF Irq!Instruction
<1> QED BY <1>3, <1>4

\* A tick of the PPU.
LEMMA PpuKeepsTime ==
  ASSUME Parts, Parts', LeavesInterruptsOn, TimeInv, PpuPhase
  PROVE  TimeInv'
<1>1. PICK hl \in 0 .. 7 : hl = HandlerLen
  BY GameBoyAssumption DEF Irq!InterruptsAssumption
<1>2. /\ phase = "ppu" /\ phase' = "interrupts"
      /\ UNCHANGED <<clock, IME, IE, PC, stack, interrupted>>
  BY DEF PpuPhase, cpuVars
<1>3. InItsHandler'
  BY <1>2 DEF TimeInv, InItsHandler
<1>4. /\ Left \in Int /\ Left' = Left - 1
      /\ Left' \in 0 .. 4 * (HandlerLen + 1)
  <2>1. CASE interrupted = << >>
    BY <1>1, <1>2, <2>1 DEF Left
  <2>2. CASE interrupted # << >>
    <3>1. PICK j \in 0 .. HandlerLen : PC % 8 = j
      BY <2>2, VectorIs DEF TimeInv, InItsHandler
    <3>2. clock \in 0 .. 3
      BY DEF Parts, Irq!TypeOK
    <3> QED BY <1>1, <1>2, <2>2, <3>1, <3>2 DEF Left
  <2> QED BY <2>1, <2>2
<1>5. /\ LY \in 0 .. 255 /\ ticks \in Nat /\ LineTicks \in Nat
      /\ Height \in Nat /\ LastLine \in Nat
  BY GameBoyAssumption DEF Parts, Ppu!TypeOK, Ppu!Byte, Ppu!PPUAssumption
<1>6. InTime'
  <2> SUFFICES ASSUME Waiting'
               PROVE  state' = "V_BLANK" /\ Elapsed' + Left' <= 4 * (HandlerLen + 1)
    BY <1>2 DEF InTime
  <2>1. CASE ~lcdOn
    <3>1. UNCHANGED <<irq, state, LY, ticks>>
      BY <2>1 DEF PpuPhase, ppuVars
    <3>2. Waiting /\ Elapsed' = Elapsed /\ Elapsed \in Int
      BY <1>2, <1>5, <3>1 DEF Waiting, Elapsed
    <3> QED BY <1>1, <1>4, <3>1, <3>2 DEF TimeInv, InTime
  <2>2. CASE lcdOn /\ Ppu!VBlank
    <3>1. state = "V_BLANK" /\ Waiting
      BY <1>2, <2>2 DEF Ppu!VBlank, Ppu!Coincidence, Waiting
    <3>2. Elapsed + Left <= 4 * (HandlerLen + 1) /\ Elapsed \in Int
      BY <1>5, <3>1 DEF TimeInv, InTime, Elapsed
    <3>3. CASE ticks + 1 = LineTicks
      <4>1. LY \in Height .. LastLine - 1 /\ Ppu!IncLY = LY + 1
        BY <1>5, <3>1, GameBoyAssumption
           DEF Parts, Ppu!Raster, Ppu!IncLY, Ppu!PPUAssumption, Ppu!Byte
      <4>2. (LY + 1 - Height) * LineTicks = Elapsed + 1
        BY <1>5, <3>3 DEF Elapsed
      <4>3. LY + 1 # LastLine
        <5>1. Elapsed + 1 <= 4 * (HandlerLen + 1)
          BY <1>1, <1>4, <3>2
        <5>2. (LY + 1 - Height) * LineTicks <= 4 * (HandlerLen + 1)
          BY <4>2, <5>1
        <5>3. ASSUME LY + 1 = LastLine PROVE FALSE
          <6>1. LY + 1 - Height = LastLine - Height
            BY <1>5, <5>3
          <6>2. (LastLine - Height) * LineTicks <= 4 * (HandlerLen + 1)
            BY <5>2, <6>1
          <6>3. (LastLine - Height) * LineTicks \in Int /\ 4 * (HandlerLen + 1) \in Int
            BY <1>1, <1>5
          <6> QED BY <6>2, <6>3 DEF LeavesInterruptsOn
        <5> QED BY <5>3
      <4>4. LY' = LY + 1 /\ state' = state /\ ticks' = 0
        BY <2>2, <3>3, <4>1, <4>3 DEF Ppu!VBlank
      <4> QED BY <1>1, <1>4, <1>5, <3>1, <3>2, <4>2, <4>4 DEF Elapsed
    <3>4. CASE ticks + 1 # LineTicks
      <4>1. LY' = LY /\ state' = state /\ ticks' = ticks + 1
        BY <2>2, <3>4 DEF Ppu!VBlank
      <4>2. Elapsed' = Elapsed + 1
        BY <1>5, <4>1 DEF Elapsed
      <4> QED BY <1>1, <1>4, <3>1, <3>2, <4>1, <4>2
    <3> QED BY <3>3, <3>4
  <2>3. CASE lcdOn /\ (Ppu!OamScan \/ Ppu!PixelTransfer)
    <3>1. state # "V_BLANK" /\ irq' = Ppu!Coincidence
      BY <2>3 DEF Ppu!OamScan, Ppu!PixelTransfer
    <3>2. Waiting
      BY <1>2, <3>1 DEF Waiting, Ppu!Coincidence
    <3> QED BY <3>1, <3>2 DEF TimeInv, InTime
  <2>4. CASE lcdOn /\ Ppu!HBlank
    <3>1. state # "V_BLANK" /\ ~Waiting
      BY <2>4 DEF Ppu!HBlank, TimeInv, InTime
    <3>2. irq' # Ppu!Coincidence
      BY <1>2, <3>1 DEF Waiting, Ppu!Coincidence
    <3>3. ticks' = 0 /\ LY' = Height /\ state' = "V_BLANK"
      BY <2>4, <3>2 DEF Ppu!HBlank, Ppu!EnterVBlank
    <3>4. Elapsed' = 0
      BY <1>5, <3>3 DEF Elapsed
    <3> QED BY <1>1, <1>4, <3>3, <3>4
  <2> QED
    BY <2>1, <2>2, <2>3, <2>4 DEF PpuPhase, Ppu!Tick
<1> QED BY <1>3, <1>6 DEF TimeInv

\* handleInterrupts serves VBLANK before any other request.
LEMMA DispatchKeepsTime ==
  ASSUME Parts, LeavesInterruptsOn, TimeInv, InterruptsPhase
  PROVE  TimeInv'
<1>1. /\ phase = "interrupts" /\ phase' = "cpu"
      /\ UNCHANGED <<clock, ticks, state, LY>> /\ IE' = IE
  BY DEF InterruptsPhase, Irq!HandleInterrupts, Irq!EnterHandler, Irq!cpuVars, ppuVars
<1>2. CASE IME /\ Irq!fired # {}
  <2>1. PICK s \in Irq!fired :
          Irq!Served(s) /\ irq' = Irq!Cleared(s) /\ Irq!EnterHandler(s)
    BY <1>2 DEF InterruptsPhase, Irq!HandleInterrupts
  <2>2. s \in Irq!Sources /\ Irq!fired \subseteq Irq!Sources
    BY DEF Irq!fired, Parts, Irq!TypeOK
  <2>3. InItsHandler'
    <3>1. 0 \in 0 .. HandlerLen /\ Irq!Vector(s) + 0 = Irq!Vector(s)
      <4>1. HandlerLen \in 0 .. 7
        BY GameBoyAssumption DEF Irq!InterruptsAssumption
      <4>2. 0 \in 0 .. HandlerLen
        BY <4>1
      <4> QED BY <2>2, <4>2, VectorIs
    <3>2. PC' = Irq!Vector(s) + 0
      BY <2>1, <3>1 DEF Irq!EnterHandler
    <3> QED BY <2>2, <3>1, <3>2 DEF InItsHandler
  <2>4. ~Waiting'
    <3>1. "VBLANK" \in Irq!fired => s = "VBLANK"
      BY <2>1, <2>2 DEF Irq!Served, Irq!Rank, Irq!Sources
    <3> QED BY <1>1, <2>1, <3>1 DEF Waiting, Irq!Cleared, Irq!fired
  <2> QED BY <2>3, <2>4 DEF TimeInv, InTime
<1>3. CASE ~(IME /\ Irq!fired # {})
  <2>1. UNCHANGED <<irq, IME, IE, PC, stack, interrupted>>
    BY <1>3 DEF InterruptsPhase, Irq!HandleInterrupts, Irq!cpuVars
  <2>2. Waiting => interrupted # << >>
    BY <1>3 DEF Waiting, Irq!fired
  <2>3. Left' = Left /\ Elapsed' = Elapsed /\ (Waiting' <=> Waiting)
    BY <1>1, <2>1 DEF Left, Elapsed, Waiting
  <2> QED
    BY <1>1, <2>1, <2>2, <2>3 DEF TimeInv, InTime, InItsHandler
<1> QED BY <1>2, <1>3

LEMMA TimeInvNext ==
  ASSUME LeavesInterruptsOn
  PROVE  Parts /\ Parts' /\ TimeInv /\ [Next]_vars => TimeInv'
<1> SUFFICES ASSUME Parts, Parts', TimeInv, [Next]_vars PROVE TimeInv'
  OBVIOUS
<1>1. CASE UNCHANGED vars
  BY <1>1 DEF vars, cpuVars, ppuVars, TimeInv, InItsHandler, InTime, Waiting, Elapsed, Left
<1> QED
  BY <1>1, CpuKeepsTime, PpuKeepsTime, DispatchKeepsTime DEF Next

\* A program that leaves interrupts on gets every VBLANK before the next frame
\* starts, whatever STAT requests and stores to the LCD registers come between,
\* if a handler is shorter than the vertical blank.
THEOREM VBlankAlwaysServedInTime ==
  ASSUME LeavesInterruptsOn
  PROVE  Spec => []VBlankServedInTime
<1>1. "EI" \notin HandlerOps
  BY DEF LeavesInterruptsOn
<1>2. Init => TimeInv
  BY DEF Init, Ppu!Init, Ppu!InitAt, Irq!Init, TimeInv, InItsHandler, InTime, Waiting
<1>3. TimeInv => VBlankServedInTime
  BY DEF TimeInv, InTime, Waiting, VBlankServedInTime
<1> QED
  BY <1>1, <1>2, <1>3, TimeInvNext, PartsHold, PTL DEF Spec

-----------------------------------------------------------------------------
(* The debug windows.                                                       *)

\* renderTilesetDisplay stays in its buffer and reads 0x8000 to 0x97FF, the
\* tile data and no more.
THEOREM TilesetInBounds ==
  ASSUME NEW k \in Tiles, NEW row \in Byte8, NEW col \in Byte8
  PROVE  /\ 0 <= tilesetOffset(k, row, col) /\ tilesetOffset(k, row, col) + 4 <= tilesetSize
         /\ 32768 <= tilesetAddr(k, row) /\ tilesetAddr(k, row) + 1 <= 38911
<1>1. tilesetSize = 98304
  BY DEF tilesetSize, BufferSize
<1>2. /\ k \in Int /\ 0 <= k /\ k <= 383
      /\ row \in Int /\ 0 <= row /\ row <= 7 /\ col \in Int /\ 0 <= col /\ col <= 7
  BY DEF Tiles, Byte8
<1>3. 0 <= tilesetOffset(k, row, col) /\ tilesetOffset(k, row, col) + 4 <= 98304
  BY <1>2 DEF tilesetOffset
<1>4. 32768 <= tilesetAddr(k, row) /\ tilesetAddr(k, row) + 1 <= 38911
  BY <1>2 DEF tilesetAddr
<1> QED
  BY <1>1, <1>3, <1>4

\* Two pixels of the tiles do not share a byte of the buffer.
THEOREM TilesetOncePerPixel ==
  ASSUME NEW k \in Tiles, NEW row \in Byte8, NEW col \in Byte8,
         NEW l \in Tiles, NEW row2 \in Byte8, NEW col2 \in Byte8,
         tilesetOffset(k, row, col) - tilesetOffset(l, row2, col2) \in -3 .. 3
  PROVE  k = l /\ row = row2 /\ col = col2
<1> DEFINE kq == k \div 16  kr == k % 16  lq == l \div 16  lr == l % 16
<1>1. /\ kq \in 0 .. 23 /\ kr \in 0 .. 15 /\ k = 16 * kq + kr
      /\ lq \in 0 .. 23 /\ lr \in 0 .. 15 /\ l = 16 * lq + lr
  BY DEF Tiles
<1>2. /\ tilesetOffset(k, row, col) = 4096 * kq + 512 * row + 32 * kr + 4 * col
      /\ tilesetOffset(l, row2, col2) = 4096 * lq + 512 * row2 + 32 * lr + 4 * col2
  BY <1>1 DEF tilesetOffset, Byte8
<1> HIDE DEF kq, kr, lq, lr
<1>3. kq = lq /\ row = row2 /\ kr = lr /\ col = col2
  BY <1>1, <1>2 DEF Byte8
<1> QED
  BY <1>1, <1>3

\* renderTilemapDisplay stays in its buffer and in the 64K of memory, though it
\* reads from the map at 0x9C00 on as far as 0xDBFF, far behind the map's end.
THEOREM TilemapInBounds ==
  ASSUME NEW tileRow \in Entries, NEW tileCol \in Entries,
         NEW row \in Byte8, NEW col \in Byte8
  PROVE  /\ 0 <= tilemapOffset(tileRow, tileCol, row, col)
         /\ tilemapOffset(tileRow, tileCol, row, col) + 4 <= tilemapSize
         /\ 39936 <= tilemapAddr(tileRow, tileCol, row)
         /\ tilemapAddr(tileRow, tileCol, row) + 1 <= 56319
<1>1. tilemapSize = 262144
  BY DEF tilemapSize, BufferSize
<1>2. /\ tileRow \in Int /\ 0 <= tileRow /\ tileRow <= 31
      /\ tileCol \in Int /\ 0 <= tileCol /\ tileCol <= 31
      /\ row \in Int /\ 0 <= row /\ row <= 7 /\ col \in Int /\ 0 <= col /\ col <= 7
  BY DEF Entries, Byte8
<1>3. /\ 0 <= tilemapOffset(tileRow, tileCol, row, col)
      /\ tilemapOffset(tileRow, tileCol, row, col) + 4 <= 262144
  BY <1>2 DEF tilemapOffset
<1>4. /\ 39936 <= tilemapAddr(tileRow, tileCol, row)
      /\ tilemapAddr(tileRow, tileCol, row) + 1 <= 56319
  BY <1>2 DEF tilemapAddr
<1> QED
  BY <1>1, <1>3, <1>4

\* Two pixels of the entries do not share a byte of the buffer.
THEOREM TilemapOncePerPixel ==
  ASSUME NEW r \in Entries, NEW c \in Entries, NEW row \in Byte8, NEW col \in Byte8,
         NEW r2 \in Entries, NEW c2 \in Entries, NEW row2 \in Byte8, NEW col2 \in Byte8,
         tilemapOffset(r, c, row, col) - tilemapOffset(r2, c2, row2, col2) \in -3 .. 3
  PROVE  r = r2 /\ c = c2 /\ row = row2 /\ col = col2
BY DEF Entries, Byte8, tilemapOffset
=============================================================================
