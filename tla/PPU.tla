-------------------------------- MODULE PPU --------------------------------
(***************************************************************************)
(* The picture processing unit: PPU::tick with the PixelFetcher, its FIFO  *)
(* and the Display it writes to (src/src/ppu.cpp, ppu.h, display.cpp).     *)
(*                                                                         *)
(* A step of Tick is one call of PPU::tick, which GameBoy::tick makes once *)
(* per clock tick while bit 7 of LCDC is set.  Between two ticks the CPU   *)
(* may write the LCD registers through Memory, and the interrupt handler   *)
(* may acknowledge a request; those are the actions of the environment.    *)
(* Memory would let the program write LY too, a read-only register of the  *)
(* hardware: programs are assumed not to.                                  *)
(*                                                                         *)
(* Pixels are identified by where they come from, <<tile, bit>>: the tile  *)
(* column of the line and the bit of the two bit planes, 7 the leftmost.   *)
(* Their colours are not modelled.                                         *)
(***************************************************************************)
EXTENDS Integers, Sequences

CONSTANTS
  OamTicks,     (* length of OAM_SCAN: 40                                  *)
  LineTicks,    (* length of a scanline: 456                               *)
  Width,        (* SCREEN_WIDTH: 160                                       *)
  Height,       (* SCREEN_HEIGHT, the first line of V_BLANK: 144           *)
  LastLine,     (* the value of LY at which LY restarts from 0: 153        *)
  TileIds,      (* the tile numbers found in the tile map                  *)
  LcdOnValues,  (* what the program writes to LCDC bit 7                   *)
  TileSelValues,(* ... to LCDC bit 4                                       *)
  ScyValues,    (* ... to SCY                                              *)
  LycValues     (* ... to LYC                                              *)

Byte == 0 .. 255

ASSUME PPUAssumption ==
  /\ OamTicks \in Nat \ {0}
  /\ LineTicks \in Nat
  /\ Width \in 1 .. 240
  /\ Height \in Nat \ {0}
  /\ LastLine \in Byte
  /\ Height < LastLine
  /\ OamTicks + Width + 7 < LineTicks
  /\ TileIds \subseteq Byte
  /\ TileIds # {}
  /\ ScyValues \subseteq Byte
  /\ LycValues \subseteq Byte
  /\ LcdOnValues \subseteq BOOLEAN
  /\ TileSelValues \subseteq BOOLEAN

VARIABLES
  ticks,        (* PPU::ticks, ticks since the start of the scanline       *)
  state,        (* PPU::state                                              *)
  x,            (* PPU::x, pixels of the line already displayed            *)
  offset,       (* Display::offset, write position in pixelBuffer (bytes)  *)
  LY,           (* memory[0xFF44]                                          *)
  LYC,          (* memory[0xFF45]                                          *)
  SCY,          (* memory[0xFF42]                                          *)
  lcdOn,        (* bit 7 of memory[0xFF40]                                 *)
  tileSel,      (* bit 4 of memory[0xFF40]                                 *)
  irq,          (* the PPU's two bits of memory[0xFF0F], as a set          *)
  fetchState,   (* PixelFetcher::state                                     *)
  fetchTicks,   (* PixelFetcher::ticks                                     *)
  tileIndex,    (* PixelFetcher::tileIndex                                 *)
  mapAddr,      (* PixelFetcher::mapAddr                                   *)
  tileLine,     (* PixelFetcher::tileLine                                  *)
  tileId,       (* PixelFetcher::tileId                                    *)
  plane0,       (* the addresses the two bit planes of pixelData were      *)
  plane1,       (* read from                                               *)
  fifo          (* PixelFIFO::values                                       *)

lcdVars   == <<LYC, SCY, lcdOn, tileSel>>
fetchVars == <<fetchState, fetchTicks, tileIndex, mapAddr, tileLine, tileId,
               plane0, plane1, fifo>>
vars == <<ticks, state, x, offset, LY, irq, lcdVars, fetchVars>>

States      == {"OAM_SCAN", "PIXEL_TRANSFER", "H_BLANK", "V_BLANK"}
FetchStates == {"READ_TILE_ID", "READ_TILE_DATA_0", "READ_TILE_DATA_1",
                "PUSH_TO_FIFO"}

-----------------------------------------------------------------------------
(* Display: every pixel is written SCALE_FACTOR times, and hBlank() repeats *)
(* the line just written once more below it.                                *)

SCALE_FACTOR == 2
PixelBytes   == 4 * SCALE_FACTOR
LineBytes    == Width * PixelBytes
RowBytes     == SCALE_FACTOR * LineBytes
BufferBytes  == Height * RowBytes

-----------------------------------------------------------------------------
(* Addresses of the tile map and of the tile data.                          *)

TileMap     == 38912                                           \* 0x9800
TileMapEnd  == 39935                                           \* 0x9BFF
TileData(s) == IF s THEN 32768 ELSE 34816                      \* 0x8000, 0x8800

\* An operator F_Xyz is a faulty variant of F, used to test the properties.
MapRowAddr_NoWrap(scy, ly) == TileMap + ((scy + ly) \div 8) * 32

MapRowAddr(scy, ly) == TileMap + (((scy + ly) % 256) \div 8) * 32

TileLine_NoMod(scy, ly) == scy + ly
TileLine(scy, ly) == (scy + ly) % 8

TileRowAddr(base, id, line) == base + id * 16 + line * 2

-----------------------------------------------------------------------------
(* PixelFetcher                                                             *)

\* The FIFO takes the eight pixels of a tile from bit 7 down to bit 0.
TileRow(t) == [k \in 1 .. 8 |-> <<t, 8 - k>>]

\* PixelFetcher::start(mapAddr, tileLine).  The tick counter is not reset.
FetcherStart_KeepFifo(addr, line) ==
  /\ tileIndex'  = 0
  /\ mapAddr'    = addr
  /\ tileLine'   = line
  /\ fetchState' = "READ_TILE_ID"
  /\ UNCHANGED <<fetchTicks, tileId, plane0, plane1, fifo>>

FetcherStart(addr, line) ==
  /\ tileIndex'  = 0
  /\ mapAddr'    = addr
  /\ tileLine'   = line
  /\ fetchState' = "READ_TILE_ID"
  /\ fifo'       = << >>
  /\ UNCHANGED <<fetchTicks, tileId, plane0, plane1>>

\* Every second call of PixelFetcher::tick does the work of one state.
FetcherFires_Late == fetchTicks + 1 > 2
FetcherFires == fetchTicks + 1 >= 2

FetcherIdles ==
  /\ ~FetcherFires
  /\ fetchTicks' = fetchTicks + 1
  /\ UNCHANGED <<fetchState, tileIndex, tileId, plane0, plane1>>

ReadTileId ==
  /\ fetchState = "READ_TILE_ID"
  /\ tileId' \in TileIds
  /\ fetchState' = "READ_TILE_DATA_0"
  /\ UNCHANGED <<tileIndex, plane0, plane1>>

ReadTileData0 ==
  /\ fetchState = "READ_TILE_DATA_0"
  /\ plane0' = TileRowAddr(TileData(tileSel), tileId, tileLine)
  /\ fetchState' = "READ_TILE_DATA_1"
  /\ UNCHANGED <<tileIndex, tileId, plane1>>

\* The second plane is always read from 0x8000, whatever TILE_SEL is.
ReadTileData1 ==
  /\ fetchState = "READ_TILE_DATA_1"
  /\ plane1' = TileRowAddr(TileData(TRUE), tileId, tileLine) + 1
  /\ fetchState' = "PUSH_TO_FIFO"
  /\ UNCHANGED <<tileIndex, tileId, plane0>>

FifoHasRoom == Len(fifo) <= 8

PushToFifo ==
  /\ fetchState = "PUSH_TO_FIFO"
  /\ IF FifoHasRoom
       THEN tileIndex' = tileIndex + 1 /\ fetchState' = "READ_TILE_ID"
       ELSE UNCHANGED <<tileIndex, fetchState>>
  /\ UNCHANGED <<tileId, plane0, plane1>>

\* What PixelFetcher::tick pushes in this call.
Pushed ==
  IF FetcherFires /\ fetchState = "PUSH_TO_FIFO" /\ FifoHasRoom
    THEN TileRow(tileIndex) ELSE << >>

\* PixelFetcher::tick, all but the FIFO.
FetcherTick ==
  /\ UNCHANGED <<mapAddr, tileLine>>
  /\ \/ FetcherIdles
     \/ /\ FetcherFires
        /\ fetchTicks' = 0
        /\ ReadTileId \/ ReadTileData0 \/ ReadTileData1 \/ PushToFifo

-----------------------------------------------------------------------------
(* PPU::tick                                                                *)

\* The comparison of LY and LYC that opens every tick.
Coincidence_Off == irq
Coincidence_Overwrite == IF LY = LYC THEN {"STAT"} ELSE irq
Coincidence == IF LY = LYC THEN irq \cup {"STAT"} ELSE irq

OamScan ==
  /\ state = "OAM_SCAN"
  /\ ticks' = ticks + 1
  /\ irq' = Coincidence
  /\ IF ticks' = OamTicks
       THEN /\ x' = 0
            /\ FetcherStart(MapRowAddr(SCY, LY), TileLine(SCY, LY))
            /\ state' = "PIXEL_TRANSFER"
       ELSE UNCHANGED <<x, state, fetchVars>>
  /\ UNCHANGED <<offset, LY, lcdVars>>

\* Bytes of the pixel buffer that a tick of PIXEL_TRANSFER fills: one pixel
\* if the FIFO delivered one, and hBlank's copy after the last pixel.
Written(popped, done) ==
  (IF popped THEN PixelBytes ELSE 0) + (IF done THEN LineBytes ELSE 0)

PixelTransfer ==
  /\ state = "PIXEL_TRANSFER"
  /\ ticks' = ticks + 1
  /\ irq' = Coincidence
  /\ FetcherTick
  /\ LET queue  == fifo \o Pushed
         popped == queue # << >>
     IN /\ fifo' = IF popped THEN Tail(queue) ELSE queue
        /\ x' = IF popped THEN x + 1 ELSE x
        /\ state' = IF x' = Width THEN "H_BLANK" ELSE state
        /\ offset' = offset + Written(popped, x' = Width)
  /\ UNCHANGED <<LY, lcdVars>>

IncLY == (LY + 1) % 256

\* vBlank() at the end of the last visible line: the frame is shown and the
\* pixel buffer is written from its start again.
EnterVBlank_KeepOffset ==
  /\ irq' = Coincidence \cup {"VBLANK"}
  /\ state' = "V_BLANK"
  /\ UNCHANGED offset

EnterVBlank_Silent ==
  /\ offset' = 0
  /\ irq' = Coincidence
  /\ state' = "V_BLANK"

EnterVBlank ==
  /\ offset' = 0
  /\ irq' = Coincidence \cup {"VBLANK"}
  /\ state' = "V_BLANK"

HBlank_Early ==
  /\ state = "H_BLANK"
  /\ IF ticks + 1 = LineTicks
       THEN /\ ticks' = 0
            /\ LY' = IncLY
            /\ IF IncLY = Height - 1
                 THEN EnterVBlank
                 ELSE irq' = Coincidence /\ state' = "OAM_SCAN" /\ UNCHANGED offset
       ELSE /\ ticks' = ticks + 1
            /\ irq' = Coincidence
            /\ UNCHANGED <<state, offset, LY>>
  /\ UNCHANGED <<x, lcdVars, fetchVars>>

HBlank ==
  /\ state = "H_BLANK"
  /\ IF ticks + 1 = LineTicks
       THEN /\ ticks' = 0
            /\ LY' = IncLY
            /\ IF IncLY = Height
                 THEN EnterVBlank
                 ELSE irq' = Coincidence /\ state' = "OAM_SCAN" /\ UNCHANGED offset
       ELSE /\ ticks' = ticks + 1
            /\ irq' = Coincidence
            /\ UNCHANGED <<state, offset, LY>>
  /\ UNCHANGED <<x, lcdVars, fetchVars>>

VBlank_KeepTicks ==
  /\ state = "V_BLANK"
  /\ ticks' = ticks + 1
  /\ irq' = Coincidence
  /\ IF ticks' = LineTicks
       THEN IF IncLY = LastLine
              THEN LY' = 0 /\ state' = "OAM_SCAN"
              ELSE LY' = IncLY /\ UNCHANGED state
       ELSE UNCHANGED <<LY, state>>
  /\ UNCHANGED <<x, offset, lcdVars, fetchVars>>

VBlank_KeepState ==
  /\ state = "V_BLANK"
  /\ ticks' = IF ticks + 1 = LineTicks THEN 0 ELSE ticks + 1
  /\ irq' = Coincidence
  /\ LY' = IF ticks + 1 = LineTicks
             THEN IF IncLY = LastLine THEN 0 ELSE IncLY
             ELSE LY
  /\ UNCHANGED <<x, offset, state, lcdVars, fetchVars>>

VBlank ==
  /\ state = "V_BLANK"
  /\ ticks' = IF ticks + 1 = LineTicks THEN 0 ELSE ticks + 1
  /\ irq' = Coincidence
  /\ IF ticks + 1 = LineTicks
       THEN IF IncLY = LastLine
              THEN LY' = 0 /\ state' = "OAM_SCAN"
              ELSE LY' = IncLY /\ UNCHANGED state
       ELSE UNCHANGED <<LY, state>>
  /\ UNCHANGED <<x, offset, lcdVars, fetchVars>>

\* GameBoy::tick calls PPU::tick only while LCDC bit 7 is set.
Tick == lcdOn /\ (OamScan \/ PixelTransfer \/ HBlank \/ VBlank)

-----------------------------------------------------------------------------
(* The rest of the machine, between two ticks.                              *)

ppuVars == <<ticks, state, x, offset, LY, fetchVars>>

WriteLCDC ==
  /\ lcdOn' \in LcdOnValues
  /\ tileSel' \in TileSelValues
  /\ UNCHANGED <<ppuVars, irq, LYC, SCY>>

WriteSCY ==
  /\ SCY' \in ScyValues
  /\ UNCHANGED <<ppuVars, irq, LYC, lcdOn, tileSel>>

WriteLYC ==
  /\ LYC' \in LycValues
  /\ UNCHANGED <<ppuVars, irq, SCY, lcdOn, tileSel>>

\* handleInterrupts clears the bit of the request it serves, and the program
\* may clear both.
Acknowledge ==
  /\ irq' \in SUBSET irq
  /\ UNCHANGED <<ppuVars, lcdVars>>

-----------------------------------------------------------------------------
(* PPU and PixelFetcher do not initialise ticks, state and x, and Memory    *)
(* does not initialise its array.  Init is the start from zeroed storage,   *)
(* but for PixelFetcher::ticks, where 1 also stands for any larger value:   *)
(* the fetcher fires at its first tick.  InitIndeterminate leaves           *)
(* PPU::ticks to chance as well (the values Garbage).                       *)

Garbage == {0, OamTicks + 1}

InitAt(t) ==
  /\ ticks = t
  /\ state = "OAM_SCAN"
  /\ x = 0
  /\ offset = 0
  /\ LY = 0
  /\ LYC \in LycValues
  /\ SCY \in ScyValues
  /\ lcdOn \in LcdOnValues
  /\ tileSel \in TileSelValues
  /\ irq = {}
  /\ fetchState = "READ_TILE_ID"
  /\ fetchTicks \in {0, 1}
  /\ tileIndex = 0
  /\ mapAddr = TileMap
  /\ tileLine = 0
  /\ tileId = 0
  /\ plane0 = TileData(TRUE)
  /\ plane1 = TileData(TRUE) + 1
  /\ fifo = << >>

Init == InitAt(0)
InitIndeterminate == \E t \in Garbage : InitAt(t)

Next == Tick \/ WriteLCDC \/ WriteSCY \/ WriteLYC \/ Acknowledge

Spec == Init /\ [][Next]_vars
SpecIndeterminate == InitIndeterminate /\ [][Next]_vars

\* GameBoy::run calls tick for as long as it runs.
FairSpec == Spec /\ WF_vars(Tick)

-----------------------------------------------------------------------------
(* Properties                                                               *)

TypeOK ==
  /\ ticks \in Nat /\ x \in Byte /\ offset \in Nat
  /\ state \in States
  /\ LY \in Byte /\ LYC \in Byte /\ SCY \in Byte
  /\ lcdOn \in BOOLEAN /\ tileSel \in BOOLEAN
  /\ irq \subseteq {"VBLANK", "STAT"}
  /\ fetchState \in FetchStates /\ fetchTicks \in {0, 1}
  /\ tileIndex \in Nat /\ mapAddr \in Nat /\ tileLine \in 0 .. 7
  /\ tileId \in Byte
  /\ plane0 \in Nat /\ plane1 \in Nat
  /\ fifo \in Seq(Nat \X (0 .. 7))

\* How many ticks the fetcher has worked on the line.
Stage == [READ_TILE_ID |-> 0, READ_TILE_DATA_0 |-> 1,
          READ_TILE_DATA_1 |-> 2, PUSH_TO_FIFO |-> 3]
Cycles == 8 * tileIndex + 2 * Stage[fetchState] + fetchTicks

\* The tick counter never steps over one of the values 40 and 456 it is
\* compared with for equality, and each line leaves time for the 160 pixels:
\* PIXEL_TRANSFER is level with the fetcher or, because start does not reset
\* the fetcher's own counter, one tick behind.
LineTiming ==
  /\ state = "OAM_SCAN" => ticks < OamTicks
  /\ state = "PIXEL_TRANSFER" => ticks - OamTicks \in {Cycles - 1, Cycles}
  /\ state \in {"H_BLANK", "V_BLANK"} => ticks < LineTicks

\* The FIFO never runs dry: seven cycles after the fetcher has started the
\* first pixel is shown, and then one in every tick until the line is full.
Pace ==
  /\ state = "PIXEL_TRANSFER" => /\ x = IF Cycles <= 7 THEN 0 ELSE Cycles - 7
                                 /\ x < Width
  /\ state = "H_BLANK" => x = Width

\* The Display's write position and the line LY never disagree: write and
\* hBlank fill exactly the two rows of line LY, so that a frame neither runs
\* past pixelBuffer nor drifts, whatever the program does to LCDC in between.
Raster ==
  /\ state = "OAM_SCAN" => LY < Height /\ offset = LY * RowBytes
  /\ state = "PIXEL_TRANSFER" => /\ LY < Height
                                 /\ offset = LY * RowBytes + x * PixelBytes
  /\ state = "H_BLANK" => LY < Height /\ offset = (LY + 1) * RowBytes
  /\ state = "V_BLANK" => LY \in Height .. LastLine - 1 /\ offset = 0

\* Column c of a line is bit 7 - c % 8 of the c \div 8-th tile of its row.
PixelAt(c) == <<c \div 8, 7 - (c % 8)>>

\* The pixel popped from the FIFO is the one column x shows: the queue
\* always holds the pixels from column x to the end of the last tile
\* fetched, in order; nothing of an earlier line is left in it.
PixelOrder ==
  state = "PIXEL_TRANSFER" =>
    /\ Len(fifo) = 8 * tileIndex - x
    /\ \A k \in DOMAIN fifo : fifo[k] = PixelAt(x + k - 1)

\* The fetcher reads the row of the background map it was started on, and
\* tile data inside 0x8000 .. 0x97FF, although SCY + LY passes 255 and the
\* fetcher goes on beyond the tiles the line needs.
FetchesInVram ==
  /\ state = "PIXEL_TRANSFER" =>
       /\ mapAddr + tileIndex \in TileMap .. TileMapEnd
       /\ mapAddr % 32 = 0 /\ tileIndex < 32
  /\ plane0 \in 32768 .. 38911 /\ plane1 \in 32768 .. 38911

\* How far a frame is, in ticks, and how many it has.
Position   == LY * LineTicks + ticks
FrameTicks == LastLine * LineTicks

\* A tick is one of FrameTicks; VBLANK is requested by the one that completes
\* the last line.
InStep ==
  /\ Position' = IF Tick THEN (Position + 1) % FrameTicks ELSE Position
  /\ Tick /\ Position' = Height * LineTicks =>
       "VBLANK" \in irq' /\ offset = BufferBytes /\ offset' = 0
  /\ "VBLANK" \in irq' \ irq => Tick /\ Position' = Height * LineTicks

\* Frames keep time, whatever is written to the LCD registers and however long
\* the LCD is off in between: every frame has the same number of ticks, and
\* the one that completes the last line, and no other, requests VBLANK.  All
\* lines are in the pixel buffer then, and the next frame starts from the top.
FramesInStep == [][InStep]_vars

\* Seen from outside, the PPU scans the screen as FrameScan describes: every
\* pixel once, row by row, a VBLANK request exactly at the end of each frame,
\* whatever is written to the LCD registers in between.
Frame == INSTANCE FrameScan WITH
           row       <- IF state = "V_BLANK" THEN Height ELSE LY,
           col       <- IF state \in {"PIXEL_TRANSFER", "H_BLANK"} THEN x ELSE 0,
           requested <- "VBLANK" \in irq
ImplementsFrameScan == Frame!Spec

\* As long as the LCD stays on, frames keep coming: V_BLANK is entered again
\* and again, and between two frames lines are drawn.
FramesKeepComing ==
  <>[]lcdOn => []<>(state = "V_BLANK") /\ []<>(state = "PIXEL_TRANSFER")

\* As long as the LCD stays on and LYC names a line below LastLine, the
\* coincidence is requested again and again, whenever it was acknowledged.
\* (LastLine itself is overwritten by 0 in the tick that reaches it.)
CoincidenceKeepsComing ==
  \A l \in LycValues \cap 0 .. LastLine - 1 :
    <>[](lcdOn /\ LYC = l) => []<>("STAT" \in irq)

-----------------------------------------------------------------------------
(* What the comments of the code say, and the code does not do.             *)

\* ppu.cpp:174 "Wait ten more scanlines before starting over."
TenLinesOfVBlank ==
  [][state = "V_BLANK" /\ state' = "OAM_SCAN" => LY - Height + 1 = 10]_vars

\* ppu.cpp:112: OAM_SCAN "always takes 40 ticks".
OamScanTakesItsTicks ==
  [][state = "OAM_SCAN" /\ ticks' # ticks =>
       ticks' \in 1 .. OamTicks]_vars
=============================================================================
