---------------------------- MODULE PPU_proofs -----------------------------
(***************************************************************************)
(* Proofs about PPU: its type invariant, the safety invariants the runs    *)
(* check and the refinement of FrameScan, for every geometry that          *)
(* satisfies PPUAssumption and every value the program may write.          *)
(*                                                                         *)
(* None of the invariants is inductive by itself: that a line ends in time *)
(* depends on how far the fetcher is ahead of the display, and that the    *)
(* display position is right at the end of a line on how many pixels it    *)
(* has taken.  LineInv relates both to Cycles, the fetcher's progress.     *)
(***************************************************************************)
EXTENDS PPU, SequenceTheorems, TLAPS

USE DEF States, FetchStates, Byte

-----------------------------------------------------------------------------
(* The queue of pixels.                                                     *)

Pixels == Nat \X (0 .. 7)

\* The queue q holds the pixels from column c up to, not including, column d.
Holds(q, c, d) ==
  /\ q \in Seq(Pixels)
  /\ c <= d /\ Len(q) = d - c
  /\ \A k \in 1 .. Len(q) : q[k] = PixelAt(c + k - 1)

\* A tile's row of eight pixels is what columns 8t .. 8t+7 show.
LEMMA TileRowPixels ==
  ASSUME NEW t \in Nat
  PROVE  Holds(TileRow(t), 8 * t, 8 * t + 8)
<1>1. TileRow(t) \in [1 .. 8 -> Pixels]
  BY DEF TileRow, Pixels
<1>2. TileRow(t) \in Seq(Pixels) /\ Len(TileRow(t)) = 8
  <2> DEFINE r == TileRow(t)
  <2>1. r \in [1 .. 8 -> Pixels] BY <1>1
  <2> HIDE DEF r
  <2>2. r \in Seq(Pixels) BY <2>1, SeqDef
  <2>3. DOMAIN r = 1 .. 8 BY <2>1
  <2>4. Len(r) = 8 BY <2>2, <2>3, LenProperties
  <2> QED BY <2>2, <2>4 DEF r
<1>3. ASSUME NEW k \in 1 .. 8 PROVE TileRow(t)[k] = PixelAt(8 * t + k - 1)
  <2>1. (8 * t + k - 1) \div 8 = t /\ (8 * t + k - 1) % 8 = k - 1
    OBVIOUS
  <2> QED BY <2>1 DEF TileRow, PixelAt
<1> QED BY <1>2, <1>3 DEF Holds

\* Pushing the next tile extends what the queue holds by its eight pixels.
LEMMA PushExtends ==
  ASSUME NEW q, NEW c \in Nat, NEW t \in Nat, Holds(q, c, 8 * t)
  PROVE  Holds(q \o TileRow(t), c, 8 * (t + 1))
<1> DEFINE row == TileRow(t)
           r   == q \o row
<1>1. Holds(row, 8 * t, 8 * t + 8)
  BY TileRowPixels
<1>2. q \in Seq(Pixels) /\ row \in Seq(Pixels) /\ Len(q) = 8 * t - c /\ Len(row) = 8
      /\ c <= 8 * t
  BY <1>1 DEF Holds
<1> HIDE DEF row
<1>3. /\ r \in Seq(Pixels)
      /\ Len(r) = 8 * (t + 1) - c
      /\ \A k \in 1 .. Len(q) + Len(row) :
           r[k] = IF k <= Len(q) THEN q[k] ELSE row[k - Len(q)]
  <2>1. /\ r \in Seq(Pixels) /\ Len(r) = Len(q) + Len(row)
        /\ \A k \in 1 .. Len(q) + Len(row) :
             r[k] = IF k <= Len(q) THEN q[k] ELSE row[k - Len(q)]
    BY <1>2, ConcatProperties, Zenon
  <2>2. Len(r) = 8 * (t + 1) - c BY <2>1, <1>2
  <2> QED BY <2>1, <2>2
<1> HIDE DEF r
<1>4. ASSUME NEW k \in 1 .. Len(r) PROVE r[k] = PixelAt(c + k - 1)
  <2>1. CASE k <= Len(q)
    <3>1. r[k] = q[k] BY <2>1, <1>2, <1>3
    <3>2. k \in 1 .. Len(q) BY <2>1, <1>2, <1>3
    <3> QED BY <3>1, <3>2 DEF Holds
  <2>2. CASE k > Len(q)
    <3> DEFINE j == k - Len(q)
    <3>1. r[k] = row[j] /\ j \in 1 .. Len(row)
      BY <2>2, <1>2, <1>3
    <3>2. row[j] = PixelAt(8 * t + j - 1) BY <3>1, <1>1 DEF Holds
    <3>3. 8 * t + j - 1 = c + k - 1 BY <1>2, <1>3
    <3> QED BY <3>1, <3>2, <3>3
  <2> QED BY <2>1, <2>2, <1>2, <1>3
<1>5. Holds(r, c, 8 * (t + 1))
  BY <1>2, <1>3, <1>4 DEF Holds
<1> QED BY <1>5 DEF r, row

\* Popping removes the pixel of the first column.
LEMMA PopAdvances ==
  ASSUME NEW q, NEW c \in Nat, NEW d \in Nat, Holds(q, c, d), q # << >>
  PROVE  Holds(Tail(q), c + 1, d)
<1>1. q \in Seq(Pixels) /\ Len(q) = d - c BY DEF Holds
<1>2. Tail(q) \in Seq(Pixels) /\ Len(Tail(q)) = Len(q) - 1 /\ Len(q) > 0
      /\ \A k \in 1 .. Len(Tail(q)) : Tail(q)[k] = q[k + 1]
  BY <1>1, HeadTailProperties, EmptySeq
<1>3. ASSUME NEW k \in 1 .. Len(Tail(q)) PROVE Tail(q)[k] = PixelAt(c + 1 + k - 1)
  <2>1. k + 1 \in 1 .. Len(q) BY <1>1, <1>2
  <2>2. q[k + 1] = PixelAt(c + (k + 1) - 1) BY <2>1 DEF Holds
  <2>3. c + (k + 1) - 1 = c + 1 + k - 1 BY <1>1, <1>2
  <2> QED BY <2>2, <2>3, <1>2
<1> QED BY <1>1, <1>2, <1>3 DEF Holds

-----------------------------------------------------------------------------
(* The inductive invariant.                                                 *)

\* mapAddr is the first address of one of the 32 rows of the tile map.
MapRow == \E r \in 0 .. 31 : mapAddr = TileMap + r * 32
InVram(a) == a \in 32768 .. 38911
PlanesInVram == InVram(plane0) /\ InVram(plane1)

\* What holds of a line whatever is done with its pixels.
LineInv ==
  /\ LineTiming
  /\ Pace
  /\ PixelOrder
  /\ MapRow
  /\ PlanesInVram

IInv == TypeOK /\ LineInv /\ Raster

\* In PIXEL_TRANSFER, PixelOrder says that the FIFO holds the pixels from
\* column x to the end of the last tile fetched.
LEMMA FifoHolds ==
  ASSUME TypeOK, PixelOrder, state = "PIXEL_TRANSFER"
  PROVE  Holds(fifo, x, 8 * tileIndex)
<1>1. /\ fifo \in Seq(Pixels) /\ Len(fifo) = 8 * tileIndex - x
      /\ \A k \in DOMAIN fifo : fifo[k] = PixelAt(x + k - 1)
      /\ x \in Nat /\ tileIndex \in Nat
  BY DEF TypeOK, PixelOrder, Pixels
<1>2. Len(fifo) \in Nat /\ DOMAIN fifo = 1 .. Len(fifo)
  BY <1>1, LenProperties
<1> QED BY <1>1, <1>2 DEF Holds

\* Sizes in bytes, without their products.
LEMMA Geometry ==
  /\ LineBytes \in Nat /\ LineBytes = Width * PixelBytes /\ PixelBytes = 8
  /\ RowBytes \in Nat /\ RowBytes = LineBytes + LineBytes
  /\ \A n \in Nat : n * RowBytes \in Nat /\ (n + 1) * RowBytes = n * RowBytes + RowBytes
<1>1. LineBytes \in Nat /\ LineBytes = Width * PixelBytes /\ PixelBytes = 8
  BY PPUAssumption DEF LineBytes, PixelBytes, SCALE_FACTOR
<1>2. RowBytes \in Nat /\ RowBytes = LineBytes + LineBytes
  BY <1>1 DEF RowBytes, SCALE_FACTOR
<1>3. ASSUME NEW n \in Nat
      PROVE  n * RowBytes \in Nat /\ (n + 1) * RowBytes = n * RowBytes + RowBytes
  BY <1>2
<1> QED BY <1>1, <1>2, <1>3

\* The fetcher's first address of a line and its row of the tile.
LEMMA MapRowRange ==
  ASSUME NEW scy \in Byte, NEW ly \in Byte
  PROVE  /\ \E r \in 0 .. 31 : MapRowAddr(scy, ly) = TileMap + r * 32
         /\ TileLine(scy, ly) \in 0 .. 7
<1>1. ((scy + ly) % 256) \div 8 \in 0 .. 31
  OBVIOUS
<1> QED BY <1>1 DEF MapRowAddr, TileLine

\* Both planes of every row of every tile lie in the tile data.
LEMMA TileRowInVram ==
  ASSUME NEW id \in Byte, NEW line \in 0 .. 7, NEW s \in BOOLEAN
  PROVE  LET a == TileRowAddr(TileData(s), id, line)
         IN  a \in Nat /\ InVram(a) /\ a + 1 \in Nat /\ InVram(a + 1)
<1>1. TileData(s) \in {32768, 34816}
  BY DEF TileData
<1> DEFINE base == TileData(s)
<1> HIDE DEF base
<1>2. base \in {32768, 34816} BY <1>1 DEF base
<1>3. base + id * 16 + line * 2 \in 32768 .. 38910
  BY <1>2
<1>4. TileRowAddr(base, id, line) \in 32768 .. 38910
  BY <1>3 DEF TileRowAddr
<1> DEFINE a == TileRowAddr(base, id, line)
<1>5. a \in 32768 .. 38910 BY <1>4
<1> HIDE DEF a
<1>6. a \in Nat /\ InVram(a) /\ a + 1 \in Nat /\ InVram(a + 1)
  BY <1>5 DEF InVram
<1> QED BY <1>6 DEF a, base

LEMMA InitIInv == ASSUME Init PROVE IInv
<1> USE PPUAssumption
<1>1. TypeOK
  <2>1. fifo \in Seq(Nat \X (0 .. 7)) BY EmptySeq DEF Init, InitAt
  <2> QED BY <2>1 DEF Init, InitAt, TypeOK, TileMap, TileData
<1>2. LineInv
  BY DEF Init, InitAt, LineInv, LineTiming, Pace, PixelOrder, MapRow, PlanesInVram, InVram,
         TileMap, TileData
<1>3. Raster
  BY Geometry DEF Init, InitAt, Raster
<1> QED BY <1>1, <1>2, <1>3 DEF IInv

-----------------------------------------------------------------------------
(* The fetcher and the FIFO in one tick of PIXEL_TRANSFER.                  *)

\* A tick is one cycle of the fetcher; when it pushes, the FIFO was empty.
LEMMA FetcherStep ==
  ASSUME TypeOK, LineInv, state = "PIXEL_TRANSFER", FetcherTick
  PROVE  /\ Cycles' = Cycles + 1
         /\ tileIndex' \in Nat
         /\ fetchTicks' \in {0, 1} /\ fetchState' \in FetchStates
         /\ Holds(fifo \o Pushed, x, 8 * tileIndex')
         /\ tileId' \in Byte
         /\ plane0' \in Nat /\ plane1' \in Nat /\ PlanesInVram'
<1>0. /\ fetchTicks \in {0, 1} /\ fetchState \in FetchStates /\ tileIndex \in Nat
      /\ x \in Nat
  BY DEF TypeOK
<1>p. plane0 \in Nat /\ plane1 \in Nat /\ PlanesInVram
  BY DEF TypeOK, LineInv
<1>t. tileId \in Byte /\ tileLine \in 0 .. 7 /\ tileSel \in BOOLEAN
  BY DEF TypeOK
<1>1. Holds(fifo, x, 8 * tileIndex)
  BY FifoHolds DEF LineInv
<1>2. fifo \in Seq(Pixels) /\ fifo \o << >> = fifo
  BY <1>1, ConcatEmptySeq DEF Holds
<1>3. CASE FetcherIdles
  <2>1. Pushed = << >>
    BY <1>3 DEF FetcherIdles, Pushed
  <2>2. fetchTicks = 0 BY <1>3, <1>0 DEF FetcherIdles, FetcherFires
  <2>3. Cycles' = Cycles + 1
    BY <1>3, <1>0, <2>2 DEF FetcherIdles, Cycles, Stage
  <2>4. PlanesInVram' BY <1>3, <1>p DEF FetcherIdles, PlanesInVram, InVram
  <2> QED BY <1>0, <1>1, <1>2, <1>3, <1>p, <1>t, <2>1, <2>2, <2>3, <2>4 DEF FetcherIdles
<1>4. CASE FetcherFires /\ fetchTicks' = 0 /\ ReadTileId
  <2>1. Pushed = << >> BY <1>4 DEF ReadTileId, Pushed
  <2>2. Cycles' = Cycles + 1
    BY <1>4, <1>0 DEF FetcherFires, ReadTileId, Cycles, Stage
  <2>3. tileId' \in Byte BY <1>4, PPUAssumption DEF ReadTileId
  <2>4. tileIndex' = tileIndex /\ plane0' = plane0 /\ plane1' = plane1 /\ fetchState' \in FetchStates
        /\ fetchTicks' \in {0, 1}
    BY <1>4 DEF ReadTileId
  <2>5. Holds(fifo \o Pushed, x, 8 * tileIndex') BY <1>1, <1>2, <2>1, <2>4
  <2>6. PlanesInVram' /\ plane0' \in Nat /\ plane1' \in Nat BY <1>p, <2>4 DEF PlanesInVram, InVram
  <2> QED BY <1>0, <2>2, <2>3, <2>4, <2>5, <2>6
<1>5. CASE FetcherFires /\ fetchTicks' = 0 /\ ReadTileData0
  <2>1. Pushed = << >> BY <1>5 DEF ReadTileData0, Pushed
  <2>2. Cycles' = Cycles + 1
    BY <1>5, <1>0 DEF FetcherFires, ReadTileData0, Cycles, Stage
  <2>3. plane0' = TileRowAddr(TileData(tileSel), tileId, tileLine) /\ plane1' = plane1
    BY <1>5 DEF ReadTileData0
  <2>4. plane0' \in Nat /\ InVram(plane0')
    BY <1>t, <2>3, TileRowInVram
  <2>5. plane0' \in Nat /\ plane1' \in Nat /\ PlanesInVram'
    BY <1>p, <2>3, <2>4 DEF PlanesInVram
  <2> QED BY <1>0, <1>1, <1>2, <1>5, <1>t, <2>1, <2>2, <2>5 DEF ReadTileData0
<1>6. CASE FetcherFires /\ fetchTicks' = 0 /\ ReadTileData1
  <2>1. Pushed = << >> BY <1>6 DEF ReadTileData1, Pushed
  <2>2. Cycles' = Cycles + 1
    BY <1>6, <1>0 DEF FetcherFires, ReadTileData1, Cycles, Stage
  <2>3. plane1' = TileRowAddr(TileData(TRUE), tileId, tileLine) + 1 /\ plane0' = plane0
    BY <1>6 DEF ReadTileData1
  <2>4. plane1' \in Nat /\ InVram(plane1')
    BY <1>t, <2>3, TileRowInVram
  <2>5. plane0' \in Nat /\ plane1' \in Nat /\ PlanesInVram'
    BY <1>p, <2>3, <2>4 DEF PlanesInVram
  <2> QED BY <1>0, <1>1, <1>2, <1>6, <1>t, <2>1, <2>2, <2>5 DEF ReadTileData1
<1>7. CASE FetcherFires /\ fetchTicks' = 0 /\ PushToFifo
  <2>1. Cycles = 8 * tileIndex + 7 BY <1>7, <1>0 DEF FetcherFires, PushToFifo, Cycles, Stage
  <2>2. x = 8 * tileIndex BY <2>1, <1>0 DEF LineInv, Pace
  <2>3. Len(fifo) = 0 BY <2>2, <1>0, <1>1 DEF Holds
  <2>4. FifoHasRoom BY <2>3 DEF FifoHasRoom
  <2>5. Pushed = TileRow(tileIndex) BY <2>4, <1>7 DEF Pushed, PushToFifo
  <2>6. tileIndex' = tileIndex + 1 /\ fetchState' = "READ_TILE_ID" /\ UNCHANGED <<tileId, plane0, plane1>>
    BY <2>4, <1>7 DEF PushToFifo
  <2>7. Cycles' = Cycles + 1 BY <1>7, <2>1, <2>6, <1>0 DEF Cycles, Stage
  <2>8. Holds(fifo \o Pushed, x, 8 * tileIndex')
    BY <1>0, <1>1, <2>5, <2>6, PushExtends
  <2>9. PlanesInVram' BY <1>p, <2>6 DEF PlanesInVram, InVram
  <2>10. tileIndex' \in Nat /\ plane0' \in Nat /\ plane1' \in Nat /\ tileId' \in Byte
    BY <1>0, <1>p, <1>t, <2>6
  <2> QED BY <1>0, <1>7, <2>6, <2>7, <2>8, <2>9, <2>10
<1> QED BY <1>3, <1>4, <1>5, <1>6, <1>7 DEF FetcherTick

-----------------------------------------------------------------------------
(* Each action preserves the invariant.                                     *)

\* The FIFO has a pixel to show exactly from the seventh cycle on.
LEMMA FirstPixel ==
  ASSUME NEW c \in Nat, NEW t \in Nat, NEW p \in Nat,
         p = (IF c <= 7 THEN 0 ELSE c - 7), 8 * t <= c + 1, c + 1 <= 8 * t + 7
  PROVE  /\ c <= 6 => ~(p < 8 * t)
         /\ c >= 7 => p < 8 * t
<1>1. CASE c <= 6 BY <1>1
<1>2. CASE c = 7 BY <1>2
<1>3. CASE c > 7 BY <1>3
<1> QED BY <1>1, <1>2, <1>3

LEMMA OamScanInv == ASSUME IInv, OamScan PROVE IInv'
<1>0. TypeOK /\ LineInv /\ Raster BY DEF IInv
<1>1. /\ ticks < OamTicks /\ ticks' = ticks + 1 /\ ticks \in Nat
      /\ LY < Height /\ offset = LY * RowBytes
  BY <1>0 DEF OamScan, TypeOK, LineInv, LineTiming, Raster
<1>2. CASE ticks' # OamTicks
  <2>1. UNCHANGED <<x, state, fetchVars, offset, LY, lcdVars>> /\ state = "OAM_SCAN"
        /\ irq' = Coincidence
    BY <1>2 DEF OamScan
  <2>2. TypeOK'
    BY <1>0, <1>1, <2>1 DEF TypeOK, Coincidence, fetchVars, lcdVars
  <2>3. ticks' < OamTicks BY <1>1, <1>2, PPUAssumption
  <2>4. LineInv'
    BY <1>0, <2>1, <2>3
    DEF LineInv, LineTiming, Pace, PixelOrder, MapRow, PlanesInVram, fetchVars
  <2>5. Raster' BY <1>1, <2>1 DEF Raster
  <2> QED BY <2>2, <2>4, <2>5 DEF IInv
<1>3. CASE ticks' = OamTicks
  <2>1. /\ x' = 0 /\ state' = "PIXEL_TRANSFER" /\ irq' = Coincidence
        /\ UNCHANGED <<offset, LY, LYC, SCY, lcdOn, tileSel>>
        /\ tileIndex' = 0 /\ mapAddr' = MapRowAddr(SCY, LY)
        /\ tileLine' = TileLine(SCY, LY) /\ fetchState' = "READ_TILE_ID"
        /\ fifo' = << >>
        /\ UNCHANGED <<fetchTicks, tileId, plane0, plane1>>
    BY <1>3 DEF OamScan, FetcherStart, lcdVars
  <2>2. fetchTicks \in {0, 1} /\ SCY \in Byte /\ LY \in Byte BY <1>0 DEF TypeOK
  <2>3. MapRow' /\ mapAddr' \in Nat /\ tileLine' \in 0 .. 7
    <3>1. PICK r \in 0 .. 31 : MapRowAddr(SCY, LY) = TileMap + r * 32
      BY <2>2, MapRowRange
    <3>2. mapAddr' = TileMap + r * 32 /\ TileMap + r * 32 \in Nat
      BY <2>1, <3>1 DEF TileMap
    <3>3. tileLine' \in 0 .. 7 BY <2>1, <2>2, MapRowRange
    <3> QED BY <3>1, <3>2, <3>3 DEF MapRow, TileMap
  <2>4. TypeOK'
    BY <1>0, <1>1, <2>1, <2>3, EmptySeq DEF TypeOK, Coincidence
  <2>5. Cycles' = fetchTicks
    BY <2>1, <2>2 DEF Cycles, Stage
  <2>6. LineTiming'
    BY <1>3, <2>1, <2>2, <2>5, PPUAssumption DEF LineTiming
  <2>7. Pace'
    BY <2>1, <2>2, <2>5, PPUAssumption DEF Pace
  <2>8. PixelOrder'
    BY <2>1 DEF PixelOrder
  <2>9. PlanesInVram' BY <1>0, <2>1 DEF LineInv, PlanesInVram
  <2>10. Raster'
    BY <1>1, <2>1, <2>2, Geometry DEF Raster
  <2> QED BY <2>3, <2>4, <2>6, <2>7, <2>8, <2>9, <2>10 DEF IInv, LineInv
<1> QED BY <1>2, <1>3

LEMMA PixelTransferInv == ASSUME IInv, PixelTransfer PROVE IInv'
<1> DEFINE queue  == fifo \o Pushed
           popped == queue # << >>
<1>0. TypeOK /\ LineInv /\ Raster /\ state = "PIXEL_TRANSFER" BY DEF IInv, PixelTransfer
<1>1. /\ FetcherTick /\ ticks' = ticks + 1 /\ irq' = Coincidence
      /\ fifo' = IF popped THEN Tail(queue) ELSE queue
      /\ x' = IF popped THEN x + 1 ELSE x
      /\ state' = IF x' = Width THEN "H_BLANK" ELSE state
      /\ offset' = offset + Written(popped, x' = Width)
      /\ UNCHANGED <<LY, LYC, SCY, lcdOn, tileSel, mapAddr, tileLine>>
  BY DEF PixelTransfer, FetcherTick, lcdVars
<1>2. /\ Cycles' = Cycles + 1 /\ tileIndex' \in Nat
      /\ fetchTicks' \in {0, 1} /\ fetchState' \in FetchStates
      /\ Holds(queue, x, 8 * tileIndex')
      /\ tileId' \in Byte
      /\ plane0' \in Nat /\ plane1' \in Nat /\ PlanesInVram'
  BY <1>0, <1>1, FetcherStep
<1> HIDE DEF queue
<1>3. /\ x \in Nat /\ x < Width /\ Cycles \in Nat /\ tileIndex \in Nat
      /\ x = IF Cycles <= 7 THEN 0 ELSE Cycles - 7
      /\ ticks \in Nat /\ ticks - OamTicks \in {Cycles - 1, Cycles}
  <2>1. fetchState \in FetchStates /\ fetchTicks \in {0, 1} /\ tileIndex \in Nat
    BY <1>0 DEF TypeOK
  <2>2. Cycles \in Nat BY <2>1 DEF Cycles, Stage
  <2> QED BY <1>0, <2>1, <2>2 DEF TypeOK, LineInv, LineTiming, Pace
<1>4. 8 * tileIndex' <= Cycles' /\ Cycles' <= 8 * tileIndex' + 7
  <2>1. Cycles' = 8 * tileIndex' + 2 * Stage[fetchState'] + fetchTicks' BY DEF Cycles, Stage
  <2> QED BY <2>1, <1>2 DEF Stage
<1>5. /\ x < 8 * tileIndex' => popped
      /\ ~(x < 8 * tileIndex') => ~popped
  <2>1. queue \in Seq(Pixels) /\ Len(queue) = 8 * tileIndex' - x /\ x <= 8 * tileIndex'
    BY <1>2 DEF Holds
  <2>2. queue = << >> => Len(queue) = 0 BY EmptySeq
  <2>3. queue # << >> => Len(queue) \in Nat \ {0} BY <2>1, EmptySeq
  <2> HIDE DEF popped
  <2> DEFINE n == Len(queue)
             t == tileIndex'
  <2>4. n \in Nat /\ n = 8 * t - x /\ t \in Nat /\ x \in Nat /\ x <= 8 * t
    BY <1>2, <1>3, <2>1, LenProperties
  <2> HIDE DEF n, t
  <2>5. (x < 8 * t => n # 0) /\ (~(x < 8 * t) => n = 0) BY <2>4
  <2> QED BY <2>2, <2>3, <2>5 DEF popped, n, t
<1>6. /\ Cycles <= 6 => ~popped /\ x' = 0
      /\ Cycles >= 7 => popped /\ x' = Cycles - 6
  <2> HIDE DEF popped
  <2>1. CASE Cycles <= 6
    <3>1. ~(x < 8 * tileIndex') BY <2>1, <1>2, <1>3, <1>4, FirstPixel
    <3> QED BY <2>1, <3>1, <1>1, <1>3, <1>5
  <2>2. CASE Cycles >= 7
    <3>1. x < 8 * tileIndex' BY <2>2, <1>2, <1>3, <1>4, FirstPixel
    <3>2. popped BY <3>1, <1>5
    <3> QED BY <2>2, <3>2, <1>1, <1>3
  <2> QED BY <2>1, <2>2, <1>3
<1>7. Holds(fifo', x', 8 * tileIndex') /\ x' \in 0 .. Width
  <2>1. CASE popped
    <3>1. Holds(Tail(queue), x + 1, 8 * tileIndex') BY <2>1, <1>2, <1>3, PopAdvances
    <3> QED BY <3>1, <2>1, <1>1, <1>3, PPUAssumption
  <2>2. CASE ~popped
    BY <2>2, <1>1, <1>2, <1>3, PPUAssumption
  <2> QED BY <2>1, <2>2
<1> HIDE DEF popped
<1>8. /\ offset' \in Nat
      /\ offset' = LY * RowBytes + (IF x' = Width THEN RowBytes ELSE x' * PixelBytes)
      /\ LY < Height /\ LY \in Nat
  <2> DEFINE start == LY * RowBytes
  <2>1. offset = start + x * 8 /\ LY \in Nat /\ LY < Height
    BY <1>0, Geometry DEF Raster, TypeOK
  <2>2. start \in Nat BY <2>1, Geometry
  <2>3. RowBytes = Width * 8 + LineBytes /\ LineBytes \in Nat /\ PixelBytes = 8
    BY Geometry
  <2>4. offset' = offset + (IF popped THEN 8 ELSE 0)
                         + (IF x' = Width THEN LineBytes ELSE 0)
    <3>1. Written(popped, x' = Width) = (IF popped THEN 8 ELSE 0)
                                        + (IF x' = Width THEN LineBytes ELSE 0)
      BY <2>3 DEF Written
    <3>2. offset \in Nat BY <1>0 DEF TypeOK
    <3> QED BY <3>1, <3>2, <1>1, <2>3
  <2> HIDE DEF start
  <2>5. offset + (IF popped THEN 8 ELSE 0) = start + x' * 8
    <3>1. CASE popped BY <3>1, <1>1, <1>3, <2>1, <2>2
    <3>2. CASE ~popped BY <3>2, <1>1, <1>3, <2>1, <2>2
    <3> QED BY <3>1, <3>2
  <2>6. CASE x' = Width
    <3>1. offset' = start + RowBytes
      BY <2>2, <2>3, <2>4, <2>5, <2>6, PPUAssumption
    <3> QED BY <3>1, <2>1, <2>2, <2>6, Geometry DEF start
  <2>7. CASE x' # Width
    <3>1. offset' = start + x' * 8 /\ x' \in Nat
      BY <2>2, <2>4, <2>5, <2>7, <1>7
    <3> QED BY <3>1, <2>1, <2>2, <2>3, <2>7 DEF start
  <2> QED BY <2>6, <2>7
<1>9. TypeOK'
  <2>1. fifo' \in Seq(Nat \X (0 .. 7)) BY <1>7 DEF Holds, Pixels
  <2>2. x' \in Byte BY <1>7, PPUAssumption
  <2>3. state' \in States BY <1>1, <1>0
  <2> QED BY <2>1, <2>2, <2>3, <1>0, <1>1, <1>2, <1>3, <1>8 DEF TypeOK, Coincidence
<1>10. LineTiming'
  <2>1. ticks' - OamTicks \in {Cycles' - 1, Cycles'} BY <1>1, <1>2, <1>3, PPUAssumption
  <2>2. x' = Width => ticks' < LineTicks
    BY <2>1, <1>2, <1>3, <1>6, <1>1, PPUAssumption
  <2> QED BY <2>1, <2>2, <1>0, <1>1 DEF LineTiming
<1>11. Pace'
  BY <1>0, <1>1, <1>2, <1>3, <1>6, <1>7, PPUAssumption DEF Pace
<1>12. PixelOrder'
  <2>1. Len(fifo') = 8 * tileIndex' - x' /\ DOMAIN fifo' = 1 .. Len(fifo')
        /\ \A k \in 1 .. Len(fifo') : fifo'[k] = PixelAt(x' + k - 1)
    BY <1>7, LenProperties DEF Holds
  <2> QED BY <2>1 DEF PixelOrder, PixelAt
<1>13. MapRow' BY <1>0, <1>1 DEF LineInv, MapRow
<1>14. Raster'
  <2>1. (LY + 1) * RowBytes = LY * RowBytes + RowBytes BY <1>8, Geometry
  <2> QED BY <2>1, <1>0, <1>1, <1>8 DEF Raster
<1> QED BY <1>2, <1>9, <1>10, <1>11, <1>12, <1>13, <1>14 DEF IInv, LineInv

LEMMA HBlankInv == ASSUME IInv, HBlank PROVE IInv'
<1>0. TypeOK /\ LineInv /\ Raster /\ state = "H_BLANK" BY DEF IInv, HBlank
<1>1. /\ ticks \in Nat /\ ticks < LineTicks /\ LY \in Nat /\ LY < Height
      /\ offset = (LY + 1) * RowBytes
      /\ UNCHANGED <<x, lcdVars, fetchVars>>
  BY <1>0 DEF HBlank, TypeOK, LineInv, LineTiming, Raster
<1>2. MapRow' /\ PlanesInVram'
  BY <1>0, <1>1 DEF LineInv, MapRow, PlanesInVram, fetchVars
<1>3. IncLY = LY + 1 /\ IncLY \in Byte
  BY <1>1, PPUAssumption DEF IncLY
<1>4. CASE ticks + 1 # LineTicks
  <2>1. ticks' = ticks + 1 /\ irq' = Coincidence /\ UNCHANGED <<state, offset, LY>>
    BY <1>4 DEF HBlank
  <2>2. TypeOK' BY <1>0, <1>1, <2>1 DEF TypeOK, Coincidence, lcdVars, fetchVars
  <2>3. ticks' < LineTicks BY <1>1, <1>4, <2>1, PPUAssumption
  <2>4. LineInv'
    BY <1>0, <1>1, <1>2, <2>1, <2>3 DEF LineInv, LineTiming, Pace, PixelOrder
  <2>5. Raster' BY <1>0, <1>1, <2>1 DEF Raster
  <2> QED BY <2>2, <2>4, <2>5 DEF IInv
<1>5. CASE ticks + 1 = LineTicks /\ IncLY = Height
  <2>1. /\ ticks' = 0 /\ LY' = IncLY /\ offset' = 0 /\ state' = "V_BLANK"
        /\ irq' = Coincidence \cup {"VBLANK"}
    BY <1>5 DEF HBlank, EnterVBlank
  <2>2. TypeOK' BY <1>0, <1>1, <1>3, <2>1 DEF TypeOK, Coincidence, lcdVars, fetchVars
  <2>3. LineInv'
    BY <1>2, <2>1, PPUAssumption DEF LineInv, LineTiming, Pace, PixelOrder
  <2>4. Raster' BY <2>1, <1>5, PPUAssumption DEF Raster
  <2> QED BY <2>2, <2>3, <2>4 DEF IInv
<1>6. CASE ticks + 1 = LineTicks /\ IncLY # Height
  <2>1. /\ ticks' = 0 /\ LY' = IncLY /\ state' = "OAM_SCAN"
        /\ irq' = Coincidence /\ offset' = offset
    BY <1>6 DEF HBlank
  <2>2. TypeOK' BY <1>0, <1>1, <1>3, <2>1 DEF TypeOK, Coincidence, lcdVars, fetchVars
  <2>3. LineInv'
    BY <1>2, <2>1, PPUAssumption DEF LineInv, LineTiming, Pace, PixelOrder
  <2>4. LY' < Height /\ offset' = LY' * RowBytes
    BY <1>1, <1>3, <1>6, <2>1, PPUAssumption
  <2>5. Raster' BY <2>1, <2>4 DEF Raster
  <2> QED BY <2>2, <2>3, <2>5 DEF IInv
<1> QED BY <1>4, <1>5, <1>6

LEMMA VBlankInv == ASSUME IInv, VBlank PROVE IInv'
<1>0. TypeOK /\ LineInv /\ Raster /\ state = "V_BLANK" BY DEF IInv, VBlank
<1>1. /\ ticks \in Nat /\ ticks < LineTicks /\ LY \in Height .. LastLine - 1
      /\ offset = 0 /\ offset' = 0 /\ irq' = Coincidence
      /\ ticks' = IF ticks + 1 = LineTicks THEN 0 ELSE ticks + 1
      /\ UNCHANGED <<x, lcdVars, fetchVars>>
  BY <1>0 DEF VBlank, TypeOK, LineInv, LineTiming, Raster
<1>2. MapRow' /\ PlanesInVram'
  BY <1>0, <1>1 DEF LineInv, MapRow, PlanesInVram, fetchVars
<1>3. IncLY = LY + 1 /\ IncLY \in Byte
  BY <1>1, PPUAssumption DEF IncLY
<1>4. ticks' \in Nat /\ ticks' < LineTicks
  BY <1>1, PPUAssumption
<1>5. CASE ticks + 1 = LineTicks /\ IncLY = LastLine
  <2>1. LY' = 0 /\ state' = "OAM_SCAN" /\ ticks' = 0
    BY <1>1, <1>5 DEF VBlank
  <2>2. TypeOK' BY <1>0, <1>1, <2>1 DEF TypeOK, Coincidence, lcdVars, fetchVars
  <2>3. LineInv'
    BY <1>2, <2>1, PPUAssumption DEF LineInv, LineTiming, Pace, PixelOrder
  <2>4. Raster' BY <1>1, <2>1, Geometry, PPUAssumption DEF Raster
  <2> QED BY <2>2, <2>3, <2>4 DEF IInv
<1>6. CASE ~(ticks + 1 = LineTicks /\ IncLY = LastLine)
  <2>1. state' = "V_BLANK" /\ LY' \in {LY, IncLY} /\ LY' # LastLine
    BY <1>0, <1>1, <1>6, PPUAssumption DEF VBlank
  <2>2. LY' \in Byte /\ LY' \in Height .. LastLine - 1
    BY <2>1, <1>1, <1>3, PPUAssumption
  <2>3. TypeOK' BY <1>0, <1>1, <1>4, <2>1, <2>2 DEF TypeOK, Coincidence, lcdVars, fetchVars
  <2>4. LineInv'
    BY <1>2, <1>4, <2>1 DEF LineInv, LineTiming, Pace, PixelOrder
  <2>5. Raster' BY <1>1, <2>1, <2>2 DEF Raster
  <2> QED BY <2>3, <2>4, <2>5 DEF IInv
<1> QED BY <1>5, <1>6

\* The program's writes and the acknowledgement leave the PPU's state alone.
LEMMA ProgramInv ==
  ASSUME IInv, WriteLCDC \/ WriteSCY \/ WriteLYC \/ Acknowledge
  PROVE  IInv'
<1>0. TypeOK /\ LineInv /\ Raster BY DEF IInv
<1>1. UNCHANGED ppuVars
  BY DEF WriteLCDC, WriteSCY, WriteLYC, Acknowledge
<1>2. LYC' \in Byte /\ SCY' \in Byte /\ lcdOn' \in BOOLEAN /\ tileSel' \in BOOLEAN
      /\ irq' \subseteq {"VBLANK", "STAT"}
  <2>0. /\ LYC \in Byte /\ SCY \in Byte /\ lcdOn \in BOOLEAN /\ tileSel \in BOOLEAN
        /\ irq \subseteq {"VBLANK", "STAT"}
    BY <1>0 DEF TypeOK
  <2>1. CASE WriteLCDC BY <2>0, <2>1, PPUAssumption DEF WriteLCDC
  <2>2. CASE WriteSCY BY <2>0, <2>2, PPUAssumption DEF WriteSCY
  <2>3. CASE WriteLYC BY <2>0, <2>3, PPUAssumption DEF WriteLYC
  <2>4. CASE Acknowledge BY <2>0, <2>4 DEF Acknowledge, lcdVars
  <2> QED BY <2>1, <2>2, <2>3, <2>4
<1>3. TypeOK' BY <1>0, <1>1, <1>2 DEF TypeOK, ppuVars, fetchVars
<1>4. LineInv'
  BY <1>0, <1>1 DEF LineInv, LineTiming, Pace, PixelOrder, MapRow, PlanesInVram, Cycles,
                    ppuVars, fetchVars
<1>5. Raster' BY <1>0, <1>1 DEF Raster, ppuVars
<1> QED BY <1>3, <1>4, <1>5 DEF IInv

LEMMA StutterInv == ASSUME IInv, UNCHANGED vars PROVE IInv'
<1>1. UNCHANGED <<ppuVars, irq, lcdVars>> BY DEF vars, ppuVars
<1>2. TypeOK' BY <1>1 DEF IInv, TypeOK, ppuVars, fetchVars, lcdVars
<1>3. LineInv'
  BY <1>1 DEF IInv, LineInv, LineTiming, Pace, PixelOrder, MapRow, PlanesInVram, Cycles,
              ppuVars, fetchVars
<1>4. Raster' BY <1>1 DEF IInv, Raster, ppuVars
<1> QED BY <1>2, <1>3, <1>4 DEF IInv

LEMMA NextInv == ASSUME IInv, [Next]_vars PROVE IInv'
  BY OamScanInv, PixelTransferInv, HBlankInv, VBlankInv, ProgramInv, StutterInv
  DEF Next, Tick

LEMMA Invariance == Spec => []IInv
  BY InitIInv, NextInv, PTL DEF Spec

-----------------------------------------------------------------------------
(* The results.                                                             *)

\* Every variable keeps its type: x stays below the 256 of its uint8_t and
\* nothing but a VBLANK or a STAT request is raised.
THEOREM TypeCorrect == Spec => []TypeOK
  BY Invariance, PTL DEF IInv

\* The equality tests of PPU::tick on its tick counter never miss.
THEOREM TicksNeverMissed == Spec => []LineTiming
  BY Invariance, PTL DEF IInv, LineInv

\* The FIFO never starves the display within a line.
THEOREM FifoNeverStarves == Spec => []Pace
  BY Invariance, PTL DEF IInv, LineInv

\* The pixels leave the FIFO in the order of their columns.
THEOREM PixelsInOrder == Spec => []PixelOrder
  BY Invariance, PTL DEF IInv, LineInv

\* The Display's write position and LY agree.
THEOREM RasterCorrect == Spec => []Raster
  BY Invariance, PTL DEF IInv

\* The fetcher reads one row of the background map, and tile data only.
THEOREM FetcherStaysInVram == Spec => []FetchesInVram
<1>1. ASSUME IInv PROVE FetchesInVram
  <2>1. PlanesInVram BY <1>1 DEF IInv, LineInv
  <2>2. ASSUME state = "PIXEL_TRANSFER"
        PROVE  /\ mapAddr + tileIndex \in TileMap .. TileMapEnd
               /\ mapAddr % 32 = 0 /\ tileIndex < 32
    <3>1. /\ fetchState \in FetchStates /\ fetchTicks \in {0, 1} /\ tileIndex \in Nat
          /\ x = IF Cycles <= 7 THEN 0 ELSE Cycles - 7
          /\ x < Width
      BY <1>1, <2>2 DEF IInv, TypeOK, LineInv, Pace
    <3>2. Cycles \in Nat /\ 8 * tileIndex <= Cycles BY <3>1 DEF Cycles, Stage
    <3>3. tileIndex < 32 BY <3>1, <3>2, PPUAssumption
    <3>4. PICK r \in 0 .. 31 : mapAddr = TileMap + r * 32
      BY <1>1 DEF IInv, LineInv, MapRow
    <3>5. mapAddr % 32 = 0 BY <3>4 DEF TileMap
    <3>6. mapAddr + tileIndex \in TileMap .. TileMapEnd
      BY <3>1, <3>3, <3>4 DEF TileMap, TileMapEnd
    <3> QED BY <3>3, <3>5, <3>6
  <2> QED BY <2>1, <2>2 DEF FetchesInVram, PlanesInVram, InVram
<1> QED BY <1>1, Invariance, PTL

\* A frame's ticks, scanline by scanline, without their products.
LEMMA Scanlines ==
  /\ \A n \in Nat : n * LineTicks \in Nat /\ (n + 1) * LineTicks = n * LineTicks + LineTicks
  /\ \A m, n \in Nat : m < n => m * LineTicks + LineTicks <= n * LineTicks
<1>1. LineTicks \in Nat
  BY PPUAssumption
<1>2. ASSUME NEW n \in Nat
      PROVE  n * LineTicks \in Nat /\ (n + 1) * LineTicks = n * LineTicks + LineTicks
  BY <1>1
<1>3. ASSUME NEW m \in Nat, NEW n \in Nat, m < n
      PROVE  m * LineTicks + LineTicks <= n * LineTicks
  <2> DEFINE d == n - m - 1
  <2>1. d \in Nat /\ n = m + 1 + d
    BY <1>3
  <2> HIDE DEF d
  <2>2. n * LineTicks = m * LineTicks + LineTicks + d * LineTicks
    BY <1>1, <2>1
  <2>3. d * LineTicks \in Nat /\ m * LineTicks \in Nat
    BY <1>2, <2>1
  <2> QED
    BY <1>1, <2>2, <2>3
<1> QED
  BY <1>2, <1>3

\* The position in the frame in each state, and the one after it.
LEMMA PositionIs ==
  ASSUME IInv
  PROVE  /\ ticks \in Nat /\ ticks < LineTicks /\ LY \in Nat /\ LY < LastLine
         /\ state = "PIXEL_TRANSFER" => ticks + 1 < LineTicks
         /\ Position \in Nat /\ FrameTicks \in Nat
         /\ Position + LineTicks - ticks <= FrameTicks
         /\ (Position + 1) % FrameTicks = IF Position + 1 = FrameTicks THEN 0 ELSE Position + 1
<1>1. /\ ticks \in Nat /\ LY \in Nat /\ state \in States /\ x \in Nat
      /\ fetchState \in FetchStates /\ fetchTicks \in {0, 1} /\ tileIndex \in Nat
      /\ LineTiming /\ Pace /\ Raster
  BY DEF IInv, TypeOK, LineInv
<1>2. Cycles \in Nat
  BY <1>1 DEF Cycles, Stage
<1>3. ticks < LineTicks /\ (state = "PIXEL_TRANSFER" => ticks + 1 < LineTicks)
  <2> HIDE DEF Cycles
  <2>1. CASE state = "PIXEL_TRANSFER"
    <3>1. ticks - OamTicks <= Cycles /\ x = (IF Cycles <= 7 THEN 0 ELSE Cycles - 7) /\ x < Width
      BY <1>1, <1>2, <2>1 DEF LineTiming, Pace
    <3> QED
      BY <1>1, <1>2, <3>1, PPUAssumption
  <2>2. CASE state # "PIXEL_TRANSFER"
    BY <1>1, <2>2, PPUAssumption DEF LineTiming
  <2> QED
    BY <2>1, <2>2
<1>4. LY < LastLine
  BY <1>1, PPUAssumption DEF Raster
<1>5. LastLine \in Nat /\ LineTicks \in Nat
  BY PPUAssumption
<1> DEFINE top == LY * LineTicks
<1>6. top \in Nat /\ FrameTicks \in Nat /\ top + LineTicks <= FrameTicks
  BY <1>1, <1>4, <1>5, Scanlines DEF FrameTicks
<1>7. Position = top + ticks
  BY DEF Position
<1> HIDE DEF top
<1>8. Position \in Nat /\ Position + LineTicks - ticks <= FrameTicks /\ Position < FrameTicks
  BY <1>1, <1>3, <1>5, <1>6, <1>7
<1>9. (Position + 1) % FrameTicks = IF Position + 1 = FrameTicks THEN 0 ELSE Position + 1
  <2> DEFINE p == Position
             n == FrameTicks
  <2>1. p \in Nat /\ n \in Nat /\ p < n
    BY <1>6, <1>8
  <2> HIDE DEF p, n
  <2>2. (p + 1) % n = IF p + 1 = n THEN 0 ELSE p + 1
    BY <2>1
  <2> QED
    BY <2>2 DEF p, n
<1> QED
  BY <1>1, <1>3, <1>4, <1>6, <1>8, <1>9

\* A tick within a scanline, and the last one of a scanline.
LEMMA TickOn ==
  ASSUME IInv, ticks + 1 # LineTicks, ticks' = ticks + 1, LY' = LY
  PROVE  Position' = (Position + 1) % FrameTicks /\ Position' # Height * LineTicks
<1>1. /\ ticks \in Nat /\ ticks < LineTicks /\ LY \in Nat /\ LY < LastLine
      /\ Position \in Nat /\ FrameTicks \in Nat /\ Position + LineTicks - ticks <= FrameTicks
      /\ (Position + 1) % FrameTicks = IF Position + 1 = FrameTicks THEN 0 ELSE Position + 1
  BY PositionIs
<1>2. Height \in Nat /\ LineTicks \in Nat
  BY PPUAssumption
<1> DEFINE top == LY * LineTicks
           bottom == Height * LineTicks
<1>3. top \in Nat /\ bottom \in Nat
  BY <1>1, <1>2, Scanlines
<1>4. Position' = top + (ticks + 1) /\ Position = top + ticks
  BY DEF Position
<1>5. LY = Height \/ top + LineTicks <= bottom \/ bottom + LineTicks <= top
  BY <1>1, <1>2, Scanlines
<1>6. LY = Height => top = bottom
  OBVIOUS
<1> HIDE DEF top, bottom
<1>7. Position' # bottom
  BY <1>1, <1>2, <1>3, <1>4, <1>5, <1>6
<1>8. Position' = (Position + 1) % FrameTicks
  BY <1>1, <1>2, <1>3, <1>4
<1> QED
  BY <1>7, <1>8 DEF bottom

LEMMA LineOn ==
  ASSUME IInv, ticks + 1 = LineTicks, ticks' = 0,
         LY' = IF LY + 1 = LastLine THEN 0 ELSE LY + 1
  PROVE  /\ Position' = (Position + 1) % FrameTicks
         /\ Position' = Height * LineTicks => LY + 1 = Height
<1>1. /\ ticks \in Nat /\ ticks < LineTicks /\ LY \in Nat /\ LY < LastLine
      /\ Position \in Nat /\ FrameTicks \in Nat /\ Position + LineTicks - ticks <= FrameTicks
      /\ (Position + 1) % FrameTicks = IF Position + 1 = FrameTicks THEN 0 ELSE Position + 1
  BY PositionIs
<1>2. Height \in Nat \ {0} /\ LineTicks \in Nat /\ LastLine \in Nat
  BY PPUAssumption
<1> DEFINE next == LY' * LineTicks
<1>3. Position' = next /\ LY' \in Nat
  BY <1>1 DEF Position
<1>4. Position + 1 = (LY + 1) * LineTicks
  <2> DEFINE top == LY * LineTicks
             low == (LY + 1) * LineTicks
  <2>1. top \in Nat /\ low = top + LineTicks /\ Position = top + ticks
    BY <1>1, Scanlines DEF Position
  <2> HIDE DEF top, low
  <2> QED
    BY <1>1, <1>2, <2>1 DEF low
<1>5. CASE LY + 1 = LastLine
  <2>1. Position' = 0
    BY <1>2, <1>3, <1>5
  <2>2. Position + 1 = FrameTicks
    BY <1>4, <1>5 DEF FrameTicks
  <2>3. 0 * LineTicks + LineTicks <= Height * LineTicks
    BY <1>2, Scanlines
  <2>4. Position' # Height * LineTicks
    BY <1>1, <1>2, <2>1, <2>3
  <2> QED
    BY <1>1, <2>1, <2>2, <2>4
<1>6. CASE LY + 1 # LastLine
  <2>1. LY' = LY + 1
    BY <1>6
  <2>2. Position' = Position + 1
    BY <1>3, <1>4, <2>1
  <2>3. LY + 1 \in Nat /\ LY + 1 < LastLine
    BY <1>1, <1>2, <1>6
  <2>4. Position + 1 # FrameTicks
    <3>1. (LY + 1) * LineTicks + LineTicks <= LastLine * LineTicks
      BY <1>2, <2>3, Scanlines
    <3>2. Position + 1 + LineTicks <= FrameTicks
      BY <1>4, <3>1 DEF FrameTicks
    <3> QED
      BY <1>1, <1>2, <3>2
  <2>5. ASSUME Position' = Height * LineTicks PROVE LY + 1 = Height
    <3> DEFINE low == (LY + 1) * LineTicks
               bottom == Height * LineTicks
    <3>1. low = bottom
      BY <1>4, <2>2, <2>5
    <3>2. LY + 1 < Height => low + LineTicks <= bottom
      BY <1>2, <2>3, Scanlines
    <3>3. Height < LY + 1 => bottom + LineTicks <= low
      BY <1>2, <2>3, Scanlines
    <3>4. low \in Nat
      BY <2>3, Scanlines
    <3> HIDE DEF low, bottom
    <3> QED
      BY <1>1, <1>2, <2>3, <3>1, <3>2, <3>3, <3>4
  <2> QED
    BY <1>1, <2>2, <2>4, <2>5
<1> QED
  BY <1>5, <1>6

\* Frames keep time: VBLANK is requested by every FrameTicks-th tick, with the
\* pixel buffer full, and by nothing else.
THEOREM FramesAlwaysInStep == Spec => FramesInStep
<1>1. ASSUME IInv, [Next]_vars PROVE [InStep]_vars
  <2> USE DEF InStep
  <2>0. /\ TypeOK /\ Raster /\ LineTiming /\ ticks \in Nat /\ LY \in Nat
        /\ ticks < LineTicks /\ LY < LastLine
    BY <1>1, PositionIs DEF IInv, LineInv
  <2>1. "VBLANK" \in Coincidence => "VBLANK" \in irq
    BY DEF Coincidence
  <2>2. CASE lcdOn /\ (OamScan \/ PixelTransfer)
    <3>1. ticks' = ticks + 1 /\ LY' = LY /\ irq' = Coincidence
      BY <2>2 DEF OamScan, PixelTransfer
    <3>2. ticks + 1 # LineTicks
      <4>1. state = "PIXEL_TRANSFER" => ticks + 1 < LineTicks
        BY <1>1, PositionIs
      <4>2. state = "OAM_SCAN" => ticks < OamTicks
        BY <2>0 DEF LineTiming
      <4>3. state \in {"OAM_SCAN", "PIXEL_TRANSFER"}
        BY <2>2 DEF OamScan, PixelTransfer
      <4> QED
        BY <2>0, <4>1, <4>2, <4>3, PPUAssumption
    <3> QED
      BY <1>1, <2>1, <2>2, <3>1, <3>2, TickOn DEF Tick
  <2>3. CASE lcdOn /\ HBlank
    <3>1. IncLY = LY + 1 /\ LY + 1 # LastLine /\ offset = (LY + 1) * RowBytes
      BY <2>0, <2>3, PPUAssumption DEF HBlank, Raster, IncLY
    <3>2. CASE ticks + 1 = LineTicks
      <4>1. ticks' = 0 /\ LY' = LY + 1
        BY <2>3, <3>1, <3>2 DEF HBlank
      <4>2. /\ Position' = (Position + 1) % FrameTicks
            /\ Position' = Height * LineTicks => LY + 1 = Height
        BY <1>1, <3>1, <3>2, <4>1, LineOn
      <4>3. LY + 1 = Height => "VBLANK" \in irq' /\ offset = BufferBytes /\ offset' = 0
        BY <2>3, <3>1, <3>2 DEF HBlank, EnterVBlank, BufferBytes
      <4>4. LY + 1 # Height => irq' = Coincidence
        BY <2>3, <3>1, <3>2 DEF HBlank
      <4>5. LY + 1 = Height => Position' = Height * LineTicks
        <5>1. Height * LineTicks \in Nat
          BY PPUAssumption, Scanlines
        <5>2. Position' = LY' * LineTicks + 0
          BY <4>1 DEF Position
        <5> QED
          BY <4>1, <5>1, <5>2
      <4> QED
        BY <2>1, <2>3, <4>2, <4>3, <4>4, <4>5 DEF Tick
    <3>3. CASE ticks + 1 # LineTicks
      <4>1. ticks' = ticks + 1 /\ LY' = LY /\ irq' = Coincidence
        BY <2>3, <3>3 DEF HBlank
      <4> QED
        BY <1>1, <2>1, <2>3, <3>3, <4>1, TickOn DEF Tick
    <3> QED
      BY <3>2, <3>3
  <2>4. CASE lcdOn /\ VBlank
    <3>1. /\ IncLY = LY + 1 /\ LY >= Height /\ irq' = Coincidence
          /\ ticks' = IF ticks + 1 = LineTicks THEN 0 ELSE ticks + 1
      BY <2>0, <2>4, PPUAssumption DEF VBlank, Raster, IncLY
    <3>2. CASE ticks + 1 = LineTicks
      <4>1. ticks' = 0 /\ LY' = IF LY + 1 = LastLine THEN 0 ELSE LY + 1
        BY <2>4, <3>1, <3>2 DEF VBlank
      <4>2. /\ Position' = (Position + 1) % FrameTicks
            /\ Position' = Height * LineTicks => LY + 1 = Height
        BY <1>1, <3>2, <4>1, LineOn
      <4>3. LY + 1 # Height
        BY <2>0, <3>1, PPUAssumption
      <4> QED
        BY <2>1, <2>4, <3>1, <4>2, <4>3 DEF Tick
    <3>3. CASE ticks + 1 # LineTicks
      <4>1. ticks' = ticks + 1 /\ LY' = LY
        BY <2>4, <3>1, <3>3 DEF VBlank
      <4> QED
        BY <1>1, <2>1, <2>4, <3>1, <3>3, <4>1, TickOn DEF Tick
    <3> QED
      BY <3>2, <3>3
  <2>5. CASE WriteLCDC \/ WriteSCY \/ WriteLYC \/ Acknowledge
    <3>1. UNCHANGED ppuVars /\ irq' \subseteq irq
      BY <2>5 DEF WriteLCDC, WriteSCY, WriteLYC, Acknowledge
    <3>2. ticks' = ticks /\ LY' = LY
      BY <3>1 DEF ppuVars
    <3>3. ~Tick
      <4>1. ~OamScan /\ ~PixelTransfer
        BY <2>0, <3>2 DEF OamScan, PixelTransfer
      <4>2. ~HBlank /\ ~VBlank
        BY <2>0, <3>2, PPUAssumption DEF HBlank, VBlank
      <4> QED
        BY <4>1, <4>2 DEF Tick
    <3> QED
      BY <3>1, <3>2, <3>3 DEF Position
  <2>6. CASE UNCHANGED vars
    BY <2>6
  <2> QED
    BY <1>1, <2>2, <2>3, <2>4, <2>5, <2>6 DEF Next, Tick
<1> QED
  BY <1>1, Invariance, PTL DEF Spec, FramesInStep

\* PPU implements FrameScan.
THEOREM PPUImplementsFrameScan == Spec => ImplementsFrameScan
<1> DEFINE row == IF state = "V_BLANK" THEN Height ELSE LY
           col == IF state \in {"PIXEL_TRANSFER", "H_BLANK"} THEN x ELSE 0
<1>1. Init => Frame!Init
  BY DEF Init, InitAt, Frame!Init
<1>2. ASSUME IInv, IInv', [Next]_vars PROVE [Frame!Next]_(Frame!vars)
  <2> USE DEF Frame!Next, Frame!vars, Frame!ShowPixel, Frame!NextRow, Frame!EndFrame,
              Frame!NextFrame, Frame!Serve
  <2>0. /\ TypeOK /\ Raster /\ Pace /\ TypeOK' /\ Raster' BY <1>2 DEF IInv, LineInv
  <2>1. CASE OamScan
    BY <2>0, <2>1 DEF OamScan, Coincidence
  <2>2. CASE PixelTransfer
    BY <2>0, <2>2 DEF PixelTransfer, Coincidence, Pace, Raster, TypeOK
  <2>3. CASE HBlank
    <3>1. state = "H_BLANK" /\ LY \in Byte /\ LY < Height /\ x' = x /\ col = Width
      BY <2>0, <2>3 DEF HBlank, Raster, TypeOK, Pace
    <3>2. IncLY = LY + 1 BY <3>1, PPUAssumption DEF IncLY
    <3>3. CASE ticks + 1 # LineTicks
      BY <2>3, <3>1, <3>3 DEF HBlank, Coincidence
    <3>4. CASE ticks + 1 = LineTicks /\ IncLY = Height
      BY <2>3, <3>1, <3>2, <3>4 DEF HBlank, EnterVBlank
    <3>5. CASE ticks + 1 = LineTicks /\ IncLY # Height
      BY <2>3, <3>1, <3>2, <3>5, PPUAssumption DEF HBlank, Coincidence
    <3> QED BY <3>3, <3>4, <3>5
  <2>4. CASE VBlank
    BY <2>0, <2>4 DEF VBlank, Coincidence
  <2>5. CASE WriteLCDC \/ WriteSCY \/ WriteLYC
    BY <2>5 DEF WriteLCDC, WriteSCY, WriteLYC, ppuVars
  <2>6. CASE Acknowledge
    BY <2>6 DEF Acknowledge, ppuVars
  <2>7. CASE UNCHANGED vars
    BY <2>7 DEF vars
  <2> QED BY <1>2, <2>1, <2>2, <2>3, <2>4, <2>5, <2>6, <2>7 DEF Next, Tick
<1> QED BY <1>1, <1>2, Invariance, PTL DEF Spec, ImplementsFrameScan, Frame!Spec
=============================================================================
