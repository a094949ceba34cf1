------------------------------ MODULE Windows ------------------------------
(* The two debug windows of src/src/gameboy.cpp, renderTilesetDisplay and   *)
(* renderTilemapDisplay: which byte of the window's buffer each pixel of    *)
(* each tile begins at, and which bytes of memory it is read from.  That    *)
(* they write their own buffer only, each pixel of it once, and read within *)
(* the 64K of Memory is proved in GameBoy_proofs.                           *)
EXTENDS Integers

\* SDL_Display's pixelBuffer: four bytes for each pixel.
BufferSize(width, height, scaleFactor) == 4 * (width * scaleFactor) * (height * scaleFactor)
tilesetSize == BufferSize(128, 192, 1)
tilemapSize == BufferSize(256, 256, 1)

Byte8 == 0 .. 7                              \* rows and columns of a tile

\* renderTilesetDisplay: tile k of 384, 16 of them in a line of tiles.
Tiles == 0 .. 383
tilesetAddr(k, row) == 32768 + k * 16 + row * 2
tilesetOffset(k, row, col) ==
  (k \div 16) * 512 * 8 + 512 * row + (k % 16) * 8 * 4 + 4 * col

\* renderTilemapDisplay: 32 by 32 entries, each taken for the data of a tile.
Entries == 0 .. 31
tilemapAddr(tileRow, tileCol, row) == 39936 + (tileRow * 32 + tileCol) * 16 + row * 2
tilemapOffset(tileRow, tileCol, row, col) ==
  tileRow * (256 * 8 * 4) + tileCol * 32 + row * 256 * 4 + col * 4
=============================================================================
