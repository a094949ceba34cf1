------------------------------- MODULE MCPPU -------------------------------
(* Constants for model checking PPU.                                        *)
EXTENDS PPU

\* A tile map with the first and the last tile number.
MCTileIds == {0, 255}

\* Scroll positions on both sides of the wrap of SCY + LY, not multiples of 8.
MCScy == {3, 254}

\* The LCD switched on and off.
MCOnOff == {TRUE, FALSE}
MCOn    == {TRUE}
MCOff   == {FALSE}

\* LYC on a visible line and on a line of V_BLANK.
MCLyc  == {1, 3}
MCZero == {0}
MCOdd  == {131}
=============================================================================
