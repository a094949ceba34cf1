----------------------------- MODULE FrameScan -----------------------------
(***************************************************************************)
(* What the PPU promises the rest of the machine: the pixels of a frame    *)
(* are shown once each, row by row from the top, and the request for the   *)
(* VBLANK interrupt is raised exactly when the last of them is on screen.  *)
(* How lines are timed, fetched and queued is left to PPU.                 *)
(***************************************************************************)
EXTENDS Naturals

CONSTANTS Width, Height

VARIABLES
  row,        (* the row being shown; Height during the vertical blank     *)
  col,        (* how many pixels of the row are on screen                  *)
  requested   (* the VBLANK request                                        *)

vars == <<row, col, requested>>

Init == row = 0 /\ col = 0 /\ ~requested

ShowPixel ==
  /\ row < Height /\ col < Width
  /\ col' = col + 1
  /\ UNCHANGED <<row, requested>>

NextRow ==
  /\ col = Width /\ row + 1 < Height
  /\ row' = row + 1 /\ col' = 0
  /\ UNCHANGED requested

EndFrame ==
  /\ col = Width /\ row + 1 = Height
  /\ row' = Height /\ col' = 0
  /\ requested' = TRUE

NextFrame ==
  /\ row = Height
  /\ row' = 0
  /\ UNCHANGED <<col, requested>>

Serve ==
  /\ requested
  /\ requested' = FALSE
  /\ UNCHANGED <<row, col>>

Next == ShowPixel \/ NextRow \/ EndFrame \/ NextFrame \/ Serve

Spec == Init /\ [][Next]_vars
=============================================================================
