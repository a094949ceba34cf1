------------------------------ MODULE MCGameBoy ------------------------------
(* Constants for model checking GameBoy.                                    *)
EXTENDS GameBoy

MCZero  == {0}
MCOn    == {TRUE}
MCOnOff == {TRUE, FALSE}

\* LYC on the first line, on the last visible one, in V_BLANK and nowhere.
MCLyc == {0, 1, 2, 255}

MCNop  == {"NOP"}
MCMain == {"NOP", "CALL"}

MCIe    == {{}, {"VBLANK"}, {"STAT"}, {"VBLANK", "STAT"}}
MCIf    == {{}}
=============================================================================
