---------------------------- MODULE MCInterrupts ----------------------------
(* Constants for model checking Interrupts.                                 *)
EXTENDS Interrupts

AllOps   == Ops
NestOps  == {"NOP", "EI", "CALL", "LD_IF"}

\* Everything masked, one source enabled, all of them.
MCIe == {{}, {"STAT", "JOYPAD"}, Sources}

\* IF cleared by the program; the sources the PPU does not raise requested.
MCIf == {{}, {"TIMER", "JOYPAD"}, {"SERIAL"}}
=============================================================================
