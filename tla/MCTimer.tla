------------------------------- MODULE MCTimer -------------------------------
(* Values for model checking Timer.                                         *)
EXTENDS Timer

MCModulos  == {14, 62}
MCCounters == {1, 64, 255}
MCControls == {1, 5, 6, 7}
MCCycles   == {6}

\* A running timer under the clocks of 4096 and 16384 Hz.
MCSlowControls == {4, 7}
=============================================================================
