---------------------------- MODULE MCMultiByte ----------------------------
(* Constants for model checking MultiByte: bytes at the decimal and binary  *)
(* carry boundaries, BCD or not.                                            *)
EXTENDS MultiByte

MCOperands == {0, 1, 9, 16, 25, 69, 73, 80, 144, 153, 10, 127, 128, 255}
=============================================================================
