------------------------------ MODULE Program ------------------------------
(***************************************************************************)
(* A program that is never interrupted: a main loop that may call a        *)
(* subroutine from any of its instructions.  It is what the code outside   *)
(* the interrupt handlers must look like to itself when it is interrupted. *)
(***************************************************************************)
EXTENDS Naturals, Sequences

CONSTANTS MainStart, MainLen, SubStart

VARIABLES
  pc,     (* address of the next instruction                               *)
  stack   (* return addresses, the last one on top                         *)

Main == MainStart .. MainStart + MainLen - 1

\* The address after an instruction of the main loop, which ends in a jump.
After(a) == IF a = MainStart + MainLen - 1 THEN MainStart ELSE a + 1

Init == pc = MainStart /\ stack = << >>

Step ==
  /\ pc \in Main
  /\ pc' = After(pc)
  /\ UNCHANGED stack

Call ==
  /\ pc \in Main
  /\ pc' = SubStart
  /\ stack' = Append(stack, After(pc))

Return ==
  /\ pc = SubStart /\ stack # << >>
  /\ pc' = stack[Len(stack)]
  /\ stack' = SubSeq(stack, 1, Len(stack) - 1)

Next == Step \/ Call \/ Return

Spec == Init /\ [][Next]_<<pc, stack>>
=============================================================================
