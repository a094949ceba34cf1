-------------------------------- MODULE Timer --------------------------------
(* Timer::run of timer.cpp, called with the cycles that an instruction took *)
(* (the call in gameboy.cpp:140 is commented out), and the program's        *)
(* writes to the timer's registers between two calls.                       *)
(* An operator F_Xyz is a faulty variant of F, used to test the properties. *)
EXTENDS Integers

CONSTANTS
  Modulos,     (* the values the program stores in TMA                      *)
  Counters,    (* the values the program stores in TIMA                     *)
  Controls,    (* the values the program stores in TAC                      *)
  CycleCounts  (* what an instruction takes                                 *)

ASSUME TimerAssumption ==
  /\ Modulos \subseteq 0 .. 255 /\ Counters \subseteq 0 .. 255
  /\ Controls \subseteq 0 .. 7 /\ CycleCounts \subseteq 0 .. 24

VARIABLES
  DIV, TIMA, TMA, TAC,   (* the registers 0xFF04 .. 0xFF07                  *)
  requested,             (* bit 2 of IF                                     *)
  pc                     (* "program", or "while" in the loop of run        *)

vars == <<DIV, TIMA, TMA, TAC, requested, pc>>

isRunning == TAC >= 4

\* 4194304 / frequency
Period_Rotated == <<256, 1024, 16, 64>>[(TAC % 4) + 1]
Period == <<1024, 16, 64, 256>>[(TAC % 4) + 1]

\* getDividerRegister() and setDividerRegister(): a word, with TIMA as its
\* high byte.
Words == 65536
Word(hi, lo) == 256 * hi + lo
AddCycles(w, n) ==
  LET sum == (w + n) % Words
  IN IF sum >= 256 THEN sum - 255 ELSE sum

Init ==
  /\ DIV = 0 /\ TIMA = 0 /\ TMA = 0 /\ TAC = 0
  /\ requested = FALSE /\ pc = "program"

\* Memory::writeByte, also by the handler that acknowledges the request.
WriteDIV == pc = "program" /\ DIV' = 0 /\ UNCHANGED <<TIMA, TMA, TAC, requested, pc>>
WriteTIMA == /\ pc = "program" /\ TIMA' \in Counters
             /\ UNCHANGED <<DIV, TMA, TAC, requested, pc>>
WriteTMA == /\ pc = "program" /\ TMA' \in Modulos
            /\ UNCHANGED <<DIV, TIMA, TAC, requested, pc>>
WriteTAC == /\ pc = "program" /\ TAC' \in Controls
            /\ UNCHANGED <<DIV, TIMA, TMA, requested, pc>>
Acknowledge == /\ pc = "program" /\ requested /\ requested' = FALSE
               /\ UNCHANGED <<DIV, TIMA, TMA, TAC, pc>>

\* run() up to its loop.
Run ==
  /\ pc = "program"
  /\ \E n \in CycleCounts :
       LET w == AddCycles(Word(TIMA, DIV), n)
       IN /\ DIV' = w % 256
          /\ TIMA' = (w \div 256 + (IF isRunning THEN 1 ELSE 0)) % 256
  /\ pc' = IF isRunning THEN "while" ELSE "program"
  /\ UNCHANGED <<TMA, TAC, requested>>

\* One round of the loop.
Round_NoSubtract ==
  /\ pc = "while" /\ TIMA >= Period
  /\ TIMA' = IF TIMA = 255 THEN TMA ELSE TIMA + 1
  /\ requested' = (requested \/ TIMA = 255)
  /\ UNCHANGED <<DIV, TMA, TAC, pc>>
Round_NoWrap ==
  /\ pc = "while" /\ TIMA >= Period
  /\ TIMA' = (IF TIMA = 255 THEN TMA ELSE TIMA + 1) - Period
  /\ requested' = (requested \/ TIMA = 255)
  /\ UNCHANGED <<DIV, TMA, TAC, pc>>
Round ==
  /\ pc = "while" /\ TIMA >= Period
  /\ LET next == IF TIMA = 255 THEN TMA ELSE TIMA + 1
     IN TIMA' = (next + 256 - Period) % 256
  /\ requested' = (requested \/ TIMA = 255)
  /\ UNCHANGED <<DIV, TMA, TAC, pc>>
Return ==
  /\ pc = "while" /\ TIMA < Period /\ pc' = "program"
  /\ UNCHANGED <<DIV, TIMA, TMA, TAC, requested>>

Next == WriteDIV \/ WriteTIMA \/ WriteTMA \/ WriteTAC \/ Acknowledge
        \/ Run \/ Round \/ Return
Spec == Init /\ [][Next]_vars /\ WF_vars(Round \/ Return)

-----------------------------------------------------------------------------
(* Properties                                                               *)

TypeOK ==
  /\ DIV \in 0 .. 255 /\ TIMA \in 0 .. 255 /\ TMA \in 0 .. 255 /\ TAC \in 0 .. 7
  /\ requested \in BOOLEAN /\ pc \in {"program", "while"}

\* run() returns when TMA is neither 15 nor 63: from these the loop comes back
\* to 255 for ever under the clock whose period is one more.
RunReturns == []<>(pc = "program")

\* Each round of the loop lowers TIMA, so that the loop ends.
LoopProgress == [][Round /\ TMA # Period - 1 => TIMA' < TIMA]_vars

\* When the counter of a running timer overflows, an interrupt is requested
\* (timer.h:17-19, 33-34), under each of the four clocks of timer.h:26-30.  It is
\* at 255 before a step of run() that takes it on and not behind it.
OverflowRequests == [][isRunning /\ TIMA = 255 /\ TIMA' # 255 /\ (Run \/ Round) => requested']_vars
=============================================================================
