---------------------------- MODULE Timer_proofs ----------------------------
(* What holds of the timer for every value the program stores in it.        *)
EXTENDS Timer, TLAPS

\* The period by the two low bits of TAC.
LEMMA Periods ==
  ASSUME TAC \in 0 .. 7
  PROVE  \/ TAC % 4 = 0 /\ Period = 1024
         \/ TAC % 4 = 1 /\ Period = 16
         \/ TAC % 4 = 2 /\ Period = 64
         \/ TAC % 4 = 3 /\ Period = 256
<1>1. TAC % 4 \in 0 .. 3 OBVIOUS
<1>2. <<1024, 16, 64, 256>>[1] = 1024 /\ <<1024, 16, 64, 256>>[2] = 16
      /\ <<1024, 16, 64, 256>>[3] = 64 /\ <<1024, 16, 64, 256>>[4] = 256
  OBVIOUS
<1>3. CASE TAC % 4 = 0 BY <1>2, <1>3 DEF Period
<1>4. CASE TAC % 4 = 1 BY <1>2, <1>4 DEF Period
<1>5. CASE TAC % 4 = 2 BY <1>2, <1>5 DEF Period
<1>6. CASE TAC % 4 = 3 BY <1>2, <1>6 DEF Period
<1> QED BY <1>1, <1>3, <1>4, <1>5, <1>6

\* What setDividerRegister() stores is a number.
LEMMA AddCyclesNat ==
  ASSUME NEW w \in Nat, NEW n \in Nat
  PROVE  AddCycles(w, n) \in Nat
<1>1. Words \in Nat \ {0} BY SMT DEF Words
<1>2. (w + n) % Words \in Nat BY <1>1
<1> DEFINE sum == (w + n) % Words
<1>3. AddCycles(w, n) = IF sum >= 256 THEN sum - 255 ELSE sum BY DEF AddCycles
<1>4. sum \in Nat BY <1>2
<1> HIDE DEF sum
<1> QED BY <1>3, <1>4

\* A round that is entered loads a byte: below the counter it started from,
\* unless TMA is one less than the period.
LEMMA RoundLowers ==
  ASSUME TypeOK, Round
  PROVE  /\ TIMA' \in 0 .. 255
         /\ TMA # Period - 1 => TIMA' < TIMA
<1>1. TIMA \in 0 .. 255 /\ TMA \in 0 .. 255 /\ TAC \in 0 .. 7 BY DEF TypeOK
<1>2. TIMA >= Period BY DEF Round
<1>3. (TAC % 4 = 1 /\ Period = 16) \/ (TAC % 4 = 2 /\ Period = 64)
  BY <1>1, <1>2, Periods
<1> DEFINE next == IF TIMA = 255 THEN TMA ELSE TIMA + 1
<1>4. TIMA' = (next + 256 - Period) % 256 BY DEF Round
<1>5. next \in 0 .. 255 BY <1>1
<1>6. next # Period - 1 => (next + 256 - Period) % 256 < 255
  BY <1>3, <1>5
<1>7. CASE TIMA = 255
  <2>1. next = TMA BY <1>7
  <2> QED BY <1>3, <1>4, <1>5, <1>6, <1>7, <2>1
<1>8. CASE TIMA # 255
  <2>1. next = TIMA + 1 BY <1>8
  <2>2. (next + 256 - Period) % 256 = TIMA + 1 - Period BY <1>1, <1>2, <1>3, <1>8, <2>1
  <2> QED BY <1>1, <1>2, <1>3, <1>4, <2>2
<1> QED BY <1>7, <1>8

-----------------------------------------------------------------------------

\* The registers stay bytes, also where TIMA serves as the upper half of DIV.
THEOREM TypeCorrect == Spec => []TypeOK
<1>1. Init => TypeOK
  <2> SUFFICES ASSUME Init PROVE TypeOK OBVIOUS
  <2>1. 0 \in 0 .. 255 /\ 0 \in 0 .. 7 OBVIOUS
  <2> QED BY <2>1, Zenon DEF Init, TypeOK
<1>2. TypeOK /\ [Next]_vars => TypeOK'
  <2> SUFFICES ASSUME TypeOK, [Next]_vars PROVE TypeOK' OBVIOUS
  <2> USE TimerAssumption DEF TypeOK
  <2>1. CASE WriteDIV BY <2>1 DEF WriteDIV
  <2>2. CASE WriteTIMA BY <2>2 DEF WriteTIMA
  <2>3. CASE WriteTMA BY <2>3 DEF WriteTMA
  <2>4. CASE WriteTAC BY <2>4 DEF WriteTAC
  <2>5. CASE Acknowledge BY <2>5 DEF Acknowledge
  <2>6. CASE Run
    <3>1. PICK n \in CycleCounts :
            LET w == AddCycles(Word(TIMA, DIV), n)
            IN /\ DIV' = w % 256
               /\ TIMA' = (w \div 256 + (IF isRunning THEN 1 ELSE 0)) % 256
      BY <2>6 DEF Run
    <3> DEFINE w == AddCycles(Word(TIMA, DIV), n)
    <3>2. n \in Nat OBVIOUS
    <3>3. w \in Nat
      <4>1. Word(TIMA, DIV) \in Nat BY DEF Word
      <4> QED BY <3>2, <4>1, AddCyclesNat
    <3>4. DIV' \in 0 .. 255 /\ TIMA' \in 0 .. 255
      <4>1. DIV' = w % 256 /\ TIMA' = (w \div 256 + (IF isRunning THEN 1 ELSE 0)) % 256
        BY <3>1
      <4> HIDE DEF w
      <4> QED BY <3>3, <4>1
    <3>5. TMA' = TMA /\ TAC' = TAC /\ requested' = requested
          /\ pc' \in {"program", "while"}
      BY <2>6 DEF Run
    <3> QED BY <3>4, <3>5
  <2>7. CASE Round
    <3>1. TIMA' \in 0 .. 255 BY <2>7, RoundLowers
    <3>2. /\ DIV' = DIV /\ TMA' = TMA /\ TAC' = TAC /\ pc' = pc
          /\ requested' \in BOOLEAN
      BY <2>7 DEF Round
    <3> QED BY <3>1, <3>2
  <2>8. CASE Return BY <2>8 DEF Return
  <2>9. CASE UNCHANGED vars BY <2>9 DEF vars
  <2> QED BY <2>1, <2>2, <2>3, <2>4, <2>5, <2>6, <2>7, <2>8, <2>9 DEF Next
<1> QED BY <1>1, <1>2, PTL DEF Spec

\* The loop of run() has a variant: every round lowers TIMA, whatever TIMA,
\* TMA and TAC hold, unless TMA is one less than the period.
THEOREM LoopTerminates == Spec => LoopProgress
<1>1. TypeOK /\ [Next]_vars => [Round /\ TMA # Period - 1 => TIMA' < TIMA]_vars
  BY RoundLowers
<1> QED BY <1>1, TypeCorrect, PTL DEF Spec, LoopProgress
=============================================================================
