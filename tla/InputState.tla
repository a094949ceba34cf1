----------------------------- MODULE InputState -----------------------------
(* The walk through the inputs of one row of the tester's tables:           *)
(* next_state() of lib/inputstate.c, an odometer whose first wheel is IME.  *)
(* An operator F_Xyz is a faulty variant of F, used to test the properties. *)
EXTENDS Instructions, Naturals, Sequences, SequencesExt

vals8  == <<0, 1, 15, 16, 239, 240, 255>>
vals16 == <<0, 1, 15, 16, 255, 256, 4095, 4096, 65535>>
Registers16 == {"BC", "DE", "HL", "SP"}
Operands == <<"cond", "reg16", "reg8", "reg8_2", "bit">>
OperandWheels == Range(Operands)

\* The order in which next_state() turns the wheels.
Wheels_OperandsFirst ==
  Operands \o <<"IME", "F", "A", "BC", "DE", "HL", "SP", "imm">>
Wheels == <<"IME", "F", "A", "BC", "DE", "HL", "SP", "imm">> \o Operands
AllWheels == Range(Wheels)

\* What wheel w of row r shows in turn; one that is not enabled keeps its zero.
Shows(r, w) ==
  CASE w = "IME" -> IF w \in r.test THEN <<0, 1>> ELSE <<0>>
    [] w = "F"   -> IF w \in r.test THEN <<0, 16, 32, 64, 128>> ELSE <<0, 240>>
    [] w = "A"   -> vals8
    [] w = "imm" -> << <<0>>, vals8, vals16 >>[r.imm_size + 1]
    [] w \in Registers16 -> IF w \in r.test THEN vals16 ELSE <<0>>
    [] w \in OperandWheels ->
         IF w \in DOMAIN r.at THEN [i \in 1 .. Limit(w) |-> i - 1] ELSE <<0>>

ZeroInput == [w \in AllWheels |-> 0]

Place(r, v, w) == LET s == Shows(r, w) IN CHOOSE i \in DOMAIN s : s[i] = v[w]
AtEnd(r, v, w) == Place(r, v, w) = Len(Shows(r, w))
Turned_NoReset(r, v, w) ==
  IF ~AtEnd(r, v, w) THEN Shows(r, w)[Place(r, v, w) + 1]
  ELSE IF w \in DOMAIN r.at THEN Limit(w) ELSE Shows(r, w)[1]
Turned(r, v, w) ==
  IF AtEnd(r, v, w) THEN Shows(r, w)[1] ELSE Shows(r, w)[Place(r, v, w) + 1]

\* Whether the next wheel stays: next_bool() says so when IME turns back to
\* zero, the others when they do not.
Stops_Early(r, v, w) ==
  IF w = "IME" THEN w \in r.test /\ AtEnd(r, v, w)
  ELSE Place(r, v, w) < Len(Shows(r, w)) - 1
Stops_Always(r, v, w) == IF w = "IME" THEN w \in r.test ELSE ~AtEnd(r, v, w)
Stops(r, v, w) ==
  IF w = "IME" THEN w \in r.test /\ AtEnd(r, v, w) ELSE ~AtEnd(r, v, w)

LastTurned(r, v) == SelectInSeq(Wheels, LAMBDA w : Stops(r, v, w))  \* 0: all turn
next_state(r, v) ==
  LET n == LastTurned(r, v)
      turns(w) == n = 0 \/ \E i \in 1 .. n : Wheels[i] = w
  IN [w \in AllWheels |-> IF turns(w) THEN Turned(r, v, w) ELSE v[w]]

\* The number that the wheels show from the i-th on, and how many there are.
Numbers(r, v) ==
  LET up[i \in 1 .. Len(Wheels) + 1] ==
        IF i > Len(Wheels) THEN 0
        ELSE Place(r, v, Wheels[i]) - 1 + Len(Shows(r, Wheels[i])) * up[i + 1]
  IN up
Totals(r) ==
  LET up[i \in 1 .. Len(Wheels) + 1] ==
        IF i > Len(Wheels) THEN 1 ELSE Len(Shows(r, Wheels[i])) * up[i + 1]
  IN up
Number(r, v) == Numbers(r, v)[1]
Total(r) == Totals(r)[1]
=============================================================================
