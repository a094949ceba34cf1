---------------------------- MODULE Tester_proofs ----------------------------
(* The instruction tester, for all tables of rows and all failures: the walk *)
(* through a row's inputs, the coverage, the summaries and the exit code.    *)
(* The invariant has a part for the types, for the numbers that the walk has *)
(* come to, for the opcodes that have been counted and for the summaries;    *)
(* each step is shown for the first part, then with it for the next.  Last,  *)
(* the two tables themselves: they agree with the CPU and the disassembler.  *)
EXTENDS Tester, FiniteSetTheorems, SequenceTheorems, TLAPS

-----------------------------------------------------------------------------
(* The wheels and what they show.                                           *)

LEMMA WheelsAre ==
  /\ Len(Wheels) = 13 /\ Operands = <<"cond", "reg16", "reg8", "reg8_2", "bit">>
  /\ Wheels[1] = "IME" /\ Wheels[2] = "F" /\ Wheels[3] = "A" /\ Wheels[4] = "BC"
  /\ Wheels[5] = "DE" /\ Wheels[6] = "HL" /\ Wheels[7] = "SP" /\ Wheels[8] = "imm"
  /\ Wheels[9] = "cond" /\ Wheels[10] = "reg16" /\ Wheels[11] = "reg8"
  /\ Wheels[12] = "reg8_2" /\ Wheels[13] = "bit"
BY DEF Wheels, Operands

LEMMA WheelSets ==
  /\ DOMAIN Wheels = 1 .. 13
  /\ AllWheels = {Wheels[i] : i \in 1 .. 13}
  /\ OperandWheels = {"cond", "reg16", "reg8", "reg8_2", "bit"}
<1>1. DOMAIN Wheels = 1 .. 13
  BY DEF Wheels, Operands
<1>2. OperandWheels = {"cond", "reg16", "reg8", "reg8_2", "bit"}
  BY DEF OperandWheels, Operands, Range
<1> QED
  BY <1>1, <1>2 DEF AllWheels, Range

\* No wheel turns twice.
LEMMA WheelsOnce ==
  ASSUME NEW i \in 1 .. 13, NEW j \in 1 .. 13, Wheels[i] = Wheels[j]
  PROVE  i = j
BY WheelsAre

\* A list of values that begins with zero and has no value twice.
IsList(s) ==
  /\ Len(s) \in Nat \ {0} /\ DOMAIN s = 1 .. Len(s)
  /\ s[1] = 0 /\ \A i \in DOMAIN s : s[i] \in Nat
  /\ \A i, j \in DOMAIN s : s[i] = s[j] => i = j

LEMMA ListsAre ==
  /\ IsList(<<0>>) /\ IsList(<<0, 1>>) /\ IsList(<<0, 240>>) /\ IsList(<<0, 16, 32, 64, 128>>)
  /\ IsList(vals8) /\ IsList(vals16)
<1>1. IsList(<<0>>) /\ IsList(<<0, 1>>) /\ IsList(<<0, 240>>)
  BY DEF IsList
<1>2. IsList(<<0, 16, 32, 64, 128>>)
  BY DEF IsList
<1>3. IsList(vals8)
  BY DEF IsList, vals8
<1>4. IsList(vals16)
  BY DEF IsList, vals16
<1> QED
  BY <1>1, <1>2, <1>3, <1>4

LEMMA CountIs ==
  ASSUME NEW n \in Nat \ {0}
  PROVE  LET s == [i \in 1 .. n |-> i - 1] IN IsList(s) /\ Len(s) = n
<1> DEFINE s == [i \in 1 .. n |-> i - 1]
<1>1. s \in Seq(Int) /\ Len(s) = n
  OBVIOUS
<1> QED
  BY <1>1 DEF IsList

LEMMA ShowsList ==
  ASSUME NEW r, r.imm_size \in 0 .. 2, NEW w \in AllWheels
  PROVE  IsList(Shows(r, w))
<1>1. CASE w = "IME"
  <2>1. Shows(r, w) = IF w \in r.test THEN <<0, 1>> ELSE <<0>>
    BY <1>1, WheelSets DEF Shows, Registers16
  <2> QED
    BY <2>1, ListsAre, Zenon
<1>2. CASE w = "F"
  <2>1. Shows(r, w) = IF w \in r.test THEN <<0, 16, 32, 64, 128>> ELSE <<0, 240>>
    BY <1>2, WheelSets DEF Shows, Registers16
  <2> QED
    BY <2>1, ListsAre, Zenon
<1>3. CASE w = "A"
  <2>1. Shows(r, w) = vals8
    BY <1>3, WheelSets DEF Shows, Registers16
  <2> QED
    BY <2>1, ListsAre
<1>4. CASE w = "imm"
  <2>1. Shows(r, w) = << <<0>>, vals8, vals16 >>[r.imm_size + 1]
    BY <1>4, WheelSets DEF Shows, Registers16
  <2>2. r.imm_size + 1 \in 1 .. 3
    OBVIOUS
  <2>3. Shows(r, w) \in {<<0>>, vals8, vals16}
    BY <2>1, <2>2
  <2> QED
    BY <2>3, ListsAre, Zenon
<1>5. CASE w \in Registers16
  <2>1. Shows(r, w) = IF w \in r.test THEN vals16 ELSE <<0>>
    BY <1>5, WheelSets DEF Shows, Registers16
  <2> QED
    BY <2>1, ListsAre, Zenon
<1>6. CASE w \in OperandWheels
  <2>1. Limit(w) \in Nat \ {0}
    BY DEF Limit
  <2>2. Shows(r, w) = IF w \in DOMAIN r.at THEN [i \in 1 .. Limit(w) |-> i - 1] ELSE <<0>>
    BY <1>6, WheelSets DEF Shows, Registers16
  <2> QED
    BY <2>1, <2>2, CountIs, ListsAre
<1>7. w \in {"IME", "F", "A", "imm"} \cup Registers16 \cup OperandWheels
  BY WheelSets, WheelsAre DEF Registers16
<1> QED
  BY <1>1, <1>2, <1>3, <1>4, <1>5, <1>6, <1>7

\* The inputs of a row, and the digits of their numbers.
Inputs(r) == {v \in [AllWheels -> Nat] : \A w \in AllWheels : v[w] \in Range(Shows(r, w))}
Digit(r, v, i) == Place(r, v, Wheels[i]) - 1
Base(r, i) == Len(Shows(r, Wheels[i]))

LEMMA PlaceIs ==
  ASSUME NEW r, r.imm_size \in 0 .. 2, NEW v, NEW w \in AllWheels, v[w] \in Range(Shows(r, w))
  PROVE  Place(r, v, w) \in 1 .. Len(Shows(r, w)) /\ Shows(r, w)[Place(r, v, w)] = v[w]
<1> DEFINE s == Shows(r, w)
<1>1. IsList(s)
  BY ShowsList
<1> HIDE DEF s
<1>2. \E i \in DOMAIN s : s[i] = v[w]
  BY DEF Range, s
<1>3. Place(r, v, w) \in DOMAIN s /\ s[Place(r, v, w)] = v[w]
  BY <1>2, Zenon DEF Place, s
<1> QED
  BY <1>1, <1>3 DEF IsList, s

LEMMA PlaceOf ==
  ASSUME NEW r, r.imm_size \in 0 .. 2, NEW v, NEW w \in AllWheels,
         NEW k \in 1 .. Len(Shows(r, w)), v[w] = Shows(r, w)[k]
  PROVE  Place(r, v, w) = k
<1> DEFINE s == Shows(r, w)
<1>1. IsList(s)
  BY ShowsList
<1> HIDE DEF s
<1>2. k \in DOMAIN s /\ s[k] = v[w]
  BY <1>1 DEF IsList, s
<1>3. Place(r, v, w) \in DOMAIN s /\ s[Place(r, v, w)] = v[w]
  BY <1>2, Zenon DEF Place, s
<1> QED
  BY <1>1, <1>2, <1>3, Zenon DEF IsList

LEMMA DigitsFit ==
  ASSUME NEW r, r.imm_size \in 0 .. 2, NEW v \in Inputs(r), NEW i \in 1 .. 13
  PROVE  Base(r, i) \in Nat \ {0} /\ Digit(r, v, i) \in 0 .. Base(r, i) - 1
<1>1. Wheels[i] \in AllWheels
  BY WheelSets
<1>2. v[Wheels[i]] \in Range(Shows(r, Wheels[i]))
  BY <1>1 DEF Inputs
<1>3. Base(r, i) \in Nat \ {0}
  BY <1>1, ShowsList DEF IsList, Base
<1>4. Place(r, v, Wheels[i]) \in 1 .. Base(r, i)
  BY <1>1, <1>2, PlaceIs DEF Base
<1> QED
  BY <1>3, <1>4 DEF Digit

\* A number by its digits a[i] and their bases b[i], from the i-th on.
Composed(up, a, b, z) ==
  up = [i \in 1 .. 14 |-> IF i > 13 THEN z ELSE a[i] + b[i] * up[i + 1]]
LEMMA NumbersExist ==
  ASSUME NEW a, NEW b, NEW z
  PROVE  \E up : Composed(up, a, b, z)
<1> DEFINE u13 == a[13] + b[13] * z
           u12 == a[12] + b[12] * u13
           u11 == a[11] + b[11] * u12
           u10 == a[10] + b[10] * u11
           u9 == a[9] + b[9] * u10
           u8 == a[8] + b[8] * u9
           u7 == a[7] + b[7] * u8
           u6 == a[6] + b[6] * u7
           u5 == a[5] + b[5] * u6
           u4 == a[4] + b[4] * u5
           u3 == a[3] + b[3] * u4
           u2 == a[2] + b[2] * u3
           u1 == a[1] + b[1] * u2
           all == <<u1, u2, u3, u4, u5, u6, u7, u8, u9, u10, u11, u12, u13, z>>
           up == [i \in 1 .. 14 |-> all[i]]
           new == [i \in 1 .. 14 |-> IF i > 13 THEN z ELSE a[i] + b[i] * up[i + 1]]
<1>1. ASSUME NEW i \in 1 .. 14 PROVE up[i] = IF i > 13 THEN z ELSE a[i] + b[i] * up[i + 1]
  <2> HIDE DEF u1, u2, u3, u4, u5, u6, u7, u8, u9, u10, u11, u12, u13
  <2>1. /\ up[1] = u1 /\ up[2] = u2 /\ up[3] = u3 /\ up[4] = u4 /\ up[5] = u5 /\ up[6] = u6
        /\ up[7] = u7 /\ up[8] = u8 /\ up[9] = u9 /\ up[10] = u10 /\ up[11] = u11
        /\ up[12] = u12 /\ up[13] = u13 /\ up[14] = z
    OBVIOUS
  <2> HIDE DEF up
  <2>2. /\ up[1] = a[1] + b[1] * up[2] /\ up[2] = a[2] + b[2] * up[3]
        /\ up[3] = a[3] + b[3] * up[4] /\ up[4] = a[4] + b[4] * up[5]
        /\ up[5] = a[5] + b[5] * up[6] /\ up[6] = a[6] + b[6] * up[7]
        /\ up[7] = a[7] + b[7] * up[8] /\ up[8] = a[8] + b[8] * up[9]
        /\ up[9] = a[9] + b[9] * up[10] /\ up[10] = a[10] + b[10] * up[11]
        /\ up[11] = a[11] + b[11] * up[12] /\ up[12] = a[12] + b[12] * up[13]
        /\ up[13] = a[13] + b[13] * up[14]
    <3>1. /\ u1 = a[1] + b[1] * u2 /\ u2 = a[2] + b[2] * u3 /\ u3 = a[3] + b[3] * u4
          /\ u4 = a[4] + b[4] * u5 /\ u5 = a[5] + b[5] * u6 /\ u6 = a[6] + b[6] * u7
          /\ u7 = a[7] + b[7] * u8 /\ u8 = a[8] + b[8] * u9 /\ u9 = a[9] + b[9] * u10
          /\ u10 = a[10] + b[10] * u11 /\ u11 = a[11] + b[11] * u12
          /\ u12 = a[12] + b[12] * u13 /\ u13 = a[13] + b[13] * z
      BY Zenon DEF u1, u2, u3, u4, u5, u6, u7, u8, u9, u10, u11, u12, u13
    <3> QED
      BY <2>1, <3>1
  <2>3. i = 14 \/ (i \in 1 .. 13 /\ ~(i > 13))
    OBVIOUS
  <2>4. CASE i = 14
    BY <2>1, <2>4
  <2>5. CASE i \in 1 .. 13 /\ ~(i > 13)
    <3>1. up[i] = a[i] + b[i] * up[i + 1]
      <4>1. i \in {1, 2, 3, 4, 5, 6, 7, 8, 9, 10, 11, 12, 13}
        BY <2>5
      <4> QED
        BY <2>2, <4>1
    <3> QED
      BY <2>5, <3>1, Zenon
  <2> QED
    BY <2>3, <2>4, <2>5
<1>2. up = [i \in 1 .. 14 |-> up[i]]
  BY Zenon
<1> HIDE DEF up
<1>3. up = new
  BY <1>1, <1>2, Zenon
<1> QED
  BY <1>3, Zenon DEF Composed

LEMMA NumbersAre ==
  ASSUME NEW r, NEW v
  PROVE  /\ Numbers(r, v)[14] = 0
         /\ \A i \in 1 .. 13 :
              Numbers(r, v)[i] = Digit(r, v, i) + Base(r, i) * Numbers(r, v)[i + 1]
<1> DEFINE a == [i \in 1 .. 13 |-> Digit(r, v, i)]
           b == [i \in 1 .. 13 |-> Base(r, i)]
           P(up) == up = [i \in 1 .. 14 |-> IF i > 13 THEN 0
                                            ELSE Digit(r, v, i) + Base(r, i) * up[i + 1]]
<1>1. PICK up : Composed(up, a, b, 0)
  <2> HIDE DEF a, b
  <2> QED
    BY NumbersExist, Zenon
<1>2. P(up)
  <2>1. ASSUME NEW i \in 1 .. 14
        PROVE  (IF i > 13 THEN 0 ELSE a[i] + b[i] * up[i + 1])
               = (IF i > 13 THEN 0 ELSE Digit(r, v, i) + Base(r, i) * up[i + 1])
    <3>1. i > 13 \/ i \in 1 .. 13
      OBVIOUS
    <3> QED
      BY <3>1, Zenon
  <2> QED
    BY <1>1, <2>1, Zenon DEF Composed
<1>3. P(Numbers(r, v))
  <2>1. Numbers(r, v) = CHOOSE u : P(u)
    BY WheelsAre DEF Numbers, Digit, Base
  <2> HIDE DEF P
  <2> QED
    BY <1>2, <2>1, Zenon
<1> QED
  BY <1>3

LEMMA TotalsAre ==
  ASSUME NEW r, r.imm_size \in 0 .. 2
  PROVE  /\ Totals(r)[14] = 1
         /\ \A i \in 1 .. 13 : Totals(r)[i] = Base(r, i) * Totals(r)[i + 1]
         /\ \A i \in 1 .. 14 : Totals(r)[i] \in Nat \ {0}
<1> DEFINE a == [i \in 1 .. 13 |-> 0]
           b == [i \in 1 .. 13 |-> Base(r, i)]
           P(up) == up = [i \in 1 .. 14 |-> IF i > 13 THEN 1 ELSE Base(r, i) * up[i + 1]]
<1>1. ASSUME NEW i \in 1 .. 13 PROVE Base(r, i) \in Nat \ {0}
  BY WheelSets, ShowsList DEF IsList, Base
<1>2. PICK up : Composed(up, a, b, 1)
  <2> HIDE DEF a, b
  <2> QED
    BY NumbersExist, Zenon
<1>3. up[14] = 1 /\ \A i \in 1 .. 13 : up[i] = 0 + Base(r, i) * up[i + 1]
  BY <1>2 DEF Composed
<1>4. ASSUME NEW i \in 1 .. 13, up[i + 1] \in Nat PROVE up[i] \in Nat
  <2>1. Base(r, i) * up[i + 1] \in Nat
    BY <1>1, <1>4
  <2> QED
    BY <1>3, <2>1
<1>5. \A i \in 1 .. 14 : up[i] \in Nat
  <2>1. up[13] \in Nat /\ up[12] \in Nat /\ up[11] \in Nat /\ up[10] \in Nat
    BY <1>3, <1>4
  <2>2. up[9] \in Nat /\ up[8] \in Nat /\ up[7] \in Nat /\ up[6] \in Nat
    BY <2>1, <1>4
  <2>3. up[5] \in Nat /\ up[4] \in Nat /\ up[3] \in Nat /\ up[2] \in Nat /\ up[1] \in Nat
    BY <2>2, <1>4
  <2> QED
    BY <1>3, <2>1, <2>2, <2>3
<1>6. P(up)
  <2>1. ASSUME NEW i \in 1 .. 14
        PROVE  up[i] = IF i > 13 THEN 1 ELSE Base(r, i) * up[i + 1]
    <3>1. CASE i > 13
      BY <1>3, <3>1
    <3>2. CASE i \in 1 .. 13
      <4>1. Base(r, i) * up[i + 1] \in Int
        BY <1>1, <1>5, <3>2
      <4> QED
        BY <1>3, <3>2, <4>1
    <3> QED
      BY <3>1, <3>2
  <2>2. up = [i \in 1 .. 14 |-> up[i]]
    BY <1>2, Zenon DEF Composed
  <2> QED
    BY <2>1, <2>2, Zenon
<1>7. P(Totals(r))
  <2>1. Totals(r) = CHOOSE u : P(u)
    BY WheelsAre DEF Totals, Base
  <2> HIDE DEF P
  <2> QED
    BY <1>6, <2>1, Zenon
<1> DEFINE t == Totals(r)
<1>8. t[14] = 1 /\ \A i \in 1 .. 13 : t[i] = Base(r, i) * t[i + 1]
  BY <1>7
<1> HIDE DEF t
<1>9. ASSUME NEW i \in 1 .. 13, t[i + 1] \in Nat \ {0} PROVE t[i] \in Nat \ {0}
  <2>1. Base(r, i) * t[i + 1] \in Nat /\ Base(r, i) * t[i + 1] > 0
    BY <1>1, <1>9
  <2> QED
    BY <1>8, <2>1
<1>10. \A i \in 1 .. 14 : t[i] \in Nat \ {0}
  <2> DEFINE Q(i) == t[i] \in Nat \ {0}
  <2>1. Q(14)
    BY <1>8
  <2>2. Q(13) /\ Q(12) /\ Q(11) /\ Q(10)
    BY <1>9, <2>1
  <2>3. Q(9) /\ Q(8) /\ Q(7) /\ Q(6)
    BY <2>2, <1>9
  <2>4. Q(5) /\ Q(4) /\ Q(3) /\ Q(2) /\ Q(1)
    BY <2>3, <1>9
  <2> HIDE DEF Q
  <2>5. \A i \in 1 .. 14 : Q(i)
    BY <2>1, <2>2, <2>3, <2>4
  <2> QED
    BY <2>5 DEF Q
<1> QED
  BY <1>8, <1>10 DEF t

\* One digit d of base b below a number u of at most m values.
LEMMA DigitFits ==
  ASSUME NEW b \in Nat \ {0}, NEW d \in 0 .. b - 1, NEW m \in Nat \ {0}, NEW u \in 0 .. m - 1
  PROVE  /\ b * m \in Nat \ {0} /\ d + b * u \in 0 .. b * m - 1
         /\ d + b * u = b * m - 1 <=> d = b - 1 /\ u = m - 1
<1> DEFINE k == m - 1 - u
<1>1. k \in Nat /\ u \in Nat /\ m = u + 1 + k
  OBVIOUS
<1> HIDE DEF k
<1>2. b * m = b * u + b + b * k
  BY <1>1
<1>3. b * u \in Nat /\ b * k \in Nat
  BY <1>1
<1>4. b * k = 0 <=> k = 0
  BY <1>1
<1> DEFINE x == b * u
           y == b * k
           z == b * m
<1>5. x \in Nat /\ y \in Nat /\ z = x + b + y /\ (y = 0 <=> k = 0)
  BY <1>2, <1>3, <1>4
<1> HIDE DEF x, y, z
<1>6. /\ z \in Nat \ {0} /\ d + x \in 0 .. z - 1
      /\ d + x = z - 1 <=> d = b - 1 /\ u = m - 1
  BY <1>1, <1>5
<1> QED
  BY <1>6 DEF x, z

LEMMA DigitUnique ==
  ASSUME NEW b \in Nat \ {0}, NEW d \in 0 .. b - 1, NEW e \in 0 .. b - 1,
         NEW u \in Nat, NEW w \in Nat, d + b * u = e + b * w
  PROVE  d = e /\ u = w
<1>1. ASSUME NEW x \in Nat, NEW y \in Nat, NEW f \in 0 .. b - 1, NEW g \in 0 .. b - 1, x < y
      PROVE  f + b * x < g + b * y
  <2>1. PICK k \in Nat : y = x + 1 + k
    <3>1. y - x - 1 \in Nat /\ y = x + 1 + (y - x - 1)
      BY <1>1
    <3> QED
      BY <3>1
  <2>2. b * y = b * x + b + b * k
    BY <2>1
  <2>3. b * x \in Nat /\ b * k \in Nat /\ b * y \in Nat
    OBVIOUS
  <2> QED
    BY <2>2, <2>3
<1>2. u = w
  BY <1>1
<1>3. b * u \in Int
  OBVIOUS
<1> QED
  BY <1>2, <1>3

LEMMA DigitTurns ==
  ASSUME NEW b \in Nat \ {0}, NEW d \in 0 .. b - 1, NEW m \in Nat \ {0}, NEW u \in 0 .. m - 1,
         NEW turn \in BOOLEAN
  PROVE  LET carry == turn /\ d = b - 1
             d2 == IF ~turn THEN d ELSE IF d = b - 1 THEN 0 ELSE d + 1
             u2 == IF ~carry THEN u ELSE IF u = m - 1 THEN 0 ELSE u + 1
             n == d + b * u
         IN  d2 + b * u2 = IF ~turn THEN n ELSE IF n = b * m - 1 THEN 0 ELSE n + 1
<1>1. d + b * u = b * m - 1 <=> d = b - 1 /\ u = m - 1
  BY DigitFits
<1>2. b * u \in Int /\ b * 0 = 0 /\ b * (u + 1) = b * u + b
  OBVIOUS
<1>3. CASE ~turn
  BY <1>3
<1>4. CASE turn /\ d # b - 1
  BY <1>1, <1>2, <1>4
<1>5. CASE turn /\ d = b - 1 /\ u # m - 1
  BY <1>1, <1>2, <1>5
<1>6. CASE turn /\ d = b - 1 /\ u = m - 1
  BY <1>1, <1>2, <1>6
<1> QED
  BY <1>3, <1>4, <1>5, <1>6

-----------------------------------------------------------------------------
(* A turn of the wheels is the next number.                                 *)

LEMMA LastTurnedIs ==
  ASSUME NEW r, NEW v
  PROVE  LET n == LastTurned(r, v)
         IN  /\ n \in 0 .. 13
             /\ n # 0 => Stops(r, v, Wheels[n])
             /\ \A i \in 1 .. 13 : n = 0 \/ i < n => ~Stops(r, v, Wheels[i])
<1> DEFINE I == {i \in 1 .. 13 : Stops(r, v, Wheels[i])}
           n == LastTurned(r, v)
<1>1. n = IF I # {} THEN Min(I) ELSE 0
  BY WheelsAre, Zenon DEF LastTurned, SelectInSeq
<1>2. CASE I = {}
  BY <1>1, <1>2
<1>3. CASE I # {}
  <2>1. \E x \in I : \A y \in I : x <= y
    <3>1. SUFFICES ASSUME \A x \in I : \E y \in I : y < x
                   PROVE  FALSE
      OBVIOUS
    <3>2. I \subseteq 1 .. 13
      OBVIOUS
    <3> HIDE DEF I
    <3>3. 1 \notin I
      BY <3>1, <3>2
    <3>4. 2 \notin I /\ 3 \notin I /\ 4 \notin I /\ 5 \notin I
      BY <3>1, <3>2, <3>3
    <3>5. 6 \notin I /\ 7 \notin I /\ 8 \notin I /\ 9 \notin I
      BY <3>1, <3>2, <3>3, <3>4
    <3>6. 10 \notin I /\ 11 \notin I /\ 12 \notin I /\ 13 \notin I
      BY <3>1, <3>2, <3>3, <3>4, <3>5
    <3>7. I = {}
      BY <3>2, <3>3, <3>4, <3>5, <3>6
    <3> QED
      BY <1>3, <3>7
  <2> HIDE DEF I
  <2>2. Min(I) \in I /\ \A y \in I : Min(I) <= y
    BY <2>1, Zenon DEF Min
  <2>3. n \in I /\ \A y \in I : n <= y
    BY <1>1, <1>3, <2>2
  <2> HIDE DEF n
  <2> QED
    BY <2>3 DEF I, n
<1> QED
  BY <1>2, <1>3

\* Whether the i-th wheel turns.
Turns(r, v, i) == LastTurned(r, v) = 0 \/ i <= LastTurned(r, v)

LEMMA DigitTurned ==
  ASSUME NEW r, r.imm_size \in 0 .. 2, NEW v \in Inputs(r), NEW i \in 1 .. 13
  PROVE  /\ next_state(r, v)[Wheels[i]] \in Nat
         /\ next_state(r, v)[Wheels[i]] \in Range(Shows(r, Wheels[i]))
         /\ Digit(r, next_state(r, v), i) =
              IF ~Turns(r, v, i) THEN Digit(r, v, i)
              ELSE IF Digit(r, v, i) = Base(r, i) - 1 THEN 0 ELSE Digit(r, v, i) + 1
<1> DEFINE w == Wheels[i]
           s == Shows(r, w)
           p == Place(r, v, w)
           x == next_state(r, v)
           k == IF ~Turns(r, v, i) THEN p ELSE IF p = Len(s) THEN 1 ELSE p + 1
<1>1. w \in AllWheels /\ v[w] \in Range(s)
  BY WheelSets DEF Inputs
<1>2. IsList(s)
  BY <1>1, ShowsList
<1>3. p \in 1 .. Len(s) /\ s[p] = v[w]
  BY <1>1, PlaceIs
<1>4. x[w] = IF Turns(r, v, i) THEN Turned(r, v, w) ELSE v[w]
  <2> DEFINE n == LastTurned(r, v)
  <2>1. n \in 0 .. 13
    BY LastTurnedIs
  <2>2. x[w] = IF n = 0 \/ \E j \in 1 .. n : Wheels[j] = w THEN Turned(r, v, w) ELSE v[w]
    BY <1>1, Zenon DEF next_state
  <2> HIDE DEF n
  <2>3. \A j \in 1 .. n : j \in 1 .. 13
    BY <2>1
  <2>4. (\E j \in 1 .. n : Wheels[j] = w) <=> i <= n
    BY <2>1, <2>3, WheelsOnce
  <2> QED
    BY <2>2, <2>4, Zenon DEF Turns, n
<1>5. Turned(r, v, w) = IF p = Len(s) THEN s[1] ELSE s[p + 1]
  BY Zenon DEF Turned, AtEnd
<1> HIDE DEF w, s, p, x
<1>6. k \in 1 .. Len(s) /\ x[w] = s[k]
  <2>1. Len(s) \in Nat \ {0}
    BY <1>2 DEF IsList
  <2>2. CASE ~Turns(r, v, i)
    BY <1>3, <1>4, <2>2
  <2>3. CASE Turns(r, v, i) /\ p = Len(s)
    BY <1>3, <1>4, <1>5, <2>1, <2>3
  <2>4. CASE Turns(r, v, i) /\ p # Len(s)
    BY <1>3, <1>4, <1>5, <2>1, <2>4
  <2> QED
    BY <2>2, <2>3, <2>4
<1> HIDE DEF k
<1>7. Place(r, x, w) = k
  BY <1>1, <1>6, PlaceOf DEF s
<1>8. x[w] \in Nat /\ x[w] \in Range(s)
  BY <1>2, <1>6, Zenon DEF IsList, Range
<1>9. Digit(r, x, i) = k - 1 /\ Digit(r, v, i) = p - 1 /\ Base(r, i) = Len(s)
  BY <1>7, Zenon DEF Digit, Base, w, s, p
<1>10. Len(s) \in Nat \ {0}
  BY <1>2 DEF IsList
<1>11. k - 1 = IF ~Turns(r, v, i) THEN p - 1
               ELSE IF p - 1 = Len(s) - 1 THEN 0 ELSE p - 1 + 1
  BY <1>3, <1>10 DEF k
<1> QED
  BY <1>8, <1>9, <1>11, Zenon DEF x, w, s

LEMMA TurnedInput ==
  ASSUME NEW r, r.imm_size \in 0 .. 2, NEW v \in Inputs(r)
  PROVE  next_state(r, v) \in Inputs(r)
<1> DEFINE x == next_state(r, v)
<1>1. \A w \in AllWheels : x[w] \in Nat /\ x[w] \in Range(Shows(r, w))
  BY DigitTurned, WheelSets
<1>2. x = [w \in AllWheels |-> x[w]]
  BY Zenon DEF next_state
<1> HIDE DEF x
<1>3. x \in [AllWheels -> Nat]
  BY <1>1, <1>2, Zenon
<1> QED
  BY <1>1, <1>3, Zenon DEF Inputs, x

LEMMA NumbersFit ==
  ASSUME NEW r, r.imm_size \in 0 .. 2, NEW v \in Inputs(r)
  PROVE  \A i \in 1 .. 14 : /\ Numbers(r, v)[i] \in Nat
                            /\ Numbers(r, v)[i] \in 0 .. Totals(r)[i] - 1
<1> DEFINE u == Numbers(r, v)
           t == Totals(r)
           Q(i) == u[i] \in 0 .. t[i] - 1
<1>1. ASSUME NEW i \in 1 .. 13, Q(i + 1) PROVE Q(i)
  <2>1. i + 1 \in 1 .. 14
    OBVIOUS
  <2>2. t[i + 1] \in Nat \ {0} /\ t[i] = Base(r, i) * t[i + 1]
    BY <2>1, TotalsAre
  <2>3. u[i] = Digit(r, v, i) + Base(r, i) * u[i + 1]
    BY NumbersAre
  <2>4. Base(r, i) \in Nat \ {0} /\ Digit(r, v, i) \in 0 .. Base(r, i) - 1
    BY DigitsFit
  <2>5. Digit(r, v, i) + Base(r, i) * u[i + 1] \in 0 .. Base(r, i) * t[i + 1] - 1
    BY <1>1, <2>2, <2>4, DigitFits
  <2> QED
    BY <2>2, <2>3, <2>5
<1>2. Q(14)
  BY NumbersAre, TotalsAre
<1>3. t[1] \in Nat /\ \A i \in 1 .. 14 : t[i] \in Nat
  BY TotalsAre
<1>4. Q(13) /\ Q(12) /\ Q(11) /\ Q(10) /\ Q(9)
  BY <1>1, <1>2
<1>5. Q(8) /\ Q(7) /\ Q(6) /\ Q(5)
  BY <1>1, <1>4
<1>6. Q(4) /\ Q(3) /\ Q(2) /\ Q(1)
  BY <1>1, <1>5
<1> HIDE DEF Q
<1>7. \A i \in 1 .. 14 : Q(i)
  BY <1>2, <1>4, <1>5, <1>6
<1> QED
  BY <1>3, <1>7 DEF Q

\* A wheel but the first hands on at its end, and the first as Stops says.
LEMMA HandsOn ==
  ASSUME NEW r, r.imm_size \in 0 .. 2, NEW v \in Inputs(r)
  PROVE  /\ Turns(r, v, 1)
         /\ Turns(r, v, 2) <=> ~("IME" \in r.test /\ Digit(r, v, 1) = Base(r, 1) - 1)
         /\ \A i \in 2 .. 13 :
              Turns(r, v, i + 1) <=> Turns(r, v, i) /\ Digit(r, v, i) = Base(r, i) - 1
<1> DEFINE n == LastTurned(r, v)
<1>1. /\ n \in 0 .. 13
      /\ n # 0 => Stops(r, v, Wheels[n])
      /\ \A i \in 1 .. 13 : n = 0 \/ i < n => ~Stops(r, v, Wheels[i])
  BY LastTurnedIs
<1>2. \A i \in 1 .. 14 : Turns(r, v, i) <=> n = 0 \/ i <= n
  BY DEF Turns
<1> HIDE DEF n
<1>3. ASSUME NEW i \in 1 .. 13
      PROVE  AtEnd(r, v, Wheels[i]) <=> Digit(r, v, i) = Base(r, i) - 1
  <2>1. Wheels[i] \in AllWheels
    BY WheelSets
  <2>2. Place(r, v, Wheels[i]) \in 1 .. Len(Shows(r, Wheels[i]))
    BY <2>1, PlaceIs DEF Inputs
  <2>3. Len(Shows(r, Wheels[i])) \in Nat
    BY <2>1, ShowsList DEF IsList
  <2> QED
    BY <2>2, <2>3 DEF AtEnd, Digit, Base
<1>4. Stops(r, v, Wheels[1]) <=> "IME" \in r.test /\ Digit(r, v, 1) = Base(r, 1) - 1
  BY <1>3, WheelsAre DEF Stops
<1>5. ASSUME NEW i \in 2 .. 13
      PROVE  Stops(r, v, Wheels[i]) <=> Digit(r, v, i) # Base(r, i) - 1
  <2>1. Wheels[i] # "IME" /\ i \in 1 .. 13
    BY WheelsAre, WheelsOnce
  <2> QED
    BY <1>3, <2>1 DEF Stops
<1>6. Turns(r, v, 1)
  BY <1>1, <1>2
<1>7. Turns(r, v, 2) <=> ~Stops(r, v, Wheels[1])
  BY <1>1, <1>2
<1>8. ASSUME NEW i \in 2 .. 13
      PROVE  Turns(r, v, i + 1) <=> Turns(r, v, i) /\ ~Stops(r, v, Wheels[i])
  <2>1. /\ Turns(r, v, i) <=> n = 0 \/ i <= n
        /\ Turns(r, v, i + 1) <=> n = 0 \/ i + 1 <= n
    BY <1>2
  <2>2. CASE n = 0 \/ i < n
    BY <1>1, <2>1, <2>2
  <2>3. CASE n # 0 /\ i = n
    BY <1>1, <2>1, <2>3
  <2>4. CASE n # 0 /\ i > n
    BY <1>1, <2>1, <2>4
  <2> QED
    BY <1>1, <2>2, <2>3, <2>4
<1> QED
  BY <1>4, <1>5, <1>6, <1>7, <1>8

\* The wheels from the i-th on turn to the next number, or all back to zero.
Carries(r, v, i) ==
  LET u == Numbers(r, v)[i]
      last == u = Totals(r)[i] - 1
  IN /\ Numbers(r, next_state(r, v))[i] =
          IF ~Turns(r, v, i) THEN u ELSE IF last THEN 0 ELSE u + 1
     /\ Turns(r, v, i) /\ last <=> LastTurned(r, v) = 0

LEMMA CarriesOn ==
  ASSUME NEW r, r.imm_size \in 0 .. 2, NEW v \in Inputs(r), NEW i \in 2 .. 13,
         NEW j, j = i + 1, Carries(r, v, j)
  PROVE  Carries(r, v, i)
<1> DEFINE b == Base(r, i)
           d == Digit(r, v, i)
           m == Totals(r)[j]
           u == Numbers(r, v)[j]
           turn == Turns(r, v, i)
           carry == Turns(r, v, j)
           x == next_state(r, v)
           d2 == Digit(r, x, i)
           u2 == Numbers(r, x)[j]
           zero == LastTurned(r, v) = 0
<1>1. i \in 1 .. 13 /\ j \in 1 .. 14
  OBVIOUS
<1>2. b \in Nat \ {0} /\ d \in 0 .. b - 1
  BY <1>1, DigitsFit
<1>3. m \in Nat \ {0} /\ u \in 0 .. m - 1
  BY <1>1, NumbersFit, TotalsAre
<1>4. carry <=> turn /\ d = b - 1
  BY HandsOn
<1>5. /\ Numbers(r, v)[i] = d + b * u /\ Numbers(r, x)[i] = d2 + b * u2
      /\ Totals(r)[i] = b * m
  BY <1>1, NumbersAre, TotalsAre
<1>6. d2 = IF ~turn THEN d ELSE IF d = b - 1 THEN 0 ELSE d + 1
  BY <1>1, DigitTurned
<1>7. /\ u2 = IF ~carry THEN u ELSE IF u = m - 1 THEN 0 ELSE u + 1
      /\ carry /\ u = m - 1 <=> zero
  BY Zenon DEF Carries
<1>8. zero => turn
  BY DEF Turns
<1> HIDE DEF b, d, m, u, turn, carry, x, d2, u2, zero
<1>9. d + b * u = b * m - 1 <=> d = b - 1 /\ u = m - 1
  BY <1>2, <1>3, DigitFits
<1> DEFINE y == d + b * u
<1>10. d2 + b * u2 = IF ~turn THEN y ELSE IF y = b * m - 1 THEN 0 ELSE y + 1
  <2>1. turn \in BOOLEAN
    BY DEF turn, Turns
  <2> QED
    BY <1>2, <1>3, <1>4, <1>6, <1>7, <2>1, DigitTurns
<1>11. turn /\ y = b * m - 1 <=> zero
  BY <1>4, <1>7, <1>8, <1>9
<1> HIDE DEF y
<1>12. Numbers(r, v)[i] = y
  BY <1>5, Zenon DEF y
<1> QED
  BY <1>5, <1>10, <1>11, <1>12, Zenon DEF Carries, turn, x, zero

LEMMA NextNumbers ==
  ASSUME NEW r, r.imm_size \in 0 .. 2, NEW v \in Inputs(r)
  PROVE  \A i \in 2 .. 14 : Carries(r, v, i)
<1> DEFINE Q(i) == Carries(r, v, i)
<1>1. ASSUME NEW i \in 2 .. 13, NEW j, j = i + 1, Q(j) PROVE Q(i)
  BY <1>1, CarriesOn
<1>2. Q(14)
  <2>1. LastTurned(r, v) \in 0 .. 13
    BY LastTurnedIs
  <2>2. Turns(r, v, 14) <=> LastTurned(r, v) = 0
    BY <2>1 DEF Turns
  <2>3. /\ Numbers(r, v)[14] = 0 /\ Numbers(r, next_state(r, v))[14] = 0
        /\ Totals(r)[14] = 1
    BY NumbersAre, TotalsAre
  <2> QED
    BY <2>2, <2>3 DEF Carries
<1> HIDE DEF Q
<1>3. Q(13) BY <1>1, <1>2
<1>4. Q(12) BY <1>1, <1>3
<1>5. Q(11) BY <1>1, <1>4
<1>6. Q(10) BY <1>1, <1>5
<1>7. Q(9) BY <1>1, <1>6
<1>8. Q(8) BY <1>1, <1>7
<1>9. Q(7) BY <1>1, <1>8
<1>10. Q(6) BY <1>1, <1>9
<1>11. Q(5) BY <1>1, <1>10
<1>12. Q(4) BY <1>1, <1>11
<1>13. Q(3) BY <1>1, <1>12
<1>14. Q(2) BY <1>1, <1>13
<1>15. \A i \in 2 .. 14 : Q(i)
  BY <1>2, <1>3, <1>4, <1>5, <1>6, <1>7, <1>8, <1>9, <1>10, <1>11, <1>12, <1>13, <1>14
<1> QED
  BY <1>15 DEF Q

-----------------------------------------------------------------------------
(* The order in which the walk comes to the numbers: those whose IME is one  *)
(* come before those whose IME is zero and which are one less.               *)

Rank(r, n) == IF "IME" \in r.test THEN n - 2 * (n % 2) ELSE n

LEMMA FirstWheel ==
  ASSUME NEW r
  PROVE  Base(r, 1) = IF "IME" \in r.test THEN 2 ELSE 1
<1>1. Shows(r, "IME") = IF "IME" \in r.test THEN <<0, 1>> ELSE <<0>>
  BY WheelSets DEF Shows, Registers16
<1>2. Len(<<0, 1>>) = 2 /\ Len(<<0>>) = 1
  OBVIOUS
<1> QED
  BY <1>1, <1>2, WheelsAre DEF Base

LEMMA RankIs ==
  ASSUME NEW r, NEW n \in Nat
  PROVE  /\ Rank(r, n) \in Int /\ Rank(r, n) <= n
         /\ "IME" \notin r.test => Rank(r, n) = n
         /\ \A d \in 0 .. 1, u \in Nat :
              n = d + 2 * u /\ "IME" \in r.test => Rank(r, n) = 2 * u - d
         /\ Rank(r, n) < 0 <=> n = 1 /\ "IME" \in r.test
<1>1. n % 2 \in 0 .. 1
  OBVIOUS
<1>2. \A d \in 0 .. 1, u \in Nat : n = d + 2 * u => n - 2 * (n % 2) = 2 * u - d
  OBVIOUS
<1>3. n - 2 * (n % 2) < 0 <=> n = 1
  OBVIOUS
<1> QED
  BY <1>1, <1>2, <1>3 DEF Rank

LEMMA RankUnique ==
  ASSUME NEW r, NEW n \in Nat, NEW m \in Nat, Rank(r, n) = Rank(r, m)
  PROVE  n = m
<1>1. n - 2 * (n % 2) = m - 2 * (m % 2) => n = m
  OBVIOUS
<1> QED
  BY <1>1 DEF Rank

\* A turn goes to the next rank, and the last one is the highest.
LEMMA NextNumber ==
  ASSUME NEW r, r.imm_size \in 0 .. 2, NEW v \in Inputs(r)
  PROVE  /\ Number(r, v) \in 0 .. Total(r) - 1 /\ Total(r) \in Nat \ {0}
         /\ Number(r, next_state(r, v)) \in Nat
         /\ LastTurned(r, v) # 0 =>
              Rank(r, Number(r, next_state(r, v))) = Rank(r, Number(r, v)) + 1
         /\ LastTurned(r, v) = 0 =>
              \A n \in 0 .. Total(r) - 1 : Rank(r, n) <= Rank(r, Number(r, v))
<1> DEFINE x == next_state(r, v)
           b == Base(r, 1)
           d == Digit(r, v, 1)
           d2 == Digit(r, x, 1)
           u == Numbers(r, v)[2]
           u2 == Numbers(r, x)[2]
           m == Totals(r)[2]
           n == Number(r, v)
           n2 == Number(r, x)
           zero == LastTurned(r, v) = 0
           turn == Turns(r, v, 2)
           ime == "IME" \in r.test
<1>1. b = IF ime THEN 2 ELSE 1
  BY FirstWheel
<1>2. d \in 0 .. b - 1
  BY DigitsFit
<1>3. m \in Nat \ {0} /\ u \in 0 .. m - 1 /\ u2 \in Nat
  BY NumbersFit, TotalsAre, TurnedInput
<1>4. d2 = IF d = b - 1 THEN 0 ELSE d + 1
  BY DigitTurned, HandsOn
<1>5. turn <=> ~(ime /\ d = b - 1)
  BY HandsOn
<1>6. /\ u2 = IF ~turn THEN u ELSE IF u = m - 1 THEN 0 ELSE u + 1
      /\ turn /\ u = m - 1 <=> zero
  <2>1. Carries(r, v, 2)
    BY NextNumbers
  <2> QED
    BY <2>1, Zenon DEF Carries
<1>7. n = d + b * u /\ n2 = d2 + b * u2 /\ Total(r) = b * m
  <2>1. 1 \in 1 .. 13 /\ 1 + 1 = 2
    OBVIOUS
  <2> QED
    BY <2>1, NumbersAre, TotalsAre DEF Number, Total
<1>8. Number(r, v) \in 0 .. Total(r) - 1 /\ Total(r) \in Nat \ {0} /\ n2 \in Nat
  BY NumbersFit, TotalsAre, TurnedInput DEF Number, Total
<1> HIDE DEF x, b, d, d2, u, u2, m, n, n2, zero, turn
<1>9. CASE ime
  <2>1. n \in Nat /\ n = d + 2 * u /\ n2 = d2 + 2 * u2 /\ Total(r) = 2 * m
    BY <1>1, <1>7, <1>8, <1>9 DEF n
  <2>2. Rank(r, n) = 2 * u - d
    BY <1>1, <1>2, <1>3, <1>9, <2>1, RankIs
  <2>3. d2 \in 0 .. 1 /\ Rank(r, n2) = 2 * u2 - d2
    <3>1. d2 \in 0 .. 1
      BY <1>1, <1>2, <1>4, <1>9
    <3> QED
      BY <1>3, <1>8, <1>9, <2>1, <3>1, RankIs
  <2>4. ~zero => Rank(r, n2) = Rank(r, n) + 1
    BY <1>1, <1>2, <1>3, <1>4, <1>5, <1>6, <1>9, <2>2, <2>3
  <2>5. ASSUME zero, NEW k \in 0 .. Total(r) - 1 PROVE Rank(r, k) <= Rank(r, n)
    <3>1. PICK e \in 0 .. 1, w \in Nat : k = e + 2 * w
      <4>1. k % 2 \in 0 .. 1 /\ k \div 2 \in Nat /\ k = (k % 2) + 2 * (k \div 2)
        BY <1>8
      <4> QED
        BY <4>1
    <3>2. Rank(r, k) = 2 * w - e
      BY <1>8, <1>9, <3>1, RankIs
    <3> QED
      BY <1>1, <1>2, <1>3, <1>5, <1>6, <1>9, <2>1, <2>2, <2>5, <3>1, <3>2
  <2> QED
    BY <1>8, <2>4, <2>5 DEF n, n2, x, zero
<1>10. CASE ~ime
  <2>1. n = u /\ n2 = u2 /\ Total(r) = m /\ turn
    BY <1>1, <1>2, <1>3, <1>4, <1>5, <1>7, <1>10
  <2>2. n \in Nat /\ n2 \in Nat
    BY <1>8 DEF n
  <2>3. Rank(r, n) = n /\ Rank(r, n2) = n2
    BY <1>10, <2>2, RankIs
  <2>4. ~zero => Rank(r, n2) = Rank(r, n) + 1
    BY <1>3, <1>6, <2>1, <2>3
  <2>5. ASSUME zero, NEW k \in 0 .. Total(r) - 1 PROVE Rank(r, k) <= Rank(r, n)
    BY <1>3, <1>6, <1>8, <1>10, <2>1, <2>3, <2>5, RankIs
  <2> QED
    BY <1>8, <2>4, <2>5 DEF n, n2, x, zero
<1> QED
  BY <1>9, <1>10

-----------------------------------------------------------------------------
(* What an input's number and its opcode tell of it.                        *)

LEMMA SameNumbers ==
  ASSUME NEW r, r.imm_size \in 0 .. 2, NEW v \in Inputs(r), NEW x \in Inputs(r),
         NEW i \in 1 .. 13, Numbers(r, v)[i] = Numbers(r, x)[i]
  PROVE  \A j \in i .. 13 : v[Wheels[j]] = x[Wheels[j]]
<1> DEFINE E(j) == j < i \/ Numbers(r, v)[j] = Numbers(r, x)[j]
           S(j) == j < i \/ v[Wheels[j]] = x[Wheels[j]]
<1>1. ASSUME NEW j \in 1 .. 13, NEW k, k = j + 1, E(j) PROVE S(j) /\ E(k)
  <2>1. CASE j < i
    BY <1>1, <2>1
  <2>2. CASE ~(j < i)
    <3>1. Wheels[j] \in AllWheels /\ k \in 1 .. 14
      BY <1>1, WheelSets
    <3>2. /\ Numbers(r, v)[j] = Digit(r, v, j) + Base(r, j) * Numbers(r, v)[k]
          /\ Numbers(r, x)[j] = Digit(r, x, j) + Base(r, j) * Numbers(r, x)[k]
      BY <1>1, NumbersAre
    <3>3. Numbers(r, v)[k] \in Nat /\ Numbers(r, x)[k] \in Nat
      BY <3>1, NumbersFit
    <3>4. /\ Base(r, j) \in Nat \ {0} /\ Digit(r, v, j) \in 0 .. Base(r, j) - 1
          /\ Digit(r, x, j) \in 0 .. Base(r, j) - 1
      BY DigitsFit
    <3>5. Digit(r, v, j) = Digit(r, x, j) /\ Numbers(r, v)[k] = Numbers(r, x)[k]
      <4>1. Digit(r, v, j) + Base(r, j) * Numbers(r, v)[k]
            = Digit(r, x, j) + Base(r, j) * Numbers(r, x)[k]
        BY <1>1, <2>2, <3>2, Zenon
      <4> DEFINE b == Base(r, j)
                 d == Digit(r, v, j)
                 e == Digit(r, x, j)
                 p == Numbers(r, v)[k]
                 q == Numbers(r, x)[k]
      <4>2. b \in Nat \ {0} /\ d \in 0 .. b - 1 /\ e \in 0 .. b - 1 /\ p \in Nat /\ q \in Nat
        BY <3>3, <3>4
      <4>3. d + b * p = e + b * q
        BY <4>1
      <4> HIDE DEF b, d, e, p, q
      <4>4. d = e /\ p = q
        BY <4>2, <4>3, DigitUnique
      <4> QED
        BY <4>4 DEF d, e, p, q
    <3>6. /\ Place(r, v, Wheels[j]) \in Int /\ Place(r, x, Wheels[j]) \in Int
          /\ Shows(r, Wheels[j])[Place(r, v, Wheels[j])] = v[Wheels[j]]
          /\ Shows(r, Wheels[j])[Place(r, x, Wheels[j])] = x[Wheels[j]]
      BY <3>1, PlaceIs, ShowsList DEF Inputs, IsList
    <3>7. Place(r, v, Wheels[j]) = Place(r, x, Wheels[j])
      BY <3>5, <3>6 DEF Digit
    <3> QED
      BY <3>5, <3>6, <3>7
  <2> QED
    BY <2>1, <2>2
<1>2. E(1)
  OBVIOUS
<1> HIDE DEF E, S
<1>3. S(1) /\ E(2) BY <1>1, <1>2
<1>4. S(2) /\ E(3) BY <1>1, <1>3
<1>5. S(3) /\ E(4) BY <1>1, <1>4
<1>6. S(4) /\ E(5) BY <1>1, <1>5
<1>7. S(5) /\ E(6) BY <1>1, <1>6
<1>8. S(6) /\ E(7) BY <1>1, <1>7
<1>9. S(7) /\ E(8) BY <1>1, <1>8
<1>10. S(8) /\ E(9) BY <1>1, <1>9
<1>11. S(9) /\ E(10) BY <1>1, <1>10
<1>12. S(10) /\ E(11) BY <1>1, <1>11
<1>13. S(11) /\ E(12) BY <1>1, <1>12
<1>14. S(12) /\ E(13) BY <1>1, <1>13
<1>15. S(13) BY <1>1, <1>14
<1>16. \A j \in 1 .. 13 : S(j)
  BY <1>3, <1>4, <1>5, <1>6, <1>7, <1>8, <1>9, <1>10, <1>11, <1>12, <1>13, <1>14, <1>15
<1>17. \A j \in i .. 13 : j \in 1 .. 13 /\ ~(j < i)
  OBVIOUS
<1> QED
  BY <1>16, <1>17, Zenon DEF S

LEMMA ZeroIs ==
  ASSUME NEW r, r.imm_size \in 0 .. 2
  PROVE  ZeroInput \in Inputs(r) /\ Number(r, ZeroInput) = 0
<1>1. ASSUME NEW w \in AllWheels
      PROVE  /\ ZeroInput[w] = 0 /\ ZeroInput[w] \in Range(Shows(r, w))
             /\ Place(r, ZeroInput, w) = 1
  <2>1. IsList(Shows(r, w))
    BY ShowsList
  <2>2. 1 \in 1 .. Len(Shows(r, w)) /\ 1 \in DOMAIN Shows(r, w) /\ Shows(r, w)[1] = 0
    BY <2>1 DEF IsList
  <2>3. ZeroInput[w] = 0
    BY DEF ZeroInput
  <2>4. Place(r, ZeroInput, w) = 1
    BY <2>2, <2>3, PlaceOf
  <2> QED
    BY <2>2, <2>3, <2>4 DEF Range
<1>2. ZeroInput \in Inputs(r)
  BY <1>1 DEF Inputs, ZeroInput
<1>3. \A i \in 1 .. 13 : Digit(r, ZeroInput, i) = 0 /\ Base(r, i) \in Nat
  BY <1>1, <1>2, WheelSets, DigitsFit DEF Digit
<1> DEFINE u == Numbers(r, ZeroInput)
           Q(i) == u[i] = 0
<1>4. ASSUME NEW i \in 1 .. 13, NEW j, j = i + 1, Q(j) PROVE Q(i)
  BY <1>3, <1>4, NumbersAre
<1>5. Q(14)
  BY NumbersAre
<1> HIDE DEF Q
<1>6. Q(13) /\ Q(12) /\ Q(11) /\ Q(10) /\ Q(9)
  BY <1>4, <1>5
<1>7. Q(8) /\ Q(7) /\ Q(6) /\ Q(5)
  BY <1>4, <1>6
<1>8. Q(4) /\ Q(3) /\ Q(2) /\ Q(1)
  BY <1>4, <1>7
<1> QED
  BY <1>2, <1>8 DEF Q, Number

\* The part of an input that its opcode is made of.
Setting(r, v) == [w \in DOMAIN r.at |-> v[w]]

LEMMA OpcodeOfSetting ==
  ASSUME NEW r, NEW v, NEW x, \A w \in DOMAIN r.at : v[w] = x[w]
  PROVE  opcodeOf(r, v) = opcodeOf(r, x)
<1>1. \A w : Weighted(r, v, w) = Weighted(r, x, w)
  BY Zenon DEF Weighted
<1>2. /\ Weighted(r, v, "cond") = Weighted(r, x, "cond")
      /\ Weighted(r, v, "reg16") = Weighted(r, x, "reg16")
      /\ Weighted(r, v, "reg8") = Weighted(r, x, "reg8")
      /\ Weighted(r, v, "reg8_2") = Weighted(r, x, "reg8_2")
      /\ Weighted(r, v, "bit") = Weighted(r, x, "bit")
  BY <1>1, Zenon
<1> QED
  BY <1>2 DEF opcodeOf

LEMMA OperandShows ==
  ASSUME NEW r, Fits(r), NEW w \in OperandWheels
  PROVE  Range(Shows(r, w)) = IF w \in DOMAIN r.at THEN 0 .. Limit(w) - 1 ELSE {0}
<1>1. Limit(w) \in Nat \ {0}
  BY DEF Limit
<1>2. Shows(r, w) = IF w \in DOMAIN r.at THEN [i \in 1 .. Limit(w) |-> i - 1] ELSE <<0>>
  BY WheelSets DEF Shows, Registers16
<1>3. Range(<<0>>) = {0}
  BY DEF Range
<1>4. Range([i \in 1 .. Limit(w) |-> i - 1]) = 0 .. Limit(w) - 1
  <2>1. Range([i \in 1 .. Limit(w) |-> i - 1]) = {i - 1 : i \in 1 .. Limit(w)}
    BY DEF Range
  <2>2. ASSUME NEW y \in 0 .. Limit(w) - 1 PROVE \E i \in 1 .. Limit(w) : y = i - 1
    <3>1. y + 1 \in 1 .. Limit(w) /\ y = y + 1 - 1
      BY <1>1
    <3> QED
      BY <3>1
  <2>3. \A i \in 1 .. Limit(w) : i - 1 \in 0 .. Limit(w) - 1
    BY <1>1
  <2> QED
    BY <2>1, <2>2, <2>3, Zenon
<1> QED
  BY <1>2, <1>3, <1>4, Zenon

LEMMA SettingOf ==
  ASSUME NEW r, Fits(r), NEW v \in Inputs(r)
  PROVE  /\ Setting(r, v) \in Settings(r)
         /\ opcodeOf(r, Setting(r, v)) = opcodeOf(r, v)
         /\ opcodeOf(r, v) \in Assembled(r) /\ opcodeOf(r, v) \in 0 .. 255
<1>1. ASSUME NEW w \in DOMAIN r.at PROVE v[w] \in 0 .. 7 /\ v[w] < Limit(w)
  <2>1. w \in OperandWheels /\ w \in AllWheels
    BY WheelSets, WheelsAre DEF Fits
  <2>2. v[w] \in 0 .. Limit(w) - 1
    BY <2>1, OperandShows DEF Inputs
  <2> QED
    BY <2>2 DEF Limit
<1>2. Setting(r, v) \in Settings(r)
  BY <1>1 DEF Setting, Settings
<1>3. opcodeOf(r, Setting(r, v)) = opcodeOf(r, v)
  BY OpcodeOfSetting DEF Setting
<1>4. opcodeOf(r, Setting(r, v)) \in Assembled(r)
  BY <1>2 DEF Assembled
<1>5. Assembled(r) \subseteq 0 .. 255
  BY DEF Fits
<1> QED
  BY <1>2, <1>3, <1>4, <1>5

\* The opcode and the number from the ninth wheel on tell the same.
LEMMA SameOpcode ==
  ASSUME NEW r, Fits(r), NEW v \in Inputs(r), NEW x \in Inputs(r)
  PROVE  opcodeOf(r, v) = opcodeOf(r, x) <=> Numbers(r, v)[9] = Numbers(r, x)[9]
<1>0. r.imm_size \in 0 .. 2
  BY DEF Fits
<1>1. ASSUME Numbers(r, v)[9] = Numbers(r, x)[9] PROVE opcodeOf(r, v) = opcodeOf(r, x)
  <2>1. \A j \in 9 .. 13 : v[Wheels[j]] = x[Wheels[j]]
    BY <1>0, <1>1, SameNumbers
  <2>2. \A w \in OperandWheels : v[w] = x[w]
    BY <2>1, WheelSets, WheelsAre
  <2> QED
    BY <2>2, OpcodeOfSetting DEF Fits
<1>2. ASSUME opcodeOf(r, v) = opcodeOf(r, x) PROVE Numbers(r, v)[9] = Numbers(r, x)[9]
  <2>1. Setting(r, v) = Setting(r, x)
    <3>1. /\ Setting(r, v) \in Settings(r) /\ Setting(r, x) \in Settings(r)
          /\ opcodeOf(r, Setting(r, v)) = opcodeOf(r, Setting(r, x))
      BY <1>2, SettingOf
    <3>2. \A u, y \in Settings(r) : opcodeOf(r, u) = opcodeOf(r, y) => u = y
      BY DEF Fits
    <3> QED
      BY <3>1, <3>2, Zenon
  <2>2. ASSUME NEW w \in OperandWheels PROVE v[w] = x[w]
    <3>1. w \in AllWheels
      BY WheelSets, WheelsAre
    <3>2. CASE w \in DOMAIN r.at
      BY <2>1, <3>2, Zenon DEF Setting
    <3>3. CASE w \notin DOMAIN r.at
      BY <3>1, <3>3, OperandShows DEF Inputs
    <3> QED
      BY <3>2, <3>3
  <2>3. \A j \in 9 .. 13 : Wheels[j] \in OperandWheels
    BY WheelSets, WheelsAre
  <2>4. \A j \in 9 .. 13 : Digit(r, v, j) = Digit(r, x, j)
    BY <2>2, <2>3, Zenon DEF Digit, Place
  <2> DEFINE Q(j) == Numbers(r, v)[j] = Numbers(r, x)[j]
  <2>5. ASSUME NEW j \in 9 .. 13, NEW k, k = j + 1, Q(k) PROVE Q(j)
    BY <2>4, <2>5, NumbersAre
  <2>6. Q(14)
    BY NumbersAre
  <2> HIDE DEF Q
  <2>7. Q(13) /\ Q(12) /\ Q(11)
    BY <2>5, <2>6
  <2>8. Q(10) /\ Q(9)
    BY <2>5, <2>7
  <2> QED
    BY <2>8 DEF Q
<1> QED
  BY <1>1, <1>2

\* Each opcode of a row is that of an input whose IME is zero.
LEMMA OpcodeReached ==
  ASSUME NEW r, Fits(r), NEW o \in Assembled(r)
  PROVE  \E v \in Inputs(r) : opcodeOf(r, v) = o /\ Rank(r, Number(r, v)) >= 0
<1>0. r.imm_size \in 0 .. 2
  BY DEF Fits
<1>1. PICK u \in Settings(r) : opcodeOf(r, u) = o
  BY DEF Assembled
<1> DEFINE v == [w \in AllWheels |-> IF w \in DOMAIN r.at THEN u[w] ELSE 0]
<1>2. DOMAIN r.at \subseteq OperandWheels /\ OperandWheels \subseteq AllWheels
  BY WheelSets, WheelsAre DEF Fits
<1>3. ASSUME NEW w \in AllWheels PROVE v[w] \in Nat /\ v[w] \in Range(Shows(r, w))
  <2>1. CASE w \in DOMAIN r.at
    <3>1. u[w] \in 0 .. Limit(w) - 1
      BY <2>1 DEF Settings, Limit
    <3>2. v[w] = u[w]
      BY <2>1, Zenon
    <3>3. Limit(w) \in Nat
      BY DEF Limit
    <3> HIDE DEF v
    <3> QED
      BY <1>2, <2>1, <3>1, <3>2, <3>3, OperandShows
  <2>2. CASE w \notin DOMAIN r.at
    <3>1. 1 \in DOMAIN Shows(r, w) /\ Shows(r, w)[1] = 0
      BY <1>0, ShowsList DEF IsList
    <3> QED
      BY <2>2, <3>1 DEF Range
  <2> QED
    BY <2>1, <2>2
<1>4. v \in Inputs(r)
  BY <1>3 DEF Inputs
<1>5. opcodeOf(r, v) = o
  BY <1>1, <1>2, OpcodeOfSetting
<1>6. v[Wheels[1]] = 0
  BY <1>2, WheelsAre, WheelSets
<1> HIDE DEF v
<1>7. Digit(r, v, 1) = 0
  <2>1. IsList(Shows(r, Wheels[1])) /\ Wheels[1] \in AllWheels
    BY <1>0, WheelSets, ShowsList
  <2>2. 1 \in 1 .. Len(Shows(r, Wheels[1])) /\ v[Wheels[1]] = Shows(r, Wheels[1])[1]
    BY <1>6, <2>1 DEF IsList
  <2>3. Place(r, v, Wheels[1]) = 1
    BY <1>0, <2>1, <2>2, PlaceOf
  <2> QED
    BY <2>3 DEF Digit
<1>8. Number(r, v) = Base(r, 1) * Numbers(r, v)[2] /\ Numbers(r, v)[2] \in Nat
  <2>1. 1 \in 1 .. 13 /\ 1 + 1 = 2
    OBVIOUS
  <2>2. Base(r, 1) \in Nat /\ Numbers(r, v)[2] \in Nat
    BY <1>0, <1>4, NumbersFit, DigitsFit
  <2> QED
    BY <1>7, <2>1, <2>2, NumbersAre DEF Number
<1>9. Number(r, v) \in Nat /\ ("IME" \in r.test => Number(r, v) # 1)
  BY <1>8, FirstWheel
<1> QED
  BY <1>4, <1>5, <1>9, RankIs

-----------------------------------------------------------------------------
(* Types.                                                                   *)

LEMMA RowsFit ==
  ASSUME NEW s \in Suites, NEW t \in DOMAIN s
  PROVE  /\ Len(s[t]) \in Nat /\ DOMAIN s[t] = 1 .. Len(s[t])
         /\ \A i \in 1 .. Len(s[t]) : Fits(s[t][i]) /\ s[t][i].imm_size \in 0 .. 2
<1>1. s[t] \in Seq(Range(s[t])) /\ \A r \in Range(s[t]) : Fits(r)
  BY SuitesAssumption, Zenon
<1>2. Len(s[t]) \in Nat /\ DOMAIN s[t] = 1 .. Len(s[t])
  BY <1>1
<1>3. \A i \in 1 .. Len(s[t]) : Fits(s[t][i])
  BY <1>1, <1>2, Zenon DEF Range
<1> QED
  BY <1>2, <1>3 DEF Fits

\* The entries of different places have no opcode in common.
LEMMA EntriesApart ==
  ASSUME NEW s \in Suites, NEW t1 \in DOMAIN s, NEW t2 \in DOMAIN s,
         NEW i \in 1 .. Len(s[t1]), NEW j \in 1 .. Len(s[t2]), t1 # t2 \/ i # j
  PROVE  Entries(s[t1][i]) \cap Entries(s[t2][j]) = {}
<1>1. i \in DOMAIN s[t1] /\ j \in DOMAIN s[t2]
  BY RowsFit
<1>2. <<t1, i>> # <<t2, j>>
  OBVIOUS
<1> QED
  BY <1>1, <1>2, SuitesAssumption, Zenon

\* Whether a row has begun and not ended.
Busy == pc \in {"test", "next", "returned"} \/ (pc = "exit" /\ code = 1)
TypeInv ==
  /\ TypeOK
  /\ row > 0 => input \in Inputs(inst)
  /\ Busy => row > 0 /\ tested = row - 1
  /\ ~Busy => tested = row
  /\ pc = "exit" /\ code = 0 => row = Len(rows) /\ (table = "instructions" => ~enable_cb)
  /\ table = "cb_instructions" => enable_cb

LEMMA TypeFacts ==
  ASSUME TypeInv
  PROVE  /\ suite \in Suites /\ table \in DOMAIN suite /\ row \in Nat /\ Len(rows) \in Nat
         /\ DOMAIN suite = {"instructions", "cb_instructions"}
         /\ DOMAIN rows = 1 .. Len(rows) /\ row <= Len(rows) /\ tested \in Nat
         /\ row > 0 => /\ Fits(inst) /\ inst.imm_size \in 0 .. 2
                       /\ opcode \in Assembled(inst) /\ opcode \in 0 .. 255
                       /\ Entry \in Entries(inst)
<1>1. suite \in Suites /\ table \in DOMAIN suite /\ row \in 0 .. Len(rows) /\ tested \in 0 .. row
  BY DEF TypeInv, TypeOK
<1>2. Len(rows) \in Nat /\ DOMAIN rows = 1 .. Len(rows)
  BY <1>1, RowsFit DEF rows
<1>3. DOMAIN suite = {"instructions", "cb_instructions"}
  BY <1>1, SuitesAssumption, Zenon
<1>4. ASSUME row > 0
      PROVE  /\ Fits(inst) /\ inst.imm_size \in 0 .. 2
             /\ opcode \in Assembled(inst) /\ opcode \in 0 .. 255 /\ Entry \in Entries(inst)
  <2>1. Fits(inst) /\ inst.imm_size \in 0 .. 2
    BY <1>1, <1>2, <1>4, RowsFit DEF rows, inst
  <2>2. input \in Inputs(inst)
    BY <1>4 DEF TypeInv
  <2>3. opcode \in Assembled(inst) /\ opcode \in 0 .. 255
    BY <2>1, <2>2, SettingOf DEF opcode
  <2> QED
    BY <2>1, <2>3 DEF Entries, Entry
<1> QED
  BY <1>1, <1>2, <1>3, <1>4

LEMMA TypeInit == Init => TypeInv
<1> SUFFICES ASSUME Init PROVE TypeInv
  OBVIOUS
<1>1. /\ suite \in Suites /\ keep_going \in BOOLEAN /\ enable_cb \in BOOLEAN
      /\ table = "instructions" /\ row = 0 /\ last_op = 0
      /\ last_op_had_failure = FALSE /\ had_failure = FALSE
      /\ passed = 0 /\ tested = 0 /\ pc = "rows" /\ code = 0
  BY DEF Init
<1>2. table \in DOMAIN suite
  BY <1>1, SuitesAssumption
<1>3. Len(rows) \in Nat
  BY <1>1, <1>2, RowsFit DEF rows
<1>4. TypeOK
  <2>1. /\ row \in 0 .. Len(rows) /\ tested \in 0 .. row /\ passed \in 0 .. tested
        /\ last_op \in 0 .. 255 /\ ~(row > 0) /\ code \in {0, 1}
    BY <1>1, <1>3
  <2> QED
    BY <1>1, <1>2, <2>1, Zenon DEF TypeOK
<1>5. ~Busy
  BY <1>1 DEF Busy
<1> QED
  BY <1>1, <1>4, <1>5 DEF TypeInv

\* What the steps of a row leave alone.
RowFrame ==
  /\ suite' = suite /\ keep_going' = keep_going /\ enable_cb' = enable_cb /\ table' = table
  /\ row' = row /\ passed' = passed /\ tested' = tested /\ summaries' = summaries
LEMMA RowFrames ==
  ASSUME Skip \/ Pass \/ Fail \/ Advance
  PROVE  /\ RowFrame /\ code' = code /\ inst' = inst /\ rows' = rows
         /\ pc \in {"test", "next"} /\ pc' \in {"test", "next", "returned"}
<1>1. RowFrame /\ code' = code /\ pc \in {"test", "next"} /\ pc' \in {"test", "next", "returned"}
  BY DEF Skip, Pass, Fail, Advance, flagVars, tableVars, RowFrame
<1> QED
  BY <1>1 DEF RowFrame, inst, rows

LEMMA RowTypes ==
  ASSUME TypeInv, RowFrame, code' = code, pc \in {"test", "next"},
         pc' \in {"test", "next", "returned"}, input' \in Inputs(inst),
         last_op' \in 0 .. 255, last_op_had_failure' \in BOOLEAN, had_failure' \in BOOLEAN
  PROVE  TypeInv'
<1>1. inst' = inst /\ rows' = rows
  BY DEF RowFrame, inst, rows
<1>2. Busy /\ Busy'
  BY DEF Busy
<1>3. \A w \in AllWheels : input'[w] \in Range(Shows(inst, w))
  BY DEF Inputs
<1>4. TypeOK'
  BY <1>1, <1>3 DEF TypeInv, TypeOK, RowFrame
<1> QED
  BY <1>1, <1>2, <1>4 DEF TypeInv, RowFrame

LEMMA TypeStep == TypeInv /\ [Next]_vars => TypeInv'
<1> SUFFICES ASSUME TypeInv, [Next]_vars PROVE TypeInv'
  OBVIOUS
<1>t. TypeOK
  BY DEF TypeInv
<1>f. /\ suite \in Suites /\ table \in DOMAIN suite /\ row \in Nat /\ Len(rows) \in Nat
      /\ DOMAIN suite = {"instructions", "cb_instructions"}
      /\ DOMAIN rows = 1 .. Len(rows) /\ row <= Len(rows) /\ tested \in Nat
      /\ row > 0 => opcode \in 0 .. 255 /\ inst.imm_size \in 0 .. 2
  BY TypeFacts
<1>b. pc \in {"test", "next"} => row > 0 /\ input \in Inputs(inst)
  BY DEF TypeInv, Busy
<1>1. CASE Skip
  <2>1. input' = input /\ last_op' = last_op /\ had_failure' = had_failure
        /\ last_op_had_failure' = last_op_had_failure
    BY <1>1 DEF Skip
  <2> QED
    BY <1>1, <1>t, <1>b, <2>1, RowFrames, RowTypes DEF TypeOK
<1>2. CASE Pass
  <2>1. input' = input /\ last_op' = opcode /\ had_failure' = had_failure
        /\ last_op_had_failure' = FALSE
    BY <1>2 DEF Pass
  <2> QED
    BY <1>2, <1>t, <1>f, <1>b, <2>1, RowFrames, RowTypes DEF TypeOK
<1>3. CASE Fail
  <2>1. input' = input /\ last_op' = opcode /\ had_failure' = TRUE
        /\ last_op_had_failure' = TRUE
    BY <1>3 DEF Fail
  <2> QED
    BY <1>3, <1>t, <1>f, <1>b, <2>1, RowFrames, RowTypes DEF TypeOK
<1>4. CASE Advance
  <2>1. input' = next_state(inst, input) /\ last_op' = last_op /\ had_failure' = had_failure
        /\ last_op_had_failure' = last_op_had_failure
    BY <1>4 DEF Advance
  <2>2. pc \in {"test", "next"}
    BY <1>4, RowFrames
  <2>3. input' \in Inputs(inst)
    BY <1>f, <1>b, <2>1, <2>2, TurnedInput
  <2> QED
    BY <1>4, <1>t, <2>1, <2>3, RowFrames, RowTypes DEF TypeOK
<1>5. CASE StartRow
  <2>1. /\ pc = "rows" /\ row < Len(rows) /\ row' = row + 1 /\ pc' = "test"
        /\ input' = ZeroInput /\ last_op' = 0 /\ last_op_had_failure' = FALSE
        /\ had_failure' = FALSE /\ table' = table /\ passed' = passed /\ tested' = tested
        /\ code' = code /\ suite' = suite /\ keep_going' = keep_going /\ enable_cb' = enable_cb
    BY <1>5 DEF StartRow, flagVars
  <2>2. rows' = rows
    BY <2>1 DEF rows
  <2>3. row' \in 1 .. Len(rows) /\ inst' = rows[row']
    BY <1>f, <2>1, <2>2 DEF inst
  <2>4. inst'.imm_size \in 0 .. 2
    BY <1>f, <2>3, RowsFit DEF rows
  <2>5. input' \in Inputs(inst')
    BY <2>1, <2>4, ZeroIs
  <2>6. ~Busy /\ Busy'
    BY <2>1 DEF Busy
  <2>7. tested = row
    BY <2>6 DEF TypeInv
  <2>8. TypeOK'
    <3>1. \A w \in AllWheels : input'[w] \in Range(Shows(inst', w))
      BY <2>5 DEF Inputs
    <3>2. /\ row' \in 0 .. Len(rows') /\ tested' \in 0 .. row' /\ passed' \in 0 .. tested'
          /\ 0 \in 0 .. 255
      BY <1>t, <1>f, <2>1, <2>2, <2>3, <2>7 DEF TypeOK
    <3> QED
      BY <1>t, <2>1, <3>1, <3>2 DEF TypeOK
  <2> QED
    BY <1>f, <2>1, <2>2, <2>3, <2>5, <2>6, <2>7, <2>8 DEF TypeInv
<1>6. CASE GiveUp
  <2>1. /\ pc = "returned" /\ pc' = "exit" /\ code' = 1
        /\ input' = input /\ last_op' = last_op /\ last_op_had_failure' = last_op_had_failure
        /\ had_failure' = had_failure /\ RowFrame
    BY <1>6 DEF GiveUp, walkVars, tableVars, flagVars, RowFrame
  <2>2. Busy /\ Busy' /\ inst' = inst /\ rows' = rows
    BY <2>1 DEF Busy, RowFrame, inst, rows
  <2>3. TypeOK'
    BY <1>t, <2>1, <2>2 DEF TypeOK, RowFrame
  <2> QED
    BY <2>1, <2>2, <2>3 DEF TypeInv, RowFrame
<1>7. CASE EndRow
  <2>1. /\ pc = "returned" /\ pc' = "rows" /\ tested' = tested + 1
        /\ passed' = (IF had_failure THEN passed ELSE passed + 1)
        /\ input' = input /\ last_op' = last_op /\ last_op_had_failure' = last_op_had_failure
        /\ had_failure' = had_failure /\ table' = table /\ row' = row /\ code' = code
        /\ suite' = suite /\ keep_going' = keep_going /\ enable_cb' = enable_cb
    BY <1>7 DEF EndRow, walkVars, flagVars
  <2>2. Busy /\ ~Busy' /\ inst' = inst /\ rows' = rows
    BY <2>1 DEF Busy, inst, rows
  <2>3. tested' = row
    BY <1>f, <2>1, <2>2 DEF TypeInv
  <2>4. TypeOK'
    BY <1>t, <1>f, <2>1, <2>2, <2>3 DEF TypeOK
  <2> QED
    BY <2>1, <2>2, <2>3, <2>4 DEF TypeInv
<1>8. CASE EndTable
  <2>1. /\ pc = "rows" /\ row = Len(rows)
        /\ input' = input /\ last_op' = last_op /\ last_op_had_failure' = last_op_had_failure
        /\ had_failure' = had_failure
        /\ suite' = suite /\ keep_going' = keep_going /\ enable_cb' = enable_cb
    BY <1>8 DEF EndTable, walkVars, flagVars
  <2>2. ~Busy /\ tested = row
    BY <2>1 DEF Busy, TypeInv
  <2>3. CASE table = "instructions" /\ enable_cb
    <3>1. /\ table' = "cb_instructions" /\ row' = 0 /\ tested' = 0 /\ passed' = 0
          /\ pc' = pc /\ code' = code
      BY <1>8, <2>3 DEF EndTable
    <3>2. ~Busy' /\ Len(rows') \in Nat
      BY <1>f, <2>1, <3>1, RowsFit DEF Busy, rows
    <3>3. TypeOK'
      BY <1>t, <1>f, <2>1, <3>1, <3>2 DEF TypeOK
    <3> QED
      BY <2>1, <2>3, <3>1, <3>2, <3>3 DEF TypeInv
  <2>4. CASE ~(table = "instructions" /\ enable_cb)
    <3>1. /\ pc' = "exit" /\ code' = 0 /\ table' = table /\ row' = row
          /\ tested' = tested /\ passed' = passed
      BY <1>8, <2>4 DEF EndTable
    <3>2. ~Busy' /\ rows' = rows /\ inst' = inst
      BY <2>1, <3>1 DEF Busy, rows, inst
    <3>3. TypeOK'
      BY <1>t, <2>1, <3>1, <3>2 DEF TypeOK
    <3> QED
      BY <2>1, <2>2, <2>4, <3>1, <3>2, <3>3 DEF TypeInv
  <2> QED
    BY <2>3, <2>4
<1>9. CASE UNCHANGED vars
  BY <1>9 DEF vars, walkVars, tableVars, flagVars, TypeInv, TypeOK, Busy, inst, rows
<1> QED
  BY <1>1, <1>2, <1>3, <1>4, <1>5, <1>6, <1>7, <1>8, <1>9 DEF Next, Exited

-----------------------------------------------------------------------------
(* The inputs that the walk has come to are those up to the rank of the one  *)
(* that the wheels show.                                                     *)

Come(r, m) == {n \in 0 .. Total(r) - 1 : 0 <= Rank(r, n) /\ Rank(r, n) <= m}

LEMMA ComeNext ==
  ASSUME NEW r, r.imm_size \in 0 .. 2, NEW v \in Inputs(r), Rank(r, Number(r, v)) >= 0
  PROVE  /\ Number(r, v) \notin Come(r, Rank(r, Number(r, v)) - 1)
         /\ Come(r, Rank(r, Number(r, v)) - 1) \cup {Number(r, v)}
            = Come(r, Rank(r, Number(r, v)))
<1> DEFINE n == Number(r, v)
           k == Rank(r, n)
<1>1. n \in 0 .. Total(r) - 1 /\ Total(r) \in Nat
  BY NextNumber
<1>2. k \in Nat
  BY <1>1, RankIs
<1>3. \A m \in 0 .. Total(r) - 1 :
        m \in Nat /\ Rank(r, m) \in Int /\ (Rank(r, m) = k => m = n)
  BY <1>1, RankIs, RankUnique
<1> HIDE DEF n
<1>4. \A m : m \in Come(r, k - 1) \cup {n} <=> m \in Come(r, k)
  BY <1>1, <1>2, <1>3 DEF Come
<1>5. n \notin Come(r, k - 1)
  BY <1>2 DEF Come
<1> QED
  BY <1>4, <1>5 DEF n

LEMMA ComeOn ==
  ASSUME NEW r, r.imm_size \in 0 .. 2, NEW v \in Inputs(r), Rank(r, Number(r, v)) >= 0
  PROVE  LET n == Number(r, v)
             n2 == Number(r, next_state(r, v))
         IN IF LastTurned(r, v) # 0
              THEN Rank(r, n2) >= 0 /\ Come(r, Rank(r, n2) - 1) = Come(r, Rank(r, n))
              ELSE Come(r, Rank(r, n)) = Come(r, Total(r))
<1> DEFINE n == Number(r, v)
           n2 == Number(r, next_state(r, v))
           k == Rank(r, n)
<1>1. n \in 0 .. Total(r) - 1 /\ Total(r) \in Nat
  BY NextNumber
<1>2. k \in Nat
  BY <1>1, RankIs
<1>3. CASE LastTurned(r, v) # 0
  <2>1. Rank(r, n2) = k + 1
    BY <1>3, NextNumber
  <2>2. Rank(r, n2) >= 0 /\ Rank(r, n2) - 1 = k
    BY <1>2, <2>1
  <2> QED
    BY <1>3, <2>2, Zenon
<1>4. CASE LastTurned(r, v) = 0
  <2>1. \A m \in 0 .. Total(r) - 1 : Rank(r, m) <= k
    BY <1>4, NextNumber
  <2>2. \A m \in 0 .. Total(r) - 1 : Rank(r, m) \in Int /\ Rank(r, m) <= m /\ m <= Total(r)
    BY <1>1, RankIs
  <2>3. \A m \in 0 .. Total(r) - 1 : Rank(r, m) <= Total(r)
    BY <1>1, <2>2
  <2> HIDE DEF k
  <2>4. Come(r, k) = Come(r, Total(r))
    BY <2>1, <2>3, Zenon DEF Come
  <2> QED
    BY <1>4, <2>4 DEF k
<1> QED
  BY <1>3, <1>4

LEMMA ComeCount ==
  ASSUME NEW r, r.imm_size \in 0 .. 2
  PROVE  Cardinality(Come(r, Total(r))) = Total(r) - (IF "IME" \in r.test THEN 1 ELSE 0)
<1> DEFINE t == Total(r)
           all == 0 .. t - 1
<1>1. t \in Nat \ {0} /\ ("IME" \in r.test => t > 1)
  <2>1. 1 \in 1 .. 13 /\ 1 + 1 = 2 /\ 2 \in 1 .. 14
    OBVIOUS
  <2>2. t = Base(r, 1) * Totals(r)[2] /\ Totals(r)[2] \in Nat \ {0} /\ t \in Nat \ {0}
    BY <2>1, TotalsAre DEF Total
  <2> QED
    BY <2>2, FirstWheel
<1> HIDE DEF t
<1>2. IsFiniteSet(all) /\ Cardinality(all) = t
  <2>1. t - 1 \in Int /\ 0 \in Int
    BY <1>1
  <2>2. IsFiniteSet(all) /\ Cardinality(all) = IF 0 > t - 1 THEN 0 ELSE t - 1 - 0 + 1
    BY <2>1, FS_Interval
  <2> QED
    BY <1>1, <2>2
<1>3. \A n \in all : n \in Nat /\ Rank(r, n) \in Int /\ Rank(r, n) <= t
                     /\ (Rank(r, n) < 0 <=> n = 1 /\ "IME" \in r.test)
  <2>1. ASSUME NEW n \in all PROVE n \in Nat /\ n <= t
    BY <1>1
  <2>2. ASSUME NEW n \in all PROVE Rank(r, n) \in Int /\ Rank(r, n) <= t
    <3>1. Rank(r, n) \in Int /\ Rank(r, n) <= n
      BY <2>1, RankIs
    <3> QED
      BY <1>1, <2>1, <3>1
  <2> QED
    BY <2>1, <2>2, RankIs
<1>4. Come(r, t) = {n \in all : 0 <= Rank(r, n) /\ Rank(r, n) <= t}
  BY DEF Come, t
<1>5. CASE "IME" \in r.test
  <2>1. 1 \in all
    BY <1>1, <1>5
  <2>2. Come(r, t) = all \ {1}
    BY <1>3, <1>4, <1>5
  <2>3. Cardinality(all \ {1}) = Cardinality(all) - 1
    BY <1>2, <2>1, FS_RemoveElement
  <2> QED
    BY <1>2, <1>5, <2>2, <2>3 DEF t
<1>6. CASE "IME" \notin r.test
  <2>1. Come(r, t) = all
    BY <1>3, <1>4, <1>6
  <2> QED
    BY <1>1, <1>2, <1>6, <2>1 DEF t
<1> QED
  BY <1>5, <1>6

ShownRank == Rank(inst, Number(inst, input))
WalkInv ==
  /\ pc \in {"test", "next"} => ShownRank >= 0
  /\ pc = "test" => reached = Come(inst, ShownRank - 1)
  /\ pc = "next" => reached = Come(inst, ShownRank)
  /\ pc = "returned" /\ (keep_going \/ ~had_failure) => reached = Come(inst, Total(inst))

LEMMA WalkInit == Init => WalkInv
BY DEF Init, WalkInv

LEMMA WalkStep == TypeInv /\ WalkInv /\ [Next]_vars => WalkInv'
<1> SUFFICES ASSUME TypeInv, WalkInv, [Next]_vars PROVE WalkInv'
  OBVIOUS
<1>b. pc \in {"test", "next"} =>
        row > 0 /\ inst.imm_size \in 0 .. 2 /\ input \in Inputs(inst)
  BY TypeFacts DEF TypeInv, Busy
<1>1. CASE Skip \/ Pass \/ Fail
  <2>1. /\ pc = "test" /\ input' = input /\ inst' = inst
        /\ reached' = reached \cup {Number(inst, input)}
    BY <1>1, RowFrames DEF Skip, Pass, Fail
  <2>2. pc' = "next" \/ (pc' = "returned" /\ keep_going' = FALSE /\ had_failure' = TRUE)
    <3>1. keep_going \in BOOLEAN
      BY DEF TypeInv, TypeOK
    <3>2. CASE Fail
      BY <3>1, <3>2 DEF Fail, flagVars
    <3> QED
      BY <1>1, <3>2 DEF Skip, Pass
  <2>3. ShownRank' = ShownRank
    BY <2>1, Zenon DEF ShownRank
  <2>4. ShownRank >= 0 /\ reached = Come(inst, ShownRank - 1)
    BY <2>1 DEF WalkInv
  <2>5. reached' = Come(inst, ShownRank)
    BY <1>b, <2>1, <2>4, ComeNext DEF ShownRank
  <2> HIDE DEF ShownRank
  <2> QED
    BY <2>1, <2>2, <2>3, <2>4, <2>5 DEF WalkInv
<1>2. CASE Advance
  <2>1. /\ pc = "next" /\ input' = next_state(inst, input) /\ inst' = inst /\ reached' = reached
        /\ pc' = (IF LastTurned(inst, input) = 0 THEN "returned" ELSE "test")
    BY <1>2, RowFrames DEF Advance
  <2>2. ShownRank >= 0 /\ reached = Come(inst, ShownRank)
    BY <2>1 DEF WalkInv
  <2>3. ShownRank' = Rank(inst, Number(inst, next_state(inst, input)))
    BY <2>1, Zenon DEF ShownRank
  <2>4. IF LastTurned(inst, input) # 0
          THEN ShownRank' >= 0 /\ Come(inst, ShownRank' - 1) = Come(inst, ShownRank)
          ELSE Come(inst, ShownRank) = Come(inst, Total(inst))
    <3>1. Rank(inst, Number(inst, input)) >= 0
      BY <2>2 DEF ShownRank
    <3>2. input \in Inputs(inst) /\ inst.imm_size \in 0 .. 2
      BY <1>b, <2>1
    <3> QED
      BY <2>3, <3>1, <3>2, ComeOn DEF ShownRank
  <2> QED
    BY <2>1, <2>2, <2>4 DEF WalkInv
<1>3. CASE StartRow
  <2>1. pc' = "test" /\ input' = ZeroInput /\ reached' = {}
    BY <1>3 DEF StartRow
  <2>2. inst'.imm_size \in 0 .. 2
    <3>1. TypeInv'
      BY TypeStep
    <3>2. row' > 0
      BY <2>1, <3>1 DEF TypeInv, Busy
    <3>3. \A s \in Suites : \A t \in DOMAIN s : \A i \in 1 .. Len(s[t]) : s[t][i].imm_size \in 0 .. 2
      BY RowsFit
    <3> QED
      BY <3>1, <3>2, <3>3 DEF TypeInv, TypeOK, inst, rows
  <2>3. Number(inst', ZeroInput) = 0 /\ ZeroInput \in Inputs(inst')
    BY <2>2, ZeroIs
  <2>4. ShownRank' = 0
    <3>1. ShownRank' = Rank(inst', 0)
      BY <2>1, <2>3, Zenon DEF ShownRank
    <3>2. Rank(inst', 0) = 0
      BY DEF Rank
    <3> QED
      BY <3>1, <3>2
  <2>5. Come(inst', 0 - 1) = {}
    <3>1. \A n \in 0 .. Total(inst') - 1 : Rank(inst', n) \in Int
      BY RankIs
    <3> QED
      BY <3>1 DEF Come
  <2> QED
    BY <2>1, <2>4, <2>5 DEF WalkInv
<1>4. CASE GiveUp
  BY <1>4 DEF GiveUp, WalkInv
<1>5. CASE EndRow
  BY <1>5 DEF EndRow, WalkInv
<1>6. CASE EndTable
  BY <1>6 DEF EndTable, WalkInv
<1>7. CASE UNCHANGED vars
  <2>1. UNCHANGED <<pc, reached, input, inst, keep_going, had_failure>>
    BY <1>7 DEF vars, walkVars, tableVars, flagVars, inst, rows
  <2> QED
    BY <2>1 DEF WalkInv, ShownRank
<1> QED
  BY <1>1, <1>2, <1>3, <1>4, <1>5, <1>6, <1>7 DEF Next, Exited

-----------------------------------------------------------------------------
(* What op_success_table and the failures hold.                             *)

LEMMA SameInput ==
  ASSUME NEW r, Fits(r), NEW v \in Inputs(r), NEW x \in Inputs(r), Number(r, v) = Number(r, x)
  PROVE  opcodeOf(r, v) = opcodeOf(r, x)
<1>1. r.imm_size \in 0 .. 2 /\ 1 \in 1 .. 13
  BY DEF Fits
<1>2. \A j \in 1 .. 13 : v[Wheels[j]] = x[Wheels[j]]
  BY <1>1, SameNumbers DEF Number
<1>3. \A w \in OperandWheels : v[w] = x[w]
  BY <1>2, WheelSets, WheelsAre
<1> QED
  BY <1>3, OpcodeOfSetting DEF Fits

EntriesUpTo(t, n) == UNION {Entries(t[i]) : i \in 1 .. n}
LEMMA OneMore ==
  ASSUME NEW t, NEW n \in Nat
  PROVE  EntriesUpTo(t, n + 1) = EntriesUpTo(t, n) \cup Entries(t[n + 1])
<1>1. \A i : i \in 1 .. n + 1 <=> i \in 1 .. n \/ i = n + 1
  OBVIOUS
<1> QED
  BY <1>1, Zenon DEF EntriesUpTo

\* The entries of the rows that are done, of the one that has begun, and those
\* that the tester has counted as a success or a failure.
OtherEntries ==
  IF table = "instructions" THEN {}
  ELSE EntriesUpTo(suite["instructions"], Len(suite["instructions"]))
DoneEntries == OtherEntries \cup EntriesUpTo(rows, tested)
RowEntries == IF tested < row THEN Entries(inst) ELSE {}
Tried == op_success_table \cup failed

EntryOf(v) == <<inst.is_cb_prefix, opcodeOf(inst, v)>>
Ninth(v) == Numbers(inst, v)[9]
InputsTried == \A v \in Inputs(inst) : Number(inst, v) \in reached => EntryOf(v) \in Tried
\* Only the opcode that has been tested last can come again: if it has failed,
\* its other inputs are left out.
FailuresPast ==
  \A v \in Inputs(inst) : EntryOf(v) \in failed =>
    /\ Ninth(v) <= Ninth(input)
    /\ Ninth(v) = Ninth(input) => opcode = last_op /\ last_op_had_failure
CoverInv ==
  /\ op_success_table \cap failed = {}
  /\ DoneEntries \subseteq Tried /\ Tried \subseteq DoneEntries \cup RowEntries
  /\ pc \in {"test", "next", "returned"} => InputsTried
  /\ pc \in {"test", "next"} => FailuresPast
  /\ pc \in {"test", "next"} /\ last_op_had_failure => <<inst.is_cb_prefix, last_op>> \in failed

\* A row that is not done has no opcode in common with those that are.
LEMMA DoneApart ==
  ASSUME TypeInv, NEW n \in 1 .. Len(rows), tested < n
  PROVE  Entries(rows[n]) \cap DoneEntries = {}
<1>f. /\ suite \in Suites /\ table \in DOMAIN suite /\ Len(rows) \in Nat
      /\ DOMAIN suite = {"instructions", "cb_instructions"} /\ tested \in Nat
  BY TypeFacts
<1>1. Entries(rows[n]) \cap EntriesUpTo(rows, tested) = {}
  <2>1. ASSUME NEW i \in 1 .. tested PROVE Entries(rows[n]) \cap Entries(rows[i]) = {}
    <3>1. i \in 1 .. Len(rows) /\ n # i
      BY <1>f
    <3> QED
      BY <1>f, <3>1, EntriesApart DEF rows
  <2> QED
    BY <2>1, Zenon DEF EntriesUpTo
<1>2. ASSUME table # "instructions"
      PROVE  Entries(rows[n])
               \cap EntriesUpTo(suite["instructions"], Len(suite["instructions"])) = {}
  <2>1. ASSUME NEW i \in 1 .. Len(suite["instructions"])
        PROVE  Entries(rows[n]) \cap Entries(suite["instructions"][i]) = {}
    BY <1>f, <1>2, EntriesApart DEF rows
  <2> QED
    BY <2>1, Zenon DEF EntriesUpTo
<1> QED
  BY <1>1, <1>2 DEF DoneEntries, OtherEntries

LEMMA CoverInit == Init => CoverInv
<1> SUFFICES ASSUME Init PROVE CoverInv
  OBVIOUS
<1>1. /\ table = "instructions" /\ row = 0 /\ tested = 0 /\ op_success_table = {}
      /\ failed = {} /\ pc = "rows"
  BY DEF Init
<1>2. EntriesUpTo(rows, 0) = {}
  BY DEF EntriesUpTo
<1> QED
  BY <1>1, <1>2 DEF CoverInv, DoneEntries, OtherEntries, RowEntries, Tried

\* What a step of a row leaves alone of these.
LEMMA CoverFrame ==
  ASSUME RowFrame, inst' = inst, rows' = rows
  PROVE  DoneEntries' = DoneEntries /\ RowEntries' = RowEntries
BY DEF RowFrame, DoneEntries, OtherEntries, RowEntries

\* The steps of the loop that test one input or leave it out.
LEMMA TestCovers ==
  ASSUME TypeInv, CoverInv, Skip \/ Pass \/ Fail
  PROVE  CoverInv'
<1>f. /\ pc = "test" /\ input' = input /\ inst' = inst /\ rows' = rows /\ RowFrame
      /\ reached' = reached \cup {Number(inst, input)} /\ opcode' = opcode
      /\ pc' \in {"next", "returned"}
  <2>1. /\ pc = "test" /\ input' = input /\ inst' = inst /\ rows' = rows /\ RowFrame
        /\ reached' = reached \cup {Number(inst, input)} /\ pc' \in {"next", "returned"}
    BY RowFrames DEF Skip, Pass, Fail
  <2> QED
    BY <2>1, Zenon DEF opcode
<1>r. /\ row > 0 /\ tested < row /\ Fits(inst) /\ inst.imm_size \in 0 .. 2
      /\ input \in Inputs(inst) /\ Entry \in Entries(inst) /\ row \in Nat
  <2>1. row > 0 /\ tested = row - 1 /\ input \in Inputs(inst)
    BY <1>f DEF TypeInv, Busy
  <2> QED
    BY <2>1, TypeFacts
<1>c. InputsTried /\ FailuresPast /\ op_success_table \cap failed = {}
  BY <1>f DEF CoverInv
<1>e. Entry = EntryOf(input)
  BY DEF Entry, EntryOf, opcode
<1>1. Entry \in failed => Skips
  <2>1. Entry \in failed => opcode = last_op /\ last_op_had_failure
    BY <1>r, <1>c, <1>e DEF FailuresPast
  <2> QED
    BY <2>1 DEF Skips
<1>2. Skip => Entry \in failed
  <2>1. Skip => opcode = last_op /\ last_op_had_failure
    BY DEF Skip, Skips
  <2>2. last_op_had_failure => <<inst.is_cb_prefix, last_op>> \in failed
    BY <1>f DEF CoverInv
  <2> QED
    BY <2>1, <2>2 DEF Entry
<1>3. Tried' = Tried \cup {Entry} /\ op_success_table' \cap failed' = {}
  <2>1. CASE Skip
    BY <1>c, <1>2, <2>1 DEF Skip, Tried
  <2>2. CASE Pass
    BY <1>c, <1>1, <2>2 DEF Pass, Tried
  <2>3. CASE Fail
    BY <1>c, <2>3 DEF Fail, Tried
  <2> QED
    BY <2>1, <2>2, <2>3
<1>4. InputsTried'
  <2>1. ASSUME NEW v \in Inputs(inst), Number(inst, v) \in reached'
        PROVE  EntryOf(v) \in Tried'
    <3>1. CASE Number(inst, v) \in reached
      BY <1>c, <1>3, <3>1 DEF InputsTried
    <3>2. CASE Number(inst, v) = Number(inst, input)
      <4>1. opcodeOf(inst, v) = opcodeOf(inst, input)
        BY <1>r, <3>2, SameInput
      <4> QED
        BY <1>3, <4>1 DEF EntryOf, Entry, opcode
    <3> QED
      BY <1>f, <2>1, <3>1, <3>2
  <2> QED
    BY <1>f, <2>1 DEF InputsTried, EntryOf
<1>5. pc' = "next" => FailuresPast'
  <2>1. ASSUME NEW v \in Inputs(inst), EntryOf(v) \in failed'
        PROVE  /\ Ninth(v) <= Ninth(input)
               /\ Ninth(v) = Ninth(input) => opcode = last_op' /\ last_op_had_failure'
    <3>1. CASE Skip
      BY <1>c, <2>1, <3>1 DEF Skip, FailuresPast
    <3>2. CASE Pass
      BY <1>c, <2>1, <3>2 DEF Pass, Skips, FailuresPast
    <3>3. CASE Fail
      <4>1. EntryOf(v) \in failed \/ EntryOf(v) = Entry
        BY <2>1, <3>3 DEF Fail
      <4>2. CASE EntryOf(v) \in failed
        BY <1>c, <4>2, <3>3 DEF Fail, FailuresPast
      <4>3. CASE EntryOf(v) = Entry
        <5>1. opcodeOf(inst, v) = opcodeOf(inst, input)
          BY <4>3 DEF EntryOf, Entry, opcode
        <5>2. Ninth(v) = Ninth(input)
          BY <1>r, <5>1, SameOpcode DEF Ninth
        <5>3. Ninth(input) \in Nat
          BY <1>r, NumbersFit DEF Ninth
        <5> QED
          BY <3>3, <5>2, <5>3 DEF Fail
      <4> QED
        BY <4>1, <4>2, <4>3
    <3> QED
      BY <3>1, <3>2, <3>3
  <2> QED
    BY <1>f, <2>1 DEF FailuresPast, EntryOf, Ninth
<1>6. last_op_had_failure' => <<inst.is_cb_prefix, last_op'>> \in failed'
  <2>1. CASE Skip
    BY <1>f, <2>1 DEF Skip, CoverInv
  <2>2. CASE Pass
    BY <2>2 DEF Pass
  <2>3. CASE Fail
    BY <2>3 DEF Fail, Entry
  <2> QED
    BY <2>1, <2>2, <2>3
<1>7. DoneEntries \subseteq Tried' /\ Tried' \subseteq DoneEntries \cup RowEntries
  BY <1>r, <1>3 DEF CoverInv, RowEntries
<1> QED
  BY <1>f, <1>3, <1>4, <1>5, <1>6, <1>7, CoverFrame DEF CoverInv

\* The wheels turn to the same opcode or to one that has not come yet.
LEMMA TurnCovers ==
  ASSUME TypeInv, CoverInv, Advance
  PROVE  CoverInv'
<1>f. /\ pc = "next" /\ input' = next_state(inst, input) /\ inst' = inst /\ rows' = rows
      /\ RowFrame /\ pc' = (IF LastTurned(inst, input) = 0 THEN "returned" ELSE "test")
      /\ last_op' = last_op /\ last_op_had_failure' = last_op_had_failure
      /\ op_success_table' = op_success_table /\ failed' = failed /\ reached' = reached
  BY RowFrames DEF Advance
<1>r. Fits(inst) /\ inst.imm_size \in 0 .. 2 /\ input \in Inputs(inst)
  BY <1>f, TypeFacts DEF TypeInv, Busy
<1>1. Tried' = Tried /\ InputsTried'
  <2>1. Tried' = Tried
    BY <1>f DEF Tried
  <2> QED
    BY <1>f, <2>1 DEF CoverInv, InputsTried, EntryOf
<1>2. pc' = "test" => FailuresPast'
  <2> SUFFICES ASSUME LastTurned(inst, input) # 0
               PROVE  FailuresPast'
    BY <1>f
  <2> DEFINE x == next_state(inst, input)
  <2>1. x \in Inputs(inst)
    BY <1>r, TurnedInput
  <2>2. Ninth(input) \in Nat /\ \A v \in Inputs(inst) : Ninth(v) \in Nat
    BY <1>r, NumbersFit DEF Ninth
  <2>3. Ninth(x) = Ninth(input) \/ Ninth(x) = Ninth(input) + 1
    <3>1. Carries(inst, input, 9)
      BY <1>r, NextNumbers
    <3> QED
      BY <3>1, Zenon DEF Carries, Ninth
  <2>4. Ninth(x) = Ninth(input) => opcodeOf(inst, x) = opcode
    BY <1>r, <2>1, SameOpcode DEF Ninth, opcode
  <2>5. ASSUME NEW v \in Inputs(inst), EntryOf(v) \in failed
        PROVE  /\ Ninth(v) <= Ninth(x)
               /\ Ninth(v) = Ninth(x) =>
                    opcodeOf(inst, x) = last_op /\ last_op_had_failure
    <3>1. /\ Ninth(v) <= Ninth(input)
          /\ Ninth(v) = Ninth(input) => opcode = last_op /\ last_op_had_failure
      BY <1>f, <2>5 DEF CoverInv, FailuresPast
    <3> HIDE DEF x
    <3> QED
      BY <2>2, <2>3, <2>4, <3>1
  <2> QED
    BY <1>f, <2>5 DEF FailuresPast, EntryOf, Ninth, opcode
<1> QED
  BY <1>f, <1>1, <1>2, CoverFrame DEF CoverInv

\* All opcodes of a row that the tester has not given up have been tested.
LEMMA RowCovered ==
  ASSUME TypeInv, WalkInv, CoverInv, pc = "returned", keep_going \/ ~had_failure
  PROVE  Entries(inst) \subseteq Tried
<1>r. Fits(inst) /\ inst.imm_size \in 0 .. 2
  BY TypeFacts DEF TypeInv, Busy
<1>1. reached = Come(inst, Total(inst)) /\ InputsTried
  BY DEF WalkInv, CoverInv
<1>2. ASSUME NEW o \in Assembled(inst) PROVE <<inst.is_cb_prefix, o>> \in Tried
  <2>1. PICK v \in Inputs(inst) : opcodeOf(inst, v) = o /\ Rank(inst, Number(inst, v)) >= 0
    BY <1>r, OpcodeReached
  <2>2. Number(inst, v) \in 0 .. Total(inst) - 1 /\ Total(inst) \in Nat
    BY <1>r, NextNumber
  <2>3. Rank(inst, Number(inst, v)) \in Int /\ Rank(inst, Number(inst, v)) <= Number(inst, v)
    BY <2>2, RankIs
  <2>4. Number(inst, v) \in reached
    BY <1>1, <2>1, <2>2, <2>3 DEF Come
  <2> QED
    BY <1>1, <2>1, <2>4 DEF InputsTried, EntryOf
<1> QED
  BY <1>2 DEF Entries

LEMMA CoverStep == TypeInv /\ WalkInv /\ CoverInv /\ [Next]_vars => CoverInv'
<1> SUFFICES ASSUME TypeInv, WalkInv, CoverInv, [Next]_vars PROVE CoverInv'
  OBVIOUS
<1>f. /\ row \in Nat /\ tested \in Nat /\ Len(rows) \in Nat /\ row <= Len(rows)
      /\ DOMAIN suite = {"instructions", "cb_instructions"} /\ table \in DOMAIN suite
  BY TypeFacts
<1>1. CASE StartRow
  <2>1. /\ pc = "rows" /\ row < Len(rows) /\ row' = row + 1 /\ pc' = "test"
        /\ last_op_had_failure' = FALSE /\ reached' = {} /\ table' = table /\ suite' = suite
        /\ tested' = tested /\ op_success_table' = op_success_table /\ failed' = failed
    BY <1>1 DEF StartRow, flagVars
  <2>2. tested = row
    BY <2>1 DEF TypeInv, Busy
  <2>3. rows' = rows /\ inst' = rows[row + 1] /\ Tried' = Tried /\ DoneEntries' = DoneEntries
    BY <2>1 DEF rows, inst, Tried, DoneEntries, OtherEntries
  <2>4. RowEntries = {} /\ Tried \subseteq DoneEntries
    BY <1>f, <2>2 DEF RowEntries, CoverInv
  <2>5. Entries(inst') \cap DoneEntries = {}
    BY <1>f, <2>1, <2>2, <2>3, DoneApart
  <2>6. ASSUME NEW v \in Inputs(inst')
        PROVE  <<inst'.is_cb_prefix, opcodeOf(inst', v)>> \notin failed
    <3>1. Fits(inst')
      <4>1. TypeInv'
        BY TypeStep
      <4>2. row' > 0 /\ row' \in 1 .. Len(rows)
        BY <1>f, <2>1
      <4> QED
        BY <2>1, <2>3, <4>2, RowsFit DEF rows, TypeInv, TypeOK
    <3>2. opcodeOf(inst', v) \in Assembled(inst')
      BY <3>1, SettingOf
    <3>3. <<inst'.is_cb_prefix, opcodeOf(inst', v)>> \in Entries(inst')
      BY <3>2, Zenon DEF Entries
    <3> QED
      BY <2>4, <2>5, <3>3 DEF Tried
  <2>7. InputsTried' /\ FailuresPast'
    BY <2>1, <2>6 DEF InputsTried, FailuresPast, EntryOf
  <2> QED
    BY <2>1, <2>3, <2>4, <2>7 DEF CoverInv
<1>2. CASE GiveUp
  <2>1. /\ pc' = "exit" /\ RowFrame
        /\ op_success_table' = op_success_table /\ failed' = failed
    BY <1>2 DEF GiveUp, tableVars, flagVars, RowFrame
  <2>2. inst' = inst /\ rows' = rows /\ Tried' = Tried
    BY <2>1 DEF inst, rows, RowFrame, Tried
  <2> QED
    BY <2>1, <2>2, CoverFrame DEF CoverInv
<1>3. CASE EndRow
  <2>1. /\ pc = "returned" /\ (keep_going \/ ~had_failure) /\ pc' = "rows" /\ tested' = tested + 1
        /\ table' = table /\ row' = row /\ suite' = suite
        /\ op_success_table' = op_success_table /\ failed' = failed
    BY <1>3 DEF EndRow, flagVars
  <2>2. tested = row - 1
    BY <1>3 DEF EndRow, TypeInv, Busy
  <2>3. rows' = rows /\ Tried' = Tried /\ OtherEntries' = OtherEntries
    BY <2>1 DEF rows, Tried, OtherEntries
  <2>4. EntriesUpTo(rows, tested + 1) = EntriesUpTo(rows, tested) \cup Entries(inst)
    BY <1>f, <2>2, OneMore DEF inst
  <2>5. DoneEntries' = DoneEntries \cup Entries(inst)
    BY <2>1, <2>3, <2>4 DEF DoneEntries
  <2>6. Entries(inst) \subseteq Tried
    BY <1>3, RowCovered DEF EndRow, TypeInv, TypeOK
  <2>7. RowEntries = Entries(inst) /\ RowEntries' = {}
    BY <1>f, <2>1, <2>2 DEF RowEntries
  <2> QED
    BY <1>3, <2>1, <2>3, <2>5, <2>6, <2>7 DEF CoverInv, EndRow
<1>4. CASE EndTable
  <2>1. /\ pc = "rows" /\ row = Len(rows) /\ suite' = suite
        /\ op_success_table' = op_success_table /\ failed' = failed
    BY <1>4 DEF EndTable, flagVars
  <2>2. tested = row /\ Tried' = Tried
    BY <2>1 DEF TypeInv, Busy, Tried
  <2>3. CASE table = "instructions" /\ enable_cb
    <3>1. table' = "cb_instructions" /\ row' = 0 /\ tested' = 0 /\ pc' = pc
      BY <1>4, <2>3 DEF EndTable
    <3>2. EntriesUpTo(rows', 0) = {}
      BY DEF EntriesUpTo
    <3>3. OtherEntries' = EntriesUpTo(rows, tested)
      BY <2>1, <2>2, <2>3, <3>1 DEF OtherEntries, rows
    <3>4. DoneEntries' = DoneEntries
      BY <2>3, <3>1, <3>2, <3>3 DEF DoneEntries, OtherEntries
    <3>5. RowEntries = {} /\ RowEntries' = {}
      BY <1>f, <2>2, <3>1 DEF RowEntries
    <3> QED
      BY <2>1, <2>2, <3>1, <3>4, <3>5 DEF CoverInv
  <2>4. CASE ~(table = "instructions" /\ enable_cb)
    <3>1. pc' = "exit" /\ table' = table /\ row' = row /\ tested' = tested
      BY <1>4, <2>4 DEF EndTable
    <3>2. DoneEntries' = DoneEntries /\ RowEntries' = RowEntries
      BY <2>1, <3>1 DEF DoneEntries, RowEntries, OtherEntries, rows, inst
    <3> QED
      BY <2>1, <2>2, <3>1, <3>2 DEF CoverInv
  <2> QED
    BY <2>3, <2>4
<1>5. CASE UNCHANGED vars
  <2>1. UNCHANGED <<suite, table, row, tested, input, last_op, last_op_had_failure, reached,
                    op_success_table, failed, pc>>
    BY <1>5 DEF vars, walkVars, tableVars, flagVars
  <2>2. inst' = inst /\ rows' = rows /\ opcode' = opcode /\ Tried' = Tried
    BY <2>1 DEF inst, rows, opcode, Tried
  <2>3. DoneEntries' = DoneEntries /\ RowEntries' = RowEntries
    BY <2>1, <2>2 DEF DoneEntries, RowEntries, OtherEntries
  <2>4. (InputsTried' <=> InputsTried) /\ (FailuresPast' <=> FailuresPast)
    BY <2>1, <2>2 DEF InputsTried, FailuresPast, EntryOf, Ninth
  <2> QED
    BY <2>1, <2>2, <2>3, <2>4 DEF CoverInv
<1> QED
  BY <1>1, <1>2, <1>3, <1>4, <1>5, TestCovers, TurnCovers DEF Next, Exited

-----------------------------------------------------------------------------
(* What the summaries count.                                                *)

Clean(t, n, fails) == Cardinality({i \in 1 .. n : Entries(t[i]) \cap fails = {}})
Summary(t, fails) == <<Len(t), Len(t), Clean(t, Len(t), fails)>>

LEMMA CleanSame ==
  ASSUME NEW t, NEW n \in Nat, NEW fails, NEW e, e \notin EntriesUpTo(t, n)
  PROVE  Clean(t, n, fails \cup {e}) = Clean(t, n, fails)
<1>1. ASSUME NEW i \in 1 .. n
      PROVE  Entries(t[i]) \cap (fails \cup {e}) = {} <=> Entries(t[i]) \cap fails = {}
  <2>1. e \notin Entries(t[i])
    BY DEF EntriesUpTo
  <2> QED
    BY <2>1
<1> QED
  BY <1>1, Zenon DEF Clean

LEMMA CleanNext ==
  ASSUME NEW t, NEW n \in Nat, NEW fails
  PROVE  Clean(t, n + 1, fails)
         = IF Entries(t[n + 1]) \cap fails = {} THEN Clean(t, n, fails) + 1
           ELSE Clean(t, n, fails)
<1> DEFINE P(i) == Entries(t[i]) \cap fails = {}
           S == {i \in 1 .. n : P(i)}
           T == {i \in 1 .. n + 1 : P(i)}
<1>1. \A i : i \in 1 .. n + 1 <=> i \in 1 .. n \/ i = n + 1
  OBVIOUS
<1>2. n + 1 \notin 1 .. n
  OBVIOUS
<1>3. IsFiniteSet(S)
  <2>1. IsFiniteSet(1 .. n)
    BY FS_Interval
  <2> QED
    BY <2>1, FS_Subset
<1> HIDE DEF P
<1>4. CASE P(n + 1)
  <2>1. T = S \cup {n + 1} /\ n + 1 \notin S
    BY <1>1, <1>2, <1>4, Zenon
  <2>2. Cardinality(S \cup {n + 1}) = Cardinality(S) + 1
    BY <1>3, <2>1, FS_AddElement
  <2> QED
    BY <1>4, <2>1, <2>2, Zenon DEF Clean, P
<1>5. CASE ~P(n + 1)
  <2>1. T = S
    BY <1>1, <1>2, <1>5, Zenon
  <2> QED
    BY <1>5, <2>1, Zenon DEF Clean, P
<1> QED
  BY <1>4, <1>5

OtherSummaries ==
  IF table = "instructions" THEN << >> ELSE <<Summary(suite["instructions"], failed)>>
SumInv ==
  /\ passed = Clean(rows, tested, failed)
  /\ pc \in {"test", "next", "returned"} =>
       (had_failure <=> Entries(inst) \cap failed # {})
  /\ summaries = IF pc = "exit" /\ code = 0 THEN Append(OtherSummaries, Summary(rows, failed))
                 ELSE OtherSummaries

LEMMA SumInit == Init => SumInv
<1> SUFFICES ASSUME Init PROVE SumInv
  OBVIOUS
<1>1. /\ table = "instructions" /\ tested = 0 /\ passed = 0 /\ summaries = << >> /\ pc = "rows"
  BY DEF Init
<1>2. Clean(rows, 0, failed) = 0
  <2>1. {i \in 1 .. 0 : Entries(rows[i]) \cap failed = {}} = {}
    OBVIOUS
  <2> QED
    BY <2>1, FS_EmptySet DEF Clean
<1> QED
  BY <1>1, <1>2 DEF SumInv, OtherSummaries

LEMMA RowSums ==
  ASSUME TypeInv, SumInv, Skip \/ Pass \/ Fail \/ Advance
  PROVE  SumInv'
<1>f. /\ RowFrame /\ inst' = inst /\ rows' = rows /\ code' = code
      /\ pc \in {"test", "next"} /\ pc' \in {"test", "next", "returned"}
  BY RowFrames
<1>1. CASE Skip \/ Pass \/ Advance
  <2>1. failed' = failed /\ had_failure' = had_failure
    BY <1>1 DEF Skip, Pass, Advance
  <2>2. OtherSummaries' = OtherSummaries
    BY <1>f, <2>1 DEF RowFrame, OtherSummaries
  <2> QED
    BY <1>f, <2>1, <2>2 DEF RowFrame, SumInv
<1>2. CASE Fail
  <2>1. failed' = failed \cup {Entry} /\ had_failure' = TRUE
    BY <1>2 DEF Fail
  <2>2. /\ row \in 1 .. Len(rows) /\ tested < row /\ Entry \in Entries(inst) /\ tested \in Nat
        /\ suite \in Suites /\ DOMAIN suite = {"instructions", "cb_instructions"}
    <3>1. row > 0 /\ tested = row - 1
      BY <1>f DEF TypeInv, Busy
    <3> QED
      BY <3>1, TypeFacts
  <2>3. Entry \notin DoneEntries
    BY <2>2, DoneApart DEF inst
  <2>4. Clean(rows, tested, failed') = passed
    BY <2>1, <2>2, <2>3, CleanSame DEF DoneEntries, SumInv
  <2>5. OtherSummaries' = OtherSummaries
    <3>1. CASE table = "instructions"
      BY <1>f, <3>1 DEF RowFrame, OtherSummaries
    <3>2. CASE table # "instructions"
      <4> DEFINE t == suite["instructions"]
      <4>1. Len(t) \in Nat
        BY <2>2, RowsFit
      <4>2. Entry \notin EntriesUpTo(t, Len(t))
        BY <2>3, <3>2 DEF DoneEntries, OtherEntries
      <4>3. Clean(t, Len(t), failed') = Clean(t, Len(t), failed)
        BY <2>1, <4>1, <4>2, CleanSame
      <4>4. t' = t /\ table' = table
        BY <1>f DEF RowFrame
      <4> HIDE DEF t
      <4>5. Summary(t, failed') = Summary(t, failed)
        BY <4>3, Zenon DEF Summary
      <4> QED
        BY <1>f, <3>2, <4>4, <4>5 DEF OtherSummaries, t, RowFrame
    <3> QED
      BY <3>1, <3>2
  <2>6. Entries(inst) \cap failed' # {}
    BY <2>1, <2>2
  <2> QED
    BY <1>f, <2>1, <2>4, <2>5, <2>6 DEF RowFrame, SumInv
<1> QED
  BY <1>1, <1>2

LEMMA SumStep == TypeInv /\ CoverInv /\ SumInv /\ [Next]_vars => SumInv'
<1> SUFFICES ASSUME TypeInv, CoverInv, SumInv, [Next]_vars PROVE SumInv'
  OBVIOUS
<1>f. /\ row \in Nat /\ tested \in Nat /\ Len(rows) \in Nat /\ row <= Len(rows)
      /\ DOMAIN suite = {"instructions", "cb_instructions"} /\ table \in DOMAIN suite
  BY TypeFacts
<1>1. CASE StartRow
  <2>1. /\ pc = "rows" /\ row < Len(rows) /\ row' = row + 1 /\ pc' = "test"
        /\ had_failure' = FALSE /\ table' = table /\ suite' = suite /\ tested' = tested
        /\ passed' = passed /\ summaries' = summaries /\ failed' = failed
    BY <1>1 DEF StartRow, flagVars
  <2>2. tested = row
    BY <2>1 DEF TypeInv, Busy
  <2>3. rows' = rows /\ inst' = rows[row + 1] /\ OtherSummaries' = OtherSummaries
    BY <2>1 DEF rows, inst, OtherSummaries
  <2>4. failed \subseteq DoneEntries
    BY <1>f, <2>2 DEF RowEntries, CoverInv, Tried
  <2>5. Entries(inst') \cap DoneEntries = {}
    BY <1>f, <2>1, <2>2, <2>3, DoneApart
  <2>6. Entries(inst') \cap failed' = {}
    BY <2>1, <2>4, <2>5
  <2> QED
    BY <2>1, <2>3, <2>6 DEF SumInv
<1>2. CASE GiveUp
  <2>1. /\ pc = "returned" /\ pc' = "exit" /\ code' = 1 /\ RowFrame /\ failed' = failed
    BY <1>2 DEF GiveUp, tableVars, flagVars, RowFrame
  <2>2. inst' = inst /\ rows' = rows /\ OtherSummaries' = OtherSummaries
    BY <2>1 DEF inst, rows, RowFrame, OtherSummaries
  <2> QED
    BY <2>1, <2>2 DEF SumInv, RowFrame
<1>3. CASE EndRow
  <2>1. /\ pc = "returned" /\ pc' = "rows" /\ tested' = tested + 1
        /\ passed' = (IF had_failure THEN passed ELSE passed + 1)
        /\ table' = table /\ row' = row /\ suite' = suite /\ summaries' = summaries
        /\ failed' = failed
    BY <1>3 DEF EndRow, flagVars
  <2>2. tested = row - 1
    BY <2>1 DEF TypeInv, Busy
  <2>3. rows' = rows /\ OtherSummaries' = OtherSummaries
    BY <2>1 DEF rows, OtherSummaries
  <2>4. tested + 1 = row
    BY <1>f, <2>2
  <2>5. Clean(rows, tested + 1, failed) =
          IF Entries(inst) \cap failed = {} THEN Clean(rows, tested, failed) + 1
          ELSE Clean(rows, tested, failed)
    BY <1>f, <2>4, CleanNext DEF inst
  <2>6. had_failure <=> Entries(inst) \cap failed # {}
    BY <2>1 DEF SumInv
  <2>7. passed' = Clean(rows', tested', failed')
    BY <2>1, <2>3, <2>5, <2>6 DEF SumInv
  <2> QED
    BY <2>1, <2>3, <2>7 DEF SumInv
<1>4. CASE EndTable
  <2>1. /\ pc = "rows" /\ row = Len(rows) /\ suite' = suite /\ failed' = failed
        /\ summaries' = Append(summaries, <<tested, Len(rows), passed>>)
    BY <1>4 DEF EndTable, flagVars
  <2>2. tested = Len(rows)
    BY <2>1 DEF TypeInv, Busy
  <2>3. summaries' = Append(OtherSummaries, Summary(rows, failed))
    BY <2>1, <2>2 DEF SumInv, Summary
  <2>4. CASE table = "instructions" /\ enable_cb
    <3>1. /\ table' = "cb_instructions" /\ row' = 0 /\ tested' = 0 /\ passed' = 0 /\ pc' = pc
      BY <1>4, <2>4 DEF EndTable
    <3>2. Clean(rows', 0, failed) = 0
      <4>1. {i \in 1 .. 0 : Entries(rows'[i]) \cap failed = {}} = {}
        OBVIOUS
      <4> QED
        BY <4>1, FS_EmptySet DEF Clean
    <3>3. OtherSummaries' = <<Summary(rows, failed)>> /\ OtherSummaries = << >>
      BY <2>1, <2>4, <3>1 DEF OtherSummaries, rows
    <3>4. summaries' = OtherSummaries'
      BY <2>3, <3>3
    <3> QED
      BY <2>1, <3>1, <3>2, <3>4 DEF SumInv
  <2>5. CASE ~(table = "instructions" /\ enable_cb)
    <3>1. pc' = "exit" /\ code' = 0 /\ table' = table /\ tested' = tested /\ passed' = passed
      BY <1>4, <2>5 DEF EndTable
    <3>2. rows' = rows /\ OtherSummaries' = OtherSummaries
      BY <2>1, <3>1 DEF OtherSummaries, rows
    <3> QED
      BY <2>1, <2>3, <3>1, <3>2 DEF SumInv
  <2> QED
    BY <2>4, <2>5
<1>5. CASE UNCHANGED vars
  <2>1. UNCHANGED <<suite, table, row, tested, passed, summaries, failed, had_failure, pc, code>>
    BY <1>5 DEF vars, walkVars, tableVars, flagVars
  <2>2. inst' = inst /\ rows' = rows /\ OtherSummaries' = OtherSummaries
    BY <2>1 DEF inst, rows, OtherSummaries
  <2> QED
    BY <2>1, <2>2 DEF SumInv
<1> QED
  BY <1>1, <1>2, <1>3, <1>4, <1>5, RowSums DEF Next, Exited

-----------------------------------------------------------------------------
(* The properties.                                                          *)

Inv == TypeInv /\ WalkInv /\ CoverInv /\ SumInv

\* The parts of the invariant hold together in every run of the tester.
THEOREM InvHolds == Spec => []Inv
<1>1. Init => Inv
  BY TypeInit, WalkInit, CoverInit, SumInit DEF Inv
<1>2. Inv /\ [Next]_vars => Inv'
  BY TypeStep, WalkStep, CoverStep, SumStep DEF Inv
<1> QED
  BY <1>1, <1>2, PTL DEF Spec

\* The state of the tester keeps its types, over both tables.
THEOREM TypeCorrect == Spec => []TypeOK
<1>1. Inv => TypeOK
  BY DEF Inv, TypeInv
<1> QED
  BY <1>1, InvHolds, PTL

\* next_state() walks through every combination of the values of a row's wheels
\* but the one that IME keeps it from.
THEOREM AllInputsReached == Spec => []EveryInputReached
<1>1. ASSUME Inv PROVE EveryInputReached
  <2> SUFFICES ASSUME pc = "returned" /\ (keep_going \/ ~had_failure)
               PROVE  Cardinality(reached) = Total(inst) - Unreached
    BY DEF EveryInputReached
  <2>1. inst.imm_size \in 0 .. 2
    BY <1>1, TypeFacts DEF Inv, TypeInv, Busy
  <2>2. reached = Come(inst, Total(inst))
    BY <1>1 DEF Inv, WalkInv
  <2> QED
    BY <2>1, <2>2, ComeCount DEF Unreached
<1> QED
  BY <1>1, InvHolds, PTL

\* No combination comes twice: the walk through a row ends.
THEOREM NoInputRepeated == Spec => []NoInputTwice
<1>1. ASSUME Inv PROVE NoInputTwice
  <2> SUFFICES ASSUME pc = "test" PROVE Number(inst, input) \notin reached
    BY DEF NoInputTwice
  <2>1. inst.imm_size \in 0 .. 2 /\ input \in Inputs(inst)
    BY <1>1, TypeFacts DEF Inv, TypeInv, Busy
  <2>2. ShownRank >= 0 /\ reached = Come(inst, ShownRank - 1)
    BY <1>1 DEF Inv, WalkInv
  <2> QED
    BY <2>1, <2>2, ComeNext DEF ShownRank
<1> QED
  BY <1>1, InvHolds, PTL

\* print_coverage() counts no opcode that has failed and, unless the tester gave
\* up, every other opcode of the tables that it tested.
THEOREM CoverageAlwaysTrue == Spec => []CoverageIsTrue
<1>1. ASSUME Inv PROVE CoverageIsTrue
  <2> DEFINE all == UNION {Entries(r) : r \in UNION {Range(suite[t]) : t \in Range(TablesTested)}}
  <2>1. op_success_table \cap failed = {}
    BY <1>1 DEF Inv, CoverInv
  <2>2. ASSUME pc = "exit", code = 0 PROVE op_success_table \cup failed = all
    <3>1. /\ ~Busy /\ row = Len(rows) /\ (table = "instructions" => ~enable_cb)
          /\ (table = "cb_instructions" => enable_cb) /\ tested = Len(rows)
      BY <1>1, <2>2 DEF Inv, TypeInv, Busy
    <3>2. /\ DOMAIN suite = {"instructions", "cb_instructions"} /\ table \in DOMAIN suite
          /\ suite \in Suites /\ Len(rows) \in Nat
      BY <1>1, TypeFacts DEF Inv
    <3>3. ASSUME NEW t \in DOMAIN suite
          PROVE  UNION {Entries(r) : r \in Range(suite[t])}
                 = EntriesUpTo(suite[t], Len(suite[t]))
      <4>1. DOMAIN suite[t] = 1 .. Len(suite[t])
        BY <3>2, RowsFit
      <4>2. Range(suite[t]) = {suite[t][i] : i \in 1 .. Len(suite[t])}
        BY <4>1, Zenon DEF Range
      <4> QED
        BY <4>2, Zenon DEF EntriesUpTo
    <3>4. Tried = DoneEntries
      <4>1. RowEntries = {}
        BY <3>1, <3>2 DEF RowEntries
      <4> QED
        BY <1>1, <4>1 DEF Inv, CoverInv
    <3>5. ASSUME NEW e
          PROVE  e \in all <=> \E t \in Range(TablesTested) :
                                e \in UNION {Entries(r) : r \in Range(suite[t])}
      OBVIOUS
    <3> HIDE DEF all
    <3>6. CASE table = "instructions"
      <4>1. Range(TablesTested) = {"instructions"}
        BY <3>1, <3>6 DEF TablesTested, Range
      <4>2. DoneEntries = EntriesUpTo(suite["instructions"], Len(suite["instructions"]))
        BY <3>1, <3>6 DEF DoneEntries, OtherEntries, rows
      <4> QED
        BY <3>2, <3>3, <3>4, <3>5, <4>1, <4>2 DEF Tried
    <3>7. CASE table = "cb_instructions"
      <4>1. Range(TablesTested) = {"instructions", "cb_instructions"}
        BY <3>1, <3>7 DEF TablesTested, Range
      <4>2. DoneEntries = EntriesUpTo(suite["instructions"], Len(suite["instructions"]))
                          \cup EntriesUpTo(suite["cb_instructions"], Len(suite["cb_instructions"]))
        BY <3>1, <3>7 DEF DoneEntries, OtherEntries, rows
      <4> QED
        BY <3>2, <3>3, <3>4, <3>5, <4>1, <4>2 DEF Tried
    <3> QED
      BY <3>2, <3>6, <3>7
  <2> QED
    BY <2>1, <2>2 DEF CoverageIsTrue
<1> QED
  BY <1>1, InvHolds, PTL

\* A table's summary counts all its rows, and as passed those that had no
\* failure, also when the other table is tested after it.
THEOREM SummaryAlwaysTrue == Spec => []SummaryIsTrue
<1>1. ASSUME Inv PROVE SummaryIsTrue
  <2>1. /\ suite \in Suites /\ DOMAIN suite = {"instructions", "cb_instructions"}
        /\ table \in DOMAIN suite
    BY <1>1, TypeFacts DEF Inv
  <2>2. /\ table = "cb_instructions" => enable_cb
        /\ pc = "exit" /\ code = 0 => (table = "instructions" => ~enable_cb)
    BY <1>1 DEF Inv, TypeInv
  <2>3. summaries = IF pc = "exit" /\ code = 0
                      THEN Append(OtherSummaries, Summary(rows, failed)) ELSE OtherSummaries
    BY <1>1 DEF Inv, SumInv
  <2> DEFINE Told(t) == <<Len(t), Len(t),
                          Cardinality({n \in DOMAIN t : Entries(t[n]) \cap failed = {}})>>
  <2>4. ASSUME NEW t \in DOMAIN suite PROVE Summary(suite[t], failed) = Told(suite[t])
    <3>1. DOMAIN suite[t] = 1 .. Len(suite[t])
      BY <2>1, RowsFit
    <3> QED
      BY <3>1, Zenon DEF Summary, Clean
  <2> HIDE DEF Told
  <2>5. \/ summaries = << >> /\ ~(pc = "exit" /\ code = 0)
        \/ /\ summaries = <<Told(suite["instructions"])>> /\ TablesTested[1] = "instructions"
           /\ pc = "exit" /\ code = 0 => Len(TablesTested) = 1
        \/ /\ DOMAIN summaries = 1 .. 2 /\ Len(summaries) = 2
           /\ summaries[1] = Told(suite["instructions"])
           /\ summaries[2] = Told(suite["cb_instructions"])
           /\ TablesTested = <<"instructions", "cb_instructions">>
    <3>1. CASE table = "instructions"
      <4>1. OtherSummaries = << >> /\ Summary(rows, failed) = Told(suite["instructions"])
        BY <2>1, <2>4, <3>1 DEF OtherSummaries, rows
      <4> QED
        BY <2>2, <2>3, <3>1, <4>1 DEF TablesTested
    <3>2. CASE table = "cb_instructions"
      <4>1. /\ OtherSummaries = <<Told(suite["instructions"])>>
            /\ Summary(rows, failed) = Told(suite["cb_instructions"])
        BY <2>1, <2>4, <3>2 DEF OtherSummaries, rows
      <4>2. TablesTested = <<"instructions", "cb_instructions">>
        BY <2>2, <3>2 DEF TablesTested
      <4>3. CASE pc = "exit" /\ code = 0
        <5> DEFINE first == Told(suite["instructions"])
                   second == Told(suite["cb_instructions"])
                   S == {first, second}
        <5>1. summaries = Append(<<first>>, second)
          BY <2>3, <4>1, <4>3
        <5> HIDE DEF first, second
        <5>2. <<first>> \in Seq(S) /\ second \in S /\ Len(<<first>>) = 1 /\ <<first>>[1] = first
          OBVIOUS
        <5> HIDE DEF S
        <5>3. /\ summaries \in Seq(S) /\ Len(summaries) = 1 + 1
              /\ \A i \in 1 .. 1 : summaries[i] = first
              /\ summaries[1 + 1] = second
          BY <5>1, <5>2, AppendProperties
        <5>4. DOMAIN summaries = 1 .. 2 /\ Len(summaries) = 2
          BY <5>3
        <5> QED
          BY <4>2, <5>3, <5>4 DEF first, second
      <4>4. CASE ~(pc = "exit" /\ code = 0)
        BY <2>3, <4>1, <4>2, <4>4
      <4> QED
        BY <4>3, <4>4
    <3> QED
      BY <2>1, <3>1, <3>2
  <2>6. \A i \in DOMAIN summaries : summaries[i] = Told(suite[TablesTested[i]])
    BY <2>5
  <2>7. pc = "exit" /\ code = 0 => Len(summaries) = Len(TablesTested)
    BY <2>5
  <2> QED
    BY <2>6, <2>7 DEF SummaryIsTrue, Told
<1> QED
  BY <1>1, InvHolds, PTL

-----------------------------------------------------------------------------
(* The exit code.                                                           *)

\* Without keep_going, a failure is on its way to the exit code: the row that
\* had it has returned, or the program has exited with a non-zero code.
OnItsWay == (pc = "returned" /\ had_failure) \/ (pc = "exit" /\ code # 0)
ExitInv ==
  /\ pc \in {"rows", "test", "next", "returned", "exit"}
  /\ keep_going \in BOOLEAN /\ had_failure \in BOOLEAN
  /\ pc # "exit" => code = 0
  /\ keep_going => code = 0
  /\ ~keep_going => (failed # {} <=> OnItsWay)
  /\ ~keep_going /\ pc \in {"test", "next"} => ~had_failure

LEMMA ExitInit == Init => ExitInv
BY Zenon DEF Init, ExitInv, OnItsWay

\* The steps of test_instruction: the first failure ends it at once.
LEMMA InstructionSteps ==
  ASSUME ExitInv, Skip \/ Pass \/ Fail \/ Advance
  PROVE  ExitInv'
<1>1. CASE Skip
  BY <1>1, Zenon DEF ExitInv, OnItsWay, Skip, flagVars, tableVars
<1>2. CASE Pass
  BY <1>2, Zenon DEF ExitInv, OnItsWay, Pass, flagVars, tableVars
<1>3. CASE Fail
  <2>1. failed' # {}
    BY <1>3 DEF Fail
  <2>2. /\ keep_going' = keep_going /\ code' = code /\ had_failure' = TRUE
        /\ pc' = (IF keep_going THEN "next" ELSE "returned") /\ pc = "test"
    BY <1>3 DEF Fail, flagVars
  <2> QED
    BY <2>1, <2>2 DEF ExitInv, OnItsWay
<1>4. CASE Advance
  <2>1. /\ keep_going' = keep_going /\ code' = code /\ had_failure' = had_failure
        /\ failed' = failed /\ pc = "next" /\ pc' \in {"returned", "test"}
    BY <1>4 DEF Advance, flagVars
  <2> QED
    BY <2>1 DEF ExitInv, OnItsWay
<1> QED
  BY <1>1, <1>2, <1>3, <1>4

\* The steps of test_instructions and test_all_instructions.
LEMMA TableSteps ==
  ASSUME ExitInv, StartRow \/ GiveUp \/ EndRow \/ EndTable \/ Exited
  PROVE  ExitInv'
<1>1. CASE StartRow
  <2>1. /\ keep_going' = keep_going /\ code' = code /\ had_failure' = FALSE
        /\ failed' = failed /\ pc = "rows" /\ pc' = "test"
    BY <1>1 DEF StartRow, flagVars
  <2> QED
    BY <2>1 DEF ExitInv, OnItsWay
<1>2. CASE GiveUp
  <2>1. /\ keep_going' = keep_going /\ code' = 1 /\ had_failure' = had_failure
        /\ failed' = failed /\ pc = "returned" /\ pc' = "exit" /\ had_failure /\ ~keep_going
    BY <1>2 DEF GiveUp, flagVars
  <2> QED
    BY <2>1 DEF ExitInv, OnItsWay
<1>3. CASE EndRow
  <2>1. /\ keep_going' = keep_going /\ code' = code /\ had_failure' = had_failure
        /\ failed' = failed /\ pc = "returned" /\ pc' = "rows" /\ ~(had_failure /\ ~keep_going)
    BY <1>3 DEF EndRow, flagVars
  <2> QED
    BY <2>1 DEF ExitInv, OnItsWay
<1>4. CASE EndTable
  <2>1. /\ keep_going' = keep_going /\ had_failure' = had_failure
        /\ failed' = failed /\ pc = "rows"
        /\ (pc' = pc /\ code' = code) \/ (pc' = "exit" /\ code' = 0)
    BY <1>4 DEF EndTable, flagVars
  <2> QED
    BY <2>1 DEF ExitInv, OnItsWay
<1>5. CASE Exited
  BY <1>5 DEF Exited, ExitInv, OnItsWay, vars, flagVars
<1> QED
  BY <1>1, <1>2, <1>3, <1>4, <1>5

LEMMA ExitStep == ExitInv /\ [Next]_vars => ExitInv'
<1> SUFFICES ASSUME ExitInv, [Next]_vars
             PROVE  ExitInv'
  OBVIOUS
<1>1. CASE UNCHANGED vars
  BY <1>1 DEF vars, flagVars, ExitInv, OnItsWay
<1> QED
  BY <1>1, InstructionSteps, TableSteps DEF Next

\* The one failure is that of the opcode the tester stands at.
FailedHere == ~keep_going /\ failed # {} => failed = {Entry}

LEMMA EntryStays ==
  ASSUME UNCHANGED <<suite, table, row, input>>
  PROVE  Entry' = Entry
BY DEF Entry, inst, rows, opcode

LEMMA FailedHereStep == ExitInv /\ FailedHere /\ [Next]_vars => FailedHere'
<1> SUFFICES ASSUME ExitInv, FailedHere, [Next]_vars
             PROVE  FailedHere'
  OBVIOUS
<1>1. CASE Fail
  <2>1. keep_going \/ failed = {}
    BY <1>1 DEF Fail, ExitInv, OnItsWay
  <2>2. /\ failed' = failed \cup {Entry} /\ keep_going' = keep_going
        /\ UNCHANGED <<suite, table, row, input>>
    BY <1>1 DEF Fail, flagVars, tableVars
  <2>3. Entry' = Entry
    BY <2>2, EntryStays
  <2> QED
    BY <2>1, <2>2, <2>3 DEF FailedHere
<1>2. CASE GiveUp \/ Exited \/ UNCHANGED vars
  <2>1. UNCHANGED <<suite, table, row, input, failed, keep_going>>
    BY <1>2 DEF GiveUp, Exited, vars, walkVars, tableVars, flagVars
  <2>2. Entry' = Entry
    BY <2>1, EntryStays
  <2> QED
    BY <2>1, <2>2 DEF FailedHere
<1>3. CASE Skip \/ Pass \/ Advance \/ StartRow \/ EndRow \/ EndTable
  <2>1. UNCHANGED <<failed, keep_going>>
    BY <1>3 DEF Skip, Pass, Advance, StartRow, EndRow, EndTable, flagVars
  <2>2. keep_going \/ failed = {}
    <3>1. pc \in {"test", "next", "rows"} \/ (pc = "returned" /\ ~(had_failure /\ ~keep_going))
      BY <1>3 DEF Skip, Pass, Advance, StartRow, EndRow, EndTable
    <3> QED
      BY <3>1 DEF ExitInv, OnItsWay
  <2> QED
    BY <2>1, <2>2 DEF FailedHere
<1> QED
  BY <1>1, <1>2, <1>3 DEF Next

\* Told to stop at the first failure, the tester does: no opcode of either table is
\* tested behind the one that has failed, and the exit code tells of it.
THEOREM FailureStopsTester == Spec => []StopsAtFailure
<1>1. Init => FailedHere
  BY DEF Init, FailedHere
<1>2. ExitInv /\ FailedHere => StopsAtFailure
  BY DEF ExitInv, OnItsWay, FailedHere, StopsAtFailure
<1> QED
  BY <1>1, <1>2, ExitInit, ExitStep, FailedHereStep, PTL DEF Spec

-----------------------------------------------------------------------------
(* The rows of the two tables.  First what a row assembles, by its operands.*)

\* Without an operand the row's opcode is the only one.
LEMMA NoOperands ==
  ASSUME NEW r, r.opcode \in Nat, r.at = no_operand
  PROVE  Assembled(r) = {r.opcode} /\ \A u, v \in Settings(r) : u = v
<1>1. DOMAIN r.at = {}
  BY DEF no_operand
<1>2. \A u \in Settings(r) : opcodeOf(r, u) = r.opcode
  BY <1>1 DEF opcodeOf, Weighted
<1>3. [w \in {} |-> 0] \in Settings(r)
  BY <1>1 DEF Settings
<1>4. \A u, v \in Settings(r) : u = v
  BY <1>1 DEF Settings
<1> QED
  BY <1>2, <1>3, <1>4 DEF Assembled

\* What a row with one operand assembles: n opcodes, k apart.
Steps(r, k, n) ==
  /\ \A o \in Int : o \in Assembled(r) <=>
       o - r.opcode >= 0 /\ o - r.opcode < k * n /\ (o - r.opcode) % k = 0
  /\ \A o \in Assembled(r) : o \in Int
  /\ \A u, v \in Settings(r) : opcodeOf(r, u) = opcodeOf(r, v) => u = v

LEMMA OneOperand ==
  ASSUME NEW r, NEW w \in {"cond", "reg16", "reg8", "reg8_2", "bit"},
         r.opcode \in Nat, DOMAIN r.at = {w}, r.at[w] \in {1, 8, 16}
  PROVE  Steps(r, r.at[w], Limit(w))
<1> DEFINE b == r.opcode
           k == r.at[w]
           n == Limit(w)
<1>1. n \in 4 .. 8
  BY DEF Limit
<1>2. \A u \in Settings(r) :
        /\ u \in [{w} -> 0 .. 7] /\ u[w] \in 0 .. n - 1
        /\ opcodeOf(r, u) = b + k * u[w]
  BY <1>1 DEF Settings, opcodeOf, Weighted
<1>3. ASSUME NEW i \in 0 .. n - 1
      PROVE  /\ [v \in {w} |-> i] \in Settings(r)
             /\ opcodeOf(r, [v \in {w} |-> i]) = b + k * i
  <2>1. [v \in {w} |-> i] \in Settings(r)
    BY <1>1 DEF Settings
  <2> QED
    BY <1>2, <2>1
<1>4. b \in Nat /\ k \in {1, 8, 16}
  OBVIOUS
<1> HIDE DEF b, k, n
<1>5. \A o : o \in Assembled(r) <=> \E i \in 0 .. n - 1 : o = b + k * i
  BY <1>2, <1>3 DEF Assembled
<1>6. ASSUME NEW o \in Int
      PROVE  (\E i \in 0 .. n - 1 : o = b + k * i) <=>
               o - b >= 0 /\ o - b < k * n /\ (o - b) % k = 0
  <2>1. CASE k = 1
    <3>1. o - b >= 0 /\ o - b < n => o - b \in 0 .. n - 1 /\ o = b + 1 * (o - b)
      BY <1>1, <1>4
    <3>2. \A i \in 0 .. n - 1 : o = b + 1 * i => o - b = i
      BY <1>1, <1>4
    <3>3. (o - b) % 1 = 0
      BY <1>4
    <3> QED
      BY <1>1, <1>4, <2>1, <3>1, <3>2, <3>3
  <2>2. CASE k = 8
    <3> DEFINE q == (o - b) \div 8
    <3>1. o - b >= 0 /\ o - b < 8 * n /\ (o - b) % 8 = 0 => q \in 0 .. n - 1 /\ o = b + 8 * q
      BY <1>1, <1>4
    <3>2. \A i \in 0 .. n - 1 : o = b + 8 * i => o - b >= 0 /\ o - b < 8 * n /\ (o - b) % 8 = 0
      BY <1>1, <1>4
    <3> HIDE DEF q
    <3> QED
      BY <2>2, <3>1, <3>2
  <2>3. CASE k = 16
    <3> DEFINE q == (o - b) \div 16
    <3>1. o - b >= 0 /\ o - b < 16 * n /\ (o - b) % 16 = 0 => q \in 0 .. n - 1 /\ o = b + 16 * q
      BY <1>1, <1>4
    <3>2. \A i \in 0 .. n - 1 : o = b + 16 * i => o - b >= 0 /\ o - b < 16 * n /\ (o - b) % 16 = 0
      BY <1>1, <1>4
    <3> HIDE DEF q
    <3> QED
      BY <2>3, <3>1, <3>2
  <2> QED
    BY <1>4, <2>1, <2>2, <2>3
<1>7. \A o \in Assembled(r) : o \in Int
  BY <1>1, <1>4, <1>5
<1>8. ASSUME NEW u \in Settings(r), NEW v \in Settings(r), opcodeOf(r, u) = opcodeOf(r, v)
      PROVE  u = v
  <2>1. b + k * u[w] = b + k * v[w] /\ u[w] \in Int /\ v[w] \in Int
    BY <1>1, <1>2, <1>8
  <2>2. u[w] = v[w]
    <3> DEFINE x == u[w]
               y == v[w]
    <3>1. x \in Int /\ y \in Int /\ b + k * x = b + k * y
      BY <2>1
    <3> HIDE DEF x, y
    <3>2. ASSUME k = 1 PROVE x = y
      <4>1. b + 1 * x = b + 1 * y
        BY <3>1, <3>2
      <4> QED
        BY <1>4, <3>1, <4>1
    <3>3. ASSUME k = 8 PROVE x = y
      <4>1. b + 8 * x = b + 8 * y
        BY <3>1, <3>3
      <4> QED
        BY <1>4, <3>1, <4>1
    <3>4. ASSUME k = 16 PROVE x = y
      <4>1. b + 16 * x = b + 16 * y
        BY <3>1, <3>4
      <4> QED
        BY <1>4, <3>1, <4>1
    <3>5. x = y
      BY <1>4, <3>2, <3>3, <3>4
    <3> QED
      BY <3>5 DEF x, y
  <2> QED
    BY <1>2, <2>2
<1> QED
  BY <1>5, <1>6, <1>7, <1>8 DEF b, k, n, Steps

\* With two operands, of weights 1 and 8, it is the first of 64.
LEMMA TwoOperands ==
  ASSUME NEW r, NEW w \in {"reg8_2", "bit"}, r.opcode \in Nat,
         DOMAIN r.at = {"reg8", w}, r.at["reg8"] = 1, r.at[w] = 8
  PROVE  /\ Assembled(r) = r.opcode .. r.opcode + 63
         /\ \A u, v \in Settings(r) : opcodeOf(r, u) = opcodeOf(r, v) => u = v
<1> DEFINE b == r.opcode
<1>1. \A u \in Settings(r) :
        /\ u \in [{"reg8", w} -> 0 .. 7] /\ u["reg8"] \in 0 .. 7 /\ u[w] \in 0 .. 7
        /\ opcodeOf(r, u) = b + u["reg8"] + 8 * u[w]
  BY DEF Settings, opcodeOf, Weighted
<1>2. ASSUME NEW i \in 0 .. 7, NEW j \in 0 .. 7
      PROVE  b + i + 8 * j \in Assembled(r)
  <2> DEFINE u == [v \in {"reg8", w} |-> IF v = w THEN j ELSE i]
  <2>1. u \in Settings(r)
    BY DEF Settings, Limit
  <2>2. u["reg8"] = i /\ u[w] = j
    OBVIOUS
  <2> HIDE DEF u
  <2> QED
    BY <1>1, <2>1, <2>2 DEF Assembled
<1>3. ASSUME NEW o \in Assembled(r) PROVE o \in b .. b + 63
  <2>1. PICK u \in Settings(r) : o = opcodeOf(r, u)
    BY DEF Assembled
  <2> QED
    BY <1>1, <2>1
<1>4. ASSUME NEW o \in b .. b + 63 PROVE o \in Assembled(r)
  <2> DEFINE d == o - b
             i == d % 8
             j == d \div 8
  <2>1. d \in 0 .. 63 /\ o = b + d
    OBVIOUS
  <2> HIDE DEF d
  <2>2. i \in 0 .. 7 /\ j \in 0 .. 7 /\ d = i + 8 * j
    BY <2>1
  <2> HIDE DEF i, j
  <2>3. o = b + i + 8 * j
    BY <2>1, <2>2
  <2> QED
    BY <1>2, <2>2, <2>3
<1>5. ASSUME NEW u \in Settings(r), NEW v \in Settings(r), opcodeOf(r, u) = opcodeOf(r, v)
      PROVE  u = v
  <2>1. u["reg8"] = v["reg8"] /\ u[w] = v[w]
    BY <1>1, <1>5
  <2> QED
    BY <1>1, <2>1
<1> QED
  BY <1>3, <1>4, <1>5

-----------------------------------------------------------------------------
(* instructions[], line by line.                                            *)

Row(b, imm, at, test) ==
  [opcode |-> b, is_cb_prefix |-> FALSE, imm_size |-> imm, at |-> at, test |-> test]

LEMMA RowIn ==
  ASSUME NEW S, NEW imm, NEW at, NEW test
  PROVE  /\ \A r \in Rows(S, imm, at, test) : r.opcode \in S /\ r = Row(r.opcode, imm, at, test)
         /\ \A b \in S : Row(b, imm, at, test) \in Rows(S, imm, at, test)
                         /\ Row(b, imm, at, test).opcode = b
<1>1. ASSUME NEW r \in Rows(S, imm, at, test)
      PROVE  r.opcode \in S /\ r = Row(r.opcode, imm, at, test)
  <2>1. PICK o \in S : r = Row(o, imm, at, test)
    BY DEF Rows, Row
  <2>2. r.opcode = o
    BY <2>1 DEF Row
  <2> QED
    BY <2>1, <2>2
<1>2. ASSUME NEW b \in S
      PROVE  /\ Row(b, imm, at, test) \in Rows(S, imm, at, test)
             /\ Row(b, imm, at, test).opcode = b
  BY DEF Rows, Row
<1> QED
  BY <1>1, <1>2

LEMMA RowIs ==
  ASSUME NEW b, NEW imm, NEW at, NEW test
  PROVE  LET r == Row(b, imm, at, test)
         IN r.opcode = b /\ r.is_cb_prefix = FALSE /\ r.imm_size = imm /\ r.at = at
BY DEF Row

\* The row of opcode b, if it is one of instructions[].
Line(b, imm, at, test) ==
  \/ b \in {0, 16, 47} /\ imm = 0 /\ at = no_operand /\ test = {}
  \/ b \in {2, 10, 226, 242} /\ imm = 0 /\ at = no_operand /\ test = {"BC"}
  \/ b \in {18, 26} /\ imm = 0 /\ at = no_operand /\ test = {"DE"}
  \/ b = 201 /\ imm = 0 /\ at = no_operand /\ test = {"SP"}
  \/ b \in {34, 42, 50, 58, 233} /\ imm = 0 /\ at = no_operand /\ test = {"HL"}
  \/ b = 249 /\ imm = 0 /\ at = no_operand /\ test = {"HL", "SP"}
  \/ b = 217 /\ imm = 0 /\ at = no_operand /\ test = {"SP", "IME"}
  \/ b \in {243, 251} /\ imm = 0 /\ at = no_operand /\ test = {"IME"}
  \/ b \in {7, 15, 23, 31, 39, 55, 63} /\ imm = 0 /\ at = no_operand /\ test = {"F"}
  \/ b \in {24, 198, 206, 214, 222, 224, 230, 238, 240, 246, 254} 
     /\ imm = 1 /\ at = no_operand /\ test = {}
  \/ b = 232 /\ imm = 1 /\ at = no_operand /\ test = {"SP"}
  \/ b = 248 /\ imm = 1 /\ at = no_operand /\ test = {"HL", "SP"}
  \/ b \in {195, 234, 250} /\ imm = 2 /\ at = no_operand /\ test = {}
  \/ b \in {8, 205} /\ imm = 2 /\ at = no_operand /\ test = {"SP"}
  \/ b = 1 /\ imm = 2 /\ at = r16_4 /\ test = {}
  \/ b = 9 /\ imm = 0 /\ at = r16_4 /\ test = Pairs
  \/ b \in {3, 11, 193, 197} /\ imm = 0 /\ at = r16_4 /\ test = Pairs \cup {"SP"}
  \/ b = 6 /\ imm = 1 /\ at = r8_3 /\ test = Pairs
  \/ b \in {4, 5} /\ imm = 0 /\ at = r8_3 /\ test = Pairs
  \/ b = 64 /\ imm = 0 /\ at = r8_r8 /\ test = Pairs
  \/ b \in {128, 144, 160, 168, 176, 184} /\ imm = 0 /\ at = r8_0 /\ test = Pairs
  \/ b \in {136, 152} /\ imm = 0 /\ at = r8_0 /\ test = Pairs \cup {"F"}
  \/ b = 32 /\ imm = 1 /\ at = cc_3 /\ test = {"F"}
  \/ b = 192 /\ imm = 0 /\ at = cc_3 /\ test = {"F", "SP"}
  \/ b = 194 /\ imm = 2 /\ at = cc_3 /\ test = {"F"}
  \/ b = 196 /\ imm = 2 /\ at = cc_3 /\ test = {"F", "SP"}
  \/ b = 199 /\ imm = 0 /\ at = bit_3 /\ test = {"SP"}

HasRow(b) == \E r \in instructions : r.opcode = b

There(S, imm, at, test) == \A r \in Rows(S, imm, at, test) : r \in instructions

LEMMA RowsThere ==
  ASSUME NEW S, NEW imm, NEW at, NEW test, There(S, imm, at, test)
  PROVE  \A b \in S : HasRow(b)
BY RowIn DEF There, HasRow

\* Each of these opcodes has a row, and each row is a line.
LEMMA Listed ==
  ASSUME NEW b \in {0, 2, 7, 8, 10, 15, 16, 18, 23, 24, 26, 31, 34, 39, 42, 47, 50, 55, 58, 63,
                    195, 198, 201, 205, 206, 214, 217, 222, 224, 226, 230, 232, 233, 234, 238,
                    240, 242, 243, 246, 248, 249, 250, 251, 254,
                    1, 3, 9, 11, 193, 197, 4, 5, 6, 64, 128, 136, 144, 152, 160, 168, 176, 184,
                    32, 192, 194, 196, 199}
  PROVE  HasRow(b)
<1>1. /\ There({0, 16, 47}, 0, no_operand, {})
      /\ There({2, 10, 226, 242}, 0, no_operand, {"BC"})
      /\ There({18, 26}, 0, no_operand, {"DE"})
      /\ There({201}, 0, no_operand, {"SP"})
      /\ There({34, 42, 50, 58, 233}, 0, no_operand, {"HL"})
      /\ There({249}, 0, no_operand, {"HL", "SP"})
      /\ There({217}, 0, no_operand, {"SP", "IME"})
      /\ There({243, 251}, 0, no_operand, {"IME"})
      /\ There({7, 15, 23, 31, 39, 55, 63}, 0, no_operand, {"F"})
  BY DEF There, instructions, Rows_R8
<1>2. /\ There({24, 198, 206, 214, 222, 224, 230, 238, 240, 246, 254}, 1, no_operand, {})
      /\ There({232}, 1, no_operand, {"SP"})
      /\ There({248}, 1, no_operand, {"HL", "SP"})
      /\ There({195, 234, 250}, 2, no_operand, {})
      /\ There({8, 205}, 2, no_operand, {"SP"})
  BY DEF There, instructions, Rows_R8
<1>3. /\ There({1}, 2, r16_4, {})
      /\ There({9}, 0, r16_4, Pairs)
      /\ There({3, 11, 193, 197}, 0, r16_4, Pairs \cup {"SP"})
      /\ There({6}, 1, r8_3, Pairs)
  BY DEF There, instructions, Rows_R8
<1>4. /\ There({4, 5}, 0, r8_3, Pairs)
      /\ There({64}, 0, r8_r8, Pairs)
      /\ There({128, 144, 160, 168, 176, 184}, 0, r8_0, Pairs)
      /\ There({136, 152}, 0, r8_0, Pairs \cup {"F"})
      /\ There({32}, 1, cc_3, {"F"})
      /\ There({192}, 0, cc_3, {"F", "SP"})
      /\ There({194}, 2, cc_3, {"F"})
      /\ There({196}, 2, cc_3, {"F", "SP"})
      /\ There({199}, 0, bit_3, {"SP"})
  BY DEF There, instructions, Rows_R8
<1>5. /\ \A c \in {0, 16, 47} : HasRow(c)
      /\ \A c \in {2, 10, 226, 242} : HasRow(c)
      /\ \A c \in {18, 26} : HasRow(c)
      /\ \A c \in {201} : HasRow(c)
      /\ \A c \in {34, 42, 50, 58, 233} : HasRow(c)
      /\ \A c \in {249} : HasRow(c)
      /\ \A c \in {217} : HasRow(c)
      /\ \A c \in {243, 251} : HasRow(c)
      /\ \A c \in {7, 15, 23, 31, 39, 55, 63} : HasRow(c)
      /\ \A c \in {24, 198, 206, 214, 222, 224, 230, 238, 240, 246, 254} : HasRow(c)
      /\ \A c \in {232} : HasRow(c)
      /\ \A c \in {248} : HasRow(c)
      /\ \A c \in {195, 234, 250} : HasRow(c)
      /\ \A c \in {8, 205} : HasRow(c)
      /\ \A c \in {1} : HasRow(c)
      /\ \A c \in {9} : HasRow(c)
      /\ \A c \in {3, 11, 193, 197} : HasRow(c)
      /\ \A c \in {6} : HasRow(c)
      /\ \A c \in {4, 5} : HasRow(c)
      /\ \A c \in {64} : HasRow(c)
      /\ \A c \in {128, 144, 160, 168, 176, 184} : HasRow(c)
      /\ \A c \in {136, 152} : HasRow(c)
      /\ \A c \in {32} : HasRow(c)
      /\ \A c \in {192} : HasRow(c)
      /\ \A c \in {194} : HasRow(c)
      /\ \A c \in {196} : HasRow(c)
      /\ \A c \in {199} : HasRow(c)
  BY <1>1, <1>2, <1>3, <1>4, RowsThere
<1> QED
  BY <1>5, SMTT(30)

LEMMA LineOf ==
  ASSUME NEW r \in instructions
  PROVE  \E b, imm, at, test : Line(b, imm, at, test) /\ r = Row(b, imm, at, test)
<1>1. \E imm, at, test : r = Row(r.opcode, imm, at, test) /\ Line(r.opcode, imm, at, test)
  BY RowIn DEF Line, instructions, Rows_R8
<1> QED
  BY <1>1

LEMMA LineOnce ==
  ASSUME NEW b, NEW imm, NEW at, NEW test, Line(b, imm, at, test),
         NEW imm2, NEW at2, NEW test2, Line(b, imm2, at2, test2)
  PROVE  imm = imm2 /\ at = at2 /\ test = test2
BY DEF Line

-----------------------------------------------------------------------------
(* The octal digits of an opcode tell its row.                              *)

LEMMA OperandsAre ==
  /\ DOMAIN no_operand = {}
  /\ DOMAIN r8_0 = {"reg8"} /\ r8_0["reg8"] = 1
  /\ DOMAIN r8_3 = {"reg8"} /\ r8_3["reg8"] = 8
  /\ DOMAIN r8_r8 = {"reg8", "reg8_2"} /\ r8_r8["reg8"] = 1 /\ r8_r8["reg8_2"] = 8
  /\ DOMAIN r16_4 = {"reg16"} /\ r16_4["reg16"] = 16
  /\ DOMAIN cc_3 = {"cond"} /\ cc_3["cond"] = 8
  /\ DOMAIN bit_3 = {"bit"} /\ bit_3["bit"] = 8
  /\ DOMAIN r8_0_bit_3 = {"reg8", "bit"} /\ r8_0_bit_3["reg8"] = 1 /\ r8_0_bit_3["bit"] = 8
BY DEF no_operand, r8_0, r8_3, r8_r8, r16_4, cc_3, bit_3, r8_0_bit_3

\* The operands of a row tell which opcodes it may have.
LEMMA OperandsOf ==
  ASSUME NEW b, NEW imm, NEW at, NEW test, Line(b, imm, at, test)
  PROVE  \/ /\ at = no_operand
            /\ b \in {0, 16, 47, 2, 10, 226, 242, 18, 26, 201, 34, 42, 50, 58, 233, 249, 217,
                      243, 251, 7, 15, 23, 31, 39, 55, 63, 24, 198, 206, 214, 222, 224, 230,
                      238, 240, 246, 254, 232, 248, 195, 234, 250, 8, 205}
         \/ at = r16_4 /\ b \in {1, 3, 9, 11, 193, 197}
         \/ at = r8_3 /\ b \in {4, 5, 6}
         \/ at = r8_r8 /\ b = 64
         \/ at = r8_0 /\ b \in {128, 136, 144, 152, 160, 168, 176, 184}
         \/ at = cc_3 /\ b \in {32, 192, 194, 196}
         \/ at = bit_3 /\ b = 199
BY DEF Line

\* The opcode in the row of 64 * x + 8 * y + z.
RowBase(x, y, z) ==
  IF x = 1 THEN 64
  ELSE IF x = 2 THEN 128 + 8 * y
  ELSE IF x = 0 /\ z \in {4, 5, 6} THEN z
  ELSE IF x = 0 /\ z \in {1, 3} THEN IF y \in {0, 2, 4, 6} THEN z ELSE 8 + z
  ELSE IF x = 0 /\ z = 0 /\ y >= 4 THEN 32
  ELSE IF x = 3 /\ z \in {0, 2, 4} /\ y < 4 THEN 192 + z
  ELSE IF x = 3 /\ z = 7 THEN 199
  ELSE IF x = 3 /\ z \in {1, 5} /\ y \in {0, 2, 4, 6} THEN 192 + z
  ELSE 64 * x + 8 * y + z

LEMMA OctalDigits ==
  ASSUME NEW o \in 0 .. 255
  PROVE  \E x \in 0 .. 3, y \in 0 .. 7, z \in 0 .. 7 : o = 64 * x + 8 * y + z
<1> DEFINE x == o \div 64
           y == (o \div 8) % 8
           z == o % 8
<1>1. x \in 0 .. 3 /\ y \in 0 .. 7 /\ z \in 0 .. 7 /\ o = 64 * x + 8 * y + z
  OBVIOUS
<1> QED
  BY <1>1

\* What a row of opcode b assembles.
AssemblesOf(r, b) ==
  /\ \A o \in Assembled(r) : o \in 0 .. 255
  /\ \A x \in 0 .. 3, y \in 0 .. 7, z \in 0 .. 7 :
       64 * x + 8 * y + z \in Assembled(r) <=> RowBase(x, y, z) = b
  /\ \A u, v \in Settings(r) : opcodeOf(r, u) = opcodeOf(r, v) => u = v

LEMMA Assembles_no_operand ==
  ASSUME NEW r, r.at = no_operand,
         NEW b \in {0, 16, 47, 2, 10, 226, 242, 18, 26, 201, 34, 42, 50, 58, 233, 249, 217,
                    243, 251, 7, 15, 23, 31, 39, 55, 63, 24, 198, 206, 214, 222, 224, 230, 238,
                    240, 246, 254, 232, 248, 195, 234, 250, 8, 205},
         r.opcode = b
  PROVE  AssemblesOf(r, b)
<1>1. Assembled(r) = {b} /\ \A u, v \in Settings(r) : u = v
  BY NoOperands
<1>2. b \in 0 .. 255
  OBVIOUS
<1>3. ASSUME NEW x \in 0 .. 3, NEW y \in 0 .. 7, NEW z \in 0 .. 7
      PROVE  64 * x + 8 * y + z = b <=> RowBase(x, y, z) = b
  BY DEF RowBase
<1> QED
  BY <1>1, <1>2, <1>3 DEF AssemblesOf

LEMMA Assembles_r16_4 ==
  ASSUME NEW r, r.at = r16_4, NEW b \in {1, 3, 9, 11, 193, 197}, r.opcode = b
  PROVE  AssemblesOf(r, b)
<1>1. DOMAIN r.at = {"reg16"} /\ r.at["reg16"] = 16 /\ Limit("reg16") = 4
  BY OperandsAre DEF Limit
<1>2. Steps(r, 16, 4)
  <2>1. Steps(r, r.at["reg16"], Limit("reg16"))
    BY <1>1, OneOperand
  <2> QED
    BY <1>1, <2>1
<1>3. \A o \in Int : o \in Assembled(r) <=> o - b >= 0 /\ o - b < 64 /\ (o - b) % 16 = 0
  BY <1>2 DEF Steps
<1>4. ASSUME NEW o \in Assembled(r) PROVE o \in 0 .. 255
  <2>1. o \in Int /\ o - b >= 0 /\ o - b < 64 /\ (o - b) % 16 = 0
    BY <1>2, <1>3 DEF Steps
  <2> QED
    BY <2>1
<1>5. ASSUME NEW x \in 0 .. 3, NEW y \in 0 .. 7, NEW z \in 0 .. 7
      PROVE  64 * x + 8 * y + z \in Assembled(r) <=> RowBase(x, y, z) = b
  <2> DEFINE o == 64 * x + 8 * y + z
  <2>1. o - b >= 0 /\ o - b < 64 /\ (o - b) % 16 = 0 <=> RowBase(x, y, z) = b
    BY DEF RowBase
  <2>2. o \in Int
    OBVIOUS
  <2> HIDE DEF o
  <2>3. o \in Assembled(r) <=> RowBase(x, y, z) = b
    BY <1>3, <2>1, <2>2
  <2> QED
    BY <2>3 DEF o
<1> QED
  BY <1>2, <1>4, <1>5 DEF AssemblesOf, Steps

LEMMA Assembles_r8_3 ==
  ASSUME NEW r, r.at = r8_3, NEW b \in {4, 5, 6}, r.opcode = b
  PROVE  AssemblesOf(r, b)
<1>1. DOMAIN r.at = {"reg8"} /\ r.at["reg8"] = 8 /\ Limit("reg8") = 8
  BY OperandsAre DEF Limit
<1>2. Steps(r, 8, 8)
  <2>1. Steps(r, r.at["reg8"], Limit("reg8"))
    BY <1>1, OneOperand
  <2> QED
    BY <1>1, <2>1
<1>3. \A o \in Int : o \in Assembled(r) <=> o - b >= 0 /\ o - b < 64 /\ (o - b) % 8 = 0
  BY <1>2 DEF Steps
<1>4. ASSUME NEW o \in Assembled(r) PROVE o \in 0 .. 255
  <2>1. o \in Int /\ o - b >= 0 /\ o - b < 64 /\ (o - b) % 8 = 0
    BY <1>2, <1>3 DEF Steps
  <2> QED
    BY <2>1
<1>5. ASSUME NEW x \in 0 .. 3, NEW y \in 0 .. 7, NEW z \in 0 .. 7
      PROVE  64 * x + 8 * y + z \in Assembled(r) <=> RowBase(x, y, z) = b
  <2> DEFINE o == 64 * x + 8 * y + z
  <2>1. o - b >= 0 /\ o - b < 64 /\ (o - b) % 8 = 0 <=> RowBase(x, y, z) = b
    BY DEF RowBase
  <2>2. o \in Int
    OBVIOUS
  <2> HIDE DEF o
  <2>3. o \in Assembled(r) <=> RowBase(x, y, z) = b
    BY <1>3, <2>1, <2>2
  <2> QED
    BY <2>3 DEF o
<1> QED
  BY <1>2, <1>4, <1>5 DEF AssemblesOf, Steps

LEMMA Assembles_r8_0 ==
  ASSUME NEW r, r.at = r8_0, NEW b \in {128, 136, 144, 152, 160, 168, 176, 184}, r.opcode = b
  PROVE  AssemblesOf(r, b)
<1>1. DOMAIN r.at = {"reg8"} /\ r.at["reg8"] = 1 /\ Limit("reg8") = 8
  BY OperandsAre DEF Limit
<1>2. Steps(r, 1, 8)
  <2>1. Steps(r, r.at["reg8"], Limit("reg8"))
    BY <1>1, OneOperand
  <2> QED
    BY <1>1, <2>1
<1>3. \A o \in Int : o \in Assembled(r) <=> o - b >= 0 /\ o - b < 8 /\ (o - b) % 1 = 0
  BY <1>2 DEF Steps
<1>4. ASSUME NEW o \in Assembled(r) PROVE o \in 0 .. 255
  <2>1. o \in Int /\ o - b >= 0 /\ o - b < 8 /\ (o - b) % 1 = 0
    BY <1>2, <1>3 DEF Steps
  <2> QED
    BY <2>1
<1>5. ASSUME NEW x \in 0 .. 3, NEW y \in 0 .. 7, NEW z \in 0 .. 7
      PROVE  64 * x + 8 * y + z \in Assembled(r) <=> RowBase(x, y, z) = b
  <2> DEFINE o == 64 * x + 8 * y + z
  <2>1. o - b >= 0 /\ o - b < 8 /\ (o - b) % 1 = 0 <=> RowBase(x, y, z) = b
    BY DEF RowBase
  <2>2. o \in Int
    OBVIOUS
  <2> HIDE DEF o
  <2>3. o \in Assembled(r) <=> RowBase(x, y, z) = b
    BY <1>3, <2>1, <2>2
  <2> QED
    BY <2>3 DEF o
<1> QED
  BY <1>2, <1>4, <1>5 DEF AssemblesOf, Steps

LEMMA Assembles_cc_3 ==
  ASSUME NEW r, r.at = cc_3, NEW b \in {32, 192, 194, 196}, r.opcode = b
  PROVE  AssemblesOf(r, b)
<1>1. DOMAIN r.at = {"cond"} /\ r.at["cond"] = 8 /\ Limit("cond") = 4
  BY OperandsAre DEF Limit
<1>2. Steps(r, 8, 4)
  <2>1. Steps(r, r.at["cond"], Limit("cond"))
    BY <1>1, OneOperand
  <2> QED
    BY <1>1, <2>1
<1>3. \A o \in Int : o \in Assembled(r) <=> o - b >= 0 /\ o - b < 32 /\ (o - b) % 8 = 0
  BY <1>2 DEF Steps
<1>4. ASSUME NEW o \in Assembled(r) PROVE o \in 0 .. 255
  <2>1. o \in Int /\ o - b >= 0 /\ o - b < 32 /\ (o - b) % 8 = 0
    BY <1>2, <1>3 DEF Steps
  <2> QED
    BY <2>1
<1>5. ASSUME NEW x \in 0 .. 3, NEW y \in 0 .. 7, NEW z \in 0 .. 7
      PROVE  64 * x + 8 * y + z \in Assembled(r) <=> RowBase(x, y, z) = b
  <2> DEFINE o == 64 * x + 8 * y + z
  <2>1. o - b >= 0 /\ o - b < 32 /\ (o - b) % 8 = 0 <=> RowBase(x, y, z) = b
    BY DEF RowBase
  <2>2. o \in Int
    OBVIOUS
  <2> HIDE DEF o
  <2>3. o \in Assembled(r) <=> RowBase(x, y, z) = b
    BY <1>3, <2>1, <2>2
  <2> QED
    BY <2>3 DEF o
<1> QED
  BY <1>2, <1>4, <1>5 DEF AssemblesOf, Steps

LEMMA Assembles_bit_3 ==
  ASSUME NEW r, r.at = bit_3, NEW b \in {199}, r.opcode = b
  PROVE  AssemblesOf(r, b)
<1>1. DOMAIN r.at = {"bit"} /\ r.at["bit"] = 8 /\ Limit("bit") = 8
  BY OperandsAre DEF Limit
<1>2. Steps(r, 8, 8)
  <2>1. Steps(r, r.at["bit"], Limit("bit"))
    BY <1>1, OneOperand
  <2> QED
    BY <1>1, <2>1
<1>3. \A o \in Int : o \in Assembled(r) <=> o - b >= 0 /\ o - b < 64 /\ (o - b) % 8 = 0
  BY <1>2 DEF Steps
<1>4. ASSUME NEW o \in Assembled(r) PROVE o \in 0 .. 255
  <2>1. o \in Int /\ o - b >= 0 /\ o - b < 64 /\ (o - b) % 8 = 0
    BY <1>2, <1>3 DEF Steps
  <2> QED
    BY <2>1
<1>5. ASSUME NEW x \in 0 .. 3, NEW y \in 0 .. 7, NEW z \in 0 .. 7
      PROVE  64 * x + 8 * y + z \in Assembled(r) <=> RowBase(x, y, z) = b
  <2> DEFINE o == 64 * x + 8 * y + z
  <2>1. o - b >= 0 /\ o - b < 64 /\ (o - b) % 8 = 0 <=> RowBase(x, y, z) = b
    BY DEF RowBase
  <2>2. o \in Int
    OBVIOUS
  <2> HIDE DEF o
  <2>3. o \in Assembled(r) <=> RowBase(x, y, z) = b
    BY <1>3, <2>1, <2>2
  <2> QED
    BY <2>3 DEF o
<1> QED
  BY <1>2, <1>4, <1>5 DEF AssemblesOf, Steps

LEMMA Assembles_r8_r8 ==
  ASSUME NEW r, r.opcode = 64, r.at = r8_r8
  PROVE  AssemblesOf(r, 64)
<1> DEFINE w == "reg8_2"
<1>1. w \in {"reg8_2", "bit"} /\ DOMAIN r.at = {"reg8", w} /\ r.at["reg8"] = 1 /\ r.at[w] = 8
  BY OperandsAre
<1> HIDE DEF w
<1>2. /\ Assembled(r) = r.opcode .. r.opcode + 63
      /\ \A u, v \in Settings(r) : opcodeOf(r, u) = opcodeOf(r, v) => u = v
  <2>1. r.opcode \in Nat
    OBVIOUS
  <2> QED
    BY <1>1, <2>1, TwoOperands, Zenon
<1>3. ASSUME NEW x \in 0 .. 3, NEW y \in 0 .. 7, NEW z \in 0 .. 7
      PROVE  64 * x + 8 * y + z \in 64 .. 127 <=> RowBase(x, y, z) = 64
  BY DEF RowBase
<1>4. r.opcode .. r.opcode + 63 = 64 .. 127
  OBVIOUS
<1> QED
  BY <1>2, <1>3, <1>4 DEF AssemblesOf

LEMMA LineAssembles ==
  ASSUME NEW b, NEW imm, NEW at, NEW test, Line(b, imm, at, test), NEW r, r.opcode = b, r.at = at
  PROVE  AssemblesOf(r, b)
BY Assembles_no_operand, Assembles_r16_4, Assembles_r8_3, Assembles_r8_0,
   Assembles_cc_3, Assembles_bit_3, Assembles_r8_r8 DEF Line

-----------------------------------------------------------------------------
(* They tell what disassemble() makes of it, too.                           *)

\* Which of disassemble()'s sets an opcode is in, by its octal digits.
DigitsTell(x, y, z, o) ==
  /\ o \in Registers3 <=> (x = 0 /\ z \in {4, 5, 6}) \/ (x = 1 /\ o # 118)
  /\ o \in Registers0 <=> x \in {1, 2} /\ o # 118
  /\ o \in Registers4 <=> \/ x = 0 /\ z \in {1, 3}
                          \/ x = 3 /\ z \in {1, 5} /\ y \in {0, 2, 4, 6}
  /\ o \in Conditions <=> \/ x = 0 /\ z = 0 /\ y >= 4
                          \/ x = 3 /\ z \in {0, 2, 4} /\ y < 4
  /\ o \in WordOperand <=> \/ o \in {8, 195, 205, 234, 250}
                           \/ x = 0 /\ z = 1 /\ y \in {0, 2, 4, 6}
                           \/ x = 3 /\ z \in {2, 4} /\ y < 4
  /\ o \in NoOperand <=> \/ o \in {0, 2, 7, 10, 15, 16, 18, 23, 26, 31, 34, 39, 42, 47, 50, 55,
                                   58, 63, 201, 217, 226, 233, 242, 243, 249, 251}
                         \/ x = 0 /\ (z \in {3, 4, 5} \/ (z = 1 /\ y \in {1, 3, 5, 7}))
                         \/ x \in {1, 2}
                         \/ x = 3 /\ (z = 7 \/ (z \in {1, 5} /\ y \in {0, 2, 4, 6})
                                        \/ (z = 0 /\ y < 4))
  /\ o \in cbOpcodes
  /\ o \in Masked({199}, 8, 8) <=> x = 3 /\ z = 7
  /\ o \in Masked({64}, 1, 192) <=> x >= 1

LEMMA PrintedDigits ==
  ASSUME NEW x \in 0 .. 3, NEW y \in 0 .. 7, NEW z \in 0 .. 7,
         NEW o, o = 64 * x + 8 * y + z
  PROVE  DigitsTell(x, y, z, o)
<1>1. o \in Registers3 <=> (x = 0 /\ z \in {4, 5, 6}) \/ (x = 1 /\ o # 118)
  BY DEF Registers3, Masked
<1>2. o \in Registers0 <=> x \in {1, 2} /\ o # 118
  BY DEF Registers0, Masked
<1>3. o \in Registers4 <=> \/ x = 0 /\ z \in {1, 3}
                           \/ x = 3 /\ z \in {1, 5} /\ y \in {0, 2, 4, 6}
  BY DEF Registers4, Masked
<1>4. o \in Conditions <=> \/ x = 0 /\ z = 0 /\ y >= 4
                           \/ x = 3 /\ z \in {0, 2, 4} /\ y < 4
  BY DEF Conditions, Masked
<1>5. o \in WordOperand <=> \/ o \in {8, 195, 205, 234, 250}
                            \/ x = 0 /\ z = 1 /\ y \in {0, 2, 4, 6}
                            \/ x = 3 /\ z \in {2, 4} /\ y < 4
  BY DEF WordOperand, Masked
<1>6. o \in NoOperand <=> \/ o \in {0, 2, 7, 10, 15, 16, 18, 23, 26, 31, 34, 39, 42, 47, 50, 55,
                                    58, 63, 201, 217, 226, 233, 242, 243, 249, 251}
                          \/ x = 0 /\ (z \in {3, 4, 5} \/ (z = 1 /\ y \in {1, 3, 5, 7}))
                          \/ x \in {1, 2}
                          \/ x = 3 /\ (z = 7 \/ (z \in {1, 5} /\ y \in {0, 2, 4, 6})
                                         \/ (z = 0 /\ y < 4))
  <2> DEFINE words == o \in Masked({3, 9, 11, 193, 197}, 16, 4)
             bytes == o \in Masked({4, 5, 199}, 8, 8)
             loads == o \in Masked({64}, 1, 64)
             returns == o \in Masked({192}, 8, 4)
             sums == o \in Masked({128, 136, 144, 152, 160, 168, 176, 184}, 1, 8)
  <2>1. words <=> \/ x = 0 /\ (z = 3 \/ (z = 1 /\ y \in {1, 3, 5, 7}))
                  \/ x = 3 /\ z \in {1, 5} /\ y \in {0, 2, 4, 6}
    <3> DEFINE m3 == o \in Masked({3}, 16, 4)
               m9 == o \in Masked({9}, 16, 4)
               m11 == o \in Masked({11}, 16, 4)
               m193 == o \in Masked({193}, 16, 4)
               m197 == o \in Masked({197}, 16, 4)
    <3>1. words <=> m3 \/ m9 \/ m11 \/ m193 \/ m197
      BY DEF Masked
    <3>2. m3 <=> x = 0 /\ z = 3 /\ y \in {0, 2, 4, 6}
      BY DEF Masked
    <3>3. m9 <=> x = 0 /\ z = 1 /\ y \in {1, 3, 5, 7}
      BY DEF Masked
    <3>4. m11 <=> x = 0 /\ z = 3 /\ y \in {1, 3, 5, 7}
      BY DEF Masked
    <3>5. /\ m193 <=> x = 3 /\ z = 1 /\ y \in {0, 2, 4, 6}
          /\ m197 <=> x = 3 /\ z = 5 /\ y \in {0, 2, 4, 6}
      BY DEF Masked
    <3>6. y \in {0, 2, 4, 6} \/ y \in {1, 3, 5, 7}
      OBVIOUS
    <3> HIDE DEF words, m3, m9, m11, m193, m197
    <3> QED
      BY <3>1, <3>2, <3>3, <3>4, <3>5, <3>6, ZenonT(30)
  <2>2. bytes <=> (x = 0 /\ z \in {4, 5}) \/ (x = 3 /\ z = 7)
    <3> DEFINE m4 == o \in Masked({4}, 8, 8)
               m5 == o \in Masked({5}, 8, 8)
               m199 == o \in Masked({199}, 8, 8)
    <3>1. bytes <=> m4 \/ m5 \/ m199
      BY DEF Masked
    <3>2. /\ m4 <=> x = 0 /\ z = 4
          /\ m5 <=> x = 0 /\ z = 5
      BY DEF Masked
    <3>3. m199 <=> x = 3 /\ z = 7
      BY DEF Masked
    <3> HIDE DEF bytes, m4, m5, m199
    <3> QED
      BY <3>1, <3>2, <3>3, ZenonT(30)
  <2>3. loads <=> x = 1
    BY DEF Masked
  <2>4. returns <=> x = 3 /\ z = 0 /\ y < 4
    BY DEF Masked
  <2>5. sums <=> x = 2
    BY DEF Masked
  <2> DEFINE literals == {0, 2, 7, 10, 15, 16, 18, 23, 26, 31, 34, 39, 42, 47, 50, 55, 58, 63, 118,
                          201, 217, 226, 233, 242, 243, 249, 251}
  <2>6. o \in NoOperand <=> o \in literals \/ words \/ bytes \/ loads \/ returns \/ sums
    BY DEF NoOperand
  <2>7. o \in literals <=> \/ o \in {0, 2, 7, 10, 15, 16, 18, 23, 26, 31, 34, 39, 42, 47, 50, 55,
                                    58, 63, 201, 217, 226, 233, 242, 243, 249, 251}
                           \/ o = 118
    OBVIOUS
  <2>8. o = 118 => x = 1
    OBVIOUS
  <2> HIDE DEF words, bytes, loads, returns, sums, literals
  <2> QED
    BY <2>1, <2>2, <2>3, <2>4, <2>5, <2>6, <2>7, <2>8, SMT
<1>7. /\ o \in cbOpcodes
      /\ o \in Masked({199}, 8, 8) <=> x = 3 /\ z = 7
      /\ o \in Masked({64}, 1, 192) <=> x >= 1
  BY DEF cbOpcodes, Masked
<1> QED
  BY <1>1, <1>2, <1>3, <1>4, <1>5, <1>6, <1>7 DEF DigitsTell

Unprefixed(c) == c = FALSE
Shown(at) == {<<Kind(w), at[w]>> : w \in DOMAIN at}

\* The length of the instruction that is read from the byte of a row.
LEMMA LengthRead ==
  ASSUME NEW c, Unprefixed(c), NEW b, NEW imm, NEW at, NEW test, Line(b, imm, at, test),
         NEW x \in 0 .. 3, NEW y \in 0 .. 7, NEW z \in 0 .. 7, RowBase(x, y, z) = b,
         NEW o, o = 64 * x + 8 * y + z
  PROVE  disassemble(c, o) = 1 + imm
<1> DEFINE word == o \in WordOperand
           none == o \in NoOperand
<1>0. DigitsTell(x, y, z, o)
  BY PrintedDigits
<1>1. /\ word <=> \/ o \in {8, 195, 205, 234, 250}
                  \/ x = 0 /\ z = 1 /\ y \in {0, 2, 4, 6}
                  \/ x = 3 /\ z \in {2, 4} /\ y < 4
      /\ none <=> \/ o \in {0, 2, 7, 10, 15, 16, 18, 23, 26, 31, 34, 39, 42, 47, 50, 55,
                            58, 63, 201, 217, 226, 233, 242, 243, 249, 251}
                  \/ x = 0 /\ (z \in {3, 4, 5} \/ (z = 1 /\ y \in {1, 3, 5, 7}))
                  \/ x \in {1, 2}
                  \/ x = 3 /\ (z = 7 \/ (z \in {1, 5} /\ y \in {0, 2, 4, 6}) \/ (z = 0 /\ y < 4))
  BY <1>0, ZenonT(30) DEF DigitsTell
<1>2. /\ word /\ ~none => disassemble(c, o) = 3
      /\ none /\ ~word => disassemble(c, o) = 1
      /\ ~word /\ ~none => disassemble(c, o) = 2
  BY DEF disassemble, Unprefixed
<1> HIDE DEF word, none
<1>3. (word => imm = 2) /\ (none => imm = 0) /\ (~word /\ ~none => imm = 1)
  <2>1. ASSUME x = 0 PROVE (word => imm = 2) /\ (none => imm = 0) /\ (~word /\ ~none => imm = 1)
    BY <1>1, <2>1 DEF Line, RowBase
  <2>2. ASSUME x = 1 PROVE (word => imm = 2) /\ (none => imm = 0) /\ (~word /\ ~none => imm = 1)
    BY <1>1, <2>2 DEF Line, RowBase
  <2>3. ASSUME x = 2 PROVE (word => imm = 2) /\ (none => imm = 0) /\ (~word /\ ~none => imm = 1)
    BY <1>1, <2>3 DEF Line, RowBase
  <2>4. ASSUME x = 3 PROVE (word => imm = 2) /\ (none => imm = 0) /\ (~word /\ ~none => imm = 1)
    BY <1>1, <2>4 DEF Line, RowBase
  <2> QED
    BY <2>1, <2>2, <2>3, <2>4
<1>4. imm = 0 \/ imm = 1 \/ imm = 2
  BY DEF Line
<1>5. ~(word /\ none)
  BY <1>3
<1>6. \/ disassemble(c, o) = 3 /\ imm = 2
      \/ disassemble(c, o) = 1 /\ imm = 0
      \/ disassemble(c, o) = 2 /\ imm = 1
  BY <1>2, <1>3, <1>5, Zenon
<1> DEFINE d == disassemble(c, o)
<1> HIDE DEF d
<1>7. d = 1 + imm
  <2>1. (d = 3 /\ imm = 2) \/ (d = 1 /\ imm = 0) \/ (d = 2 /\ imm = 1)
    BY <1>6, Zenon DEF d
  <2> QED
    BY ONLY <2>1
<1> QED
  BY <1>7 DEF d

\* What is printed when the opcode is in none or in one of the sets.
LEMMA PrintedIs ==
  ASSUME NEW c, Unprefixed(c), NEW o
  PROVE  LET r3 == o \in Registers3
             r0 == o \in Registers0
             r4 == o \in Registers4
             c3 == o \in Conditions
             b3 == o \in Masked({199}, 8, 8)
         IN /\ ~r3 /\ ~r0 /\ ~r4 /\ ~c3 /\ ~b3 => Printed(c, o) = {}
            /\ r3 /\ ~r0 /\ ~r4 /\ ~c3 /\ ~b3 => Printed(c, o) = {<<"reg8", 8>>}
            /\ ~r3 /\ r0 /\ ~r4 /\ ~c3 /\ ~b3 => Printed(c, o) = {<<"reg8", 1>>}
            /\ r3 /\ r0 /\ ~r4 /\ ~c3 /\ ~b3 => Printed(c, o) = {<<"reg8", 8>>, <<"reg8", 1>>}
            /\ ~r3 /\ ~r0 /\ r4 /\ ~c3 /\ ~b3 => Printed(c, o) = {<<"reg16", 16>>}
            /\ ~r3 /\ ~r0 /\ ~r4 /\ c3 /\ ~b3 => Printed(c, o) = {<<"cond", 8>>}
            /\ ~r3 /\ ~r0 /\ ~r4 /\ ~c3 /\ b3 => Printed(c, o) = {<<"bit", 8>>}
<1> DEFINE r3 == o \in Registers3
           r0 == o \in Registers0
           r4 == o \in Registers4
           c3 == o \in Conditions
           b3 == o \in Masked({199}, 8, 8)
<1>1. Printed(c, o) =
        (IF r3 THEN {<<"reg8", 8>>} ELSE {}) \cup (IF r0 THEN {<<"reg8", 1>>} ELSE {})
        \cup (IF r4 THEN {<<"reg16", 16>>} ELSE {}) \cup (IF c3 THEN {<<"cond", 8>>} ELSE {})
        \cup (IF b3 THEN {<<"bit", 8>>} ELSE {})
  BY DEF Printed, Unprefixed
<1> HIDE DEF r3, r0, r4, c3, b3
<1>2. /\ ~r3 /\ ~r0 /\ ~r4 /\ ~c3 /\ ~b3 => Printed(c, o) = {}
      /\ r3 /\ ~r0 /\ ~r4 /\ ~c3 /\ ~b3 => Printed(c, o) = {<<"reg8", 8>>}
      /\ ~r3 /\ r0 /\ ~r4 /\ ~c3 /\ ~b3 => Printed(c, o) = {<<"reg8", 1>>}
      /\ r3 /\ r0 /\ ~r4 /\ ~c3 /\ ~b3 => Printed(c, o) = {<<"reg8", 8>>, <<"reg8", 1>>}
      /\ ~r3 /\ ~r0 /\ r4 /\ ~c3 /\ ~b3 => Printed(c, o) = {<<"reg16", 16>>}
      /\ ~r3 /\ ~r0 /\ ~r4 /\ c3 /\ ~b3 => Printed(c, o) = {<<"cond", 8>>}
      /\ ~r3 /\ ~r0 /\ ~r4 /\ ~c3 /\ b3 => Printed(c, o) = {<<"bit", 8>>}
  BY <1>1
<1> QED
  BY <1>2 DEF r3, r0, r4, c3, b3

\* The operands of a row, as they should be printed.
LEMMA OperandsPrinted ==
  /\ Shown(no_operand) = {}
  /\ Shown(r16_4) = {<<"reg16", 16>>}
  /\ Shown(r8_3) = {<<"reg8", 8>>}
  /\ Shown(r8_r8) = {<<"reg8", 8>>, <<"reg8", 1>>}
  /\ Shown(r8_0) = {<<"reg8", 1>>}
  /\ Shown(cc_3) = {<<"cond", 8>>}
  /\ Shown(bit_3) = {<<"bit", 8>>}
  /\ Shown(r8_0_bit_3) = {<<"reg8", 1>>, <<"bit", 8>>}
BY OperandsAre DEF Kind, Shown

LEMMA OperandsRead ==
  ASSUME NEW c, Unprefixed(c), NEW b, NEW imm, NEW at, NEW test, Line(b, imm, at, test),
         NEW x \in 0 .. 3, NEW y \in 0 .. 7, NEW z \in 0 .. 7, RowBase(x, y, z) = b,
         NEW o, o = 64 * x + 8 * y + z, o # 118
  PROVE  Printed(c, o) = Shown(at)
<1> DEFINE r3 == o \in Registers3
           r0 == o \in Registers0
           r4 == o \in Registers4
           c3 == o \in Conditions
           b3 == o \in Masked({199}, 8, 8)
<1>0. DigitsTell(x, y, z, o)
  BY PrintedDigits
<1>1. /\ r3 <=> (x = 0 /\ z \in {4, 5, 6}) \/ x = 1
      /\ r0 <=> x \in {1, 2}
      /\ r4 <=> \/ x = 0 /\ z \in {1, 3}
                \/ x = 3 /\ z \in {1, 5} /\ y \in {0, 2, 4, 6}
      /\ c3 <=> \/ x = 0 /\ z = 0 /\ y >= 4
                \/ x = 3 /\ z \in {0, 2, 4} /\ y < 4
      /\ b3 <=> x = 3 /\ z = 7
  BY <1>0, ZenonT(30) DEF DigitsTell
<1>2. /\ ~r3 /\ ~r0 /\ ~r4 /\ ~c3 /\ ~b3 => Printed(c, o) = {}
      /\ r3 /\ ~r0 /\ ~r4 /\ ~c3 /\ ~b3 => Printed(c, o) = {<<"reg8", 8>>}
      /\ ~r3 /\ r0 /\ ~r4 /\ ~c3 /\ ~b3 => Printed(c, o) = {<<"reg8", 1>>}
      /\ r3 /\ r0 /\ ~r4 /\ ~c3 /\ ~b3 => Printed(c, o) = {<<"reg8", 8>>, <<"reg8", 1>>}
      /\ ~r3 /\ ~r0 /\ r4 /\ ~c3 /\ ~b3 => Printed(c, o) = {<<"reg16", 16>>}
      /\ ~r3 /\ ~r0 /\ ~r4 /\ c3 /\ ~b3 => Printed(c, o) = {<<"cond", 8>>}
      /\ ~r3 /\ ~r0 /\ ~r4 /\ ~c3 /\ b3 => Printed(c, o) = {<<"bit", 8>>}
  BY PrintedIs
<1> HIDE DEF r3, r0, r4, c3, b3
<1> DEFINE P == Printed(c, o)
<1> HIDE DEF P
<1>3. \/ at = no_operand /\ ~r3 /\ ~r0 /\ ~r4 /\ ~c3 /\ ~b3
      \/ at = r16_4 /\ ~r3 /\ ~r0 /\ r4 /\ ~c3 /\ ~b3
      \/ at = r8_3 /\ r3 /\ ~r0 /\ ~r4 /\ ~c3 /\ ~b3
      \/ at = r8_r8 /\ r3 /\ r0 /\ ~r4 /\ ~c3 /\ ~b3
      \/ at = r8_0 /\ ~r3 /\ r0 /\ ~r4 /\ ~c3 /\ ~b3
      \/ at = cc_3 /\ ~r3 /\ ~r0 /\ ~r4 /\ c3 /\ ~b3
      \/ at = bit_3 /\ ~r3 /\ ~r0 /\ ~r4 /\ ~c3 /\ b3
  <2> DEFINE none == b \in {0, 16, 47, 2, 10, 226, 242, 18, 26, 201, 34, 42, 50, 58, 233, 249,
                            217, 243, 251, 7, 15, 23, 31, 39, 55, 63, 24, 198, 206, 214, 222,
                            224, 230, 238, 240, 246, 254, 232, 248, 195, 234, 250, 8, 205}
             words == b \in {1, 3, 9, 11, 193, 197}
             ones == b \in {4, 5, 6}
             sums == b \in {128, 136, 144, 152, 160, 168, 176, 184}
             conditions == b \in {32, 192, 194, 196}
  <2>1. \/ at = no_operand /\ none
        \/ at = r16_4 /\ words
        \/ at = r8_3 /\ ones
        \/ at = r8_r8 /\ b = 64
        \/ at = r8_0 /\ sums
        \/ at = cc_3 /\ conditions
        \/ at = bit_3 /\ b = 199
    BY OperandsOf
  <2>2. none => ~r3 /\ ~r0 /\ ~r4 /\ ~c3 /\ ~b3
    BY <1>1 DEF RowBase
  <2>3. words => ~r3 /\ ~r0 /\ r4 /\ ~c3 /\ ~b3
    BY <1>1 DEF RowBase
  <2>4. ones => r3 /\ ~r0 /\ ~r4 /\ ~c3 /\ ~b3
    BY <1>1 DEF RowBase
  <2>5. b = 64 => r3 /\ r0 /\ ~r4 /\ ~c3 /\ ~b3
    BY <1>1 DEF RowBase
  <2>6. sums => ~r3 /\ r0 /\ ~r4 /\ ~c3 /\ ~b3
    BY <1>1 DEF RowBase
  <2>7. conditions => ~r3 /\ ~r0 /\ ~r4 /\ c3 /\ ~b3
    BY <1>1 DEF RowBase
  <2>8. b = 199 => ~r3 /\ ~r0 /\ ~r4 /\ ~c3 /\ b3
    BY <1>1 DEF RowBase
  <2> HIDE DEF none, words, ones, sums, conditions
  <2> QED
    BY <2>1, <2>2, <2>3, <2>4, <2>5, <2>6, <2>7, <2>8, ZenonT(60)
<1> QED
  BY <1>2, <1>3, OperandsPrinted, ZenonT(30)

-----------------------------------------------------------------------------
(* What each row of instructions[] assembles is read back, and all rows cover*)
(* the opcodes that the CPU decodes.                                        *)

\* A row of instructions[]: its line, and what that says of its opcodes.
LEMMA RowOf ==
  ASSUME NEW r \in instructions
  PROVE  /\ \E imm, at, test : Line(r.opcode, imm, at, test) /\ r = Row(r.opcode, imm, at, test)
         /\ AssemblesOf(r, r.opcode)
<1>1. PICK b, imm, at, test : Line(b, imm, at, test) /\ r = Row(b, imm, at, test)
  BY LineOf
<1>2. r.opcode = b /\ r.at = at
  BY <1>1 DEF Row
<1>3. AssemblesOf(r, b)
  BY <1>1, <1>2, LineAssembles
<1> QED
  BY <1>1, <1>2, <1>3

\* disassemble() reads what the row assembles.
LEMMA RowDisassembles ==
  ASSUME NEW r \in instructions
  PROVE  Disassembles(r)
<1> DEFINE b == r.opcode
<1>1. PICK imm, at, test : Line(b, imm, at, test) /\ r = Row(b, imm, at, test)
  BY RowOf
<1>2. r.at = at /\ r.is_cb_prefix = FALSE /\ r.imm_size = imm
  BY <1>1 DEF Row
<1>3. AssembledLength(r) = 1 + imm
  BY <1>2 DEF AssembledLength
<1>4. AssemblesOf(r, b)
  BY RowOf
<1> DEFINE c == r.is_cb_prefix
<1> HIDE DEF b
<1>5. Unprefixed(c)
  BY <1>2 DEF Unprefixed
<1> HIDE DEF c
<1>6. ASSUME NEW o \in Assembled(r)
      PROVE  /\ disassemble(c, o) = 1 + imm
             /\ o # 118 => Printed(c, o) = Shown(at)
  <2>1. o \in 0 .. 255
    BY <1>4 DEF AssemblesOf
  <2>2. PICK x \in 0 .. 3, y \in 0 .. 7, z \in 0 .. 7 : o = 64 * x + 8 * y + z
    BY <2>1, OctalDigits
  <2>3. RowBase(x, y, z) = b
    BY <1>4, <2>2 DEF AssemblesOf
  <2>4. disassemble(c, o) = 1 + imm
    BY <1>1, <1>5, <2>2, <2>3, LengthRead
  <2>5. ASSUME o # 118 PROVE Printed(c, o) = Shown(at)
    BY <1>1, <1>5, <2>2, <2>3, <2>5, OperandsRead
  <2> QED
    BY <2>4, <2>5
<1> QED
  BY <1>2, <1>3, <1>6, Zenon DEF Disassembles, Shown, c

LEMMA RowFits ==
  ASSUME NEW r \in instructions
  PROVE  Fits(r)
<1>1. PICK imm, at, test : Line(r.opcode, imm, at, test) /\ r = Row(r.opcode, imm, at, test)
  BY RowOf
<1>2. r.at = at /\ r.imm_size = imm
  BY <1>1 DEF Row
<1>3. AssemblesOf(r, r.opcode)
  BY RowOf
<1>4. imm \in 0 .. 2
  BY <1>1 DEF Line
<1>5. DOMAIN at \subseteq OperandWheels
  <2>1. \/ at = no_operand \/ at = r16_4 \/ at = r8_3 \/ at = r8_r8 \/ at = r8_0
        \/ at = cc_3 \/ at = bit_3
    BY <1>1, OperandsOf
  <2> QED
    BY <2>1, OperandsAre, WheelSets
<1> QED
  BY <1>2, <1>3, <1>4, <1>5 DEF Fits, AssemblesOf

\* Every opcode that is decoded has a row.
LEMMA BaseListed ==
  ASSUME NEW x \in 0 .. 3, NEW y \in 0 .. 7, NEW z \in 0 .. 7,
         64 * x + 8 * y + z \in Opcodes
  PROVE  HasRow(RowBase(x, y, z))
<1> DEFINE b == RowBase(x, y, z)
<1>1. CASE x = 1 \/ x = 2
  <2>1. b \in {64, 128, 136, 144, 152, 160, 168, 176, 184}
    BY <1>1 DEF RowBase
  <2> HIDE DEF b
  <2>2. HasRow(b)
    BY <2>1, Listed
  <2> QED
    BY <2>2 DEF b
<1>2. CASE x = 0
  <2>1. b \in {0, 2, 7, 8, 10, 15, 16, 18, 23, 24, 26, 31, 34, 39, 42, 47, 50, 55, 58, 63,
               1, 3, 9, 11, 4, 5, 6, 32}
    BY <1>2 DEF RowBase
  <2> HIDE DEF b
  <2>2. HasRow(b)
    BY <2>1, Listed
  <2> QED
    BY <2>2 DEF b
<1>3. CASE x = 3
  <2>1. b \in {195, 198, 201, 205, 206, 214, 217, 222, 224, 226, 230, 232, 233, 234, 238,
               240, 242, 243, 246, 248, 249, 250, 251, 254, 193, 197, 192, 194, 196, 199}
    BY <1>3 DEF RowBase, Opcodes, MiscOps, LoadOps, ArithmeticOps, ControlOps
  <2> HIDE DEF b
  <2>2. HasRow(b)
    BY <2>1, Listed
  <2> QED
    BY <2>2 DEF b
<1> QED
  BY <1>1, <1>2, <1>3

LEMMA ValidOpcodes == is_valid_op = Opcodes /\ is_valid_op_cb = CBOpcodes
BY DEF is_valid_op, is_valid_op_cb, Opcodes, MiscOps, LoadOps, ArithmeticOps, ControlOps,
       CBOpcodes, ShiftOps, BitOps, ResOps, SetOps

LEMMA RowsCover == CoverOnce(instructions, Opcodes)
<1>1. ASSUME NEW r \in instructions, NEW o \in Assembled(r) PROVE o \in Opcodes
  <2>1. AssemblesOf(r, r.opcode)
    BY RowOf
  <2>2. o \in 0 .. 255
    BY <2>1 DEF AssemblesOf
  <2>3. PICK x \in 0 .. 3, y \in 0 .. 7, z \in 0 .. 7 : o = 64 * x + 8 * y + z
    BY <2>2, OctalDigits
  <2>4. RowBase(x, y, z) = r.opcode
    BY <2>1, <2>3 DEF AssemblesOf
  <2> DEFINE b == r.opcode
  <2>5. b \notin {203, 211, 219, 221, 227, 228, 235, 236, 237, 244, 252, 253}
    <3>1. PICK imm, at, test : Line(b, imm, at, test)
      BY RowOf
    <3> QED
      BY <3>1 DEF Line
  <2> HIDE DEF b
  <2>6. ASSUME o \in {203, 211, 219, 221, 227, 228, 235, 236, 237, 244, 252, 253}
        PROVE  RowBase(x, y, z) = o
    BY <2>3, <2>6 DEF RowBase
  <2>7. o \notin {203, 211, 219, 221, 227, 228, 235, 236, 237, 244, 252, 253}
    BY <2>4, <2>5, <2>6 DEF b
  <2> QED
    BY <2>2, <2>7, ValidOpcodes DEF is_valid_op
<1>2. ASSUME NEW o \in Opcodes PROVE \E r \in instructions : o \in Assembled(r)
  <2>1. o \in 0 .. 255
    BY ValidOpcodes DEF is_valid_op
  <2>2. PICK x \in 0 .. 3, y \in 0 .. 7, z \in 0 .. 7 : o = 64 * x + 8 * y + z
    BY <2>1, OctalDigits
  <2>3. PICK r \in instructions : r.opcode = RowBase(x, y, z)
    BY <2>2, BaseListed DEF HasRow
  <2>4. AssemblesOf(r, r.opcode)
    BY RowOf
  <2>5. 64 * x + 8 * y + z \in Assembled(r)
    BY <2>3, <2>4 DEF AssemblesOf
  <2> QED
    BY <2>2, <2>5
<1>3. ASSUME NEW r \in instructions, NEW s \in instructions,
             NEW o \in Assembled(r), o \in Assembled(s)
      PROVE  r = s
  <2>1. AssemblesOf(r, r.opcode) /\ AssemblesOf(s, s.opcode)
    BY RowOf
  <2>2. o \in 0 .. 255
    BY <2>1 DEF AssemblesOf
  <2>3. PICK x \in 0 .. 3, y \in 0 .. 7, z \in 0 .. 7 : o = 64 * x + 8 * y + z
    BY <2>2, OctalDigits
  <2>4. r.opcode = RowBase(x, y, z) /\ s.opcode = RowBase(x, y, z)
    BY <1>3, <2>1, <2>3 DEF AssemblesOf
  <2>5. PICK imm, at, test : Line(r.opcode, imm, at, test) /\ r = Row(r.opcode, imm, at, test)
    BY RowOf
  <2>6. PICK imm2, at2, test2 :
          Line(s.opcode, imm2, at2, test2) /\ s = Row(s.opcode, imm2, at2, test2)
    BY RowOf
  <2>7. imm = imm2 /\ at = at2 /\ test = test2
    BY <2>4, <2>5, <2>6, LineOnce
  <2> QED
    BY <2>4, <2>5, <2>6, <2>7
<1>4. UNION {Assembled(r) : r \in instructions} = Opcodes
  BY <1>1, <1>2
<1>5. \A r, s \in instructions : r # s => Assembled(r) \cap Assembled(s) = {}
  BY <1>3
<1> QED
  BY <1>4, <1>5 DEF CoverOnce

-----------------------------------------------------------------------------
(* The same for cb_instructions[].                                          *)

\* The rows of cb_instructions[]: of opcode b, and that of 64 * x + 8 * y + z.
PrefixedRow(b, at, test) ==
  [opcode |-> b, is_cb_prefix |-> TRUE, imm_size |-> 0, at |-> at, test |-> test]
PrefixedLine(b, at, test) ==
  \/ b \in {0, 8, 16, 24, 32, 40, 48, 56} /\ at = r8_0 /\ test = Pairs \cup {"F"}
  \/ b \in {64, 128, 192} /\ at = r8_0_bit_3 /\ test = Pairs
PrefixedBase(x, y) == IF x = 0 THEN 8 * y ELSE 64 * x

LEMMA Prefixing ==
  ASSUME NEW b, NEW at, NEW test
  PROVE  /\ [Row(b, 0, at, test) EXCEPT !.is_cb_prefix = TRUE] = PrefixedRow(b, at, test)
         /\ PrefixedRow(b, at, test).opcode = b
<1>1. ASSUME NEW no, NEW yes
      PROVE  [[opcode |-> b, is_cb_prefix |-> no, imm_size |-> 0, at |-> at, test |-> test]
                EXCEPT !.is_cb_prefix = yes] =
               [opcode |-> b, is_cb_prefix |-> yes, imm_size |-> 0, at |-> at, test |-> test]
  OBVIOUS
<1>2. [Row(b, 0, at, test) EXCEPT !.is_cb_prefix = TRUE] = PrefixedRow(b, at, test)
  BY <1>1, Zenon DEF Row, PrefixedRow
<1>3. PrefixedRow(b, at, test).opcode = b
  BY DEF PrefixedRow
<1> QED
  BY <1>2, <1>3

LEMMA PrefixedRowOf ==
  ASSUME NEW r \in cb_instructions
  PROVE  /\ r.is_cb_prefix = TRUE /\ r.imm_size = 0 /\ PrefixedLine(r.opcode, r.at, r.test)
         /\ r = PrefixedRow(r.opcode, r.at, r.test)
<1> DEFINE shifts == Rows({0, 8, 16, 24, 32, 40, 48, 56}, 0, r8_0, Pairs \cup {"F"})
           bits == Rows({64, 128, 192}, 0, r8_0_bit_3, Pairs)
<1>1. PICK s \in shifts \cup bits : r = [s EXCEPT !.is_cb_prefix = TRUE]
  BY DEF cb_instructions
<1>2. CASE s \in shifts
  <2>1. s.opcode \in {0, 8, 16, 24, 32, 40, 48, 56} /\ s = Row(s.opcode, 0, r8_0, Pairs \cup {"F"})
    BY <1>2, RowIn
  <2> DEFINE b == s.opcode
             F == Pairs \cup {"F"}
  <2> HIDE DEF b, F
  <2>2. r = PrefixedRow(b, r8_0, F)
    <3>1. s = Row(b, 0, r8_0, F)
      BY <2>1 DEF b, F
    <3> QED
      BY <1>1, <3>1, Prefixing
  <2>3. r.opcode = b /\ r.at = r8_0 /\ r.test = F /\ r.is_cb_prefix = TRUE /\ r.imm_size = 0
    BY <2>2 DEF PrefixedRow
  <2>4. PrefixedLine(b, r8_0, F)
    BY <2>1 DEF PrefixedLine, b, F
  <2> QED
    BY <2>2, <2>3, <2>4
<1>3. CASE s \in bits
  <2>1. s.opcode \in {64, 128, 192} /\ s = Row(s.opcode, 0, r8_0_bit_3, Pairs)
    BY <1>3, RowIn
  <2> DEFINE b == s.opcode
  <2> HIDE DEF b
  <2>2. r = PrefixedRow(b, r8_0_bit_3, Pairs)
    <3>1. s = Row(b, 0, r8_0_bit_3, Pairs)
      BY <2>1 DEF b
    <3> QED
      BY <1>1, <3>1, Prefixing
  <2>3. /\ r.opcode = b /\ r.at = r8_0_bit_3 /\ r.test = Pairs
        /\ r.is_cb_prefix = TRUE /\ r.imm_size = 0
    BY <2>2 DEF PrefixedRow
  <2>4. PrefixedLine(b, r8_0_bit_3, Pairs)
    BY <2>1 DEF PrefixedLine, b
  <2> QED
    BY <2>2, <2>3, <2>4
<1> QED
  BY <1>1, <1>2, <1>3

LEMMA PrefixedListed ==
  ASSUME NEW b \in {0, 8, 16, 24, 32, 40, 48, 56, 64, 128, 192}
  PROVE  \E r \in cb_instructions : r.opcode = b
<1> DEFINE shifts == Rows({0, 8, 16, 24, 32, 40, 48, 56}, 0, r8_0, Pairs \cup {"F"})
           bits == Rows({64, 128, 192}, 0, r8_0_bit_3, Pairs)
<1>1. \A s \in shifts \cup bits : [s EXCEPT !.is_cb_prefix = TRUE] \in cb_instructions
  BY DEF cb_instructions
<1>2. \/ b \in {0, 8, 16, 24, 32, 40, 48, 56} /\ Row(b, 0, r8_0, Pairs \cup {"F"}) \in shifts
      \/ b \in {64, 128, 192} /\ Row(b, 0, r8_0_bit_3, Pairs) \in bits
  BY RowIn
<1> HIDE DEF shifts, bits
<1>3. PICK at, test : Row(b, 0, at, test) \in shifts \cup bits
  BY <1>2
<1> QED
  BY <1>1, <1>3, Prefixing

PrefixedAssemblesOf(r, b) ==
  /\ \A o \in Assembled(r) : o \in 0 .. 255
  /\ \A x \in 0 .. 3, y \in 0 .. 7, z \in 0 .. 7 :
       64 * x + 8 * y + z \in Assembled(r) <=> PrefixedBase(x, y) = b
  /\ \A u, v \in Settings(r) : opcodeOf(r, u) = opcodeOf(r, v) => u = v

LEMMA PrefixedAssembles ==
  ASSUME NEW r, NEW b, r.opcode = b, NEW test, PrefixedLine(b, r.at, test)
  PROVE  PrefixedAssemblesOf(r, b)
<1>1. CASE b \in {0, 8, 16, 24, 32, 40, 48, 56} /\ r.at = r8_0
  <2>1. DOMAIN r.at = {"reg8"} /\ r.at["reg8"] = 1 /\ Limit("reg8") = 8
    BY <1>1, OperandsAre DEF Limit
  <2>2. Steps(r, 1, 8)
    <3>1. Steps(r, r.at["reg8"], Limit("reg8"))
      BY <1>1, <2>1, OneOperand
    <3> QED
      BY <2>1, <3>1
  <2>3. \A o \in Int : o \in Assembled(r) <=> o - b >= 0 /\ o - b < 8 /\ (o - b) % 1 = 0
    BY <2>2 DEF Steps
  <2>4. ASSUME NEW o \in Assembled(r) PROVE o \in 0 .. 255
    <3>1. o \in Int /\ o - b >= 0 /\ o - b < 8 /\ (o - b) % 1 = 0
      BY <2>2, <2>3 DEF Steps
    <3> QED
      BY <1>1, <3>1
  <2>5. ASSUME NEW x \in 0 .. 3, NEW y \in 0 .. 7, NEW z \in 0 .. 7
        PROVE  64 * x + 8 * y + z \in Assembled(r) <=> PrefixedBase(x, y) = b
    <3> DEFINE o == 64 * x + 8 * y + z
    <3>1. o - b >= 0 /\ o - b < 8 /\ (o - b) % 1 = 0 <=> PrefixedBase(x, y) = b
      BY <1>1 DEF PrefixedBase
    <3>2. o \in Int
      OBVIOUS
    <3> HIDE DEF o
    <3>3. o \in Assembled(r) <=> PrefixedBase(x, y) = b
      BY <2>3, <3>1, <3>2
    <3> QED
      BY <3>3 DEF o
  <2> QED
    BY <2>2, <2>4, <2>5 DEF PrefixedAssemblesOf, Steps
<1>2. CASE b \in {64, 128, 192} /\ r.at = r8_0_bit_3
  <2> DEFINE w == "bit"
  <2>1. w \in {"reg8_2", "bit"} /\ DOMAIN r.at = {"reg8", w} /\ r.at["reg8"] = 1 /\ r.at[w] = 8
    BY <1>2, OperandsAre
  <2> HIDE DEF w
  <2>2. /\ Assembled(r) = r.opcode .. r.opcode + 63
        /\ \A u, v \in Settings(r) : opcodeOf(r, u) = opcodeOf(r, v) => u = v
    <3>1. r.opcode \in Nat
      BY <1>2
    <3> QED
      BY <2>1, <3>1, TwoOperands, Zenon
  <2>3. ASSUME NEW x \in 0 .. 3, NEW y \in 0 .. 7, NEW z \in 0 .. 7
        PROVE  64 * x + 8 * y + z \in b .. b + 63 <=> PrefixedBase(x, y) = b
    BY <1>2 DEF PrefixedBase
  <2>4. \A o \in b .. b + 63 : o \in 0 .. 255
    BY <1>2
  <2>5. Assembled(r) = b .. b + 63
    BY <2>2, Zenon
  <2> DEFINE A == b .. b + 63
  <2> HIDE DEF A
  <2>6. /\ Assembled(r) = A /\ \A o \in A : o \in 0 .. 255
        /\ \A x \in 0 .. 3, y \in 0 .. 7, z \in 0 .. 7 :
             64 * x + 8 * y + z \in A <=> PrefixedBase(x, y) = b
    BY <2>3, <2>4, <2>5, Zenon DEF A
  <2> QED
    BY <2>2, <2>6, Zenon DEF PrefixedAssemblesOf
<1> QED
  BY <1>1, <1>2 DEF PrefixedLine

Prefixed(c) == c = TRUE

\* A prefixed opcode is read as its row assembles it.
LEMMA PrefixedRead ==
  ASSUME NEW c, Prefixed(c), NEW b, NEW at, NEW test, PrefixedLine(b, at, test),
         NEW x \in 0 .. 3, NEW y \in 0 .. 7, NEW z \in 0 .. 7, PrefixedBase(x, y) = b,
         NEW o, o = 64 * x + 8 * y + z
  PROVE  disassemble(c, o) = 2 /\ Printed(c, o) = Shown(at)
<1> DEFINE all == o \in cbOpcodes
           b3 == o \in Masked({64}, 1, 192)
<1>0. DigitsTell(x, y, z, o)
  BY PrintedDigits
<1>1. all /\ (b3 <=> x >= 1)
  BY <1>0, Zenon DEF DigitsTell
<1>2. disassemble(c, o) = 2
  BY <1>1 DEF disassemble, Prefixed
<1>3. /\ b3 => Printed(c, o) = {<<"reg8", 1>>, <<"bit", 8>>}
      /\ ~b3 => Printed(c, o) = {<<"reg8", 1>>}
  <2>1. Printed(c, o) = {<<"reg8", 1>>} \cup (IF b3 THEN {<<"bit", 8>>} ELSE {})
    BY <1>1 DEF Printed, Prefixed
  <2> HIDE DEF all, b3
  <2> QED
    BY <2>1
<1>4. (at = r8_0 /\ x = 0) \/ (at = r8_0_bit_3 /\ x >= 1)
  BY DEF PrefixedLine, PrefixedBase
<1>5. x = 0 => ~(x >= 1)
  OBVIOUS
<1> HIDE DEF all, b3
<1> QED
  BY <1>1, <1>2, <1>3, <1>4, <1>5, OperandsPrinted, ZenonT(30)

\* What the two tables promise of each row, and of all.
LEMMA PrefixedRowDisassembles ==
  ASSUME NEW r \in cb_instructions
  PROVE  Disassembles(r)
<1> DEFINE b == r.opcode
           c == r.is_cb_prefix
           at == r.at
           test == r.test
<1>1. PrefixedLine(b, at, test)
  BY PrefixedRowOf
<1>2. Prefixed(c) /\ r.imm_size = 0
  BY PrefixedRowOf DEF Prefixed
<1>3. AssembledLength(r) = 2
  BY <1>2 DEF AssembledLength, Prefixed
<1>4. PrefixedAssemblesOf(r, b)
  BY <1>1, PrefixedAssembles
<1> HIDE DEF b, c, at, test
<1>5. ASSUME NEW o \in Assembled(r)
      PROVE  disassemble(c, o) = 2 /\ Printed(c, o) = Shown(at)
  <2>1. o \in 0 .. 255
    BY <1>4 DEF PrefixedAssemblesOf
  <2>2. PICK x \in 0 .. 3, y \in 0 .. 7, z \in 0 .. 7 : o = 64 * x + 8 * y + z
    BY <2>1, OctalDigits
  <2>3. PrefixedBase(x, y) = b
    BY <1>4, <2>2 DEF PrefixedAssemblesOf
  <2> QED
    BY <1>1, <1>2, <2>2, <2>3, PrefixedRead
<1> QED
  BY <1>3, <1>5, Zenon DEF Disassembles, Shown, c, at

LEMMA PrefixedRowFits ==
  ASSUME NEW r \in cb_instructions
  PROVE  Fits(r)
<1>1. PrefixedLine(r.opcode, r.at, r.test) /\ r.imm_size = 0
  BY PrefixedRowOf
<1>2. PrefixedAssemblesOf(r, r.opcode)
  BY <1>1, PrefixedAssembles
<1>3. DOMAIN r.at \subseteq OperandWheels
  <2>1. r.at = r8_0 \/ r.at = r8_0_bit_3
    BY <1>1 DEF PrefixedLine
  <2> QED
    BY <2>1, OperandsAre, WheelSets
<1> QED
  BY <1>1, <1>2, <1>3 DEF Fits, PrefixedAssemblesOf

LEMMA PrefixedRowsCover == CoverOnce(cb_instructions, CBOpcodes)
<1>0. \A o : o \in CBOpcodes <=> o \in 0 .. 255
  BY DEF CBOpcodes, ShiftOps, BitOps, ResOps, SetOps
<1>1. \A r \in cb_instructions : PrefixedAssemblesOf(r, r.opcode)
  BY PrefixedRowOf, PrefixedAssembles
<1>2. ASSUME NEW r \in cb_instructions, NEW o \in Assembled(r) PROVE o \in CBOpcodes
  BY <1>0, <1>1 DEF PrefixedAssemblesOf
<1>3. ASSUME NEW o \in CBOpcodes PROVE \E r \in cb_instructions : o \in Assembled(r)
  <2>1. PICK x \in 0 .. 3, y \in 0 .. 7, z \in 0 .. 7 : o = 64 * x + 8 * y + z
    BY <1>0, OctalDigits
  <2>2. PrefixedBase(x, y) \in {0, 8, 16, 24, 32, 40, 48, 56, 64, 128, 192}
    BY DEF PrefixedBase
  <2>3. PICK r \in cb_instructions : r.opcode = PrefixedBase(x, y)
    BY <2>2, PrefixedListed
  <2>4. 64 * x + 8 * y + z \in Assembled(r)
    BY <1>1, <2>3 DEF PrefixedAssemblesOf
  <2> QED
    BY <2>1, <2>4
<1>4. ASSUME NEW r \in cb_instructions, NEW s \in cb_instructions,
             NEW o \in Assembled(r), o \in Assembled(s)
      PROVE  r = s
  <2>1. o \in 0 .. 255
    BY <1>1 DEF PrefixedAssemblesOf
  <2>2. PICK x \in 0 .. 3, y \in 0 .. 7, z \in 0 .. 7 : o = 64 * x + 8 * y + z
    BY <2>1, OctalDigits
  <2>3. r.opcode = PrefixedBase(x, y) /\ s.opcode = PrefixedBase(x, y)
    BY <1>1, <1>4, <2>2 DEF PrefixedAssemblesOf
  <2>4. /\ PrefixedLine(r.opcode, r.at, r.test) /\ r = PrefixedRow(r.opcode, r.at, r.test)
        /\ PrefixedLine(s.opcode, s.at, s.test) /\ s = PrefixedRow(s.opcode, s.at, s.test)
    BY PrefixedRowOf
  <2>5. r.at = s.at /\ r.test = s.test
    BY <2>3, <2>4 DEF PrefixedLine
  <2> QED
    BY <2>3, <2>4, <2>5
<1> QED
  BY <1>2, <1>3, <1>4 DEF CoverOnce

\* Both tables, whatever suite is being tested.
LEMMA TablesDecoded == TestedIsDecoded
<1>1. \A r \in instructions : Disassembles(r) /\ Fits(r)
  BY RowDisassembles, RowFits
<1>2. \A r \in cb_instructions : Disassembles(r) /\ Fits(r)
  BY PrefixedRowDisassembles, PrefixedRowFits
<1> QED
  BY <1>1, <1>2, ValidOpcodes, RowsCover, PrefixedRowsCover DEF TestedIsDecoded

\* Each opcode that the CPU decodes is assembled by exactly one row of the two
\* tables, and the disassembler reads every one of them as it was assembled: its
\* length and its operands.
THEOREM TablesAlwaysAgree == Spec => []TablesAgree
<1>1. TablesAgree
  BY TablesDecoded DEF TablesAgree
<1> QED
  BY <1>1, PTL

\* The tables of the program are a suite as the theorems above assume it, in
\* whatever order their rows are listed.
THEOREM TablesMakeASuite ==
  ASSUME NEW s, DOMAIN s = {"instructions", "cb_instructions"},
         \A t \in DOMAIN s :
           /\ s[t] \in Seq(Range(s[t]))
           /\ \A i, j \in DOMAIN s[t] : s[t][i] = s[t][j] => i = j,
         Range(s["instructions"]) = instructions,
         Range(s["cb_instructions"]) = cb_instructions
  PROVE  /\ \A t \in DOMAIN s : \A r \in Range(s[t]) : Fits(r)
         /\ \A t1, t2 \in DOMAIN s : \A i \in DOMAIN s[t1], j \in DOMAIN s[t2] :
              <<t1, i>> # <<t2, j>> => Entries(s[t1][i]) \cap Entries(s[t2][j]) = {}
<1> DEFINE a == "instructions"
           b == "cb_instructions"
<1>1. /\ \A i \in DOMAIN s[a] : s[a][i] \in instructions
      /\ \A i \in DOMAIN s[b] : s[b][i] \in cb_instructions
  BY DEF Range
<1>2. \A r \in instructions \cup cb_instructions : Fits(r)
  BY TablesDecoded DEF TestedIsDecoded
<1>3. /\ \A r1, r2 \in instructions : r1 # r2 => Assembled(r1) \cap Assembled(r2) = {}
      /\ \A r1, r2 \in cb_instructions : r1 # r2 => Assembled(r1) \cap Assembled(r2) = {}
  BY TablesDecoded DEF TestedIsDecoded, CoverOnce
<1>4. \A r1 \in instructions, r2 \in cb_instructions :
        Entries(r1) \cap Entries(r2) = {} /\ Entries(r2) \cap Entries(r1) = {}
  <2>1. ASSUME NEW r1 \in instructions, NEW r2 \in cb_instructions
        PROVE  r1.is_cb_prefix # r2.is_cb_prefix
    <3>1. r1.is_cb_prefix = FALSE
      <4>1. PICK imm, at, test : r1 = Row(r1.opcode, imm, at, test)
        BY RowOf
      <4> QED
        BY <4>1 DEF Row
    <3>2. r2.is_cb_prefix = TRUE
      BY PrefixedRowOf
    <3> QED
      BY <3>1, <3>2
  <2> QED
    BY <2>1 DEF Entries
<1>5. \A r1, r2 : Assembled(r1) \cap Assembled(r2) = {} => Entries(r1) \cap Entries(r2) = {}
  BY DEF Entries
<1>6. ASSUME NEW t1 \in DOMAIN s, NEW t2 \in DOMAIN s,
             NEW i \in DOMAIN s[t1], NEW j \in DOMAIN s[t2], <<t1, i>> # <<t2, j>>
      PROVE  Entries(s[t1][i]) \cap Entries(s[t2][j]) = {}
  <2>1. CASE t1 = a /\ t2 = a
    <3>1. s[a][i] \in instructions /\ s[a][j] \in instructions /\ s[a][i] # s[a][j]
      BY <1>1, <1>6, <2>1
    <3>2. Assembled(s[a][i]) \cap Assembled(s[a][j]) = {}
      BY <1>3, <3>1
    <3> QED
      BY <1>5, <2>1, <3>2
  <2>2. CASE t1 = b /\ t2 = b
    <3>1. s[b][i] \in cb_instructions /\ s[b][j] \in cb_instructions /\ s[b][i] # s[b][j]
      BY <1>1, <1>6, <2>2
    <3>2. Assembled(s[b][i]) \cap Assembled(s[b][j]) = {}
      BY <1>3, <3>1
    <3> QED
      BY <1>5, <2>2, <3>2
  <2>3. CASE t1 = a /\ t2 = b
    BY <1>1, <1>4, <2>3
  <2>4. CASE t1 = b /\ t2 = a
    BY <1>1, <1>4, <2>4
  <2> QED
    BY <2>1, <2>2, <2>3, <2>4
<1>7. \A t \in DOMAIN s : \A r \in Range(s[t]) : Fits(r)
  BY <1>2
<1> QED
  BY <1>6, <1>7
=============================================================================
