----------------------------- MODULE CPU_proofs -----------------------------
(* The processor under the two programs that drive it: the emulator         *)
(* (Session) and the instruction tester (CPUTest).                          *)
EXTENDS Session, CPUTest, SequenceTheorems, TLAPS

-----------------------------------------------------------------------------
(* Bytes, words and the results of the operations on them.                  *)

LEMMA WordIs == ASSUME NEW n PROVE n \in Word <=> n \in Int /\ 0 <= n /\ n <= 65535
<1> DEFINE b == 65535
<1>1. Word = 0 .. b
  BY DEF Word
<1>2. b \in Int
  OBVIOUS
<1> HIDE DEF b
<1>3. n \in Word <=> n \in Int /\ 0 <= n /\ n <= b
  BY <1>1, <1>2
<1> QED
  BY <1>3 DEF b

LEMMA ByteIs == ASSUME NEW n PROVE n \in Byte <=> n \in Int /\ 0 <= n /\ n <= 255
BY DEF Byte

LEMMA Halves ==
  ASSUME NEW w \in Word
  PROVE  High(w) \in Byte /\ Low(w) \in Byte /\ Join(High(w), Low(w)) = w
BY WordIs, ByteIs DEF High, Low, Join

LEMMA Joined ==
  ASSUME NEW h \in Byte, NEW l \in Byte
  PROVE  Join(h, l) \in Word /\ High(Join(h, l)) = h /\ Low(Join(h, l)) = l
<1>1. Join(h, l) \in Word
  BY WordIs, ByteIs DEF Join
<1>2. High(Join(h, l)) = h
  BY ByteIs DEF Join, High
<1>3. Low(Join(h, l)) = l
  BY ByteIs DEF Join, Low
<1> QED
  BY <1>1, <1>2, <1>3

LEMMA BitIs ==
  ASSUME NEW v \in Int, NEW i \in 0 .. 8
  PROVE  Bit(v, i) \in 0 .. 1
<1>1. Pow2[i + 1] \in {1, 2, 4, 8, 16, 32, 64, 128, 256}
  BY DEF Pow2
<1>2. v \div Pow2[i + 1] \in Int
  BY <1>1
<1> QED
  BY <1>2 DEF Bit

\* A remainder is a byte, or a word.
LEMMA Wrapped ==
  ASSUME NEW n \in Int
  PROVE  n % 256 \in Byte /\ n % 65536 \in Word
BY WordIs, ByteIs

LEMMA OneIs ==
  ASSUME NEW b \in BOOLEAN
  PROVE  One(b) \in 0 .. 1
BY DEF One

LEMMA FlagByteTyped ==
  ASSUME NEW f \in FlagsRegister
  PROVE  FlagByte(f) \in Byte
<1>1. /\ One(f.zero) \in 0 .. 1 /\ One(f.subtraction) \in 0 .. 1
      /\ One(f.halfCarry) \in 0 .. 1 /\ One(f.carry) \in 0 .. 1
  BY DEF FlagsRegister, One
<1> QED
  BY <1>1 DEF FlagByte, Byte

LEMMA FlagsOfTyped ==
  ASSUME NEW b
  PROVE  FlagsOf(b) \in FlagsRegister
BY DEF FlagsOf, Flags, FlagsRegister

\* The results of the operations on two bytes.
LEMMA BinaryTyped ==
  ASSUME NEW a \in Byte, NEW v \in Byte, NEW f \in FlagsRegister
  PROVE  /\ add(a, v).val \in Byte /\ add(a, v).f \in FlagsRegister
         /\ adc(a, v, f).val \in Byte /\ adc(a, v, f).f \in FlagsRegister
         /\ sub(a, v).val \in Byte /\ sub(a, v).f \in FlagsRegister
         /\ sbc(a, v, f).val \in Byte /\ sbc(a, v, f).f \in FlagsRegister
         /\ cp(a, v).val \in Byte /\ cp(a, v).f \in FlagsRegister
<1> DEFINE c == One(f.carry)
           n == a + v + c
           m == a - v - c
<1>1. n \in Int /\ m \in Int /\ a + v \in Int /\ a - v \in Int
  BY DEF FlagsRegister, One, Byte
<1> HIDE DEF n, m
<1>2. /\ n % 256 \in Byte /\ m % 256 \in Byte
      /\ (a + v) % 256 \in Byte /\ (a - v) % 256 \in Byte
  BY <1>1, Wrapped
<1>3. add(a, v).val = (a + v) % 256 /\ adc(a, v, f).val = n % 256
  BY DEF add, adc, Result, n
<1>4. sub(a, v).val = (a - v) % 256 /\ sbc(a, v, f).val = m % 256 /\ cp(a, v).val = a
  BY DEF sub, sbc, cp, Result, m
<1>5. add(a, v).f \in FlagsRegister
  BY DEF add, Result, Flags, FlagsRegister
<1>6. adc(a, v, f).f \in FlagsRegister
  BY DEF adc, Result, Flags, FlagsRegister
<1>7. cp(a, v).f \in FlagsRegister
  BY DEF cp, Result, Flags, FlagsRegister
<1>8. sub(a, v).f = cp(a, v).f
  BY DEF sub, cp, Result
<1>9. sbc(a, v, f).f \in FlagsRegister
  BY DEF sbc, Result, Flags, FlagsRegister
<1> QED
  BY <1>2, <1>3, <1>4, <1>5, <1>6, <1>7, <1>8, <1>9

\* A byte made of eight bits.
LEMMA OfBitsTyped ==
  ASSUME NEW b, \A i \in 0 .. 7 : b[i] \in 0 .. 1
  PROVE  OfBits(b) \in Byte
<1>1. /\ b[0] \in 0 .. 1 /\ b[1] \in 0 .. 1 /\ b[2] \in 0 .. 1 /\ b[3] \in 0 .. 1
      /\ b[4] \in 0 .. 1 /\ b[5] \in 0 .. 1 /\ b[6] \in 0 .. 1 /\ b[7] \in 0 .. 1
  OBVIOUS
<1> QED
  BY <1>1 DEF OfBits, Byte

LEMMA BitwiseTyped ==
  ASSUME NEW v \in Byte, NEW w \in Byte
  PROVE  And(v, w) \in Byte /\ Or(v, w) \in Byte /\ Xor(v, w) \in Byte
<1> DEFINE a == [i \in 0 .. 7 |-> Bit(v, i) * Bit(w, i)]
           o == [i \in 0 .. 7 |-> IF Bit(v, i) + Bit(w, i) > 0 THEN 1 ELSE 0]
           x == [i \in 0 .. 7 |-> (Bit(v, i) + Bit(w, i)) % 2]
<1>1. \A i \in 0 .. 7 : Bit(v, i) \in 0 .. 1 /\ Bit(w, i) \in 0 .. 1
  BY BitIs DEF Byte
<1>2. \A i \in 0 .. 7 : a[i] \in 0 .. 1
  <2> TAKE i \in 0 .. 7
  <2>1. Bit(v, i) \in {0, 1} /\ Bit(w, i) \in {0, 1}
    BY <1>1
  <2>2. Bit(v, i) * Bit(w, i) \in 0 .. 1
    BY <2>1
  <2> QED
    BY <2>2
<1>3. \A i \in 0 .. 7 : o[i] \in 0 .. 1
  BY <1>1
<1>4. \A i \in 0 .. 7 : x[i] \in 0 .. 1
  BY <1>1
<1> HIDE DEF a, o, x
<1>5. OfBits(a) \in Byte /\ OfBits(o) \in Byte /\ OfBits(x) \in Byte
  BY <1>2, <1>3, <1>4, OfBitsTyped
<1> QED
  BY <1>5 DEF a, o, x, And, Or, Xor

LEMMA LogicTyped ==
  ASSUME NEW a \in Byte, NEW v \in Byte
  PROVE  /\ and_(a, v).val \in Byte /\ and_(a, v).f \in FlagsRegister
         /\ xor_(a, v).val \in Byte /\ xor_(a, v).f \in FlagsRegister
         /\ or_(a, v).val \in Byte /\ or_(a, v).f \in FlagsRegister
<1>1. and_(a, v).val \in Byte /\ xor_(a, v).val \in Byte /\ or_(a, v).val \in Byte
  BY BitwiseTyped DEF and_, xor_, or_, Result
<1>2. and_(a, v).f \in FlagsRegister
  BY DEF and_, Result, Flags, FlagsRegister
<1>3. xor_(a, v).f \in FlagsRegister
  BY DEF xor_, Result, Flags, FlagsRegister
<1>4. or_(a, v).f \in FlagsRegister
  BY DEF or_, Result, Flags, FlagsRegister
<1> QED
  BY <1>1, <1>2, <1>3, <1>4

\* The results of the operations on one byte.
LEMMA UnaryTyped ==
  ASSUME NEW v \in Byte, NEW f \in FlagsRegister
  PROVE  /\ inc(v, f).val \in Byte /\ inc(v, f).f \in FlagsRegister
         /\ dec(v, f).val \in Byte /\ dec(v, f).f \in FlagsRegister
         /\ daa(v, f).val \in Byte /\ daa(v, f).f \in FlagsRegister
         /\ cpl(v, f).val \in Byte /\ cpl(v, f).f \in FlagsRegister
<1>1. f.carry \in BOOLEAN /\ f.subtraction \in BOOLEAN
  BY DEF FlagsRegister
<1>2. inc(v, f).val \in Byte /\ dec(v, f).val \in Byte
  BY Wrapped DEF inc, dec, Result, Byte
<1>3. inc(v, f).f \in FlagsRegister
  BY <1>1 DEF inc, Result, Flags, FlagsRegister
<1>4. dec(v, f).f \in FlagsRegister
  BY <1>1 DEF dec, Result, Flags, FlagsRegister
<1>5. cpl(v, f).val \in Byte
  BY DEF cpl, Byte
<1>6. cpl(v, f).f \in FlagsRegister
  BY Zenon DEF cpl, FlagsRegister
<1>7. daa(v, f).val \in Byte
  <2> DEFINE high == f.carry \/ (~f.subtraction /\ v > 153)
             low  == f.halfCarry \/ (~f.subtraction /\ Nibble(v) > 9)
             fix  == (IF high THEN 96 ELSE 0) + (IF low THEN 6 ELSE 0)
             n    == IF f.subtraction THEN v - fix ELSE v + fix
  <2>1. fix \in Int
    OBVIOUS
  <2> HIDE DEF fix
  <2>2. n \in Int
    BY <2>1 DEF Byte
  <2> HIDE DEF n
  <2>3. n % 256 \in Byte
    BY <2>2, Wrapped
  <2>4. daa(v, f).val = n % 256
    BY DEF daa, Result, n, fix
  <2> QED
    BY <2>3, <2>4
<1>8. daa(v, f).f \in FlagsRegister
  BY <1>1 DEF daa, Result, Flags, FlagsRegister
<1> QED
  BY <1>2, <1>3, <1>4, <1>5, <1>6, <1>7, <1>8

LEMMA ShiftedTyped ==
  ASSUME NEW v \in Byte, NEW c
  PROVE  Shifted(v, c).val \in Byte /\ Shifted(v, c).f \in FlagsRegister
BY DEF Shifted, Result, Flags, FlagsRegister

LEMMA RotateShiftTyped ==
  ASSUME NEW k \in 0 .. 7, NEW v \in Byte, NEW f \in FlagsRegister
  PROVE  RotateShift(k, v, f).val \in Byte /\ RotateShift(k, v, f).f \in FlagsRegister
<1>1. Bit(v, 7) \in 0 .. 1 /\ Bit(v, 0) \in 0 .. 1 /\ One(f.carry) \in 0 .. 1
  BY BitIs, OneIs DEF Byte, FlagsRegister
<1>2. Bit(v, 7) = (v \div 128) /\ Bit(v, 0) = (v % 2)
  BY DEF Bit, Pow2, Byte
<1>3. /\ Low(2 * v) + Bit(v, 7) \in Byte /\ Low(2 * v) + One(f.carry) \in Byte
      /\ Low(2 * v) \in Byte /\ (v \div 2) \in Byte
      /\ (v \div 2) + 128 * Bit(v, 0) \in Byte /\ (v \div 2) + 128 * One(f.carry) \in Byte
      /\ (v \div 2) + 128 * Bit(v, 7) \in Byte /\ Low(16 * v) + (v \div 16) \in Byte
  BY <1>1 DEF Low, Byte
<1>4. CASE k = 0
  BY <1>3, <1>4, ShiftedTyped DEF RotateShift, rlc
<1>5. CASE k = 1
  BY <1>3, <1>5, ShiftedTyped DEF RotateShift, rrc
<1>6. CASE k = 2
  BY <1>3, <1>6, ShiftedTyped DEF RotateShift, rl
<1>7. CASE k = 3
  BY <1>3, <1>7, ShiftedTyped DEF RotateShift, rr
<1>8. CASE k = 4
  BY <1>3, <1>8, ShiftedTyped DEF RotateShift, sla
<1>9. CASE k = 5
  BY <1>3, <1>9, ShiftedTyped DEF RotateShift, sra
<1>10. CASE k = 6
  BY <1>3, <1>10, ShiftedTyped DEF RotateShift, swap
<1>11. CASE k = 7
  BY <1>3, <1>11, ShiftedTyped DEF RotateShift, srl
<1> QED
  BY <1>4, <1>5, <1>6, <1>7, <1>8, <1>9, <1>10, <1>11

LEMMA ResSetTyped ==
  ASSUME NEW v \in Byte, NEW b \in 0 .. 7, NEW f \in FlagsRegister
  PROVE  res(v, b) \in Byte /\ set(v, b) \in Byte /\ bit(v, b, f) \in FlagsRegister
<1>1. bit(v, b, f) \in FlagsRegister
  BY DEF bit, Flags, FlagsRegister
<1>2. PICK p \in {1, 2, 4, 8, 16, 32, 64, 128} : p = Pow2[b + 1]
  BY DEF Pow2
<1>3. v - p * ((v \div p) % 2) \in Byte /\ v + p * (1 - ((v \div p) % 2)) \in Byte
  BY DEF Byte
<1> QED
  BY <1>1, <1>2, <1>3 DEF res, set, Bit

LEMMA SignedIs ==
  ASSUME NEW b \in Byte
  PROVE  Signed(b) \in -128 .. 127
BY DEF Signed, Byte

\* The results of the operations on words.
LEMMA AddSignedTyped ==
  ASSUME NEW a \in Word, NEW v \in Byte
  PROVE  AddSigned(a, v).val \in Word /\ AddSigned(a, v).f \in FlagsRegister
<1>1. a + Signed(v) \in Int
  BY SignedIs, WordIs
<1>2. AddSigned(a, v).val \in Word
  BY <1>1, Wrapped DEF AddSigned, Result
<1>3. AddSigned(a, v).f \in FlagsRegister
  BY DEF AddSigned, Result, Flags, FlagsRegister
<1> QED
  BY <1>2, <1>3

LEMMA AddWordsTyped ==
  ASSUME NEW a \in Word, NEW b \in Word, NEW f \in FlagsRegister
  PROVE  /\ addCompoundRegisters(a, b, f).val \in Word
         /\ addCompoundRegisters(a, b, f).f \in FlagsRegister
<1>1. a + b \in Int
  BY WordIs
<1>2. addCompoundRegisters(a, b, f).val \in Word
  BY <1>1, Wrapped DEF addCompoundRegisters
<1> DEFINE c == a + b > 65535
           h == (a % 4096) + (b % 4096) > 4095
<1>3. c \in BOOLEAN /\ h \in BOOLEAN
  OBVIOUS
<1> HIDE DEF c, h
<1>4. [f EXCEPT !.subtraction = FALSE, !.carry = c, !.halfCarry = h] \in FlagsRegister
  BY <1>3, Zenon DEF FlagsRegister
<1> QED
  BY <1>2, <1>4 DEF addCompoundRegisters, c, h

-----------------------------------------------------------------------------
(* Registers.                                                               *)

\* What an instruction makes of the registers: the boot ROM's flag stays.
Derived(c) == c \in CPUState /\ c.inBootRom = cpu.inBootRom

LEMMA Fields ==
  ASSUME NEW c, Derived(c)
  PROVE  /\ c.A \in Byte /\ c.B \in Byte /\ c.C \in Byte /\ c.D \in Byte /\ c.E \in Byte
         /\ c.H \in Byte /\ c.L \in Byte /\ c.F \in FlagsRegister
         /\ c.SP \in Word /\ c.PC \in Word
BY DEF Derived, CPUState

LEMMA Finishes ==
  ASSUME NEW c, Derived(c), NEW len \in Int, NEW n \in 0 .. 6, Finish(c, len, n)
  PROVE  Derived(cpu')
<1> DEFINE a == (c.PC + len) % 65536
<1>1. a \in Word
  BY Fields, Wrapped, WordIs
<1>2. cpu' = [c EXCEPT !.PC = a, !.cycles = n]
  BY DEF Finish
<1> HIDE DEF a
<1>3. Derived([c EXCEPT !.PC = a, !.cycles = n])
  BY <1>1, Zenon DEF Derived, CPUState
<1> QED
  BY <1>2, <1>3, Zenon

LEMMA Goes ==
  ASSUME NEW c, Derived(c), NEW a \in Word, NEW n \in 0 .. 6, Goto(c, a, n)
  PROVE  Derived(cpu')
<1>1. Derived([c EXCEPT !.PC = a, !.cycles = n])
  BY Zenon DEF Derived, CPUState
<1> QED
  BY <1>1, Zenon DEF Goto

LEMMA Set8 ==
  ASSUME NEW c, Derived(c), NEW i \in 0 .. 7, NEW v \in Byte
  PROVE  Derived(set8(c, i, v))
<1>1. CASE i = 6
  BY <1>1 DEF set8
<1>2. CASE i = 0
  <2>1. set8(c, i, v) = [c EXCEPT !.B = v]
    BY <1>2 DEF set8, Reg8
  <2>2. Derived([c EXCEPT !.B = v])
    BY Zenon DEF Derived, CPUState
  <2> QED
    BY <2>1, <2>2, Zenon
<1>3. CASE i = 1
  <2>1. set8(c, i, v) = [c EXCEPT !.C = v]
    BY <1>3 DEF set8, Reg8
  <2>2. Derived([c EXCEPT !.C = v])
    BY Zenon DEF Derived, CPUState
  <2> QED
    BY <2>1, <2>2, Zenon
<1>4. CASE i = 2
  <2>1. set8(c, i, v) = [c EXCEPT !.D = v]
    BY <1>4 DEF set8, Reg8
  <2>2. Derived([c EXCEPT !.D = v])
    BY Zenon DEF Derived, CPUState
  <2> QED
    BY <2>1, <2>2, Zenon
<1>5. CASE i = 3
  <2>1. set8(c, i, v) = [c EXCEPT !.E = v]
    BY <1>5 DEF set8, Reg8
  <2>2. Derived([c EXCEPT !.E = v])
    BY Zenon DEF Derived, CPUState
  <2> QED
    BY <2>1, <2>2, Zenon
<1>6. CASE i = 4
  <2>1. set8(c, i, v) = [c EXCEPT !.H = v]
    BY <1>6 DEF set8, Reg8
  <2>2. Derived([c EXCEPT !.H = v])
    BY Zenon DEF Derived, CPUState
  <2> QED
    BY <2>1, <2>2, Zenon
<1>7. CASE i = 5
  <2>1. set8(c, i, v) = [c EXCEPT !.L = v]
    BY <1>7 DEF set8, Reg8
  <2>2. Derived([c EXCEPT !.L = v])
    BY Zenon DEF Derived, CPUState
  <2> QED
    BY <2>1, <2>2, Zenon
<1>8. CASE i = 7
  <2>1. set8(c, i, v) = [c EXCEPT !.A = v]
    BY <1>8 DEF set8, Reg8
  <2>2. Derived([c EXCEPT !.A = v])
    BY Zenon DEF Derived, CPUState
  <2> QED
    BY <2>1, <2>2, Zenon
<1> QED
  BY <1>1, <1>2, <1>3, <1>4, <1>5, <1>6, <1>7, <1>8

LEMMA Set16 ==
  ASSUME NEW c, Derived(c), NEW i \in 0 .. 3, NEW w \in Word
  PROVE  Derived(set16(c, i, w)) /\ Derived(setStack(c, i, w))
<1> DEFINE h == High(w)
           l == Low(w)
           f == FlagsOf(Low(w))
<1>0. h \in Byte /\ l \in Byte /\ f \in FlagsRegister
  BY Halves, FlagsOfTyped
<1>1. ASSUME i = 0 PROVE Derived(set16(c, i, w))
  <2>1. set16(c, i, w) = [c EXCEPT !.B = h, !.C = l]
    BY <1>1 DEF set16
  <2> HIDE DEF h, l
  <2>2. Derived([c EXCEPT !.B = h, !.C = l])
    BY <1>0, Zenon DEF Derived, CPUState
  <2> QED
    BY <2>1, <2>2, Zenon
<1>2. ASSUME i = 1 PROVE Derived(set16(c, i, w))
  <2>1. set16(c, i, w) = [c EXCEPT !.D = h, !.E = l]
    BY <1>2 DEF set16
  <2> HIDE DEF h, l
  <2>2. Derived([c EXCEPT !.D = h, !.E = l])
    BY <1>0, Zenon DEF Derived, CPUState
  <2> QED
    BY <2>1, <2>2, Zenon
<1>3. ASSUME i = 2 PROVE Derived(set16(c, i, w))
  <2>1. set16(c, i, w) = [c EXCEPT !.H = h, !.L = l]
    BY <1>3 DEF set16
  <2> HIDE DEF h, l
  <2>2. Derived([c EXCEPT !.H = h, !.L = l])
    BY <1>0, Zenon DEF Derived, CPUState
  <2> QED
    BY <2>1, <2>2, Zenon
<1>4. ASSUME i = 3 PROVE Derived(set16(c, i, w))
  <2>1. set16(c, i, w) = [c EXCEPT !.SP = w]
    BY <1>4 DEF set16
  <2> HIDE DEF h, l
  <2>2. Derived([c EXCEPT !.SP = w])
    BY <1>0, Zenon DEF Derived, CPUState
  <2> QED
    BY <2>1, <2>2, Zenon
<1>5. ASSUME i = 3 PROVE Derived(setStack(c, i, w))
  <2>1. setStack(c, i, w) = [c EXCEPT !.A = h, !.F = f]
    BY <1>5 DEF setStack
  <2> HIDE DEF h, f
  <2>2. Derived([c EXCEPT !.A = h, !.F = f])
    BY <1>0, Zenon DEF Derived, CPUState
  <2> QED
    BY <2>1, <2>2, Zenon
<1> QED
  BY <1>1, <1>2, <1>3, <1>4, <1>5 DEF setStack

\* What the registers hold.
LEMMA Get16 ==
  ASSUME NEW c, Derived(c), NEW i \in 0 .. 3
  PROVE  get16(c, i) \in Word /\ getStack(c, i) \in Word /\ HL(c) \in Word
<1>1. Join(c.B, c.C) \in Word /\ Join(c.D, c.E) \in Word /\ HL(c) \in Word
  BY Fields, Joined DEF HL
<1>2. get16(c, i) \in Word
  BY <1>1, Fields DEF get16
<1>3. Join(c.A, FlagByte(c.F)) \in Word
  BY Fields, FlagByteTyped, Joined
<1> QED
  BY <1>1, <1>2, <1>3 DEF getStack

LEMMA Moves ==
  ASSUME NEW c, Derived(c)
  PROVE  Derived(Pushed(c)) /\ Derived(Popped(c)) /\ Derived(Stepped(c))
<1> DEFINE low  == (c.SP - 2) % 65536
           high == (c.SP + 2) % 65536
<1>1. low \in Word /\ high \in Word
  BY Fields, Wrapped, WordIs
<1>2. (IF op < 48 THEN HL(c) + 1 ELSE HL(c) - 1) % 65536 \in Word
  <2>1. HL(c) \in Word
    BY Get16
  <2> QED
    BY <2>1, Wrapped, WordIs
<1>3. Pushed(c) = [c EXCEPT !.SP = low] /\ Popped(c) = [c EXCEPT !.SP = high]
  BY DEF Pushed, Popped
<1> HIDE DEF low, high
<1>4. Derived([c EXCEPT !.SP = low]) /\ Derived([c EXCEPT !.SP = high])
  BY <1>1, Zenon DEF Derived, CPUState
<1>5. Derived(Pushed(c)) /\ Derived(Popped(c))
  BY <1>3, <1>4, Zenon
<1> QED
  BY <1>2, <1>5, Set16 DEF Stepped

LEMMA AlwaysDerived == cpu \in CPUState => Derived(cpu)
BY DEF Derived

-----------------------------------------------------------------------------
(* Memory.                                                                  *)

\* The cells of the memory hold bytes.
MemoryTyped == \A a \in DOMAIN memory : memory[a] \in Byte

LEMMA Reads ==
  ASSUME MemoryTyped, NEW a
  PROVE  readByte(a) \in Byte /\ readWord(a) \in Word
<1>1. \A b : readByte(b) \in Byte
  BY ByteIs DEF readByte, MemoryTyped
<1> QED
  BY <1>1, Joined DEF readWord

LEMMA Get8 ==
  ASSUME MemoryTyped, NEW c, Derived(c), NEW i \in 0 .. 7
  PROVE  get8(c, i) \in Byte
BY Reads, Fields DEF get8, Reg8

\* Its addresses are words.
AddressesTyped == DOMAIN memory \subseteq Word

\* No instruction but the hand-over stores more than two bytes.
StoreLists == {ws \in Seq(Word \X Byte) : Len(ws) <= 2}

LEMMA NoList == << >> \in StoreLists
BY DEF StoreLists

LEMMA OneList ==
  ASSUME NEW a \in Word, NEW v \in Byte
  PROVE  << <<a, v>> >> \in StoreLists
BY DEF StoreLists

LEMMA TwoList ==
  ASSUME NEW a \in Word, NEW v \in Byte, NEW b \in Word, NEW w \in Byte
  PROVE  << <<a, v>>, <<b, w>> >> \in StoreLists
BY DEF StoreLists

LEMMA StoredTyped ==
  ASSUME NEW ws \in StoreLists
  PROVE  AsStored(ws) \in StoreLists
<1>1. ws \in Seq(Word \X Byte) /\ Len(ws) <= 2 /\ DOMAIN ws = 1 .. Len(ws)
  BY LenProperties DEF StoreLists
<1>2. \A i \in 1 .. Len(ws) : ws[i] \in Word \X Byte
  BY <1>1, ElementOfSeq
<1>3. \A i \in 1 .. Len(ws) : <<ws[i][1], Stored(ws[i][1], ws[i][2])>> \in Word \X Byte
  BY <1>2, ByteIs DEF Stored
<1>4. AsStored(ws) = [i \in 1 .. Len(ws) |-> <<ws[i][1], Stored(ws[i][1], ws[i][2])>>]
  BY <1>1 DEF AsStored
<1>5. Len(ws) \in Nat
  BY <1>1, LenProperties
<1> DEFINE e(i) == <<ws[i][1], Stored(ws[i][1], ws[i][2])>>
<1>6. /\ [i \in 1 .. Len(ws) |-> e(i)] \in Seq(Word \X Byte)
      /\ Len([i \in 1 .. Len(ws) |-> e(i)]) = Len(ws)
  BY <1>3, <1>5, IsASeq
<1> QED
  BY <1>1, <1>4, <1>6 DEF StoreLists

\* What an instruction does to the memory, or in the tester to its log.
Recorded ==
  \/ NoStore
  \/ \E ws \in StoreLists : Write(ws) /\ events' \in {<< >>, ws}

LEMMA Stores ==
  ASSUME NEW ws \in StoreLists, Store(ws)
  PROVE  Recorded
BY StoredTyped DEF Store, Recorded

-----------------------------------------------------------------------------
(* Instructions.                                                            *)

LEMMA Decoded ==
  ASSUME MemoryTyped, cpu \in CPUState
  PROVE  /\ op \in Byte /\ y \in 0 .. 7 /\ z \in 0 .. 7 /\ rr_ \in 0 .. 3
         /\ d8 \in Byte /\ d16 \in Word /\ bitOf \in 0 .. 7 /\ regOf \in 0 .. 7
         /\ Derived(cpu)
<1>1. op \in Byte /\ d8 \in Byte /\ d16 \in Word
  BY Reads DEF op, d8, d16
<1>2. \A b \in Byte : ((b \div 8) % 8) \in 0 .. 7 /\ (b % 8) \in 0 .. 7 /\ ((b \div 16) % 4) \in 0 .. 3
  BY ByteIs
<1> QED
  BY <1>1, <1>2, AlwaysDerived DEF y, z, rr_, bitOf, regOf

\* An instruction other than the hand-over keeps the types, and stores as the
\* tester can log it.
Kept == Derived(cpu') /\ Recorded

LEMMA Silent8 == ASSUME NoStore PROVE Recorded
BY DEF Recorded

LEMMA OneStored ==
  ASSUME NEW a \in Word, NEW v \in Byte, Store(<< <<a, v>> >>)
  PROVE  Recorded
BY OneList, Stores

LEMMA TwoStored ==
  ASSUME NEW c, Derived(c), NEW w \in Word, Store(PushStores(c, w))
  PROVE  Recorded
<1>1. (c.SP - 1) % 65536 \in Word /\ (c.SP - 2) % 65536 \in Word
  BY Fields, Wrapped, WordIs
<1>2. High(w) \in Byte /\ Low(w) \in Byte
  BY Halves
<1>3. PushStores(c, w) \in StoreLists
  BY <1>1, <1>2, TwoList DEF PushStores
<1> QED
  BY <1>3, Stores

LEMMA Stored8 ==
  ASSUME NEW c, Derived(c), NEW i \in 0 .. 7, NEW v \in Byte, Store(Stores8(c, i, v))
  PROVE  Recorded
<1>1. HL(c) \in Word
  BY Get16
<1>2. Stores8(c, i, v) \in StoreLists
  BY <1>1, NoList, OneList DEF Stores8
<1> QED
  BY <1>2, Stores

LEMMA WordStored ==
  ASSUME NEW a \in Word, NEW w \in Word, StoreWord(a, w)
  PROVE  Recorded
<1> DEFINE v == IF a = DIV THEN 0 ELSE w
           ws == << <<Next16(a), High(v)>>, <<a, Low(v)>> >>
<1>1. v \in Word
  BY WordIs
<1>2. High(v) \in Byte /\ Low(v) \in Byte
  BY <1>1, Halves
<1>3. Next16(a) \in Word
  BY WordIs, Wrapped DEF Next16
<1>4. Write(AsStored(ws)) /\ events' = << >>
  BY DEF StoreWord
<1> HIDE DEF v
<1>5. ws \in StoreLists
  BY <1>2, <1>3, TwoList
<1> HIDE DEF ws
<1> QED
  BY <1>4, <1>5, StoredTyped DEF Recorded

LEMMA Loaded8 ==
  ASSUME MemoryTyped, cpu \in CPUState, NEW r, NEW n \in 0 .. 6, r # "HL", Load(r, n)
  PROVE  Kept
<1> DEFINE v == get8(cpu, z)
<1>1. v \in Byte
  BY Decoded, Get8
<1>2. /\ Reg8[y + 1] = r /\ y # 6
      /\ Finish([cpu EXCEPT ![r] = v], 1, n) /\ NoStore
  BY Decoded DEF Load, Reg8
<1> HIDE DEF v
<1>3. set8(cpu, y, v) = [cpu EXCEPT ![r] = v]
  BY <1>2 DEF set8
<1>4. Finish(set8(cpu, y, v), 1, n)
  BY <1>2, <1>3, Zenon
<1>5. y \in 0 .. 7 /\ Derived(cpu)
  BY Decoded
<1>6. Derived(set8(cpu, y, v))
  BY <1>1, <1>5, Set8, Zenon
<1> QED
  BY <1>2, <1>4, <1>6, Finishes, Silent8 DEF Kept

LEMMA WithATyped ==
  ASSUME cpu \in CPUState, NEW r, r.val \in Byte, r.f \in FlagsRegister
  PROVE  Derived(WithA(r))
<1> DEFINE v == r.val
           f == r.f
<1> HIDE DEF v, f
<1>1. v \in Byte /\ f \in FlagsRegister
  BY DEF v, f
<1>2. Derived([cpu EXCEPT !.A = v, !.F = f])
  BY <1>1, Zenon DEF Derived, CPUState
<1> QED
  BY <1>2, Zenon DEF WithA, v, f

LEMMA LoadsKeep ==
  ASSUME MemoryTyped, cpu \in CPUState, Loads, ~LD_a8_A_HandOver
  PROVE  Kept
<1>0. /\ HL(cpu) \in Word /\ get16(cpu, rr_) \in Word
      /\ cpu.A \in Byte /\ cpu.SP \in Word /\ cpu.C \in Byte
      /\ get8(cpu, z) \in Byte
  BY Decoded, Get16, Get8, Fields
<1>1. ASSUME NOP PROVE Kept
  BY <1>1, Decoded, Finishes, Silent8 DEF NOP, Kept
<1>2. ASSUME HALT PROVE Kept
  <2> DEFINE c == [cpu EXCEPT !.halted = TRUE]
  <2>1. Derived(c)
    BY Zenon, Decoded DEF Derived, CPUState
  <2>2. Finish(c, 1, 1) /\ NoStore
    BY <1>2 DEF HALT
  <2> HIDE DEF c
  <2> QED
    BY <2>1, <2>2, Finishes, Silent8 DEF Kept
<1>3. ASSUME LD_A_r \/ LD_B_r \/ LD_C_r \/ LD_D_r \/ LD_E_r \/ LD_H_r \/ LD_L_r PROVE Kept
  BY <1>3, Loaded8 DEF LD_A_r, LD_B_r, LD_C_r, LD_D_r, LD_E_r, LD_H_r, LD_L_r
<1>4. ASSUME LD_r_HL PROVE Kept
  <2>1. PICK r \in {"B", "C", "D", "E", "H", "L"} : Load(r, 2)
    BY <1>4 DEF LD_r_HL
  <2> QED
    BY <2>1, Loaded8
<1>5. ASSUME LD_HL_r PROVE Kept
  <2>1. Finish(cpu, 1, 2) /\ Store(<< <<HL(cpu), get8(cpu, z)>> >>)
    BY <1>5 DEF LD_HL_r
  <2>2. Derived(cpu')
    BY <2>1, Decoded, Finishes
  <2> QED
    BY <1>0, <2>1, <2>2, OneStored DEF Kept
<1>6. ASSUME LD_r_d8 PROVE Kept
  <2>1. /\ Finish(set8(cpu, y, d8), 2, IF y = 6 THEN 3 ELSE 2)
        /\ Store(Stores8(cpu, y, d8))
    BY <1>6 DEF LD_r_d8
  <2>2. Derived(cpu) /\ y \in 0 .. 7 /\ d8 \in Byte
    BY Decoded
  <2>3. Derived(set8(cpu, y, d8))
    BY <2>2, Set8, Zenon
  <2>4. Derived(cpu')
    BY <2>1, <2>3, Finishes
  <2>5. Recorded
    BY <2>1, <2>2, Stored8, Zenon
  <2> QED
    BY <2>4, <2>5 DEF Kept
<1>7. ASSUME LD_rr_d16 PROVE Kept
  <2>1. Finish(set16(cpu, rr_, d16), 3, 3) /\ NoStore
    BY <1>7 DEF LD_rr_d16
  <2>2. Derived(cpu) /\ rr_ \in 0 .. 3 /\ d16 \in Word
    BY Decoded
  <2>3. Derived(set16(cpu, rr_, d16))
    BY <2>2, Set16, Zenon
  <2> QED
    BY <2>1, <2>3, Finishes, Silent8 DEF Kept
<1>8. ASSUME LD_rr_A PROVE Kept
  BY <1>8, <1>0, Decoded, Finishes, OneStored DEF LD_rr_A, Kept
<1>9. ASSUME NEW v \in Byte, NEW len \in Int, NEW n \in 0 .. 6,
             Finish([cpu EXCEPT !.A = v], len, n), NoStore
      PROVE  Kept
  <2> DEFINE c == [cpu EXCEPT !.A = v]
  <2>1. Derived(c)
    BY Zenon, Decoded DEF Derived, CPUState
  <2>2. Finish(c, len, n)
    BY <1>9
  <2> HIDE DEF c
  <2> QED
    BY <1>9, <2>1, <2>2, Finishes, Silent8 DEF Kept
<1>10. ASSUME LD_A_rr PROVE Kept
  <2>1. Finish([cpu EXCEPT !.A = readByte(get16(cpu, rr_))], 1, 2) /\ NoStore
    BY <1>10 DEF LD_A_rr
  <2>2. readByte(get16(cpu, rr_)) \in Byte
    BY Reads
  <2> QED
    BY <1>9, <2>1, <2>2
<1>11. ASSUME LD_HL_inc_A PROVE Kept
  BY <1>11, <1>0, Decoded, Moves, Finishes, OneStored DEF LD_HL_inc_A, Kept
<1>12. ASSUME LD_A_HL_inc PROVE Kept
  <2> DEFINE v == readByte(HL(cpu))
             c == [cpu EXCEPT !.A = v]
  <2>1. v \in Byte
    BY Reads
  <2>2. Finish(Stepped(c), 1, 2) /\ NoStore
    BY <1>12 DEF LD_A_HL_inc
  <2> HIDE DEF v
  <2>3. Derived(c)
    BY <2>1, Zenon, Decoded DEF Derived, CPUState
  <2> HIDE DEF c
  <2> QED
    BY <2>2, <2>3, Moves, Finishes, Silent8 DEF Kept
<1>13. ASSUME LD_a16_SP PROVE Kept
  BY <1>13, <1>0, Decoded, Finishes, WordStored DEF LD_a16_SP, Kept
<1>14. ASSUME LD_a16_A PROVE Kept
  BY <1>14, <1>0, Decoded, Finishes, OneStored DEF LD_a16_A, Kept
<1>15. ASSUME LD_A_a16 \/ LD_A_a8 \/ LD_A_mem_C PROVE Kept
  <2>1. \A a : readByte(a) \in Byte
    BY Reads
  <2>2. CASE LD_A_a16
    BY <1>9, <2>1, <2>2 DEF LD_A_a16
  <2>3. CASE LD_A_a8
    BY <1>9, <2>1, <2>3 DEF LD_A_a8
  <2>4. CASE LD_A_mem_C
    BY <1>9, <2>1, <2>4 DEF LD_A_mem_C
  <2> QED
    BY <1>15, <2>2, <2>3, <2>4
<1>16. ASSUME LD_mem_C_A PROVE Kept
  <2>1. HighPage + cpu.C \in Word
    BY <1>0, WordIs, ByteIs DEF HighPage
  <2> QED
    BY <1>16, <2>1, <1>0, Decoded, Finishes, OneStored DEF LD_mem_C_A, Kept
<1>17. ASSUME LD_a8_A PROVE Kept
  <2>1. HighPage + d8 \in Word
    BY Decoded, WordIs, ByteIs DEF HighPage
  <2> QED
    BY <1>17, <2>1, <1>0, Decoded, Finishes, OneStored DEF LD_a8_A, Kept
<1>18. ASSUME LD_SP_HL PROVE Kept
  <2> DEFINE c == [cpu EXCEPT !.SP = HL(cpu)]
  <2>1. Derived(c)
    BY <1>0, Zenon, Decoded DEF Derived, CPUState
  <2>2. Finish(c, 1, 2) /\ NoStore
    BY <1>18 DEF LD_SP_HL
  <2> HIDE DEF c
  <2> QED
    BY <2>1, <2>2, Finishes, Silent8 DEF Kept
<1>19. ASSUME ADD_SP_s8 PROVE Kept
  <2> DEFINE w == AddSigned(cpu.SP, d8).val
             f == AddSigned(cpu.SP, d8).f
             c == [cpu EXCEPT !.SP = w, !.F = f]
  <2>1. w \in Word /\ f \in FlagsRegister
    BY <1>0, Decoded, AddSignedTyped
  <2>2. Finish(c, 2, 4) /\ NoStore
    BY <1>19 DEF ADD_SP_s8
  <2> HIDE DEF w, f
  <2>3. Derived(c)
    BY <2>1, Zenon, Decoded DEF Derived, CPUState
  <2> HIDE DEF c
  <2> QED
    BY <2>2, <2>3, Finishes, Silent8 DEF Kept
<1>20. ASSUME LD_HL_SP_s8 PROVE Kept
  <2> DEFINE w == AddSigned(cpu.SP, d8).val
             f == AddSigned(cpu.SP, d8).f
             b == set16(cpu, 2, w)
             c == [b EXCEPT !.F = f]
  <2>1. w \in Word /\ f \in FlagsRegister
    BY <1>0, Decoded, AddSignedTyped
  <2>2. Finish(c, 2, 3) /\ NoStore
    BY <1>20 DEF LD_HL_SP_s8
  <2> HIDE DEF w, f
  <2>3. Derived(b)
    BY <2>1, Decoded, Set16
  <2> HIDE DEF b
  <2>4. Derived(c)
    BY <2>1, <2>3, Zenon DEF Derived, CPUState
  <2> HIDE DEF c
  <2> QED
    BY <2>2, <2>4, Finishes, Silent8 DEF Kept
<1> QED
  BY <1>1, <1>2, <1>3, <1>4, <1>5, <1>6, <1>7, <1>8, <1>10, <1>11, <1>12, <1>13,
     <1>14, <1>15, <1>16, <1>17, <1>18, <1>19, <1>20 DEF Loads

LEMMA ComputesKeep ==
  ASSUME MemoryTyped, cpu \in CPUState, Computes
  PROVE  Kept
<1>0. /\ HL(cpu) \in Word /\ get16(cpu, rr_) \in Word
      /\ cpu.A \in Byte /\ cpu.F \in FlagsRegister
      /\ get8(cpu, z) \in Byte /\ get8(cpu, y) \in Byte /\ d8 \in Byte
      /\ y \in 0 .. 7 /\ z \in 0 .. 7 /\ rr_ \in 0 .. 3 /\ Derived(cpu)
  BY Decoded, Get16, Get8, Fields
<1>1. ASSUME NEW r, r.val \in Byte, r.f \in FlagsRegister, NEW len \in Int, NEW n \in 0 .. 6,
             Finish(WithA(r), len, n), NoStore
      PROVE  Kept
  BY <1>1, WithATyped, Finishes, Silent8 DEF Kept
<1>2. ASSUME Arithmetic_A_r PROVE Kept
  <2>1. ASSUME NEW i, NEW r, r.val \in Byte, r.f \in FlagsRegister, NEW n \in 0 .. 6,
               With_r(i, r, n)
        PROVE  Kept
    <3>1. Finish(WithA(r), 1, IF z = 6 THEN n ELSE 1) /\ NoStore
      BY <2>1 DEF With_r
    <3>2. (IF z = 6 THEN n ELSE 1) \in 0 .. 6
      OBVIOUS
    <3> QED
      BY <1>1, <2>1, <3>1, <3>2
  <2> DEFINE v == Source
  <2>2. v \in Byte
    BY <1>0 DEF Source
  <2> HIDE DEF v
  <2>3. /\ add(cpu.A, v).val \in Byte /\ add(cpu.A, v).f \in FlagsRegister
        /\ adc(cpu.A, v, cpu.F).val \in Byte /\ adc(cpu.A, v, cpu.F).f \in FlagsRegister
        /\ sub(cpu.A, v).val \in Byte /\ sub(cpu.A, v).f \in FlagsRegister
        /\ sbc(cpu.A, v, cpu.F).val \in Byte /\ sbc(cpu.A, v, cpu.F).f \in FlagsRegister
        /\ cp(cpu.A, v).val \in Byte /\ cp(cpu.A, v).f \in FlagsRegister
    BY <1>0, <2>2, BinaryTyped
  <2>4. /\ and_(cpu.A, v).val \in Byte /\ and_(cpu.A, v).f \in FlagsRegister
        /\ xor_(cpu.A, v).val \in Byte /\ xor_(cpu.A, v).f \in FlagsRegister
        /\ or_(cpu.A, v).val \in Byte /\ or_(cpu.A, v).f \in FlagsRegister
    BY <1>0, <2>2, LogicTyped
  <2>5. CASE ADD_A_r \/ ADC_A_r \/ SUB_r \/ SBC_A_r
    BY <2>1, <2>3, <2>5 DEF ADD_A_r, ADC_A_r, SUB_r, SBC_A_r, v
  <2>6. CASE AND_r \/ XOR_r \/ OR_r \/ CP_r
    BY <2>1, <2>3, <2>4, <2>6 DEF AND_r, XOR_r, OR_r, CP_r, v
  <2> QED
    BY <1>2, <2>5, <2>6 DEF Arithmetic_A_r
<1>3. ASSUME Arithmetic_A_d8 PROVE Kept
  <2> DEFINE v == d8
  <2>0. v \in Byte
    BY <1>0
  <2> HIDE DEF v
  <2>1. /\ add(cpu.A, v).val \in Byte /\ add(cpu.A, v).f \in FlagsRegister
        /\ adc(cpu.A, v, cpu.F).val \in Byte /\ adc(cpu.A, v, cpu.F).f \in FlagsRegister
        /\ sub(cpu.A, v).val \in Byte /\ sub(cpu.A, v).f \in FlagsRegister
        /\ sbc(cpu.A, v, cpu.F).val \in Byte /\ sbc(cpu.A, v, cpu.F).f \in FlagsRegister
        /\ cp(cpu.A, v).val \in Byte /\ cp(cpu.A, v).f \in FlagsRegister
    BY <1>0, <2>0, BinaryTyped
  <2>2. /\ and_(cpu.A, v).val \in Byte /\ and_(cpu.A, v).f \in FlagsRegister
        /\ xor_(cpu.A, v).val \in Byte /\ xor_(cpu.A, v).f \in FlagsRegister
        /\ or_(cpu.A, v).val \in Byte /\ or_(cpu.A, v).f \in FlagsRegister
    BY <1>0, <2>0, LogicTyped
  <2>3. Immediate(v).val \in Byte /\ Immediate(v).f \in FlagsRegister
    <3>1. CASE y \in 0 .. 3
      BY <2>1, <3>1 DEF Immediate
    <3>2. CASE y \in 4 .. 7
      BY <2>1, <2>2, <3>2 DEF Immediate
    <3> QED
      BY <1>0, <3>1, <3>2
  <2> QED
    BY <1>1, <1>3, <2>3 DEF Arithmetic_A_d8, v
<1>4. Stepped8.val \in Byte /\ Stepped8.f \in FlagsRegister
  BY <1>0, UnaryTyped DEF Stepped8
<1>5. ASSUME INC_DEC_r PROVE Kept
  <2> DEFINE b == set8(cpu, y, Stepped8.val)
             f == Stepped8.f
             c == [b EXCEPT !.F = f]
  <2>1. Finish(c, 1, 1) /\ NoStore
    BY <1>5 DEF INC_DEC_r
  <2>2. Derived(b)
    BY <1>0, <1>4, Set8, Zenon
  <2>3. f \in FlagsRegister
    BY <1>4
  <2> HIDE DEF b, f
  <2>4. Derived(c)
    BY <2>2, <2>3, Zenon DEF Derived, CPUState
  <2> HIDE DEF c
  <2> QED
    BY <2>1, <2>4, Finishes, Silent8 DEF Kept
<1>6. ASSUME INC_DEC_mem_HL PROVE Kept
  <2> DEFINE f == Stepped8.f
             c == [cpu EXCEPT !.F = f]
  <2>1. Finish(c, 1, 3) /\ Store(<< <<HL(cpu), Stepped8.val>> >>)
    BY <1>6 DEF INC_DEC_mem_HL
  <2>2. f \in FlagsRegister
    BY <1>4
  <2> HIDE DEF f
  <2>3. Derived(c)
    BY <1>0, <2>2, Zenon DEF Derived, CPUState
  <2> HIDE DEF c
  <2>4. Derived(cpu')
    BY <2>1, <2>3, Finishes
  <2>5. Recorded
    BY <1>0, <1>4, <2>1, OneStored
  <2> QED
    BY <2>4, <2>5 DEF Kept
<1>7. ASSUME INC_rr \/ DEC_rr PROVE Kept
  <2> DEFINE up   == Next16(get16(cpu, rr_))
             down == (get16(cpu, rr_) - 1) % 65536
  <2>1. up \in Word /\ down \in Word
    BY <1>0, WordIs, Wrapped DEF Next16
  <2>2. \/ Finish(set16(cpu, rr_, up), 1, IF op = 3 THEN 1 ELSE 2) /\ NoStore
        \/ Finish(set16(cpu, rr_, down), 1, 2) /\ NoStore
    BY <1>7 DEF INC_rr, DEC_rr
  <2> HIDE DEF up, down
  <2>3. Derived(set16(cpu, rr_, up)) /\ Derived(set16(cpu, rr_, down))
    BY <1>0, <2>1, Set16, Zenon
  <2>4. (IF op = 3 THEN 1 ELSE 2) \in 0 .. 6
    OBVIOUS
  <2> QED
    BY <2>2, <2>3, <2>4, Finishes, Silent8 DEF Kept
<1>8. ASSUME ADD_HL_rr PROVE Kept
  <2> DEFINE r == addCompoundRegisters(HL(cpu), get16(cpu, rr_), cpu.F)
             w == r.val
             f == r.f
             b == set16(cpu, 2, w)
             c == [b EXCEPT !.F = f]
  <2>1. w \in Word /\ f \in FlagsRegister
    BY <1>0, AddWordsTyped
  <2>2. Finish(c, 1, 2) /\ NoStore
    BY <1>8 DEF ADD_HL_rr
  <2> HIDE DEF r, w, f
  <2>3. Derived(b)
    BY <1>0, <2>1, Set16
  <2> HIDE DEF b
  <2>4. Derived(c)
    BY <2>1, <2>3, Zenon DEF Derived, CPUState
  <2> HIDE DEF c
  <2> QED
    BY <2>2, <2>4, Finishes, Silent8 DEF Kept
<1>9. ASSUME RotateA PROVE Kept
  <2> DEFINE r == RotateShift(y, cpu.A, cpu.F)
             b == WithA(r)
             c == [b EXCEPT !.F.zero = FALSE]
  <2>1. r.val \in Byte /\ r.f \in FlagsRegister
    BY <1>0, RotateShiftTyped, Zenon
  <2>2. Finish(c, 1, 1) /\ NoStore
    BY <1>9 DEF RotateA
  <2> HIDE DEF r
  <2>3. Derived(b)
    BY <2>1, WithATyped
  <2> HIDE DEF b
  <2> DEFINE f == [b.F EXCEPT !.zero = FALSE]
  <2>4. b.F \in FlagsRegister
    BY <2>3, Fields
  <2>5. f \in FlagsRegister
    BY <2>4, Zenon DEF FlagsRegister
  <2>6. c = [b EXCEPT !.F = f]
    OBVIOUS
  <2> HIDE DEF c, f
  <2>7. Derived([b EXCEPT !.F = f])
    BY <2>3, <2>5, Zenon DEF Derived, CPUState
  <2>8. Derived(c)
    BY <2>6, <2>7, Zenon
  <2> QED
    BY <2>2, <2>8, Finishes, Silent8 DEF Kept
<1>10. ASSUME DAA \/ CPL PROVE Kept
  <2>1. /\ daa(cpu.A, cpu.F).val \in Byte /\ daa(cpu.A, cpu.F).f \in FlagsRegister
        /\ cpl(cpu.A, cpu.F).val \in Byte /\ cpl(cpu.A, cpu.F).f \in FlagsRegister
    BY <1>0, UnaryTyped
  <2> QED
    BY <1>1, <1>10, <2>1 DEF DAA, CPL
<1>11. ASSUME SCF_CCF PROVE Kept
  <2> DEFINE d == IF op = 55 THEN TRUE ELSE ~cpu.F.carry
             f == Flags(cpu.F.zero, FALSE, FALSE, d)
             c == [cpu EXCEPT !.F = f]
  <2>1. Finish(c, 1, 1) /\ NoStore
    BY <1>11 DEF SCF_CCF
  <2>2. f \in FlagsRegister
    <3>1. d \in BOOLEAN
      BY Zenon
    <3>2. cpu.F.zero \in BOOLEAN
      BY <1>0 DEF FlagsRegister
    <3> HIDE DEF d
    <3> QED
      BY <3>1, <3>2, Zenon DEF Flags, FlagsRegister
  <2> HIDE DEF f
  <2>3. Derived(c)
    BY <1>0, <2>2, Zenon DEF Derived, CPUState
  <2> HIDE DEF c
  <2> QED
    BY <2>1, <2>3, Finishes, Silent8 DEF Kept
<1> QED
  BY <1>2, <1>3, <1>5, <1>6, <1>7, <1>8, <1>9, <1>10, <1>11 DEF Computes

LEMMA BranchesKeep ==
  ASSUME MemoryTyped, cpu \in CPUState, Branches
  PROVE  Kept
<1>0. /\ HL(cpu) \in Word /\ cpu.PC \in Word
      /\ op \in Byte /\ d8 \in Byte /\ d16 \in Word /\ y \in 0 .. 7 /\ rr_ \in 0 .. 3
      /\ Derived(cpu) /\ Derived(Pushed(cpu)) /\ Derived(Popped(cpu))
      /\ PopWord(cpu) \in Word
  BY Decoded, Get16, Fields, Moves, Reads DEF PopWord
<1>1. Relative(cpu.PC) \in Word
  <2>1. cpu.PC + 2 + Signed(d8) \in Int
    BY <1>0, WordIs, SignedIs
  <2> QED
    BY <2>1, Wrapped DEF Relative
<1>2. ASSUME JR \/ JR_cc \/ JP \/ JP_cc \/ JP_HL PROVE Kept
  <2>1. ASSUME NEW a \in Word, NEW n \in 0 .. 6, Goto(cpu, a, n) PROVE Derived(cpu')
    BY <1>0, <2>1, Goes
  <2>2. ASSUME NEW len \in Int, NEW n \in 0 .. 6, Finish(cpu, len, n) PROVE Derived(cpu')
    BY <1>0, <2>2, Finishes
  <2>3. Derived(cpu')
    BY <1>0, <1>1, <1>2, <2>1, <2>2 DEF JR, JR_cc, JP, JP_cc, JP_HL
  <2>4. NoStore
    BY <1>2 DEF JR, JR_cc, JP, JP_cc, JP_HL
  <2> QED
    BY <2>3, <2>4, Silent8 DEF Kept
<1>3. ASSUME Call PROVE Kept
  <2>1. Goto(Pushed(cpu), d16, 6) /\ Store(PushStores(cpu, (cpu.PC + 3) % 65536))
    BY <1>3 DEF Call
  <2>2. (cpu.PC + 3) % 65536 \in Word
    BY <1>0, WordIs, Wrapped
  <2>3. Derived(cpu')
    BY <1>0, <2>1, Goes
  <2>4. Recorded
    BY <1>0, <2>1, <2>2, TwoStored
  <2> QED
    BY <2>3, <2>4 DEF Kept
<1>4. ASSUME CALL \/ CALL_cc PROVE Kept
  <2>1. CASE Call
    BY <1>3, <2>1
  <2>2. CASE Finish(cpu, 3, 3) /\ NoStore
    BY <1>0, <2>2, Finishes, Silent8 DEF Kept
  <2> QED
    BY <1>4, <2>1, <2>2 DEF CALL, CALL_cc
<1>5. ASSUME RST PROVE Kept
  <2>1. Goto(Pushed(cpu), 8 * y, 4) /\ Store(PushStores(cpu, Next16(cpu.PC)))
    BY <1>5 DEF RST
  <2>2. Next16(cpu.PC) \in Word /\ 8 * y \in Word
    BY <1>0, WordIs, Wrapped DEF Next16
  <2>3. Derived(cpu')
    BY <1>0, <2>1, <2>2, Goes
  <2>4. Recorded
    BY <1>0, <2>1, <2>2, TwoStored
  <2> QED
    BY <2>3, <2>4 DEF Kept
<1>6. ASSUME RET \/ RET_cc PROVE Kept
  <2>1. \/ Goto(Popped(cpu), PopWord(cpu), 4)
        \/ Goto(Popped(cpu), PopWord(cpu), 5)
        \/ Finish(cpu, 1, 2)
    BY <1>6 DEF RET, RET_cc
  <2>2. Derived(cpu')
    BY <1>0, <2>1, Goes, Finishes
  <2>3. NoStore
    BY <1>6 DEF RET, RET_cc
  <2> QED
    BY <2>2, <2>3, Silent8 DEF Kept
<1>7. ASSUME RETI PROVE Kept
  <2> DEFINE b == Popped(cpu)
             c == [b EXCEPT !.IME = TRUE]
  <2>1. Goto(c, PopWord(cpu), 4) /\ NoStore
    BY <1>7 DEF RETI
  <2>2. Derived(b)
    BY <1>0
  <2> HIDE DEF b
  <2>3. Derived(c)
    BY <2>2, Zenon DEF Derived, CPUState
  <2> HIDE DEF c
  <2> QED
    BY <1>0, <2>1, <2>3, Goes, Silent8 DEF Kept
<1>8. ASSUME PUSH PROVE Kept
  <2> DEFINE w == getStack(cpu, rr_)
  <2>1. Finish(Pushed(cpu), 1, 4) /\ Store(PushStores(cpu, w))
    BY <1>8 DEF PUSH
  <2>2. w \in Word
    BY <1>0, Get16, Zenon
  <2> HIDE DEF w
  <2>3. Derived(cpu')
    BY <1>0, <2>1, Finishes
  <2>4. Recorded
    BY <1>0, <2>1, <2>2, TwoStored
  <2> QED
    BY <2>3, <2>4 DEF Kept
<1>9. ASSUME POP PROVE Kept
  <2> DEFINE c == setStack(Popped(cpu), rr_, PopWord(cpu))
  <2>1. Finish(c, 1, 3) /\ NoStore
    BY <1>9 DEF POP
  <2>2. Derived(c)
    BY <1>0, Set16, Zenon
  <2> HIDE DEF c
  <2> QED
    BY <2>1, <2>2, Finishes, Silent8 DEF Kept
<1>10. ASSUME DI_EI PROVE Kept
  <2> DEFINE b == op = 251
             c == [cpu EXCEPT !.IME = b]
  <2>1. Finish(c, 1, 1) /\ NoStore
    BY <1>10 DEF DI_EI
  <2>2. b \in BOOLEAN
    OBVIOUS
  <2> HIDE DEF b
  <2>3. Derived(c)
    BY <1>0, <2>2, Zenon DEF Derived, CPUState
  <2> HIDE DEF c
  <2> QED
    BY <2>1, <2>3, Finishes, Silent8 DEF Kept
<1> QED
  BY <1>2, <1>4, <1>5, <1>6, <1>7, <1>8, <1>9, <1>10 DEF Branches

LEMMA PrefixedKeep ==
  ASSUME MemoryTyped, cpu \in CPUState, Prefixed
  PROVE  Kept
<1>0. /\ Operand \in Byte /\ cpu.F \in FlagsRegister
      /\ bitOf \in 0 .. 7 /\ regOf \in 0 .. 7 /\ Derived(cpu)
  BY Decoded, Get8, Fields DEF Operand
<1>1. ASSUME NEW c, Derived(c), NEW v \in Byte, CB_Write(c, v) PROVE Kept
  <2>1. /\ Finish(set8(c, regOf, v), 2, IF regOf = 6 THEN 4 ELSE 2)
        /\ Store(Stores8(c, regOf, v))
    BY <1>1 DEF CB_Write
  <2>2. Derived(set8(c, regOf, v))
    BY <1>0, <1>1, Set8, Zenon
  <2>3. (IF regOf = 6 THEN 4 ELSE 2) \in 0 .. 6
    OBVIOUS
  <2>4. Derived(cpu')
    BY <2>1, <2>2, <2>3, Finishes
  <2>5. Recorded
    BY <1>0, <1>1, <2>1, Stored8, Zenon
  <2> QED
    BY <2>4, <2>5 DEF Kept
<1>2. ASSUME CB_RotateShift PROVE Kept
  <2> DEFINE r == RotateShift(bitOf, Operand, cpu.F)
             v == r.val
             f == r.f
             c == [cpu EXCEPT !.F = f]
  <2>1. CB_Write(c, v)
    BY <1>2 DEF CB_RotateShift
  <2>2. v \in Byte /\ f \in FlagsRegister
    BY <1>0, RotateShiftTyped, Zenon
  <2> HIDE DEF r, v, f
  <2>3. Derived(c)
    BY <1>0, <2>2, Zenon DEF Derived, CPUState
  <2> HIDE DEF c
  <2> QED
    BY <1>1, <2>1, <2>2, <2>3
<1>3. ASSUME CB_BIT PROVE Kept
  <2> DEFINE f == bit(Operand, bitOf, cpu.F)
             c == [cpu EXCEPT !.F = f]
  <2>1. Finish(c, 2, IF regOf = 6 THEN 3 ELSE 2) /\ NoStore
    BY <1>3 DEF CB_BIT
  <2>2. f \in FlagsRegister
    BY <1>0, ResSetTyped, Zenon
  <2> HIDE DEF f
  <2>3. Derived(c)
    BY <1>0, <2>2, Zenon DEF Derived, CPUState
  <2>4. (IF regOf = 6 THEN 3 ELSE 2) \in 0 .. 6
    OBVIOUS
  <2> HIDE DEF c
  <2> QED
    BY <2>1, <2>3, <2>4, Finishes, Silent8 DEF Kept
<1>4. ASSUME CB_RES \/ CB_SET PROVE Kept
  <2>1. res(Operand, bitOf) \in Byte /\ set(Operand, bitOf) \in Byte
    BY <1>0, ResSetTyped, Zenon
  <2>2. CB_Write(cpu, res(Operand, bitOf)) \/ CB_Write(cpu, set(Operand, bitOf))
    BY <1>4 DEF CB_RES, CB_SET
  <2> QED
    BY <1>0, <1>1, <2>1, <2>2
<1> QED
  BY <1>2, <1>3, <1>4 DEF Prefixed

\* Every instruction but the hand-over.
LEMMA TickKeeps ==
  ASSUME MemoryTyped, cpu \in CPUState, tick, ~LD_a8_A_HandOver
  PROVE  Kept /\ UNCHANGED romData
BY LoadsKeep, ComputesKeep, BranchesKeep, PrefixedKeep DEF tick

-----------------------------------------------------------------------------
(* The stores in memory.                                                    *)

LEMMA AfterTyped ==
  ASSUME NEW m, \A a \in DOMAIN m : m[a] \in Byte, NEW ws \in StoreLists
  PROVE  \A a \in DOMAIN After(m, ws) : After(m, ws)[a] \in Byte
<1> DEFINE at(a) == {i \in DOMAIN ws : ws[i][1] = a}
           cells == {ws[i][1] : i \in DOMAIN ws}
           last(a) == CHOOSE i \in at(a) : \A j \in at(a) : j <= i
<1>1. /\ DOMAIN ws = 1 .. Len(ws) /\ Len(ws) \in Nat /\ Len(ws) <= 2
      /\ \A i \in 1 .. Len(ws) : ws[i] \in Word \X Byte
  BY ElementOfSeq, LenProperties DEF StoreLists
<1>2. DOMAIN After(m, ws) = DOMAIN m \cup cells
  BY DEF After
<1> SUFFICES ASSUME NEW a \in DOMAIN m \cup cells
             PROVE  After(m, ws)[a] \in Byte
  BY <1>2
<1>3. After(m, ws)[a] = IF a \in cells THEN ws[last(a)][2] ELSE m[a]
  BY DEF After
<1>4. CASE a \in cells
  <2>1. at(a) \subseteq {1, 2} /\ at(a) # {}
    BY <1>1, <1>4
  <2>2. \E i \in at(a) : \A j \in at(a) : j <= i
    BY <2>1
  <2>3. last(a) \in at(a)
    BY <2>2
  <2>4. last(a) \in 1 .. Len(ws)
    BY <1>1, <2>3
  <2> HIDE DEF last
  <2> QED
    BY <1>1, <1>3, <1>4, <2>4
<1>5. CASE a \notin cells
  BY <1>3, <1>5
<1> QED
  BY <1>4, <1>5

LEMMA AfterAddresses ==
  ASSUME NEW m, DOMAIN m \subseteq Word, NEW ws \in StoreLists
  PROVE  DOMAIN After(m, ws) \subseteq Word
<1>1. \A i \in DOMAIN ws : ws[i][1] \in Word
  <2>1. DOMAIN ws = 1 .. Len(ws) /\ \A i \in 1 .. Len(ws) : ws[i] \in Word \X Byte
    BY ElementOfSeq, LenProperties DEF StoreLists
  <2> QED
    BY <2>1
<1>2. DOMAIN After(m, ws) = DOMAIN m \cup {ws[i][1] : i \in DOMAIN ws}
  BY DEF After
<1> QED
  BY <1>1, <1>2

\* A single store, and the cells it leaves alone.
LEMMA AfterOne ==
  ASSUME NEW m, NEW a, NEW v, NEW b \in DOMAIN m, b # a
  PROVE  After(m, << <<a, v>> >>)[b] = m[b]
<1> DEFINE ws == << <<a, v>> >>
<1>1. DOMAIN ws = {1} /\ ws[1] = <<a, v>>
  OBVIOUS
<1>2. {ws[i][1] : i \in DOMAIN ws} = {a}
  BY <1>1
<1> HIDE DEF ws
<1>3. After(m, ws)[b] = m[b]
  BY <1>2 DEF After
<1> QED
  BY <1>3 DEF ws

LEMMA RecordedTyped ==
  ASSUME MemoryTyped, Recorded
  PROVE  MemoryTyped'
<1>1. CASE memory' = memory
  BY <1>1 DEF MemoryTyped
<1>2. ASSUME NEW ws \in StoreLists, memory' = After(memory, ws)
      PROVE  MemoryTyped'
  BY <1>2, AfterTyped DEF MemoryTyped
<1> QED
  BY <1>1, <1>2 DEF Recorded, NoStore, Write

LEMMA RecordedAddresses ==
  ASSUME AddressesTyped, Recorded
  PROVE  AddressesTyped'
<1>1. CASE memory' = memory
  BY <1>1 DEF AddressesTyped
<1>2. ASSUME NEW ws \in StoreLists, memory' = After(memory, ws)
      PROVE  AddressesTyped'
  BY <1>2, AfterAddresses DEF AddressesTyped
<1> QED
  BY <1>1, <1>2 DEF Recorded, NoStore, Write

-----------------------------------------------------------------------------
(* The hand-over.                                                           *)

\* The first bytes of the game, as setRomData has kept them.
RomKept == \A i \in 1 .. 257 : romData[i] = game[i] /\ romData[i] \in Byte

LEMMA HandsOver ==
  ASSUME cpu \in CPUState, MemoryTyped, RomKept, LD_a8_A_HandOver
  PROVE  /\ cpu' \in CPUState
         /\ MemoryTyped'
         /\ AddressesTyped => AddressesTyped'
         /\ \A a \in 0 .. 256 : memory'[a] = game[a + 1]
<1> DEFINE pc == Next16(cpu.PC)
           a == HighPage + RomCopy[pc]
           v == Stored(a, cpu.A)
           c == [cpu EXCEPT !.inBootRom = FALSE]
<1>1. /\ DOMAIN RomCopy = DOMAIN memory \cup 0 .. 256
      /\ \A b \in 0 .. 256 : RomCopy[b] = romData[b + 1]
      /\ \A b \in DOMAIN memory : b \notin 0 .. 256 => RomCopy[b] = memory[b]
  BY DEF RomCopy
<1>2. \A b \in 0 .. 256 : b + 1 \in 1 .. 257
  OBVIOUS
<1>3. \A b \in DOMAIN RomCopy : RomCopy[b] \in Byte
  BY <1>1, <1>2 DEF RomKept, MemoryTyped
<1>4. pc \in DOMAIN RomCopy
  <2>1. readByte(pc) = 80
    BY DEF LD_a8_A_HandOver, HandOver, d8
  <2> HIDE DEF pc
  <2> QED
    BY <1>1, <2>1 DEF readByte
<1>5. a \in Word /\ a > 256
  BY <1>3, <1>4, WordIs, ByteIs DEF HighPage
<1>6. cpu.A \in Byte /\ Derived(cpu)
  BY Fields, AlwaysDerived
<1>7. v \in Byte
  BY <1>6, ByteIs DEF Stored
<1>8. memory' = After(RomCopy, << <<a, v>> >>) /\ Finish(c, 2, 3)
  BY DEF LD_a8_A_HandOver
<1>9. MemoryTyped'
  <2>1. << <<a, v>> >> \in StoreLists
    BY <1>5, <1>7, OneList
  <2> QED
    BY <1>3, <1>8, <2>1, AfterTyped DEF MemoryTyped
<1>12. AddressesTyped => AddressesTyped'
  <2>1. << <<a, v>> >> \in StoreLists
    BY <1>5, <1>7, OneList
  <2>2. AddressesTyped => DOMAIN RomCopy \subseteq Word
    BY <1>1, WordIs DEF AddressesTyped
  <2> HIDE DEF a, v
  <2> QED
    BY <1>8, <2>1, <2>2, AfterAddresses DEF AddressesTyped
<1>10. \A b \in 0 .. 256 : memory'[b] = game[b + 1]
  <2> TAKE b \in 0 .. 256
  <2>1. b \in DOMAIN RomCopy /\ b # a
    BY <1>1, <1>5
  <2> HIDE DEF a, v
  <2>2. After(RomCopy, << <<a, v>> >>)[b] = RomCopy[b]
    BY <2>1, AfterOne
  <2> QED
    BY <1>1, <1>2, <1>8, <2>2 DEF RomKept
<1>11. cpu' \in CPUState
  <2> DEFINE w == (c.PC + 2) % 65536
  <2>1. c.PC = cpu.PC
    BY DEF CPUState
  <2>2. w \in Word
    BY <1>6, <2>1, Fields, WordIs, Wrapped
  <2>3. c \in CPUState
    BY Zenon DEF CPUState
  <2>4. cpu' = [c EXCEPT !.PC = w, !.cycles = 3]
    BY <1>8 DEF Finish
  <2> HIDE DEF c, w
  <2>5. 3 \in 0 .. 6
    OBVIOUS
  <2>6. [c EXCEPT !.PC = w, !.cycles = 3] \in CPUState
    BY <2>2, <2>3, <2>5, Zenon DEF CPUState
  <2> QED
    BY <2>4, <2>6, Zenon
<1> QED
  BY <1>9, <1>10, <1>11, <1>12

-----------------------------------------------------------------------------
(* The session.                                                             *)

\* The registers and the memory.
MachineTyped == cpu \in CPUState /\ MemoryTyped /\ AddressesTyped

\* They, and the copy of the game that the hand-over needs, once there is one.
SessionInv ==
  /\ MachineTyped
  /\ game \in GameFiles
  /\ stage \in {"loadRom", "loadBootRom", "running", "ended"}
  /\ stage # "loadRom" => RomKept

LEMMA FlagsAreTyped == FlagsOf(0) \in FlagsRegister /\ FlagsOf(240) \in FlagsRegister
<1>1. 0 \in Byte /\ 240 \in Byte
  BY ByteIs
<1> QED
  BY <1>1, FlagsOfTyped

LEMMA SessionStarts == SessionInit => SessionInv
<1> SUFFICES ASSUME SessionInit
             PROVE  SessionInv
  OBVIOUS
<1>1. 0 \in Byte /\ 255 \in Byte /\ 0 \in Word
  BY ByteIs, WordIs
<1>2. 0 \in 0 .. 6
  OBVIOUS
<1>3. cpu \in [A : {0, 255}, B : {0}, C : {0}, D : {0}, E : {0}, H : {0}, L : {0},
               F : {FlagsOf(0), FlagsOf(240)}, SP : {0}, PC : {0}, IME : BOOLEAN,
               halted : {FALSE}, inBootRom : {TRUE}, cycles : {0}]
  BY Zenon DEF SessionInit, BootInit
<1>4. cpu \in CPUState
  <2>1. /\ cpu.A \in {0, 255} /\ cpu.B = 0 /\ cpu.C = 0 /\ cpu.D = 0 /\ cpu.E = 0
        /\ cpu.H = 0 /\ cpu.L = 0 /\ cpu.F \in {FlagsOf(0), FlagsOf(240)}
        /\ cpu.SP = 0 /\ cpu.PC = 0 /\ cpu.cycles = 0
    BY <1>3
  <2>2. cpu.IME \in BOOLEAN /\ cpu.halted \in {FALSE} /\ cpu.inBootRom \in {TRUE}
    BY <1>3, Zenon
  <2>3. cpu = [A |-> cpu.A, B |-> cpu.B, C |-> cpu.C, D |-> cpu.D, E |-> cpu.E, H |-> cpu.H,
               L |-> cpu.L, F |-> cpu.F, SP |-> cpu.SP, PC |-> cpu.PC, IME |-> cpu.IME,
               halted |-> cpu.halted, inBootRom |-> cpu.inBootRom, cycles |-> cpu.cycles]
    BY <1>3
  <2>4. /\ cpu.A \in Byte /\ cpu.B \in Byte /\ cpu.C \in Byte /\ cpu.D \in Byte
        /\ cpu.E \in Byte /\ cpu.H \in Byte /\ cpu.L \in Byte /\ cpu.SP \in Word
        /\ cpu.PC \in Word /\ cpu.cycles \in 0 .. 6 /\ cpu.F \in FlagsRegister
    <3>1. cpu.A \in Byte /\ cpu.F \in FlagsRegister
      BY <1>1, <2>1, FlagsAreTyped
    <3>2. /\ cpu.B \in Byte /\ cpu.C \in Byte /\ cpu.D \in Byte /\ cpu.E \in Byte
          /\ cpu.H \in Byte /\ cpu.L \in Byte
      BY <1>1, <2>1
    <3>3. cpu.SP \in Word /\ cpu.PC \in Word /\ cpu.cycles \in 0 .. 6
      BY <1>1, <1>2, <2>1
    <3> QED
      BY <3>1, <3>2, <3>3
  <2>5. cpu.IME \in BOOLEAN /\ cpu.halted \in BOOLEAN /\ cpu.inBootRom \in BOOLEAN
    BY <2>2, Zenon
  <2> QED
    BY <2>3, <2>4, <2>5, Zenon DEF CPUState
<1>5. memory = << >> /\ game \in GameFiles /\ stage = "loadRom"
  BY DEF SessionInit, BootInit
<1>6. MemoryTyped /\ AddressesTyped
  BY <1>5 DEF MemoryTyped, AddressesTyped
<1> QED
  BY <1>4, <1>5, <1>6, Zenon DEF SessionInv, MachineTyped

\* The last place of a file whose byte goes to a cell is in the file.
LEMMA LastPlace ==
  ASSUME NEW n \in Nat, NEW a \in Nat, a <= n
  PROVE  a + 65536 * ((n - a) \div 65536) \in 0 .. n
<1> DEFINE d == n - a
           q == d \div 65536
<1>1. d \in Nat /\ a + d = n
  OBVIOUS
<1>2. q \in Nat /\ 65536 * q <= d
  BY <1>1
<1> HIDE DEF d, q
<1>3. a + 65536 * q \in 0 .. n
  BY <1>1, <1>2
<1> QED
  BY <1>3 DEF d, q

\* What stands at a place of a file is a byte.
LEMMA ByteOfFile ==
  ASSUME NEW s \in Seq(Byte), NEW i \in 1 .. Len(s)
  PROVE  s[i] \in Byte
BY ElementOfSeq

\* Bytes of a file, and the byte that the last read leaves behind it, at words.
LEMMA LoadedTyped ==
  ASSUME MemoryTyped, AddressesTyped, NEW file \in Seq(Byte)
  PROVE  /\ \A a \in DOMAIN Loaded(file) : Loaded(file)[a] \in Byte
         /\ DOMAIN Loaded(file) \subseteq Word
<1> DEFINE n       == Len(file)
           bytes   == Bytes(file)
           cells   == 0 .. (IF n < 65536 THEN n ELSE 65535)
           last(a) == a + 65536 * ((n - a) \div 65536)
<1>1. n \in Nat /\ 255 \in Byte
  BY LenProperties, ByteIs
<1>2. bytes \in Seq(Byte) /\ Len(bytes) = n + 1
  BY <1>1, AppendProperties DEF Bytes
<1>3. Loaded(file) = [a \in DOMAIN memory \cup cells |->
                        IF a \in cells THEN Stored(a, bytes[last(a) + 1]) ELSE memory[a]]
  BY DEF Loaded
<1> HIDE DEF n, bytes
<1>4. ASSUME NEW a \in cells
      PROVE  a \in Word /\ Stored(a, bytes[last(a) + 1]) \in Byte
  <2>1. a \in Nat /\ a <= n /\ a <= 65535
    BY <1>1
  <2>2. a \in Word
    BY <2>1, WordIs
  <2>3. last(a) \in 0 .. n
    BY <1>1, <2>1, LastPlace
  <2> HIDE DEF last
  <2>4. last(a) + 1 \in 1 .. Len(bytes)
    BY <1>1, <1>2, <2>3
  <2>5. bytes[last(a) + 1] \in Byte
    <3>1. bytes \in Seq(Byte)
      BY <1>2
    <3> DEFINE i == last(a) + 1
    <3>2. i \in 1 .. Len(bytes)
      BY <2>4
    <3> HIDE DEF i
    <3>3. bytes[i] \in Byte
      BY <3>1, <3>2, ByteOfFile
    <3> QED
      BY <3>3 DEF i
  <2>6. 0 \in Byte
    BY ByteIs
  <2>7. Stored(a, bytes[last(a) + 1]) \in Byte
    BY <2>5, <2>6 DEF Stored
  <2> QED
    BY <2>2, <2>7
<1> HIDE DEF cells, last
<1> QED
  BY <1>3, <1>4 DEF MemoryTyped, AddressesTyped

LEMMA LoadsGame ==
  ASSUME SessionInv, LoadRom
  PROVE  SessionInv'
<1>1. game \in Seq(Byte) /\ Len(game) > 256
  BY BootAssumption DEF SessionInv
<1>0. /\ game' = game /\ stage' = "loadBootRom"
      /\ memory' = Loaded(game)
      /\ romData' = SubSeq(Bytes(game), 1, 257)
      /\ cpu' = [cpu EXCEPT !.PC = (Len(game) + 1) % 65536]
  BY DEF LoadRom
<1>2. Len(game) \in Nat /\ 255 \in Byte
  BY <1>1, LenProperties, ByteIs
<1>3. MemoryTyped' /\ AddressesTyped'
  <2>1. MemoryTyped /\ AddressesTyped /\ memory' = Loaded(game)
    BY <1>0 DEF SessionInv, MachineTyped
  <2>2. /\ \A a \in DOMAIN Loaded(game) : Loaded(game)[a] \in Byte
        /\ DOMAIN Loaded(game) \subseteq Word
    BY <1>1, <2>1, LoadedTyped
  <2> QED
    BY <2>1, <2>2 DEF MemoryTyped, AddressesTyped
<1>4. cpu' \in CPUState
  <2> DEFINE w == (Len(game) + 1) % 65536
  <2>1. w \in Word
    BY <1>2, Wrapped
  <2> HIDE DEF w
  <2>2. [cpu EXCEPT !.PC = w] \in CPUState
    BY <2>1, Zenon DEF SessionInv, MachineTyped, CPUState
  <2> QED
    BY <1>0, <2>2 DEF w
<1>5. RomKept'
  <2>1. /\ Bytes(game) \in Seq(Byte) /\ Len(Bytes(game)) = Len(game) + 1
        /\ \A i \in 1 .. Len(game) : Bytes(game)[i] = game[i]
    BY <1>1, <1>2, AppendProperties DEF Bytes
  <2>2. \A i \in 1 .. 257 : SubSeq(Bytes(game), 1, 257)[i] = Bytes(game)[i]
    <3>1. \A i \in 1 .. 257 : Bytes(game)[i] \in Byte
      BY <1>1, <1>2, <2>1, ElementOfSeq
    <3> QED
      BY <3>1, SubSeqProperties
  <2>3. \A i \in 1 .. 257 : Bytes(game)[i] = game[i] /\ game[i] \in Byte
    <3> TAKE i \in 1 .. 257
    <3>1. i \in 1 .. Len(game)
      BY <1>1, <1>2
    <3> QED
      BY <1>1, <2>1, <3>1, ElementOfSeq
  <2> DEFINE rom == SubSeq(Bytes(game), 1, 257)
  <2>4. \A i \in 1 .. 257 : rom[i] = game[i] /\ rom[i] \in Byte
    BY <2>2, <2>3
  <2>5. romData' = rom /\ game' = game
    BY <1>0
  <2> HIDE DEF rom
  <2> QED
    BY <2>4, <2>5 DEF RomKept
<1>6. game' \in GameFiles /\ stage' \in {"loadRom", "loadBootRom", "running", "ended"}
  BY <1>0 DEF SessionInv
<1> QED
  BY <1>3, <1>4, <1>5, <1>6 DEF SessionInv, MachineTyped

LEMMA LoadsBootRom ==
  ASSUME SessionInv, LoadBootRom
  PROVE  SessionInv'
<1>1. /\ stage = "loadBootRom" /\ stage' = "running"
      /\ memory' = Loaded(BootFile)
      /\ cpu' = [cpu EXCEPT !.PC = 0]
      /\ UNCHANGED <<romData, game>>
  BY DEF LoadBootRom
<1>2. MemoryTyped' /\ AddressesTyped'
  BY <1>1, BootAssumption, LoadedTyped DEF SessionInv, MachineTyped, MemoryTyped, AddressesTyped
<1>3. 0 \in Word
  BY WordIs
<1>4. cpu' \in CPUState
  BY <1>1, <1>3, Zenon DEF SessionInv, MachineTyped, CPUState
<1>5. RomKept /\ game \in GameFiles
  BY <1>1 DEF SessionInv
<1>6. RomKept'
  BY <1>1, <1>5 DEF RomKept
<1> QED
  BY <1>1, <1>2, <1>4, <1>5, <1>6, Zenon DEF SessionInv, MachineTyped

\* An instruction keeps the types; only the one that hands over leaves the
\* boot ROM.
LEMMA InstructionKeeps ==
  ASSUME MachineTyped, RomKept, tick
  PROVE  /\ MachineTyped' /\ UNCHANGED romData
         /\ cpu.inBootRom /\ ~cpu'.inBootRom => \A a \in 0 .. 256 : memory'[a] = game[a + 1]
<1>1. CASE LD_a8_A_HandOver
  <2>1. UNCHANGED romData
    BY DEF tick
  <2> QED
    BY <1>1, <2>1, HandsOver DEF MachineTyped
<1>2. CASE ~LD_a8_A_HandOver
  <2>1. Kept /\ UNCHANGED romData
    BY <1>2, TickKeeps DEF MachineTyped
  <2>2. MemoryTyped' /\ AddressesTyped'
    BY <2>1, RecordedTyped, RecordedAddresses DEF MachineTyped, Kept
  <2> QED
    BY <2>1, <2>2 DEF MachineTyped, Kept, Derived
<1> QED
  BY <1>1, <1>2, Zenon

LEMMA SessionSteps == SessionInv /\ [SessionNext]_sessionVars => SessionInv'
<1> SUFFICES ASSUME SessionInv, [SessionNext]_sessionVars
             PROVE  SessionInv'
  OBVIOUS
<1>1. CASE LoadGame
  BY <1>1, LoadsGame DEF LoadGame
<1>2. CASE StartRun
  BY <1>2, LoadsBootRom DEF StartRun
<1>3. CASE Iterate
  <2>1. /\ stage = "running" /\ tick /\ game' = game
        /\ stage' \in {"running", "ended"}
    BY <1>3 DEF Iterate
  <2>2. MachineTyped' /\ UNCHANGED romData
    BY <2>1, InstructionKeeps DEF SessionInv
  <2>3. RomKept'
    BY <2>1, <2>2 DEF SessionInv, RomKept
  <2> QED
    BY <2>1, <2>2, <2>3 DEF SessionInv
<1>4. CASE UNCHANGED <<cpuVars, game>> /\ (stage' = stage \/ (stage = "running" /\ stage' = "ended"))
  <2>1. UNCHANGED <<cpu, memory, romData, game>>
    BY <1>4 DEF cpuVars
  <2>2. MachineTyped' /\ game' \in GameFiles
    BY <2>1 DEF SessionInv, MachineTyped, MemoryTyped, AddressesTyped
  <2>3. stage' # "loadRom" => RomKept'
    BY <1>4, <2>1 DEF SessionInv, RomKept
  <2> QED
    BY <1>4, <2>2, <2>3 DEF SessionInv
<1>5. Leave \/ Ended \/ UNCHANGED sessionVars =>
        UNCHANGED <<cpuVars, game>> /\ (stage' = stage \/ (stage = "running" /\ stage' = "ended"))
  BY DEF Leave, Ended, sessionVars, bootVars
<1> QED
  BY <1>1, <1>2, <1>3, <1>4, <1>5 DEF SessionNext

\* Whatever game, boot ROM and text: the registers keep their widths, every
\* address that was ever stored to is a word, and every cell holds a byte.
THEOREM MachineAlwaysTyped == SessionSpec => []MachineTyped
<1>1. SessionInv => MachineTyped
  BY DEF SessionInv
<1> QED
  BY <1>1, SessionStarts, SessionSteps, PTL DEF SessionSpec

\* The hand-over leaves the game's own bytes at 0x0000 .. 0x0100, for every
\* game, every boot ROM and every instruction the boot ROM is made of.
THEOREM RomAlwaysRestored == SessionSpec => RomRestored
<1>1. ASSUME SessionInv, [SessionNext]_sessionVars
      PROVE  [cpu.inBootRom /\ ~cpu'.inBootRom =>
                \A a \in 0 .. 256 : memory'[a] = game[a + 1]]_bootVars
  <2> SUFFICES ASSUME cpu.inBootRom, ~cpu'.inBootRom
               PROVE  \A a \in 0 .. 256 : memory'[a] = game[a + 1]
    OBVIOUS
  <2>1. CASE Iterate
    <3>1. tick /\ MachineTyped /\ RomKept
      BY <1>1, <2>1 DEF Iterate, SessionInv
    <3> QED
      BY <3>1, InstructionKeeps
  <2>2. cpu \in CPUState
    BY <1>1 DEF SessionInv, MachineTyped
  <2>3. \A w : [cpu EXCEPT !.PC = w].inBootRom = cpu.inBootRom
    BY <2>2, Zenon DEF CPUState
  <2>4. ~LoadGame /\ ~StartRun
    <3> DEFINE w == (Len(game) + 1) % 65536
    <3>1. LoadGame => cpu' = [cpu EXCEPT !.PC = w]
      BY DEF LoadGame, LoadRom
    <3>2. StartRun => cpu' = [cpu EXCEPT !.PC = 0]
      BY DEF StartRun, LoadBootRom
    <3> HIDE DEF w
    <3> QED
      BY <2>3, <3>1, <3>2, Zenon
  <2>5. ~Leave /\ ~Ended /\ ~UNCHANGED sessionVars
    BY DEF Leave, Ended, sessionVars, bootVars, cpuVars
  <2> QED
    BY <1>1, <2>1, <2>4, <2>5 DEF SessionNext
<1> QED
  BY <1>1, SessionStarts, SessionSteps, PTL DEF SessionSpec, RomRestored

-----------------------------------------------------------------------------
(* The end of the loop of run().                                           *)

\* Whoever asks for the end has cleared isRunning, or the loop was left.
StopInv ==
  /\ stage \in {"loadRom", "loadBootRom", "running", "ended"}
  /\ stage \in {"loadRom", "loadBootRom"} => ~done /\ "PC" \in DOMAIN cpu
  /\ done => ~isRunning
  /\ stage = "running" => ~AtEndpoint /\ (quit => ~isRunning)

LEMMA StopInit == SessionInit => StopInv
<1> SUFFICES ASSUME SessionInit
             PROVE  StopInv
  OBVIOUS
<1>1. "PC" \in DOMAIN cpu
  BY DEF SessionInit, BootInit
<1>2. stage = "loadRom" /\ done = FALSE
  BY Zenon DEF SessionInit, BootInit
<1> QED
  BY <1>1, <1>2 DEF StopInv

LEMMA StopStep == StopInv /\ [SessionNext]_sessionVars => StopInv'
<1> SUFFICES ASSUME StopInv, [SessionNext]_sessionVars
             PROVE  StopInv'
  OBVIOUS
<1>1. CASE LoadGame
  <2>1. /\ stage = "loadRom" /\ stage' = "loadBootRom"
        /\ cpu' = [cpu EXCEPT !.PC = (Len(game) + 1) % 65536]
        /\ UNCHANGED <<done, isRunning>>
    BY <1>1 DEF LoadGame, LoadRom, flags, captures
  <2> QED
    BY <2>1 DEF StopInv
<1>2. CASE StartRun
  <2>1. /\ stage = "loadBootRom" /\ stage' = "running"
        /\ cpu' = [cpu EXCEPT !.PC = 0]
        /\ isRunning' = ~quit
        /\ UNCHANGED <<done, endpoint, quit>>
    BY <1>2 DEF StartRun, LoadBootRom, captures
  <2>2. ~AtEndpoint'
    BY <2>1 DEF AtEndpoint, StopInv
  <2> QED
    BY <2>1, <2>2 DEF StopInv
<1>3. CASE Iterate
  <2>1. /\ stage = "running" /\ isRunning
        /\ stage' = IF AtEndpoint' THEN "ended" ELSE "running"
        /\ UNCHANGED quit
        /\ Hear \/ Ignore
    BY <1>3 DEF Iterate
  <2>2. done' => ~isRunning'
    <3>1. CASE Hear
      BY <3>1 DEF Hear
    <3>2. CASE Ignore
      BY <2>1, <3>2 DEF Ignore, captures, StopInv
    <3> QED
      BY <2>1, <3>1, <3>2
  <2> QED
    BY <2>1, <2>2 DEF StopInv
<1>4. CASE Leave
  BY <1>4 DEF Leave, StopInv, flags, captures
<1>5. CASE Ended \/ UNCHANGED sessionVars
  BY <1>5 DEF Ended, StopInv, AtEndpoint, sessionVars, bootVars, cpuVars, flags, captures
<1> QED
  BY <1>1, <1>2, <1>3, <1>4, <1>5 DEF SessionNext

\* The only step of the loop that runs an instruction is Iterate, and it is not
\* taken once the loop was asked to end.
LEMMA NothingRuns ==
  ASSUME StopInv, [SessionNext]_sessionVars,
         stage \in {"running", "ended"}, done \/ AtEndpoint \/ quit
  PROVE  UNCHANGED <<cpu, memory>>
<1>1. ~Iterate
  BY DEF Iterate, StopInv
<1>2. ~LoadGame /\ ~StartRun
  BY DEF LoadGame, LoadRom, StartRun, LoadBootRom
<1>3. CASE Leave
  BY <1>3 DEF Leave, cpuVars
<1>4. CASE Ended \/ UNCHANGED sessionVars
  BY <1>4 DEF Ended, sessionVars, bootVars, cpuVars
<1> QED
  BY <1>1, <1>2, <1>3, <1>4 DEF SessionNext

\* After a verdict, at the endpoint and after a quit event no instruction of
\* the game runs.
THEOREM StopsOnRequest == SessionSpec => StopsWhenAsked
<1>1. StopInv /\ [SessionNext]_sessionVars =>
        [(done \/ AtEndpoint \/ quit) /\ stage \in {"running", "ended"} =>
           UNCHANGED <<cpu, memory>>]_sessionVars
  BY NothingRuns
<1> QED
  BY <1>1, StopInit, StopStep, PTL DEF SessionSpec, StopsWhenAsked

-----------------------------------------------------------------------------
(* The verdict that the listener comes to.                                  *)

\* Every beginning of a text ends with a line that begins somewhere.
Lined(text) == \A i \in 0 .. Len(text) : \E k \in 0 .. i : BeginsAt(text, i, k)

LEMMA LineBegins ==
  ASSUME NEW text, NEW i \in Nat, NEW k \in 0 .. i, BeginsAt(text, i, k)
  PROVE  LineAt(text, i) = SubSeq(text, k + 1, i)
<1>1. ASSUME NEW m \in 0 .. i, BeginsAt(text, i, m) PROVE m = k
  <2>1. CASE m < k
    <3>1. k \in m + 1 .. i /\ k # 0
      BY <2>1
    <3> QED
      BY <1>1, <3>1 DEF BeginsAt
  <2>2. CASE k < m
    <3>1. m \in k + 1 .. i /\ m # 0
      BY <2>2
    <3> QED
      BY <1>1, <3>1 DEF BeginsAt
  <2> QED
    BY <2>1, <2>2
<1>2. (CHOOSE m \in 0 .. i : BeginsAt(text, i, m)) = k
  BY <1>1, Zenon
<1> QED
  BY <1>2, Zenon DEF LineAt

LEMMA Longer ==
  ASSUME NEW S, NEW text \in Seq(S), NEW c \in S
  PROVE  LET new == Append(text, c)
         IN /\ new \in Seq(S) /\ Len(new) = Len(text) + 1 /\ new[Len(text) + 1] = c
            /\ \A l \in 1 .. Len(text) : new[l] = text[l]
            /\ \A k, i \in 0 .. Len(text) : SubSeq(new, k + 1, i) = SubSeq(text, k + 1, i)
<1> DEFINE new == Append(text, c)
           n == Len(text)
<1>1. /\ new \in Seq(S) /\ Len(new) = n + 1 /\ new[n + 1] = c
      /\ \A l \in 1 .. n : new[l] = text[l]
  BY AppendProperties
<1>2. n \in Nat
  OBVIOUS
<1>3. new = text \o <<c>>
  BY AppendIsConcat
<1>4. ASSUME NEW k \in 0 .. n, NEW i \in 0 .. n
      PROVE  SubSeq(new, k + 1, i) = SubSeq(text, k + 1, i)
  <2>1. CASE k + 1 <= i
    <3>1. k + 1 \in 1 .. n /\ i \in 1 .. n /\ <<c>> \in Seq(S)
      BY <1>2, <2>1
    <3> QED
      BY <1>3, <3>1, SubSeqOfConcat1
  <2>2. CASE i < k + 1
    <3>1. k + 1 \in Int /\ i \in Int
      BY <1>2
    <3> HIDE DEF new
    <3> QED
      BY <2>2, <3>1, SubSeqEmpty
  <2> QED
    BY <2>1, <2>2, <1>2
<1> QED
  BY <1>1, <1>4

\* A byte more ends the line that the text ended with, or is in it.
LEMMA LineGoesOn ==
  ASSUME NEW text \in Seq(Byte), NEW c \in Byte, Lined(text)
  PROVE  LET new == Append(text, c)
         IN /\ new \in Seq(Byte) /\ Len(new) = Len(text) + 1 /\ Lined(new)
            /\ \A i \in 0 .. Len(text) : LineAt(new, i) = LineAt(text, i)
            /\ LineAt(new, Len(text) + 1) = Line(LineAt(text, Len(text)), c)
<1> DEFINE new == Append(text, c)
           n == Len(text)
<1>1. /\ new \in Seq(Byte) /\ Len(new) = n + 1 /\ new[n + 1] = c /\ n \in Nat
      /\ \A l \in 1 .. n : new[l] = text[l]
      /\ \A k, i \in 0 .. n : SubSeq(new, k + 1, i) = SubSeq(text, k + 1, i)
  BY Longer
<1>2. n \in 0 .. n /\ n + 1 \in 0 .. n + 1
  BY <1>1
<1>3. \A i \in 0 .. n : \E k \in 0 .. i : BeginsAt(text, i, k)
  BY DEF Lined
<1>n. new = Append(text, c)
  OBVIOUS
<1> HIDE DEF new, n
<1>4. ASSUME NEW i \in 0 .. n
      PROVE  /\ \E k \in 0 .. i : BeginsAt(new, i, k)
             /\ LineAt(new, i) = LineAt(text, i)
  <2>1. PICK k \in 0 .. i : BeginsAt(text, i, k)
    BY <1>3
  <2>2. i \in Nat /\ k \in 0 .. n /\ k \in Nat
    BY <1>1
  <2>3. BeginsAt(new, i, k)
    <3>1. k # 0 => k \in 1 .. n
      BY <2>2
    <3>2. \A l \in k + 1 .. i : l \in 1 .. n
      BY <1>1, <2>2
    <3> QED
      BY <1>1, <2>1, <3>1, <3>2 DEF BeginsAt
  <2>4. LineAt(text, i) = SubSeq(text, k + 1, i) /\ LineAt(new, i) = SubSeq(new, k + 1, i)
    BY <2>1, <2>2, <2>3, LineBegins
  <2> QED
    BY <1>1, <2>2, <2>3, <2>4
<1>5. /\ \E k \in 0 .. n + 1 : BeginsAt(new, n + 1, k)
      /\ LineAt(new, n + 1) = Line(LineAt(text, n), c)
  <2>1. CASE c = NewLine
    <3>1. BeginsAt(new, n + 1, n + 1)
      <4>1. \A l \in n + 1 + 1 .. n + 1 : FALSE
        BY <1>1
      <4> QED
        BY <1>1, <2>1, <4>1 DEF BeginsAt
    <3>2. n + 1 \in Nat /\ n + 1 \in Int /\ n + 1 + 1 \in Int /\ n + 1 < n + 1 + 1
      BY <1>1
    <3>3. LineAt(new, n + 1) = SubSeq(new, n + 1 + 1, n + 1)
      BY <1>2, <3>1, <3>2, LineBegins
    <3>4. SubSeq(new, n + 1 + 1, n + 1) = << >>
      BY <3>2, SubSeqEmpty
    <3> QED
      BY <1>2, <2>1, <3>1, <3>3, <3>4 DEF Line
  <2>2. CASE c # NewLine
    <3>1. PICK k \in 0 .. n : BeginsAt(text, n, k)
      BY <1>2, <1>3
    <3>2. k \in 0 .. n + 1 /\ k + 1 \in 1 .. n + 1 /\ n + 1 \in k + 1 .. n + 1 /\ n + 1 \in Nat
      BY <1>1
    <3>3. BeginsAt(new, n + 1, k)
      <4>1. k # 0 => k \in 1 .. n
        OBVIOUS
      <4>2. \A l \in k + 1 .. n + 1 : l = n + 1 \/ (l \in 1 .. n /\ l \in k + 1 .. n)
        BY <1>1
      <4> QED
        BY <1>1, <2>2, <3>1, <4>1, <4>2 DEF BeginsAt
    <3>4. LineAt(new, n + 1) = SubSeq(new, k + 1, n + 1)
      BY <3>2, <3>3, LineBegins
    <3>5. LineAt(text, n) = SubSeq(text, k + 1, n)
      BY <1>1, <3>1, LineBegins
    <3>6. SubSeq(new, k + 1, n + 1) = SubSeq(new, k + 1, n) \o <<c>>
      <4> DEFINE a == k + 1
                 b == n + 1
      <4>1. new \in Seq(Byte) /\ a \in 1 .. Len(new) /\ b \in a .. Len(new)
        BY <1>1, <3>2
      <4>2. b - 1 = n /\ new[b] = c
        BY <1>1
      <4> HIDE DEF a, b
      <4>3. SubSeq(new, a, b) = SubSeq(new, a, b - 1) \o <<new[b]>>
        BY <4>1, SubSeqRecursiveSecond
      <4>4. SubSeq(new, a, b) = SubSeq(new, a, n) \o <<c>>
        BY <4>2, <4>3, Zenon
      <4> QED
        BY <4>4 DEF a, b
    <3>7. SubSeq(new, k + 1, n) = SubSeq(text, k + 1, n)
      BY <1>1, <1>2
    <3>8. SubSeq(new, k + 1, n + 1) = SubSeq(text, k + 1, n) \o <<c>>
      BY <3>6, <3>7
    <3>9. SubSeq(text, k + 1, n) \in Seq(Byte)
      <4>1. \A i \in k + 1 .. n : text[i] \in Byte
        BY <1>1 DEF n
      <4>2. k + 1 \in Int /\ n \in Int
        BY <1>1
      <4> QED
        BY <4>1, <4>2, SubSeqProperties
    <3>10. SubSeq(text, k + 1, n) \o <<c>> = Append(SubSeq(text, k + 1, n), c)
      BY <3>9, AppendIsConcat
    <3> QED
      BY <2>2, <3>2, <3>3, <3>4, <3>5, <3>8, <3>10 DEF Line
  <2> QED
    BY <2>1, <2>2
<1>6. Lined(new)
  <2>1. \A i \in 0 .. n + 1 : i \in 0 .. n \/ i = n + 1
    BY <1>1
  <2> QED
    BY <1>1, <1>4, <1>5, <2>1 DEF Lined
<1> QED
  BY <1>1, <1>4, <1>5, <1>6 DEF new, n

\* What the listener knows of the bytes it has heard.
HeardInv ==
  /\ heard \in Seq(Byte) /\ Lined(heard) /\ output = LineAt(heard, Len(heard))
  /\ ~done => Verdicts(heard) = {} /\ ~passed
  /\ done => Verdicts(heard) = {Len(heard)} /\ (passed <=> output = Passed)

LEMMA HeardInit == SessionInit => HeardInv
<1> SUFFICES ASSUME SessionInit PROVE HeardInv
  OBVIOUS
<1>1. heard = << >> /\ output = << >> /\ done = FALSE /\ passed = FALSE
  BY DEF SessionInit
<1>2. BeginsAt(heard, 0, 0)
  BY DEF BeginsAt
<1>3. Len(heard) = 0 /\ heard \in Seq(Byte) /\ \A i \in 0 .. 0 : i = 0
  BY <1>1
<1>4. LineAt(heard, 0) = SubSeq(heard, 0 + 1, 0)
  BY <1>2, LineBegins
<1>5. LineAt(heard, 0) = << >>
  BY <1>4, SubSeqEmpty
<1>6. Lined(heard)
  BY <1>2, <1>3 DEF Lined
<1>7. Verdicts(heard) = {}
  BY <1>3 DEF Verdicts
<1> QED
  BY <1>1, <1>3, <1>5, <1>6, <1>7 DEF HeardInv

LEMMA Hears ==
  ASSUME HeardInv, ~done, MemoryTyped, Hear
  PROVE  HeardInv'
<1> DEFINE c == readByte(SB)
           n == Len(heard)
           line == Line(output, c)
<1>1. c \in Byte /\ n \in Nat
  BY Reads DEF HeardInv
<1>2. /\ heard' = Append(heard, c) /\ output' = line
      /\ done' = (done \/ line \in {Passed, Failed})
      /\ passed' = (line = Passed \/ (passed /\ line # Failed))
  BY DEF Hear
<1> HIDE DEF c
<1>3. /\ heard' \in Seq(Byte) /\ Len(heard') = n + 1 /\ Lined(heard')
      /\ \A i \in 0 .. n : LineAt(heard', i) = LineAt(heard, i)
      /\ LineAt(heard', n + 1) = line
  BY <1>1, <1>2, LineGoesOn DEF HeardInv
<1>4. \A i \in 1 .. n : LineAt(heard, i) \notin {Passed, Failed}
  BY DEF HeardInv, Verdicts
<1> HIDE DEF n, line
<1>5. \A i : i \in 1 .. n + 1 <=> i \in 1 .. n \/ i = n + 1
  BY <1>1
<1>6. \A i \in 1 .. n : i \in 0 .. n
  BY <1>1
<1>7. Verdicts(heard') = IF line \in {Passed, Failed} THEN {n + 1} ELSE {}
  <2>1. Verdicts(heard') = {i \in 1 .. n + 1 : LineAt(heard', i) \in {Passed, Failed}}
    BY <1>3 DEF Verdicts
  <2>2. \A i \in 1 .. n : LineAt(heard', i) \notin {Passed, Failed}
    BY <1>3, <1>4, <1>6
  <2> QED
    BY <1>3, <1>5, <2>1, <2>2
<1>8. ~passed
  BY DEF HeardInv
<1>9. output' = LineAt(heard', Len(heard'))
  BY <1>2, <1>3
<1> QED
  BY <1>2, <1>3, <1>7, <1>8, <1>9 DEF HeardInv

LEMMA HeardStep ==
  SessionInv /\ StopInv /\ HeardInv /\ [SessionNext]_sessionVars => HeardInv'
<1> SUFFICES ASSUME SessionInv, StopInv, HeardInv, [SessionNext]_sessionVars
             PROVE  HeardInv'
  OBVIOUS
<1>1. UNCHANGED captures => HeardInv'
  BY DEF captures, HeardInv
<1>2. CASE Iterate /\ Hear
  <2>1. ~done /\ MemoryTyped
    BY <1>2 DEF Iterate, StopInv, SessionInv, MachineTyped
  <2> QED
    BY <1>2, <2>1, Hears
<1>3. LoadGame \/ StartRun \/ (Iterate /\ ~Hear) \/ Leave \/ Ended \/ UNCHANGED sessionVars
        => UNCHANGED captures
  <2>1. Iterate /\ ~Hear => Ignore
    BY DEF Iterate
  <2> QED
    BY <2>1 DEF LoadGame, StartRun, Ignore, Leave, Ended, sessionVars
<1> QED
  BY <1>1, <1>2, <1>3 DEF SessionNext

\* No listener and no one else but a quit event and the endpoint ends the loop.
EndInv ==
  ~quit /\ endpoint = 0 /\ ~done => stage # "ended" /\ (stage = "running" => isRunning)

LEMMA EndInit == SessionInit => EndInv
<1> SUFFICES ASSUME SessionInit PROVE EndInv
  OBVIOUS
<1>1. stage = "loadRom"
  BY Zenon DEF SessionInit, BootInit
<1> QED
  BY <1>1 DEF EndInv

LEMMA EndStep == EndInv /\ [SessionNext]_sessionVars => EndInv'
<1> SUFFICES ASSUME EndInv, [SessionNext]_sessionVars
             PROVE  EndInv'
  OBVIOUS
<1>1. CASE LoadGame
  BY <1>1 DEF LoadGame, LoadRom, EndInv
<1>2. CASE StartRun
  BY <1>2 DEF StartRun, LoadBootRom, EndInv
<1>3. CASE Iterate
  <2>1. /\ stage = "running" /\ isRunning
        /\ stage' = IF AtEndpoint' THEN "ended" ELSE "running"
        /\ UNCHANGED <<endpoint, quit>>
        /\ Hear \/ Ignore
    BY <1>3 DEF Iterate
  <2>2. endpoint = 0 => stage' = "running"
    BY <2>1 DEF AtEndpoint
  <2>3. ~done' => ~done /\ isRunning'
    <3>1. CASE Hear
      BY <2>1, <3>1 DEF Hear
    <3>2. CASE Ignore
      BY <2>1, <3>2 DEF Ignore, captures
    <3> QED
      BY <2>1, <3>1, <3>2
  <2> QED
    BY <2>1, <2>2, <2>3 DEF EndInv
<1>4. CASE Leave
  BY <1>4 DEF Leave, EndInv, flags, captures
<1>5. CASE Ended \/ UNCHANGED sessionVars
  BY <1>5 DEF Ended, EndInv, sessionVars, bootVars, cpuVars, flags, captures
<1> QED
  BY <1>1, <1>2, <1>3, <1>4, <1>5 DEF SessionNext

\* The listener reports the first verdict that begins a line of what it has
\* heard, at once, whatever the game sends and does in between; without one only
\* a quit event or the endpoint ends the run.
THEOREM VerdictAlwaysTrue == SessionSpec => []VerdictIsTrue
<1>1. ASSUME HeardInv, EndInv PROVE VerdictIsTrue
  <2>1. ASSUME done PROVE LineAt(heard, First(heard)) = output
    <3>1. Verdicts(heard) = {Len(heard)} /\ Len(heard) \in Nat
      BY <1>1, <2>1 DEF HeardInv
    <3> DEFINE n == Len(heard)
               V == Verdicts(heard)
    <3>2. (CHOOSE i \in V : \A j \in V : i <= j) = n
      <4>1. V = {n} /\ n <= n
        BY <3>1
      <4> HIDE DEF V, n
      <4> QED
        BY <4>1, Zenon
    <3> QED
      BY <1>1, <3>2, Zenon DEF First, HeardInv
  <2> QED
    BY <1>1, <2>1 DEF VerdictIsTrue, HeardInv, EndInv
<1>2. SessionInit => SessionInv /\ StopInv /\ HeardInv /\ EndInv
  BY SessionStarts, StopInit, HeardInit, EndInit
<1>3. SessionInv /\ StopInv /\ HeardInv /\ EndInv /\ [SessionNext]_sessionVars
        => (SessionInv /\ StopInv /\ HeardInv /\ EndInv)'
  BY SessionSteps, StopStep, HeardStep, EndStep
<1> QED
  BY <1>1, <1>2, <1>3, PTL DEF SessionSpec

-----------------------------------------------------------------------------
(* The reference.                                                           *)

\* Ref!GbState, and the arithmetic of bytes that both processors share.
GbState == [BC : Word, DE : Word, HL : Word, AF : Word, sp : Word, pc : Word,
            halted : BOOLEAN, interrupts_master_enabled : BOOLEAN]

LEMMA SameWords == Ref!Word = Word /\ Ref!Byte = Byte
<1> DEFINE b == 65535
<1>1. Word = 0 .. b /\ Ref!Word = 0 .. b
  BY DEF Word, Ref!Word
<1> HIDE DEF b
<1>2. Ref!Word = Word
  BY <1>1
<1>3. Ref!Byte = Byte
  BY DEF Byte, Ref!Byte
<1> QED
  BY <1>2, <1>3

LEMMA SamePowers == Ref!Pow2 = Pow2
BY DEF Pow2, Ref!Pow2

LEMMA SameStates == Ref!GbState = GbState
BY SameWords, Zenon DEF GbState, Ref!GbState

LEMMA SameHalves ==
  ASSUME NEW v
  PROVE  Ref!High(v) = High(v) /\ Ref!Low(v) = Low(v) /\ Ref!Nibble(v) = Nibble(v)
BY Zenon DEF High, Low, Nibble, Ref!High, Ref!Low, Ref!Nibble

LEMMA SameJoin == ASSUME NEW h, NEW l PROVE Ref!Join(h, l) = Join(h, l)
BY Zenon DEF Join, Ref!Join

Fetches == MEM_SIZE \in Nat /\ \A a \in 0 .. MEM_SIZE - 1 : memory[a] \in Byte

LEMMA RefFields ==
  ASSUME NEW s \in GbState
  PROVE  /\ s.BC \in Word /\ s.DE \in Word /\ s.HL \in Word /\ s.AF \in Word
         /\ s.sp \in Word /\ s.pc \in Word
BY DEF GbState

LEMMA RefReads ==
  ASSUME Fetches, NEW a \in Word
  PROVE  Ref!mmu_read(a) \in Byte /\ Ref!mmu_read16(a) \in Word
<1>1. \A b \in Word : Ref!mmu_read(b) \in Byte
  BY WordIs, ByteIs DEF Ref!mmu_read, Fetches
<1>2. Ref!Inc16(a, 1) \in Word
  BY WordIs, Wrapped DEF Ref!Inc16
<1> QED
  BY <1>1, <1>2, WordIs, ByteIs DEF Ref!mmu_read16

LEMMA IncTyped ==
  ASSUME NEW w \in Word, NEW k \in Int
  PROVE  Ref!Inc16(w, k) \in Word
BY WordIs, Wrapped DEF Ref!Inc16

LEMMA SkipTyped ==
  ASSUME NEW s \in GbState, NEW k \in Int
  PROVE  Ref!Skip(s, k) \in GbState
<1> DEFINE w == Ref!Inc16(s.pc, k)
<1>1. w \in Word
  BY RefFields, IncTyped
<1>2. Ref!Skip(s, k) = [s EXCEPT !.pc = w]
  BY DEF Ref!Skip
<1> HIDE DEF w
<1>3. [s EXCEPT !.pc = w] \in GbState
  BY <1>1, Zenon DEF GbState
<1> QED
  BY <1>2, <1>3, Zenon

LEMMA JumpTyped ==
  ASSUME NEW s \in GbState, NEW w \in Word
  PROVE  Ref!Jump(s, w) \in GbState
BY Zenon DEF Ref!Jump, GbState

\* The register pairs, by the index of an opcode.
LEMMA PairTyped ==
  ASSUME NEW s \in GbState, NEW i \in 0 .. 3
  PROVE  s[Ref!Reg16[i + 1]] \in Word /\ s[Ref!Reg16s[i + 1]] \in Word
<1>1. /\ Ref!Reg16[i + 1] \in {"BC", "DE", "HL", "sp"}
      /\ Ref!Reg16s[i + 1] \in {"BC", "DE", "HL", "AF"}
  BY DEF Ref!Reg16, Ref!Reg16s
<1> QED
  BY <1>1, RefFields

LEMMA PutPairTyped ==
  ASSUME NEW s \in GbState, NEW r \in {"BC", "DE", "HL", "AF", "sp", "pc"}, NEW w \in Word
  PROVE  [s EXCEPT ![r] = w] \in GbState
<1>1. [s EXCEPT !.BC = w] \in GbState
  BY Zenon DEF GbState
<1>2. [s EXCEPT !.DE = w] \in GbState
  BY Zenon DEF GbState
<1>3. [s EXCEPT !.HL = w] \in GbState
  BY Zenon DEF GbState
<1>4. [s EXCEPT !.AF = w] \in GbState
  BY Zenon DEF GbState
<1>5. [s EXCEPT !.sp = w] \in GbState
  BY Zenon DEF GbState
<1>6. [s EXCEPT !.pc = w] \in GbState
  BY Zenon DEF GbState
<1> QED
  BY <1>1, <1>2, <1>3, <1>4, <1>5, <1>6, Zenon

LEMMA IndexedPair ==
  ASSUME NEW i \in 0 .. 3
  PROVE  /\ Ref!Reg16[i + 1] \in {"BC", "DE", "HL", "AF", "sp", "pc"}
         /\ Ref!Reg16s[i + 1] \in {"BC", "DE", "HL", "AF", "sp", "pc"}
BY DEF Ref!Reg16, Ref!Reg16s

LEMMA Reg8Typed ==
  ASSUME Fetches, NEW s \in GbState, NEW i \in 0 .. 7
  PROVE  Ref!REG8(s, i) \in Byte
<1>1. i # 6 => Ref!Pair(i) \in {"BC", "DE", "HL", "AF"}
  BY DEF Ref!Pair
<1>2. i # 6 => s[Ref!Pair(i)] \in Word
  BY <1>1, RefFields
<1>3. i # 6 => High(s[Ref!Pair(i)]) \in Byte /\ Low(s[Ref!Pair(i)]) \in Byte
  BY <1>2, Halves
<1>4. Ref!mmu_read(s.HL) \in Byte
  BY RefFields, RefReads
<1>5. i # 6 => Ref!REG8(s, i) \in {High(s[Ref!Pair(i)]), Low(s[Ref!Pair(i)])}
  BY SameHalves, Zenon DEF Ref!REG8
<1>6. i = 6 => Ref!REG8(s, i) = Ref!mmu_read(s.HL)
  <2> DEFINE m == Ref!mmu_read(s.HL)
             h == Ref!High(s[Ref!Pair(i)])
             l == Ref!Low(s[Ref!Pair(i)])
  <2>1. Ref!REG8(s, i) = CASE i = 6 -> m [] Ref!IsHigh(i) -> h [] OTHER -> l
    BY Zenon DEF Ref!REG8
  <2> HIDE DEF m, h, l
  <2>2. i = 6 => Ref!REG8(s, i) = m
    BY <2>1 DEF Ref!IsHigh
  <2> QED
    BY <2>2 DEF m
<1> QED
  BY <1>3, <1>4, <1>5, <1>6

LEMMA Put8Typed ==
  ASSUME NEW s \in GbState, NEW i \in 0 .. 7, NEW v \in Byte
  PROVE  Ref!Put8(s, i, v) \in GbState
<1>1. CASE i = 6
  <2> DEFINE h == [s EXCEPT ![Ref!Pair(i)] = Join(v, Low(s[Ref!Pair(i)]))]
             l == [s EXCEPT ![Ref!Pair(i)] = Join(High(s[Ref!Pair(i)]), v)]
  <2>1. Ref!Put8(s, i, v) = CASE i = 6 -> s [] Ref!IsHigh(i) -> h [] OTHER -> l
    BY SameHalves, SameJoin, Zenon DEF Ref!Put8
  <2> HIDE DEF h, l
  <2> QED
    BY <1>1, <2>1 DEF Ref!IsHigh
<1>2. CASE i # 6
  <2> DEFINE p == Ref!Pair(i)
             h == Join(v, Low(s[p]))
             l == Join(High(s[p]), v)
  <2>1. p \in {"BC", "DE", "HL", "AF"}
    BY <1>2 DEF Ref!Pair
  <2>2. s[p] \in Word
    BY <2>1, RefFields
  <2>3. h \in Word /\ l \in Word
    BY <2>2, Halves, Joined
  <2>4. p \in DOMAIN s
    BY <2>1 DEF GbState
  <2>5. Ref!Put8(s, i, v) = IF Ref!IsHigh(i) THEN [s EXCEPT ![p] = h] ELSE [s EXCEPT ![p] = l]
    <3>1. Ref!Put8(s, i, v)
            = IF Ref!IsHigh(i) THEN [s EXCEPT ![Ref!Pair(i)] = Join(v, Low(s[Ref!Pair(i)]))]
                               ELSE [s EXCEPT ![Ref!Pair(i)] = Join(High(s[Ref!Pair(i)]), v)]
      BY <1>2, SameHalves, SameJoin, Zenon DEF Ref!Put8
    <3> QED
      BY <3>1
  <2> HIDE DEF p, h, l
  <2>6. [s EXCEPT ![p] = h] \in GbState /\ [s EXCEPT ![p] = l] \in GbState
    BY <2>1, <2>3, PutPairTyped, Zenon
  <2> QED
    BY <2>5, <2>6
<1> QED
  BY <1>1, <1>2

LEMMA NumberIs == \A b \in BOOLEAN : Ref!B2N(b) \in 0 .. 1
BY DEF Ref!B2N

LEMMA SetFTyped ==
  ASSUME NEW s \in GbState, NEW v \in Byte
  PROVE  Ref!SetF(s, v) \in GbState
<1> DEFINE w == Join(High(s.AF), v)
<1>1. w \in Word
  BY RefFields, Halves, Joined
<1>2. Ref!SetF(s, v) = [s EXCEPT !.AF = w]
  BY SameHalves, SameJoin, Zenon DEF Ref!SetF
<1> HIDE DEF w
<1>3. [s EXCEPT !.AF = w] \in GbState
  BY <1>1, Zenon DEF GbState
<1> QED
  BY <1>2, <1>3, Zenon

LEMMA SetFlagsTyped ==
  ASSUME NEW s \in GbState, NEW zf \in BOOLEAN,
         NEW nf \in 0 .. 1, NEW hf \in 0 .. 1, NEW cf \in 0 .. 1
  PROVE  Ref!SetFlags(s, zf, nf, hf, cf) \in GbState
<1> DEFINE f == 128 * Ref!B2N(zf) + 64 * nf + 32 * hf + 16 * cf + Nibble(s.AF)
           w == Join(High(s.AF), f)
<1>1. Nibble(s.AF) \in 0 .. 15
  BY RefFields, WordIs DEF Nibble
<1>2. f \in Byte
  <2>1. Ref!B2N(zf) \in 0 .. 1
    BY NumberIs
  <2>2. f >= 0 /\ f <= 255 /\ f \in Int
    BY <1>1, <2>1
  <2> QED
    BY <2>2, ByteIs
<1>3. Ref!SetFlags(s, zf, nf, hf, cf) = [s EXCEPT !.AF = w]
  BY SameHalves, SameJoin, Zenon DEF Ref!SetFlags
<1> HIDE DEF f
<1>4. w \in Word
  BY <1>2, RefFields, Halves, Joined
<1> HIDE DEF w
<1>5. [s EXCEPT !.AF = w] \in GbState
  BY <1>4, Zenon DEF GbState
<1> QED
  BY <1>3, <1>5, Zenon

LEMMA SameBits ==
  ASSUME NEW v, NEW w
  PROVE  /\ Ref!Bit(v, w) = Bit(v, w) /\ Ref!Signed(v) = Signed(v)
         /\ Ref!And(v, w) = And(v, w) /\ Ref!Or(v, w) = Or(v, w) /\ Ref!Xor(v, w) = Xor(v, w)
<1>1. \A n, i : Ref!Bit(n, i) = Bit(n, i)
  BY SamePowers, Zenon DEF Bit, Ref!Bit
<1>2. \A b : Ref!OfBits(b) = OfBits(b)
  BY Zenon DEF OfBits, Ref!OfBits
<1>3. Ref!And(v, w) = And(v, w)
  BY <1>1, <1>2, Zenon DEF And, Ref!And
<1>4. Ref!Or(v, w) = Or(v, w)
  BY <1>1, <1>2, Zenon DEF Or, Ref!Or
<1>5. Ref!Xor(v, w) = Xor(v, w)
  BY <1>1, <1>2, Zenon DEF Xor, Ref!Xor
<1>6. Ref!Signed(v) = Signed(v)
  BY Zenon DEF Signed, Ref!Signed
<1> QED
  BY <1>1, <1>3, <1>4, <1>5, <1>6

\* What an instruction of the reference logs, and what it keeps.
Logged  == Ref!Silent \/ \E ws \in StoreLists : Ref!mmu_write(ws)
RefKept == ref' \in GbState /\ Logged

LEMMA SilentLogged == Ref!Silent => Logged
BY DEF Logged

LEMMA OneLogged ==
  ASSUME NEW a \in Word, NEW v \in Byte, Ref!mmu_write(<< <<a, v>> >>)
  PROVE  Logged
BY OneList DEF Logged

LEMMA Bytes16Logged ==
  ASSUME NEW a \in Word, NEW w \in Word, Ref!mmu_write(Ref!Bytes16(a, w))
  PROVE  Logged
<1>1. Low(w) \in Byte /\ High(w) \in Byte /\ Ref!Inc16(a, 1) \in Word
  BY Halves, IncTyped
<1>2. Ref!Bytes16(a, w) = << <<a, Low(w)>>, <<Ref!Inc16(a, 1), High(w)>> >>
  BY SameHalves, Zenon DEF Ref!Bytes16
<1>3. Ref!Bytes16(a, w) \in StoreLists
  BY <1>1, <1>2, TwoList
<1> QED
  BY <1>3 DEF Logged

LEMMA Write8Logged ==
  ASSUME NEW s \in GbState, NEW i \in 0 .. 7, NEW v \in Byte, Ref!Write8(s, i, v)
  PROVE  Logged
<1>1. IF i = 6 THEN Ref!mmu_write(<< <<s.HL, v>> >>) ELSE Ref!mmu_write(<< >>)
  BY DEF Ref!Write8
<1>2. s.HL \in Word
  BY RefFields
<1>3. CASE i = 6
  BY <1>1, <1>2, <1>3, OneLogged
<1>4. CASE i # 6
  BY <1>1, <1>4, NoList DEF Logged
<1> QED
  BY <1>3, <1>4

\* The parts of an opcode, its operands and the state behind it.
LEMMA RefDecoded ==
  ASSUME Fetches, ref \in GbState
  PROVE  /\ Ref!r3 \in 0 .. 7 /\ Ref!r0 \in 0 .. 7 /\ Ref!rp \in 0 .. 3
         /\ Ref!cb3 \in 0 .. 7 /\ Ref!cb % 8 \in 0 .. 7
         /\ Ref!IMM8 \in Byte /\ Ref!IMM16 \in Word
         /\ Ref!s1 \in GbState /\ Ref!s2 \in GbState
<1>1. \A b \in Byte : ((b \div 8) % 8) \in 0 .. 7 /\ (b % 8) \in 0 .. 7 /\ ((b \div 16) % 4) \in 0 .. 3
  BY ByteIs
<1>2. Ref!opcode \in Byte
  BY RefFields, RefReads DEF Ref!opcode
<1>3. Ref!s1 \in GbState
  <2>1. Ref!s1 = Ref!Skip(ref, 1)
    BY Zenon DEF Ref!s1, Ref!Skip
  <2> QED
    BY <2>1, SkipTyped
<1>4. Ref!IMM8 \in Byte /\ Ref!IMM16 \in Word
  BY <1>3, RefFields, RefReads DEF Ref!IMM8, Ref!IMM16
<1>5. Ref!s2 \in GbState
  BY <1>3, SkipTyped DEF Ref!s2
<1> QED
  BY <1>1, <1>2, <1>3, <1>4, <1>5 DEF Ref!r3, Ref!r0, Ref!rp, Ref!cb3, Ref!cb

LEMMA RefParts ==
  ASSUME NEW s \in GbState
  PROVE  /\ Ref!A(s) \in Byte /\ Ref!F(s) \in Byte /\ Ref!ZF(s) \in 0 .. 1
<1>1. 7 \in 0 .. 8 /\ s.AF \in Int
  BY RefFields, WordIs
<1>2. Bit(s.AF, 7) \in 0 .. 1
  BY <1>1, BitIs
<1> QED
  BY <1>2, RefFields, Halves, SameHalves, SameBits DEF Ref!A, Ref!F, Ref!ZF

LEMMA RefFlags ==
  ASSUME ref \in GbState
  PROVE  Ref!CF \in 0 .. 1 /\ Ref!HF \in 0 .. 1 /\ Ref!NF \in 0 .. 1
<1>1. 4 \in 0 .. 8 /\ 5 \in 0 .. 8 /\ 6 \in 0 .. 8 /\ ref.AF \in Int
  BY RefFields, WordIs
<1>2. Bit(ref.AF, 4) \in 0 .. 1 /\ Bit(ref.AF, 5) \in 0 .. 1 /\ Bit(ref.AF, 6) \in 0 .. 1
  BY <1>1, BitIs
<1> QED
  BY <1>2, SameBits DEF Ref!CF, Ref!HF, Ref!NF

LEMMA SetATyped ==
  ASSUME NEW s \in GbState, NEW v \in Byte
  PROVE  Ref!SetA(s, v) \in GbState
<1>1. 7 \in 0 .. 7
  OBVIOUS
<1> QED
  BY <1>1, Put8Typed, Zenon DEF Ref!SetA

LEMMA LowTyped == \A n \in Int : Ref!Low(n) \in Byte
BY SameHalves, Wrapped DEF Low

LEMMA AddedTyped ==
  ASSUME NEW s \in GbState, NEW v \in Byte, NEW c \in 0 .. 1
  PROVE  Ref!Added(s, v, c) \in GbState /\ Ref!Subtracted(s, v, c) \in GbState
<1>1. Ref!A(s) \in Byte /\ Ref!A(s) \in Int /\ v \in Int
  BY RefParts, ByteIs
<1> DEFINE sum == Ref!A(s) + v + c
           dif == Ref!Low(Ref!A(s) - v - c)
           hf  == Ref!Bit(Ref!Xor(Ref!Xor(Ref!A(s), v), Ref!Low(sum)), 4)
           hs  == Ref!B2N((Ref!A(s) % 16) - (v % 16) - c < 0)
           cf  == Ref!Bit(sum, 8)
           cs  == Ref!B2N(Ref!A(s) < v + c)
           zf  == Ref!Low(sum) = 0
           zs  == dif = 0
<1>2. Ref!Low(sum) \in Byte /\ dif \in Byte /\ sum \in Int
  BY <1>1, LowTyped
<1>3. hf \in 0 .. 1
  <2>1. Xor(Ref!A(s), v) \in Byte
    BY <1>1, BitwiseTyped
  <2>2. Xor(Xor(Ref!A(s), v), Ref!Low(sum)) \in Byte
    BY <1>2, <2>1, BitwiseTyped
  <2>3. 4 \in 0 .. 8 /\ Xor(Xor(Ref!A(s), v), Ref!Low(sum)) \in Int
    BY <2>2, ByteIs
  <2> QED
    BY <2>3, BitIs, SameBits
<1>4. cf \in 0 .. 1
  <2>1. 8 \in 0 .. 8
    OBVIOUS
  <2> QED
    BY <1>2, <2>1, BitIs, SameBits
<1>5. hs \in 0 .. 1 /\ cs \in 0 .. 1
  BY DEF Ref!B2N
<1>6. zf \in BOOLEAN /\ zs \in BOOLEAN /\ 0 \in 0 .. 1 /\ 1 \in 0 .. 1
  OBVIOUS
<1>7. /\ Ref!Added(s, v, c) = Ref!SetA(Ref!SetFlags(s, zf, 0, hf, cf), Ref!Low(sum))
      /\ Ref!Subtracted(s, v, c) = Ref!SetA(Ref!SetFlags(s, zs, 1, hs, cs), dif)
  BY Zenon DEF Ref!Added, Ref!Subtracted
<1> DEFINE low == Ref!Low(sum)
<1>8. low \in Byte
  BY <1>2
<1>9. Ref!Added(s, v, c) = Ref!SetA(Ref!SetFlags(s, zf, 0, hf, cf), low)
  BY <1>7
<1> HIDE DEF low, dif, hf, hs, cf, cs, zf, zs
<1>10. Ref!SetFlags(s, zf, 0, hf, cf) \in GbState
  BY <1>3, <1>4, <1>6, SetFlagsTyped, Zenon
<1>11. Ref!SetFlags(s, zs, 1, hs, cs) \in GbState
  BY <1>5, <1>6, SetFlagsTyped, Zenon
<1> QED
  BY <1>2, <1>7, <1>8, <1>9, <1>10, <1>11, SetATyped, Zenon

LEMMA RefLogicTyped ==
  ASSUME NEW s \in GbState, NEW v \in Byte
  PROVE  Ref!Anded(s, v) \in GbState /\ Ref!Logic(s, v) \in GbState /\ Ref!Compared(s, v) \in GbState
<1> DEFINE n  == Ref!And(Ref!A(s), v)
           f  == IF v = 0 THEN 128 ELSE 0
           za == n = 0
           zc == Ref!A(s) = v
           hc == Ref!B2N(Ref!Nibble(Ref!A(s)) < Ref!Nibble(v))
           cc == Ref!B2N(Ref!A(s) < v)
<1>1. n \in Byte
  BY RefParts, BitwiseTyped, SameBits
<1>2. f \in Byte
  BY ByteIs
<1>3. hc \in 0 .. 1 /\ cc \in 0 .. 1
  BY DEF Ref!B2N
<1>4. za \in BOOLEAN /\ zc \in BOOLEAN /\ 0 \in 0 .. 1 /\ 1 \in 0 .. 1
  OBVIOUS
<1>5. /\ Ref!Anded(s, v) = Ref!SetA(Ref!SetFlags(s, za, 0, 1, 0), n)
      /\ Ref!Logic(s, v) = Ref!SetF(Ref!SetA(s, v), f)
      /\ Ref!Compared(s, v) = Ref!SetFlags(s, zc, 1, hc, cc)
  BY Zenon DEF Ref!Anded, Ref!Logic, Ref!Compared
<1> HIDE DEF n, f, za, zc, hc, cc
<1>6. Ref!Anded(s, v) \in GbState
  BY <1>1, <1>4, <1>5, SetFlagsTyped, SetATyped, Zenon
<1>7. Ref!Logic(s, v) \in GbState
  BY <1>2, <1>5, SetATyped, SetFTyped, Zenon
<1>8. Ref!Compared(s, v) \in GbState
  BY <1>3, <1>4, <1>5, SetFlagsTyped, Zenon
<1> QED
  BY <1>6, <1>7, <1>8

LEMMA AppliedTyped ==
  ASSUME ref \in GbState, NEW s \in GbState, NEW v \in Byte, Ref!r3 \in 0 .. 7
  PROVE  Ref!Applied(s, v) \in GbState
<1>1. Ref!CF \in 0 .. 1 /\ 0 \in 0 .. 1
  BY RefFlags
<1>2. Xor(Ref!A(s), v) \in Byte /\ Or(Ref!A(s), v) \in Byte
  BY RefParts, BitwiseTyped
<1> DEFINE t0 == Ref!Added(s, v, 0)
           t1 == Ref!Added(s, v, Ref!CF)
           t2 == Ref!Subtracted(s, v, 0)
           t3 == Ref!Subtracted(s, v, Ref!CF)
           t4 == Ref!Anded(s, v)
           t5 == Ref!Logic(s, Ref!Xor(Ref!A(s), v))
           t6 == Ref!Logic(s, Ref!Or(Ref!A(s), v))
           t7 == Ref!Compared(s, v)
<1>3. Ref!Applied(s, v) = CASE Ref!r3 = 0 -> t0 [] Ref!r3 = 1 -> t1 [] Ref!r3 = 2 -> t2
                            [] Ref!r3 = 3 -> t3 [] Ref!r3 = 4 -> t4 [] Ref!r3 = 5 -> t5
                            [] Ref!r3 = 6 -> t6 [] Ref!r3 = 7 -> t7
  BY Zenon DEF Ref!Applied
<1>4. t0 \in GbState /\ t1 \in GbState /\ t2 \in GbState /\ t3 \in GbState
  BY <1>1, AddedTyped, Zenon
<1>5. t4 \in GbState /\ t5 \in GbState /\ t6 \in GbState /\ t7 \in GbState
  BY <1>2, RefLogicTyped, SameBits
<1> HIDE DEF t0, t1, t2, t3, t4, t5, t6, t7
<1> QED
  BY <1>3, <1>4, <1>5

-----------------------------------------------------------------------------
(* The instructions of the reference.                                       *)

LEMMA RefLoadsKeep ==
  ASSUME Fetches, ref \in GbState, Ref!R_Loads
  PROVE  RefKept
<1> DEFINE p == Ref!Reg16[Ref!rp + 1]
           s == Ref!s1
<1>1. /\ Ref!r3 \in 0 .. 7 /\ Ref!r0 \in 0 .. 7 /\ Ref!rp \in 0 .. 3
      /\ Ref!IMM8 \in Byte /\ Ref!IMM16 \in Word /\ s \in GbState
  BY RefDecoded
<1>2. /\ p \in {"BC", "DE", "HL", "AF", "sp", "pc"}
      /\ ref[p] \in Word /\ s[p] \in Word
  BY <1>1, IndexedPair, PairTyped, Zenon
<1>3. Ref!A(ref) \in Byte /\ Ref!ZF(ref) \in 0 .. 1
  BY RefParts
<1>4. Ref!Skip(s, 1) \in GbState /\ Ref!Skip(s, 2) \in GbState
  BY <1>1, SkipTyped
<1>5. \A n \in 0 .. 255 : 65280 + n \in Word
  BY WordIs
<1>6. ref.HL \in Word /\ ref.sp \in Word /\ ref.BC \in Word
  BY RefFields
<1>7. 65280 + Ref!IMM8 \in Word /\ 65280 + Ref!Low(ref.BC) \in Word
  <2>1. Ref!Low(ref.BC) \in Byte
    BY <1>6, Halves, SameHalves
  <2>2. \A n \in Byte : 65280 + n \in Word
    BY <1>5 DEF Byte
  <2> QED
    BY <1>1, <2>1, <2>2
<1> HIDE DEF p, s
<1>10. CASE Ref!R_NOP
  BY <1>1, <1>10, SilentLogged DEF Ref!R_NOP, RefKept, s
<1>11. CASE Ref!R_HALT
  <2>1. ref' = [s EXCEPT !.halted = TRUE] /\ Logged
    BY <1>11, SilentLogged DEF Ref!R_HALT, s
  <2>2. [s EXCEPT !.halted = TRUE] \in GbState
    BY <1>1, Zenon DEF GbState
  <2> QED
    BY <2>1, <2>2, Zenon DEF RefKept
<1>12. CASE Ref!R_LD16_imm
  <2> DEFINE w == Ref!IMM16
  <2>1. ref' = Ref!Skip([s EXCEPT ![p] = w], 2) /\ Logged
    BY <1>12, SilentLogged DEF Ref!R_LD16_imm, s, p
  <2> HIDE DEF w
  <2>2. [s EXCEPT ![p] = w] \in GbState
    BY <1>1, <1>2, PutPairTyped, Zenon DEF w
  <2>3. Ref!Skip([s EXCEPT ![p] = w], 2) \in GbState
    BY <2>2, SkipTyped
  <2> QED
    BY <2>1, <2>3, Zenon DEF RefKept
<1>13. CASE Ref!R_INC16 \/ Ref!R_DEC16
  <2> DEFINE up == Ref!Inc16(s[p], 1)
             down == Ref!Inc16(s[p], 65535)
  <2>1. up \in Word /\ down \in Word
    BY <1>2, IncTyped
  <2>2. ref' \in {[s EXCEPT ![p] = up], [s EXCEPT ![p] = down]} /\ Logged
    BY <1>13, SilentLogged DEF Ref!R_INC16, Ref!R_DEC16, s, p
  <2> HIDE DEF up, down
  <2>3. [s EXCEPT ![p] = up] \in GbState /\ [s EXCEPT ![p] = down] \in GbState
    BY <1>1, <1>2, <2>1, PutPairTyped, Zenon
  <2> QED
    BY <2>2, <2>3, Zenon DEF RefKept
<1>14. CASE Ref!R_ADD16
  <2> DEFINE sum == ref.HL + ref[p]
             w  == sum % 65536
             zf == Ref!ZF(ref) = 1
             hf == Ref!B2N((ref.HL % 4096) + (ref[p] % 4096) > 4095)
             cf == Ref!B2N(sum > 65535)
             t  == Ref!SetFlags(s, zf, 0, hf, cf)
  <2>1. ref' = [t EXCEPT !.HL = w] /\ Logged
    BY <1>14, SilentLogged DEF Ref!R_ADD16, s, p
  <2>2. w \in Word
    BY <1>2, <1>6, WordIs, Wrapped
  <2>3. hf \in 0 .. 1 /\ cf \in 0 .. 1 /\ zf \in BOOLEAN /\ 0 \in 0 .. 1
    BY DEF Ref!B2N
  <2> HIDE DEF w, zf, hf, cf
  <2>4. t \in GbState
    BY <1>1, <2>3, SetFlagsTyped, Zenon
  <2> HIDE DEF t
  <2>5. [t EXCEPT !.HL = w] \in GbState
    BY <2>2, <2>4, Zenon DEF GbState
  <2> QED
    BY <2>1, <2>5, Zenon DEF RefKept
<1>15. CASE Ref!R_LD_mem_A
  BY <1>1, <1>2, <1>3, <1>15, OneLogged DEF Ref!R_LD_mem_A, RefKept, s, p
<1>16. CASE Ref!R_LD_A_mem
  <2>1. Ref!SetA(s, Ref!mmu_read(ref[p])) \in GbState
    BY <1>1, <1>2, RefReads, SetATyped
  <2> QED
    BY <1>16, <2>1, SilentLogged DEF Ref!R_LD_A_mem, RefKept, s, p
<1>17. ASSUME NEW t \in GbState
       PROVE  Ref!Moved(t) \in GbState
  <2> DEFINE k == IF Ref!opcode < 48 THEN 1 ELSE 65535
             w == Ref!Inc16(t.HL, k)
  <2>1. k \in Int
    OBVIOUS
  <2>2. w \in Word
    BY <2>1, RefFields, IncTyped
  <2>3. Ref!Moved(t) = [t EXCEPT !.HL = w]
    BY DEF Ref!Moved
  <2> HIDE DEF k, w
  <2>4. [t EXCEPT !.HL = w] \in GbState
    BY <2>2, Zenon DEF GbState
  <2> QED
    BY <2>3, <2>4, Zenon
<1>18. CASE Ref!R_LDI_mem
  BY <1>1, <1>3, <1>6, <1>17, <1>18, OneLogged DEF Ref!R_LDI_mem, RefKept, s
<1>19. CASE Ref!R_LDI_A
  <2>1. Ref!SetA(s, Ref!mmu_read(ref.HL)) \in GbState
    BY <1>1, <1>6, RefReads, SetATyped
  <2> QED
    BY <1>17, <1>19, <2>1, SilentLogged DEF Ref!R_LDI_A, RefKept, s
<1>20. CASE Ref!R_LD8_imm
  <2>1. ref' = Ref!Put8(Ref!Skip(s, 1), Ref!r3, Ref!IMM8) /\ Ref!Write8(ref, Ref!r3, Ref!IMM8)
    BY <1>20 DEF Ref!R_LD8_imm, s
  <2>2. Ref!Put8(Ref!Skip(s, 1), Ref!r3, Ref!IMM8) \in GbState
    BY <1>1, <1>4, Put8Typed, Zenon
  <2>3. Logged
    BY <1>1, <2>1, Write8Logged, Zenon
  <2> QED
    BY <2>1, <2>2, <2>3 DEF RefKept
<1>21. CASE Ref!R_LD8
  <2> DEFINE v == Ref!REG8(ref, Ref!r0)
  <2>1. ref' = Ref!Put8(s, Ref!r3, v) /\ Ref!Write8(ref, Ref!r3, v)
    BY <1>21 DEF Ref!R_LD8, s
  <2>2. v \in Byte
    BY <1>1, Reg8Typed, Zenon
  <2> HIDE DEF v
  <2>3. Ref!Put8(s, Ref!r3, v) \in GbState
    BY <1>1, <2>2, Put8Typed, Zenon
  <2>4. Logged
    BY <1>1, <2>1, <2>2, Write8Logged, Zenon
  <2> QED
    BY <2>1, <2>3, <2>4 DEF RefKept
<1>22. CASE Ref!R_LD_imm16_SP
  BY <1>1, <1>4, <1>6, <1>22, Bytes16Logged DEF Ref!R_LD_imm16_SP, RefKept, s
<1>23. CASE Ref!R_LDH_imm_A \/ Ref!R_LDH_C_A \/ Ref!R_LD_imm16_A
  <2>1. ref' \in GbState
    BY <1>1, <1>4, <1>23 DEF Ref!R_LDH_imm_A, Ref!R_LDH_C_A, Ref!R_LD_imm16_A, s
  <2>2. Logged
    BY <1>1, <1>3, <1>7, <1>23, OneLogged DEF Ref!R_LDH_imm_A, Ref!R_LDH_C_A, Ref!R_LD_imm16_A
  <2> QED
    BY <2>1, <2>2 DEF RefKept
<1>24. CASE Ref!R_LDH_A_imm \/ Ref!R_LDH_A_C \/ Ref!R_LD_A_imm16
  <2>1. /\ Ref!mmu_read(65280 + Ref!IMM8) \in Byte
        /\ Ref!mmu_read(65280 + Ref!Low(ref.BC)) \in Byte
        /\ Ref!mmu_read(Ref!IMM16) \in Byte
    BY <1>1, <1>7, RefReads
  <2>2. /\ Ref!SetA(Ref!Skip(s, 1), Ref!mmu_read(65280 + Ref!IMM8)) \in GbState
        /\ Ref!SetA(s, Ref!mmu_read(65280 + Ref!Low(ref.BC))) \in GbState
        /\ Ref!SetA(Ref!Skip(s, 2), Ref!mmu_read(Ref!IMM16)) \in GbState
    BY <1>1, <1>4, <2>1, SetATyped
  <2> QED
    BY <1>24, <2>2, SilentLogged DEF Ref!R_LDH_A_imm, Ref!R_LDH_A_C, Ref!R_LD_A_imm16, RefKept, s
<1>25. CASE Ref!R_LD_SP_HL
  <2> DEFINE w == ref.HL
  <2>1. ref' = [s EXCEPT !.sp = w] /\ Logged
    BY <1>25, SilentLogged DEF Ref!R_LD_SP_HL, s
  <2> HIDE DEF w
  <2>2. [s EXCEPT !.sp = w] \in GbState
    BY <1>1, <1>6, Zenon DEF GbState, w
  <2> QED
    BY <2>1, <2>2, Zenon DEF RefKept
<1>26. CASE Ref!R_ADD_SP \/ Ref!R_LD_HL_SP
  <2> DEFINE w  == Ref!SpSum
             hf == Ref!B2N((ref.sp % 16) + (Ref!IMM8 % 16) > 15)
             cf == Ref!B2N(Ref!Low(ref.sp) + Ref!IMM8 > 255)
             t  == Ref!SpFlags(Ref!Skip(s, 1))
  <2>1. ref' \in {[t EXCEPT !.sp = w], [t EXCEPT !.HL = w]} /\ Logged
    BY <1>26, SilentLogged, Zenon DEF Ref!R_ADD_SP, Ref!R_LD_HL_SP, s
  <2>2. w \in Word
    <3>1. Signed(Ref!IMM8) \in Int /\ ref.sp \in Int
      BY <1>1, <1>6, SignedIs, WordIs
    <3> QED
      BY <3>1, Wrapped, SameBits DEF Ref!SpSum
  <2>3. hf \in 0 .. 1 /\ cf \in 0 .. 1 /\ FALSE \in BOOLEAN /\ 0 \in 0 .. 1
    BY DEF Ref!B2N
  <2>4. t = Ref!SetFlags(Ref!Skip(s, 1), FALSE, 0, hf, cf)
    BY Zenon DEF Ref!SpFlags
  <2> HIDE DEF w, hf, cf, t
  <2>5. t \in GbState
    BY <1>4, <2>3, <2>4, SetFlagsTyped, Zenon
  <2>6. [t EXCEPT !.sp = w] \in GbState /\ [t EXCEPT !.HL = w] \in GbState
    BY <2>2, <2>5, Zenon DEF GbState
  <2> QED
    BY <2>1, <2>6, Zenon DEF RefKept
<1> QED
  BY <1>10, <1>11, <1>12, <1>13, <1>14, <1>15, <1>16, <1>18, <1>19, <1>20, <1>21, <1>22,
     <1>23, <1>24, <1>25, <1>26 DEF Ref!R_Loads

LEMMA RefArithKeeps ==
  ASSUME Fetches, ref \in GbState, Ref!R_Arith
  PROVE  RefKept
<1> DEFINE s == Ref!s1
           a == Ref!A(ref)
           z1 == Ref!ZF(ref) = 1
<1>1. /\ Ref!r3 \in 0 .. 7 /\ Ref!r0 \in 0 .. 7 /\ Ref!rp \in 0 .. 3
      /\ Ref!IMM8 \in Byte /\ s \in GbState
  BY RefDecoded
<1>2. a \in Byte /\ a \in Int /\ 0 <= a /\ a <= 255
  BY RefParts, ByteIs
<1>3. Ref!CF \in 0 .. 1 /\ Ref!NF \in 0 .. 1
  BY RefFlags
<1>4. /\ FALSE \in BOOLEAN /\ 0 \in 0 .. 1 /\ 1 \in 0 .. 1 /\ a % 2 \in 0 .. 1
      /\ a \div 128 \in 0 .. 1 /\ a \div 2 \in 0 .. 127 /\ 1 - Ref!CF \in 0 .. 1
      /\ z1 \in BOOLEAN
  BY <1>2, <1>3
<1>5. Ref!REG8(ref, Ref!r0) \in Byte /\ Ref!REG8(ref, Ref!r3) \in Byte
  BY <1>1, Reg8Typed, Zenon
<1>6. Ref!Skip(s, 1) \in GbState
  BY <1>1, SkipTyped
<1> HIDE DEF s, a, z1
<1>10. CASE Ref!R_Arith8
  <2>1. ref' = Ref!Applied(s, Ref!REG8(ref, Ref!r0)) /\ Logged
    BY <1>10, SilentLogged DEF Ref!R_Arith8, s
  <2> QED
    BY <1>1, <1>5, <2>1, AppliedTyped, Zenon DEF RefKept
<1>11. CASE Ref!R_Arith_imm
  <2>1. ref' = Ref!Applied(Ref!Skip(s, 1), Ref!IMM8) /\ Logged
    BY <1>11, SilentLogged DEF Ref!R_Arith_imm, s
  <2> QED
    BY <1>1, <1>6, <2>1, AppliedTyped, Zenon DEF RefKept
<1>12. CASE Ref!R_INC8
  <2> DEFINE v  == Ref!REG8(ref, Ref!r3)
             n  == Ref!Low(v + 1)
             zf == n = 0
             hf == Ref!B2N(v % 16 = 15)
             t  == Ref!SetFlags(s, zf, 0, hf, Ref!CF)
  <2>1. ref' = Ref!Put8(t, Ref!r3, n) /\ Ref!Write8(ref, Ref!r3, n)
    BY <1>12, Zenon DEF Ref!R_INC8, s
  <2>2. n \in Byte
    BY <1>5, ByteIs, LowTyped
  <2>3. zf \in BOOLEAN /\ hf \in 0 .. 1
    BY DEF Ref!B2N
  <2> HIDE DEF n, zf, hf
  <2>4. t \in GbState
    BY <1>1, <1>3, <1>4, <2>3, SetFlagsTyped, Zenon
  <2> HIDE DEF t
  <2>5. Ref!Put8(t, Ref!r3, n) \in GbState
    BY <1>1, <2>2, <2>4, Put8Typed, Zenon
  <2>6. Logged
    BY <1>1, <2>1, <2>2, Write8Logged, Zenon
  <2> QED
    BY <2>1, <2>5, <2>6, Zenon DEF RefKept
<1>13. CASE Ref!R_DEC8
  <2> DEFINE n  == Ref!Low(Ref!REG8(ref, Ref!r3) + 255)
             zf == n = 0
             hf == Ref!B2N(n % 16 = 15)
             t  == Ref!SetFlags(s, zf, 1, hf, Ref!CF)
  <2>1. ref' = Ref!Put8(t, Ref!r3, n) /\ Ref!Write8(ref, Ref!r3, n)
    BY <1>13, Zenon DEF Ref!R_DEC8, s
  <2>2. n \in Byte
    BY <1>5, ByteIs, LowTyped
  <2>3. zf \in BOOLEAN /\ hf \in 0 .. 1
    BY DEF Ref!B2N
  <2> HIDE DEF n, zf, hf
  <2>4. t \in GbState
    BY <1>1, <1>3, <1>4, <2>3, SetFlagsTyped, Zenon
  <2> HIDE DEF t
  <2>5. Ref!Put8(t, Ref!r3, n) \in GbState
    BY <1>1, <2>2, <2>4, Put8Typed, Zenon
  <2>6. Logged
    BY <1>1, <2>1, <2>2, Write8Logged, Zenon
  <2> QED
    BY <2>1, <2>5, <2>6, Zenon DEF RefKept
<1>14. CASE Ref!R_RotateA
  <2> DEFINE v0 == Ref!Low(2 * a) + a \div 128
             v1 == a \div 2 + 128 * (a % 2)
             v2 == Ref!Low(2 * a) + Ref!CF
             v3 == a \div 2 + 128 * Ref!CF
             f0 == 16 * (a \div 128)
             f1 == 16 * (a % 2)
             f2 == 16 * Ref!Bit(a, 7)
             c3 == a % 2
             t0 == Ref!SetF(Ref!SetA(s, v0), f0)
             t1 == Ref!SetF(Ref!SetA(s, v1), f1)
             t2 == Ref!SetF(Ref!SetA(s, v2), f2)
             t3 == Ref!SetA(Ref!SetFlags(s, FALSE, 0, 0, c3), v3)
  <2>1. /\ Ref!opcode \in {7, 15, 23, 31} /\ Logged
        /\ ref' = CASE Ref!opcode = 7 -> t0 [] Ref!opcode = 15 -> t1
                    [] Ref!opcode = 23 -> t2 [] Ref!opcode = 31 -> t3
    BY <1>14, SilentLogged, Zenon DEF Ref!R_RotateA, s, a
  <2>2. Ref!Low(2 * a) \in 0 .. 254
    BY <1>2, SameHalves DEF Low
  <2>3. Bit(a, 7) \in 0 .. 1
    <3>1. 7 \in 0 .. 8
      OBVIOUS
    <3> QED
      BY <1>2, <3>1, BitIs
  <2>4. f0 \in Byte /\ f1 \in Byte /\ f2 \in Byte
    BY <1>4, <2>3, ByteIs, SameBits
  <2>5. v0 \in Byte /\ v2 \in Byte
    BY <1>3, <1>4, <2>2, ByteIs
  <2>6. v1 \in Byte /\ v3 \in Byte
    <3>1. \A h \in 0 .. 127, b \in 0 .. 1 : h + 128 * b \in Byte
      BY ByteIs
    <3> QED
      BY <1>3, <1>4, <3>1
  <2> HIDE DEF v0, v1, v2, v3, f0, f1, f2
  <2>7. t0 \in GbState /\ t1 \in GbState /\ t2 \in GbState
    BY <1>1, <2>4, <2>5, <2>6, SetATyped, SetFTyped, Zenon
  <2>8. t3 \in GbState
    BY <1>1, <1>4, <2>6, SetATyped, SetFlagsTyped, Zenon
  <2> HIDE DEF t0, t1, t2, t3
  <2> QED
    BY <2>1, <2>7, <2>8 DEF RefKept
<1>15. CASE Ref!R_DAA
  <2> DEFINE low  == (Ref!NF = 0 /\ a % 16 > 9) \/ Ref!HF = 1
             high == (Ref!NF = 0 /\ a > 153) \/ Ref!CF = 1
             fix  == (IF low THEN 6 ELSE 0) + (IF high THEN 96 ELSE 0)
             v    == Ref!Low(IF Ref!NF = 1 THEN a - fix ELSE a + fix)
             zf   == v = 0
             cf   == Ref!B2N(high)
  <2>1. ref' = Ref!SetA(Ref!SetFlags(s, zf, Ref!NF, 0, cf), v) /\ Logged
    BY <1>15, SilentLogged DEF Ref!R_DAA, s, a
  <2>2. v \in Byte
    <3>1. fix \in Int
      OBVIOUS
    <3> HIDE DEF fix
    <3> QED
      BY <1>2, <3>1, LowTyped
  <2>3. zf \in BOOLEAN /\ cf \in 0 .. 1
    BY DEF Ref!B2N
  <2> HIDE DEF v, zf, cf
  <2> QED
    BY <1>1, <1>3, <1>4, <2>1, <2>2, <2>3, SetFlagsTyped, SetATyped, Zenon DEF RefKept
<1>16. CASE Ref!R_CPL
  <2> DEFINE v == 255 - a
  <2>1. v \in Byte
    BY <1>2, ByteIs
  <2>2. ref' = Ref!SetA(Ref!SetFlags(s, z1, 1, 1, Ref!CF), v) /\ Logged
    BY <1>16, SilentLogged DEF Ref!R_CPL, s, a, z1
  <2> HIDE DEF v
  <2> QED
    BY <1>1, <1>3, <1>4, <2>1, <2>2, SetFlagsTyped, SetATyped, Zenon DEF RefKept
<1>17. CASE Ref!R_SCF \/ Ref!R_CCF
  <2> DEFINE c == 1 - Ref!CF
  <2>1. ref' \in {Ref!SetFlags(s, z1, 0, 0, 1), Ref!SetFlags(s, z1, 0, 0, c)} /\ Logged
    BY <1>17, SilentLogged, Zenon DEF Ref!R_SCF, Ref!R_CCF, s, z1
  <2>2. c \in 0 .. 1
    BY <1>4
  <2> HIDE DEF c
  <2>3. /\ Ref!SetFlags(s, z1, 0, 0, 1) \in GbState
        /\ Ref!SetFlags(s, z1, 0, 0, c) \in GbState
    BY <1>1, <1>4, <2>2, SetFlagsTyped, Zenon
  <2> QED
    BY <2>1, <2>3, Zenon DEF RefKept
<1> QED
  BY <1>10, <1>11, <1>12, <1>13, <1>14, <1>15, <1>16, <1>17 DEF Ref!R_Arith

LEMMA RefJumpsKeep ==
  ASSUME Fetches, ref \in GbState, Ref!R_Jumps
  PROVE  RefKept
<1> DEFINE s == Ref!s1
           q == Ref!Reg16s[Ref!rp + 1]
           top == Ref!mmu_read16(ref.sp)
           below == Ref!Inc16(ref.sp, 65534)
           there == (s.pc + Ref!Signed(Ref!IMM8) + 1) % 65536
           next2 == Ref!Inc16(s.pc, 2)
           to == Ref!IMM16
           vector == 8 * Ref!r3
           off == FALSE
           on == TRUE
<1>1. /\ Ref!r3 \in 0 .. 7 /\ Ref!rp \in 0 .. 3 /\ Ref!IMM8 \in Byte /\ to \in Word
      /\ s \in GbState
  BY RefDecoded
<1>2. ref.sp \in Word /\ s.sp \in Word /\ s.pc \in Word /\ ref.HL \in Word /\ s.pc \in Int
  BY <1>1, RefFields, WordIs
<1>3. top \in Word /\ below \in Word /\ next2 \in Word
  BY <1>2, RefReads, IncTyped
<1>4. there \in Word
  <2>1. Signed(Ref!IMM8) \in Int
    BY <1>1, SignedIs
  <2> QED
    BY <1>2, <2>1, Wrapped, SameBits
<1>5. vector \in Word
  BY <1>1, WordIs
<1>6. Ref!Skip(s, 1) \in GbState /\ Ref!Skip(s, 2) \in GbState
  BY <1>1, SkipTyped
<1>7. ref[q] \in Word /\ q \in {"BC", "DE", "HL", "AF", "sp", "pc"}
  BY <1>1, IndexedPair, PairTyped, Zenon
<1>8. Ref!Push(s) \in GbState
  <2> DEFINE w == Ref!Inc16(s.sp, 65534)
  <2>1. w \in Word
    BY <1>2, IncTyped
  <2>2. Ref!Push(s) = [s EXCEPT !.sp = w]
    BY DEF Ref!Push
  <2> HIDE DEF s, w
  <2>3. [s EXCEPT !.sp = w] \in GbState
    BY <1>1, <2>1, Zenon DEF GbState
  <2> QED
    BY <2>2, <2>3, Zenon
<1>9. Ref!PopTo(s) \in GbState
  <2> DEFINE w == Ref!Inc16(s.sp, 2)
  <2>1. w \in Word
    BY <1>2, IncTyped
  <2>2. Ref!PopTo(s) = [s EXCEPT !.sp = w]
    BY DEF Ref!PopTo
  <2> HIDE DEF s, w
  <2>3. [s EXCEPT !.sp = w] \in GbState
    BY <1>1, <2>1, Zenon DEF GbState
  <2> QED
    BY <2>2, <2>3, Zenon
<1>10. \A w \in Word : Ref!push16(ref, w) => Logged
  <2> TAKE w \in Word
  <2>1. Ref!push16(ref, w) => Ref!mmu_write(Ref!Bytes16(below, w))
    BY DEF Ref!push16
  <2> HIDE DEF below
  <2> QED
    BY <1>3, <2>1, Bytes16Logged
<1>11. \A b \in {FALSE, TRUE}, t \in GbState :
         [t EXCEPT !.interrupts_master_enabled = b] \in GbState
  BY Zenon DEF GbState
<1> HIDE DEF s, q, top, below, there, next2, to, vector, off, on
<1>12. \A t \in GbState : /\ Ref!Jump(t, there) \in GbState /\ Ref!Jump(t, to) \in GbState
                          /\ Ref!Jump(t, top) \in GbState /\ Ref!Jump(t, vector) \in GbState
                          /\ Ref!Jump(t, ref.HL) \in GbState
  <2> TAKE t \in GbState
  <2>1. Ref!Jump(t, there) \in GbState /\ Ref!Jump(t, to) \in GbState
    BY <1>1, <1>4, JumpTyped
  <2>2. Ref!Jump(t, top) \in GbState /\ Ref!Jump(t, vector) \in GbState
    BY <1>3, <1>5, JumpTyped
  <2>3. Ref!Jump(t, ref.HL) \in GbState
    BY <1>2, JumpTyped
  <2> QED
    BY <2>1, <2>2, <2>3
<1>20. CASE Ref!R_JR \/ Ref!R_JR_cc
  <2>1. ref' \in {Ref!Jump(s, there), Ref!Skip(s, 1)} /\ Logged
    BY <1>20, SilentLogged DEF Ref!R_JR, Ref!R_JR_cc, s, there
  <2> QED
    BY <1>1, <1>6, <1>12, <2>1 DEF RefKept
<1>21. CASE Ref!R_JP \/ Ref!R_JP_cc \/ Ref!R_JP_HL
  <2>1. ref' \in {Ref!Jump(s, to), Ref!Jump(s, ref.HL), Ref!Skip(s, 2)} /\ Logged
    BY <1>21, SilentLogged DEF Ref!R_JP, Ref!R_JP_cc, Ref!R_JP_HL, s, to
  <2> QED
    BY <1>1, <1>6, <1>12, <2>1 DEF RefKept
<1>22. CASE Ref!R_CALL \/ Ref!R_CALL_cc
  <2>1. /\ ref' \in {Ref!Jump(Ref!Push(s), to), Ref!Skip(s, 2)}
        /\ Ref!Silent \/ Ref!push16(ref, next2)
    BY <1>22 DEF Ref!R_CALL, Ref!R_CALL_cc, s, to, next2
  <2> QED
    BY <1>3, <1>6, <1>8, <1>10, <1>12, <2>1, SilentLogged DEF RefKept
<1>23. CASE Ref!R_RST
  <2>1. ref' = Ref!Jump(Ref!Push(s), vector) /\ Ref!push16(ref, s.pc)
    BY <1>23 DEF Ref!R_RST, s, vector
  <2> QED
    BY <1>2, <1>8, <1>10, <1>12, <2>1 DEF RefKept
<1>24. CASE Ref!R_RET \/ Ref!R_RET_cc
  <2>1. ref' \in {Ref!Jump(Ref!PopTo(s), top), s} /\ Logged
    BY <1>24, SilentLogged DEF Ref!R_RET, Ref!R_RET_cc, s, top
  <2> QED
    BY <1>1, <1>9, <1>12, <2>1 DEF RefKept
<1>25. CASE Ref!R_RETI
  <2> DEFINE t == Ref!Jump(Ref!PopTo(s), top)
  <2>1. ref' = [t EXCEPT !.interrupts_master_enabled = TRUE] /\ Logged
    BY <1>25, SilentLogged DEF Ref!R_RETI, s, top
  <2>2. t \in GbState
    BY <1>9, <1>12
  <2> HIDE DEF t
  <2>3. [t EXCEPT !.interrupts_master_enabled = TRUE] \in GbState
    BY <1>11, <2>2, Zenon
  <2> QED
    BY <2>1, <2>3, Zenon DEF RefKept
<1>26. CASE Ref!R_PUSH
  BY <1>7, <1>8, <1>10, <1>26 DEF Ref!R_PUSH, RefKept, s, q
<1>27. CASE Ref!R_POP
  <2> DEFINE t == [Ref!PopTo(s) EXCEPT ![q] = top]
             f == Ref!F(t) - Ref!Nibble(Ref!F(t))
  <2>1. ref' = Ref!SetF(t, f) /\ Logged
    BY <1>27, SilentLogged, Zenon DEF Ref!R_POP, s, q, top
  <2>2. t \in GbState
    BY <1>3, <1>7, <1>9, PutPairTyped, Zenon
  <2> HIDE DEF t
  <2>3. f \in Byte
    <3>1. Ref!F(t) \in Byte
      BY <2>2, RefParts
    <3> QED
      BY <3>1, ByteIs, SameHalves DEF Nibble
  <2> QED
    BY <2>1, <2>2, <2>3, SetFTyped, Zenon DEF RefKept
<1>28. CASE Ref!R_DI \/ Ref!R_EI
  <2>1. /\ ref' \in {[s EXCEPT !.interrupts_master_enabled = FALSE],
                     [s EXCEPT !.interrupts_master_enabled = TRUE]}
        /\ Logged
    BY <1>28, SilentLogged, Zenon DEF Ref!R_DI, Ref!R_EI, s
  <2>2. /\ [s EXCEPT !.interrupts_master_enabled = FALSE] \in GbState
        /\ [s EXCEPT !.interrupts_master_enabled = TRUE] \in GbState
    BY <1>1, <1>11, Zenon
  <2> QED
    BY <2>1, <2>2, Zenon DEF RefKept
<1> QED
  BY <1>20, <1>21, <1>22, <1>23, <1>24, <1>25, <1>26, <1>27, <1>28 DEF Ref!R_Jumps

LEMMA RefCbKeeps ==
  ASSUME Fetches, ref \in GbState, Ref!R_CB
  PROVE  RefKept
<1> DEFINE s == Ref!s2
           i == Ref!cb % 8
           v == Ref!Val
<1>1. s \in GbState /\ i \in 0 .. 7 /\ Ref!cb3 \in 0 .. 7
  BY RefDecoded
<1>2. v \in Byte
  BY <1>1, Reg8Typed, Zenon DEF Ref!Val
<1>3. Ref!CF \in 0 .. 1
  BY RefFlags
<1>4. ASSUME NEW t \in GbState, NEW n \in Byte, Ref!CbPut(t, n)
      PROVE  RefKept
  <2>1. ref' = Ref!Put8(t, i, n) /\ Ref!Write8(ref, i, n)
    BY <1>4 DEF Ref!CbPut
  <2> HIDE DEF i
  <2>2. Ref!Put8(t, i, n) \in GbState
    BY <1>1, Put8Typed, Zenon
  <2>3. Logged
    BY <1>1, <2>1, Write8Logged, Zenon
  <2> QED
    BY <2>1, <2>2, <2>3 DEF RefKept
<1>5. 0 \in 0 .. 1 /\ 1 \in 0 .. 1
  OBVIOUS
<1> HIDE DEF s, i, v
<1>6. ASSUME NEW n \in Byte, NEW c \in 0 .. 1, Ref!CbShift(n, c)
      PROVE  RefKept
  <2> DEFINE zf == n = 0
  <2>1. Ref!CbPut(Ref!SetFlags(s, zf, 0, 0, c), n)
    BY <1>6 DEF Ref!CbShift, s
  <2>2. zf \in BOOLEAN
    OBVIOUS
  <2> HIDE DEF zf
  <2>3. Ref!SetFlags(s, zf, 0, 0, c) \in GbState
    BY <1>1, <1>5, <2>2, SetFlagsTyped, Zenon
  <2> QED
    BY <1>4, <2>1, <2>3, Zenon
<1>7. /\ v \in Int /\ v \div 128 \in 0 .. 1 /\ v % 2 \in 0 .. 1 /\ v \div 2 \in 0 .. 127
      /\ v \div 16 \in 0 .. 15
  BY <1>2, ByteIs
<1>8. Ref!Low(2 * v) \in 0 .. 254 /\ Ref!Low(16 * v) \in 0 .. 240
  BY <1>7, <1>2, ByteIs, SameHalves DEF Low
<1>10. CASE Ref!R_CB_Shift
  <2>1. /\ Ref!Low(2 * v) + v \div 128 \in Byte /\ Ref!Low(2 * v) + Ref!CF \in Byte
        /\ Ref!Low(2 * v) \in Byte /\ v \div 2 \in Byte
        /\ Ref!Low(16 * v) + v \div 16 \in Byte
    BY <1>3, <1>7, <1>8, ByteIs
  <2>2. /\ v \div 2 + 128 * (v % 2) \in Byte /\ v \div 2 + 128 * Ref!CF \in Byte
    <3>1. \A h \in 0 .. 127, b \in 0 .. 1 : h + 128 * b \in Byte
      BY ByteIs
    <3> QED
      BY <1>3, <1>7, <3>1
  <2>3. v \div 2 + Ref!And(v, 128) \in Byte
    <3> DEFINE b == [j \in 0 .. 7 |-> Bit(v, j) * Bit(128, j)]
    <3>1. \A j \in 0 .. 7 : Bit(v, j) \in 0 .. 1
      BY <1>7, BitIs
    <3>2. \A j \in 0 .. 7 : Bit(128, j) = IF j = 7 THEN 1 ELSE 0
      BY DEF Bit, Pow2
    <3>3. \A j \in 0 .. 7 : b[j] = IF j = 7 THEN Bit(v, 7) ELSE 0
      BY <3>1, <3>2
    <3>4. And(v, 128) = OfBits(b)
      BY DEF And
    <3> HIDE DEF b
    <3>5. OfBits(b) \in {0, 128}
      BY <3>1, <3>3 DEF OfBits
    <3>6. Ref!And(v, 128) \in {0, 128}
      BY <3>4, <3>5, SameBits, Zenon
    <3>7. \A h \in 0 .. 127 : h + 0 \in Byte /\ h + 128 \in Byte
      BY ByteIs
    <3> QED
      BY <1>7, <3>6, <3>7
  <2>10. CASE Ref!cb3 = 0
    <3>1. Ref!CbShift(Ref!Low(2 * v) + v \div 128, v \div 128)
      BY <1>10, <2>10 DEF Ref!R_CB_Shift, v
    <3> QED
      BY <1>6, <1>7, <2>1, <3>1, Zenon
  <2>11. CASE Ref!cb3 = 1
    <3>1. Ref!CbShift(v \div 2 + 128 * (v % 2), v % 2)
      BY <1>10, <2>11 DEF Ref!R_CB_Shift, v
    <3> QED
      BY <1>6, <1>7, <2>2, <3>1, Zenon
  <2>12. CASE Ref!cb3 = 2
    <3>1. Ref!CbShift(Ref!Low(2 * v) + Ref!CF, v \div 128)
      BY <1>10, <2>12 DEF Ref!R_CB_Shift, v
    <3> QED
      BY <1>6, <1>7, <2>1, <3>1, Zenon
  <2>13. CASE Ref!cb3 = 3
    <3>1. Ref!CbShift(v \div 2 + 128 * Ref!CF, v % 2)
      BY <1>10, <2>13 DEF Ref!R_CB_Shift, v
    <3> QED
      BY <1>6, <1>7, <2>2, <3>1, Zenon
  <2>14. CASE Ref!cb3 = 4
    <3>1. Ref!CbShift(Ref!Low(2 * v), v \div 128)
      BY <1>10, <2>14 DEF Ref!R_CB_Shift, v
    <3> QED
      BY <1>6, <1>7, <2>1, <3>1, Zenon
  <2>15. CASE Ref!cb3 = 5
    <3>1. Ref!CbShift(v \div 2 + Ref!And(v, 128), v % 2)
      BY <1>10, <2>15 DEF Ref!R_CB_Shift, v
    <3> QED
      BY <1>6, <1>7, <2>3, <3>1, Zenon
  <2>16. CASE Ref!cb3 = 6
    <3> DEFINE n == Ref!Low(16 * v) + v \div 16
               f == IF n = 0 THEN 128 ELSE 0
               t == Ref!SetF(s, f)
    <3>1. Ref!CbPut(t, n)
      BY <1>10, <2>16 DEF Ref!R_CB_Shift, s, v
    <3>2. f \in Byte /\ n \in Byte
      BY <2>1, ByteIs
    <3> HIDE DEF f
    <3>3. t \in GbState
      BY <1>1, <3>2, SetFTyped
    <3> HIDE DEF t, n
    <3> QED
      BY <1>4, <3>1, <3>2, <3>3, Zenon
  <2>17. CASE Ref!cb3 = 7
    <3>1. Ref!CbShift(v \div 2, v % 2)
      BY <1>10, <2>17 DEF Ref!R_CB_Shift, v
    <3> QED
      BY <1>6, <1>7, <2>1, <3>1, Zenon
  <2> QED
    BY <1>1, <2>10, <2>11, <2>12, <2>13, <2>14, <2>15, <2>16, <2>17
<1>11. CASE Ref!R_CB_BIT
  <2> DEFINE zf == Ref!Bit(v, Ref!cb3) = 0
  <2>1. ref' = Ref!SetFlags(s, zf, 0, 1, Ref!CF) /\ Logged
    BY <1>11, SilentLogged DEF Ref!R_CB_BIT, s, v
  <2>2. zf \in BOOLEAN
    OBVIOUS
  <2> HIDE DEF zf
  <2>3. Ref!SetFlags(s, zf, 0, 1, Ref!CF) \in GbState
    BY <1>1, <1>3, <1>5, <2>2, SetFlagsTyped, Zenon
  <2> QED
    BY <2>1, <2>3, Zenon DEF RefKept
<1>12. CASE Ref!R_CB_RES \/ Ref!R_CB_SET
  <2> DEFINE b == Ref!Pow2[Ref!cb3 + 1]
             w == 255 - b
  <2>1. b \in {1, 2, 4, 8, 16, 32, 64, 128}
    BY <1>1 DEF Ref!Pow2
  <2>2. b \in Byte /\ w \in Byte
    BY <2>1, ByteIs
  <2>3. Ref!And(v, w) \in Byte /\ Ref!Or(v, b) \in Byte
    BY <1>2, <2>2, BitwiseTyped, SameBits
  <2>4. Ref!CbPut(s, Ref!And(v, w)) \/ Ref!CbPut(s, Ref!Or(v, b))
    BY <1>12 DEF Ref!R_CB_RES, Ref!R_CB_SET, s, v
  <2> QED
    BY <1>1, <1>4, <2>3, <2>4, Zenon
<1> QED
  BY <1>10, <1>11, <1>12 DEF Ref!R_CB

\* Every instruction of the reference keeps the widths of its registers, and
\* logs at most two stores of bytes.
LEMMA ReferenceKeeps ==
  ASSUME Fetches, ref \in GbState, Ref!rcpu_step
  PROVE  RefKept
BY RefLoadsKeep, RefArithKeeps, RefJumpsKeep, RefCbKeeps DEF Ref!rcpu_step

-----------------------------------------------------------------------------
(* The tester.                                                              *)

\* The logs are those of one instruction at most: they are empty before it.
TesterInv ==
  /\ cpu \in CPUState /\ ref \in GbState
  /\ memory \in Programs
  /\ phase \in {"input", "step", "compare"}
  /\ accesses \in StoreLists /\ refAccesses \in StoreLists
  /\ phase = "step" => accesses = << >> /\ refAccesses = << >>

LEMMA TesterFetches ==
  ASSUME TesterSettings, memory \in Programs
  PROVE  Fetches /\ MemoryTyped
BY DEF TesterSettings, Fetches, MemoryTyped

LEMMA ZeroTyped ==
  /\ ZeroState \in CPUState
  /\ ResetRef([BC |-> 0, DE |-> 0, HL |-> 0, SP |-> 0, IME |-> FALSE], 0, 0) \in GbState
<1>1. 0 \in Byte /\ 0 \in Word
  BY ByteIs, WordIs
<1>2. FlagsOf(0) \in FlagsRegister /\ 0 \in 0 .. 6
  BY <1>1, FlagsOfTyped
<1>3. Join(0, 0) \in Word
  BY <1>1, Joined
<1>4. ZeroState \in CPUState
  BY <1>1, <1>2, Zenon DEF ZeroState, CPUState
<1>5. ResetRef([BC |-> 0, DE |-> 0, HL |-> 0, SP |-> 0, IME |-> FALSE], 0, 0)
        = [BC |-> 0, DE |-> 0, HL |-> 0, AF |-> Join(0, 0), sp |-> 0, pc |-> 0,
           halted |-> FALSE, interrupts_master_enabled |-> FALSE]
  BY DEF ResetRef
<1>6. [BC |-> 0, DE |-> 0, HL |-> 0, AF |-> Join(0, 0), sp |-> 0, pc |-> 0,
       halted |-> FALSE, interrupts_master_enabled |-> FALSE] \in GbState
  BY <1>1, <1>3, Zenon DEF GbState
<1> QED
  BY <1>4, <1>5, <1>6

LEMMA InputsTyped ==
  ASSUME NEW g \in [BC : Word, DE : Word, HL : Word, SP : Word, IME : BOOLEAN],
         NEW a \in Byte, NEW f \in Byte
  PROVE  SetState(g, a, f) \in CPUState /\ ResetRef(g, a, f) \in GbState
<1>1. g.BC \in Word /\ g.DE \in Word /\ g.HL \in Word /\ g.SP \in Word
  OBVIOUS
<1>2. g.IME \in BOOLEAN
  BY Zenon
<1>3. /\ High(g.BC) \in Byte /\ Low(g.BC) \in Byte /\ High(g.DE) \in Byte /\ Low(g.DE) \in Byte
      /\ High(g.HL) \in Byte /\ Low(g.HL) \in Byte
  BY <1>1, Halves
<1>4. FlagsOf(f) \in FlagsRegister /\ Join(a, f) \in Word
  BY FlagsOfTyped, Joined
<1>5. 0 \in Word
  BY WordIs
<1>6. ZeroState \in CPUState
  BY ZeroTyped
<1>7. SetState(g, a, f) \in CPUState
  BY <1>1, <1>2, <1>3, <1>4, <1>6, Zenon DEF SetState, CPUState
<1>8. ResetRef(g, a, f) \in GbState
  BY <1>1, <1>2, <1>4, <1>5, Zenon DEF ResetRef, GbState
<1> QED
  BY <1>7, <1>8

LEMMA Appended ==
  ASSUME NEW ws \in StoreLists
  PROVE  << >> \o ws = ws
BY DEF StoreLists

LEMMA TesterStarts == ASSUME TesterSettings PROVE TestInit => TesterInv
<1> SUFFICES ASSUME TestInit
             PROVE  TesterInv
  OBVIOUS
<1>1. /\ cpu = ZeroState /\ memory \in Programs
      /\ accesses = << >> /\ refAccesses = << >> /\ phase = "input"
      /\ ref = ResetRef([BC |-> 0, DE |-> 0, HL |-> 0, SP |-> 0, IME |-> FALSE], 0, 0)
  BY Zenon DEF TestInit
<1>2. cpu \in CPUState /\ ref \in GbState
  BY <1>1, ZeroTyped, Zenon
<1> QED
  BY <1>1, <1>2, NoList DEF TesterInv

LEMMA TesterSteps == ASSUME TesterSettings PROVE TesterInv /\ [TestNext]_testVars => TesterInv'
<1> SUFFICES ASSUME TesterInv, [TestNext]_testVars
             PROVE  TesterInv'
  OBVIOUS
<1>0. Fetches /\ MemoryTyped
  BY TesterFetches DEF TesterInv
<1>1. CASE NextInput
  <2>1. PICK g \in Registers, a \in AValues, f \in FlagBytes :
          cpu' = SetState(g, a, f) /\ ref' = ResetRef(g, a, f)
    BY <1>1 DEF NextInput
  <2>2. /\ accesses' = << >> /\ refAccesses' = << >> /\ phase' = "step" /\ memory' = memory
    BY <1>1 DEF NextInput
  <2>3. g \in [BC : Word, DE : Word, HL : Word, SP : Word, IME : BOOLEAN] /\ a \in Byte /\ f \in Byte
    BY Zenon DEF TesterSettings
  <2>4. cpu' \in CPUState /\ ref' \in GbState
    BY <2>1, <2>3, InputsTyped
  <2> QED
    BY <2>2, <2>4, NoList DEF TesterInv
<1>2. CASE run_state
  <2>1. phase = "step" /\ tick /\ Ref!rcpu_step /\ phase' = "compare"
    BY <1>2 DEF run_state
  <2>2. ~LD_a8_A_HandOver
    BY DEF LD_a8_A_HandOver, TesterSettings
  <2>3. cpu \in CPUState /\ ref \in GbState /\ accesses = << >> /\ refAccesses = << >>
    BY <2>1 DEF TesterInv
  <2>4. Kept /\ RefKept
    BY <1>0, <2>1, <2>2, <2>3, TickKeeps, ReferenceKeeps
  <2>5. cpu' \in CPUState /\ ref' \in GbState
    BY <2>4 DEF Kept, Derived, RefKept
  <2>6. accesses' \in StoreLists /\ memory' = memory
    <3>1. CASE NoStore
      BY <2>3, <3>1, NoList DEF NoStore
    <3>2. ASSUME NEW ws \in StoreLists, Write(ws)
          PROVE  accesses' \in StoreLists /\ memory' = memory
      <4>1. accesses' = accesses \o ws /\ memory' = memory
        BY <3>2 DEF Write, TesterSettings
      <4> QED
        BY <2>3, <4>1, Appended
    <3> QED
      BY <2>4, <3>1, <3>2 DEF Kept, Recorded
  <2>7. refAccesses' \in StoreLists
    <3>1. CASE Ref!Silent
      BY <2>3, <3>1, NoList DEF Ref!Silent
    <3>2. ASSUME NEW ws \in StoreLists, Ref!mmu_write(ws)
          PROVE  refAccesses' \in StoreLists
      BY <2>3, <3>2, Appended DEF Ref!mmu_write
    <3> QED
      BY <2>4, <3>1, <3>2 DEF RefKept, Logged
  <2> QED
    BY <2>1, <2>5, <2>6, <2>7 DEF TesterInv
<1>3. CASE NextTest
  <2>1. /\ cpu' = ZeroState /\ memory' = memory
        /\ accesses' = << >> /\ refAccesses' = << >> /\ phase' = "input"
        /\ ref' = ResetRef([BC |-> 0, DE |-> 0, HL |-> 0, SP |-> 0, IME |-> FALSE], 0, 0)
    BY <1>3, Zenon DEF NextTest
  <2>2. cpu' \in CPUState /\ ref' \in GbState
    BY <2>1, ZeroTyped, Zenon
  <2> QED
    BY <2>1, <2>2, NoList DEF TesterInv
<1>4. CASE UNCHANGED testVars
  BY <1>4 DEF testVars, cpuVars, TesterInv
<1> QED
  BY <1>1, <1>2, <1>3, <1>4 DEF TestNext

\* On every program and input of the tester both processors keep the widths of
\* their registers, and no instruction stores more than two bytes: the sixteen
\* places of mem_accesses are never exceeded.
THEOREM TestAlwaysTyped == ASSUME TesterSettings PROVE TestSpec => []TestTypeOK
<1>1. TesterInv => TestTypeOK
  <2> SUFFICES ASSUME TesterInv
               PROVE  TestTypeOK
    OBVIOUS
  <2>1. \A log \in StoreLists : Len(log) <= 2 /\ \A i \in DOMAIN log : log[i] \in Word \X Byte
    <3> TAKE log \in StoreLists
    <3>1. log \in Seq(Word \X Byte) /\ Len(log) <= 2 /\ DOMAIN log = 1 .. Len(log)
      BY LenProperties DEF StoreLists
    <3> QED
      BY <3>1, ElementOfSeq
  <2> QED
    BY <2>1, SameStates DEF TesterInv, TestTypeOK
<1> QED
  BY <1>1, TesterStarts, TesterSteps, PTL DEF TestSpec
=============================================================================
