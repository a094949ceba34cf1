-------------------------- MODULE MultiByte_proofs --------------------------
(* Proof that two-byte addition and subtraction are right for all operands. *)
EXTENDS MultiByte, TLAPS

-----------------------------------------------------------------------------
(* Bytes, nibbles and bits.                                                 *)

LEMMA ByteParts ==
  ASSUME NEW b \in Byte
  PROVE  \E x \in 0 .. 15, y \in 0 .. 15 : b = 16 * x + y /\ High4(b) = x /\ Nibble(b) = y
<1>1. b \div 16 \in 0 .. 15 /\ b % 16 \in 0 .. 15 /\ b = 16 * (b \div 16) + (b % 16)
  BY DEF Byte
<1> QED BY <1>1 DEF High4, Nibble

LEMMA Bits ==
  ASSUME NEW v \in 0 .. 511
  PROVE  /\ Bit(v, 4) = High4(v) % 2
         /\ Bit(v, 8) = (v \div 256) % 2
<1>1. Pow2[5] = 16 /\ Pow2[9] = 256 BY DEF Pow2
<1> QED BY <1>1 DEF Bit, High4

\* The carry into a bit is the parity of the bit in the terms and the sum.
LEMMA Parity ==
  ASSUME NEW x \in Nat, NEW z \in Nat, NEW q \in 0 .. 1
  PROVE  ((x % 2) + (z % 2) + ((x + z + q) % 2)) % 2 = q
OBVIOUS

LEMMA SumNibbles ==
  ASSUME NEW x \in 0 .. 15, NEW y \in 0 .. 15, NEW z \in 0 .. 15, NEW w \in 0 .. 15,
         NEW c \in 0 .. 1, NEW q \in 0 .. 1, q = 1 <=> y + w + c > 15
  PROVE  ((16 * x + y) + (16 * z + w) + c) \div 16 = x + z + q
OBVIOUS

LEMMA ModuloByte ==
  ASSUME NEW m \in 0 .. 255, NEW i \in Int, NEW n \in Int, n = m + 256 * i
  PROVE  n % 256 = m
OBVIOUS

LEMMA ModuloNibble ==
  ASSUME NEW s \in 0 .. 511
  PROVE  /\ (s % 256) % 16 = s % 16
         /\ s > 255 \/ (s % 256) > 153 <=> s > 153
<1>1. CASE s < 256
  <2>1. s % 256 = s BY <1>1
  <2> QED BY <1>1, <2>1
<1>2. CASE s >= 256
  <2>1. s % 256 = s - 256 BY <1>2
  <2> QED BY <1>2, <2>1
<1> QED BY <1>1, <1>2

-----------------------------------------------------------------------------
(* Addition and subtraction of one byte.                                    *)

LEMMA OneOf ==
  ASSUME NEW f \in FlagsRegister
  PROVE  One(f.carry) \in 0 .. 1 /\ (One(f.carry) = 1 <=> f.carry)
BY DEF One, FlagsRegister

\* r and the flags f are those of a + v + c, and of a - v - c.
Added(a, v, c, r, f) ==
  /\ r = (a + v + c) % 256
  /\ f.carry <=> a + v + c > 255
  /\ f.halfCarry <=> Nibble(a) + Nibble(v) + c > 15
  /\ ~f.subtraction
Subtracted(a, v, c, r, f) ==
  /\ r = (a - v - c) % 256
  /\ f.carry <=> a - v - c < 0
  /\ f.halfCarry <=> Nibble(a) - Nibble(v) - c < 0
  /\ f.subtraction

LEMMA AddIs ==
  ASSUME NEW a \in Byte, NEW v \in Byte
  PROVE  LET r == add(a, v)
         IN Added(a, v, 0, r.val, r.f) /\ r.val \in Byte /\ r.f \in FlagsRegister
<1> DEFINE r == add(a, v)
           s == Nibble(a) + Nibble(v)
<1>1. /\ a \in 0 .. 255 /\ v \in 0 .. 255
      /\ Nibble(a) \in 0 .. 15 /\ Nibble(v) \in 0 .. 15
  BY ByteParts DEF Byte
<1>2. /\ r.val = (a + v) % 256 /\ ~r.f.subtraction
      /\ r.f.carry <=> a + v > 255
      /\ r.f.halfCarry <=> Bit(s, 4) = 1
  BY DEF add, Result, Flags
<1>3. r.f \in FlagsRegister
  BY DEF add, Result, Flags, FlagsRegister
<1>4. Bit(s, 4) = 1 <=> s > 15
  BY <1>1, Bits DEF High4
<1> HIDE DEF r
<1>5. r.val \in Byte
  BY <1>1, <1>2 DEF Byte
<1> QED
  BY <1>3, <1>1, <1>2, <1>4, <1>5 DEF Added, r

LEMMA AdcIs ==
  ASSUME NEW a \in Byte, NEW v \in Byte, NEW f \in FlagsRegister
  PROVE  LET r == adc(a, v, f)
         IN Added(a, v, One(f.carry), r.val, r.f) /\ r.val \in Byte /\ r.f \in FlagsRegister
<1> DEFINE r == adc(a, v, f)
           d == One(f.carry)
           n == a + v + d
           s == Nibble(a) + Nibble(v) + d
           b == (Bit(a, 4) + Bit(v, 4) + Bit(n, 4)) % 2
<1>1. /\ r.val = n % 256 /\ ~r.f.subtraction
      /\ r.f.carry <=> Bit(n, 8) = 1
      /\ r.f.halfCarry <=> b = 1
  BY DEF adc, Result, Flags
<1>2. r.f \in FlagsRegister
  BY DEF adc, Result, Flags, FlagsRegister
<1>3. /\ d \in 0 .. 1 /\ a \in 0 .. 255 /\ v \in 0 .. 255
      /\ Nibble(a) \in 0 .. 15 /\ Nibble(v) \in 0 .. 15
  BY OneOf, ByteParts DEF Byte
<1> HIDE DEF r, d
<1>4. n \in 0 .. 511 /\ n % 256 \in Byte
  BY <1>3 DEF Byte
<1>5. Bit(n, 8) = 1 <=> n > 255
  BY <1>4, Bits
<1>6. b = 1 <=> s > 15
  <2>1. /\ a \in 0 .. 511 /\ v \in 0 .. 511 /\ n \in 0 .. 511
    BY <1>3, <1>4
  <2>2. /\ Bit(a, 4) = High4(a) % 2 /\ Bit(v, 4) = High4(v) % 2
        /\ Bit(n, 4) = High4(n) % 2
    BY <2>1, Bits
  <2>3. PICK x \in 0 .. 15, y \in 0 .. 15 : a = 16 * x + y /\ High4(a) = x /\ Nibble(a) = y
    BY ByteParts
  <2>4. PICK z \in 0 .. 15, w \in 0 .. 15 : v = 16 * z + w /\ High4(v) = z /\ Nibble(v) = w
    BY ByteParts
  <2>5. PICK q \in 0 .. 1 : q = 1 <=> y + w + d > 15
    BY <1>3
  <2>6. High4(n) = x + z + q
    BY <1>3, <2>3, <2>4, <2>5, SumNibbles DEF High4
  <2>7. b = q
    BY <2>2, <2>3, <2>4, <2>6, Parity
  <2> QED
    BY <2>3, <2>4, <2>5, <2>7
<1> QED
  BY <1>2, <1>1, <1>4, <1>5, <1>6 DEF Added, d, r

\* cp() and sub() are sbc() without a carry-in.
LEMMA SubIs ==
  ASSUME NEW a \in Byte, NEW v \in Byte
  PROVE  LET r == sub(a, v)
         IN Subtracted(a, v, 0, r.val, r.f) /\ r.val \in Byte /\ r.f \in FlagsRegister
<1> DEFINE r == sub(a, v)
<1>1. /\ a \in 0 .. 255 /\ v \in 0 .. 255
      /\ Nibble(a) \in 0 .. 15 /\ Nibble(v) \in 0 .. 15
  BY ByteParts DEF Byte
<1>2. /\ r.val = (a - v) % 256 /\ r.f.subtraction
      /\ r.f.carry <=> a < v
      /\ r.f.halfCarry <=> Nibble(a) < Nibble(v)
  BY DEF sub, cp, Result, Flags
<1>3. r.f \in FlagsRegister
  BY DEF sub, cp, Result, Flags, FlagsRegister
<1> HIDE DEF r
<1>4. (a - v - 0 = a - v) /\ r.val \in Byte
  BY <1>1, <1>2 DEF Byte
<1> QED
  BY <1>3, <1>1, <1>2, <1>4 DEF Subtracted, r

LEMMA SbcIs ==
  ASSUME NEW a \in Byte, NEW v \in Byte, NEW f \in FlagsRegister
  PROVE  LET r == sbc(a, v, f)
         IN Subtracted(a, v, One(f.carry), r.val, r.f) /\ r.val \in Byte /\ r.f \in FlagsRegister
<1> DEFINE r == sbc(a, v, f)
           d == One(f.carry)
<1>1. /\ d \in 0 .. 1 /\ a \in 0 .. 255 /\ v \in 0 .. 255
      /\ Nibble(a) \in 0 .. 15 /\ Nibble(v) \in 0 .. 15
  BY OneOf, ByteParts DEF Byte
<1>2. /\ r.val = (a - v - d) % 256 /\ r.f.subtraction
      /\ r.f.carry <=> a < v + d
      /\ r.f.halfCarry <=> Nibble(a) - Nibble(v) - d < 0
  BY DEF sbc, Result, Flags
<1>3. r.f \in FlagsRegister
  BY DEF sbc, Result, Flags, FlagsRegister
<1> HIDE DEF r, d
<1>4. r.val \in Byte
  BY <1>1, <1>2 DEF Byte
<1> QED
  BY <1>3, <1>1, <1>2, <1>4 DEF Subtracted, d, r

-----------------------------------------------------------------------------
(* DAA.                                                                     *)

LEMMA DecimalOf ==
  ASSUME NEW h \in 0 .. 9, NEW l \in 0 .. 9
  PROVE  /\ 16 * h + l \in Byte /\ IsBCD(16 * h + l)
         /\ Digits(16 * h + l) = 10 * h + l
<1>1. (16 * h + l) \div 16 = h /\ (16 * h + l) % 16 = l
  OBVIOUS
<1> QED
  BY <1>1 DEF Byte, IsBCD, Digits, High4, Nibble

\* What DAA does to A, by the flags of the operation before.
LEMMA DaaIs ==
  ASSUME NEW a \in Byte, NEW f \in FlagsRegister
  PROVE  \E high \in 0 .. 1, low \in 0 .. 1 :
           /\ high = 1 <=> f.carry \/ (~f.subtraction /\ a > 153)
           /\ low = 1 <=> f.halfCarry \/ (~f.subtraction /\ Nibble(a) > 9)
           /\ daa(a, f).val = (IF f.subtraction THEN a - (96 * high + 6 * low)
                                                ELSE a + (96 * high + 6 * low)) % 256
           /\ daa(a, f).f \in FlagsRegister
           /\ One(daa(a, f).f.carry) = high
<1>1. PICK high \in 0 .. 1 : high = 1 <=> f.carry \/ (~f.subtraction /\ a > 153)
  OBVIOUS
<1>2. PICK low \in 0 .. 1 : low = 1 <=> f.halfCarry \/ (~f.subtraction /\ Nibble(a) > 9)
  OBVIOUS
<1>3. daa(a, f).f.carry <=> high = 1
  BY <1>1 DEF daa, Result, Flags
<1>4. daa(a, f).f \in FlagsRegister
  BY DEF daa, Result, Flags, FlagsRegister
<1>5. daa(a, f).val = (IF f.subtraction THEN a - (96 * high + 6 * low)
                                        ELSE a + (96 * high + 6 * low)) % 256
  BY <1>1, <1>2 DEF daa, Result
<1>6. One(daa(a, f).f.carry) = high
  BY <1>3 DEF One
<1> QED
  BY <1>1, <1>2, <1>4, <1>5, <1>6

\* DAA after ADD or ADC of decimal numbers.
LEMMA DaaAfterAdd ==
  ASSUME NEW a \in Byte, NEW v \in Byte, NEW c \in 0 .. 1, IsBCD(a), IsBCD(v),
         NEW r \in Byte, NEW f \in FlagsRegister, Added(a, v, c, r, f)
  PROVE  LET d == daa(r, f)
         IN /\ d.val \in Byte /\ IsBCD(d.val) /\ d.f \in FlagsRegister
            /\ Digits(d.val) + 100 * One(d.f.carry) = Digits(a) + Digits(v) + c
<1>1. PICK x \in 0 .. 9, y \in 0 .. 9 : a = 16 * x + y /\ High4(a) = x /\ Nibble(a) = y
  BY ByteParts DEF IsBCD
<1>2. PICK z \in 0 .. 9, w \in 0 .. 9 : v = 16 * z + w /\ High4(v) = z /\ Nibble(v) = w
  BY ByteParts DEF IsBCD
<1>3. PICK t \in 0 .. 1 : t = 1 <=> y + w + c > 9
  OBVIOUS
<1>4. PICK u \in 0 .. 1 : u = 1 <=> x + z + t > 9
  OBVIOUS
<1> DEFINE s  == (16 * x + y) + (16 * z + w) + c
           dh == x + z + t - 10 * u
           dl == y + w + c - 10 * t
           d  == daa(r, f)
<1>5. /\ s \in 0 .. 511 /\ dh \in 0 .. 9 /\ dl \in 0 .. 9
      /\ s + (96 * u + 6 * t) = (16 * dh + dl) + 256 * u
      /\ u = 1 <=> s > 153
      /\ t = 1 <=> y + w + c > 15 \/ (s % 16) > 9
      /\ 10 * dh + dl + 100 * u = (10 * x + y) + (10 * z + w) + c
  <2>1. s \in 0 .. 511 /\ dh \in 0 .. 9 /\ dl \in 0 .. 9
    BY <1>3, <1>4
  <2>2. s + (96 * u + 6 * t) = (16 * dh + dl) + 256 * u
    BY <1>3, <1>4
  <2>3. u = 1 <=> s > 153
    BY <1>3, <1>4
  <2>4. t = 1 <=> y + w + c > 15 \/ (s % 16) > 9
    <3>1. CASE y + w + c > 15
      BY <3>1, <1>3
    <3>2. CASE y + w + c <= 15
      <4>1. s % 16 = y + w + c BY <3>2
      <4> QED BY <4>1, <3>2, <1>3
    <3> QED BY <3>1, <3>2
  <2>5. 10 * dh + dl + 100 * u = (10 * x + y) + (10 * z + w) + c
    BY <1>3, <1>4
  <2> QED BY <2>1, <2>2, <2>3, <2>4, <2>5
<1>6. /\ r = s % 256 /\ ~f.subtraction
      /\ f.carry <=> s > 255
      /\ f.halfCarry <=> y + w + c > 15
  BY <1>1, <1>2 DEF Added
<1> HIDE DEF s, dh, dl
<1>7. /\ Nibble(r) = s % 16
      /\ f.carry \/ r > 153 <=> s > 153
  BY <1>5, <1>6, ModuloNibble DEF Nibble
<1>8. /\ d.val = (r + (96 * u + 6 * t)) % 256
      /\ d.f \in FlagsRegister /\ One(d.f.carry) = u
  <2>1. PICK high \in 0 .. 1, low \in 0 .. 1 :
           /\ high = 1 <=> f.carry \/ (~f.subtraction /\ r > 153)
           /\ low = 1 <=> f.halfCarry \/ (~f.subtraction /\ Nibble(r) > 9)
           /\ d.val = (IF f.subtraction THEN r - (96 * high + 6 * low)
                                        ELSE r + (96 * high + 6 * low)) % 256
           /\ d.f \in FlagsRegister
           /\ One(d.f.carry) = high
    BY DaaIs
  <2>2. high = u /\ low = t
    BY <2>1, <1>5, <1>6, <1>7
  <2> QED BY <1>6, <2>1, <2>2
<1> HIDE DEF d
<1>9. d.val = 16 * dh + dl
  <2>1. PICK g \in Int : s = r + 256 * g
    BY <1>5, <1>6
  <2> DEFINE m == 16 * dh + dl
             i == u - g
             n == r + (96 * u + 6 * t)
  <2>2. m \in 0 .. 255 /\ i \in Int /\ n \in Int /\ n = m + 256 * i
    BY <1>5, <2>1 DEF Byte
  <2> HIDE DEF m, i, n
  <2>3. n % 256 = m
    BY <2>2, ModuloByte
  <2> QED BY <1>8, <2>3 DEF m, n
<1>10. /\ d.val \in Byte /\ IsBCD(d.val) /\ Digits(d.val) = 10 * dh + dl
  BY <1>5, <1>9, DecimalOf
<1>11. Digits(a) = 10 * x + y /\ Digits(v) = 10 * z + w
  BY <1>1, <1>2 DEF Digits
<1> QED
  BY <1>5, <1>8, <1>10, <1>11 DEF d

\* DAA after SUB or SBC of decimal numbers.
LEMMA DaaAfterSub ==
  ASSUME NEW a \in Byte, NEW v \in Byte, NEW c \in 0 .. 1, IsBCD(a), IsBCD(v),
         NEW r \in Byte, NEW f \in FlagsRegister, Subtracted(a, v, c, r, f)
  PROVE  LET d == daa(r, f)
         IN /\ d.val \in Byte /\ IsBCD(d.val) /\ d.f \in FlagsRegister
            /\ Digits(d.val) - 100 * One(d.f.carry) = Digits(a) - Digits(v) - c
<1>1. PICK x \in 0 .. 9, y \in 0 .. 9 : a = 16 * x + y /\ High4(a) = x /\ Nibble(a) = y
  BY ByteParts DEF IsBCD
<1>2. PICK z \in 0 .. 9, w \in 0 .. 9 : v = 16 * z + w /\ High4(v) = z /\ Nibble(v) = w
  BY ByteParts DEF IsBCD
<1> DEFINE s  == (16 * x + y) - (16 * z + w) - c
<1>3. PICK t \in 0 .. 1 : t = 1 <=> y - w - c < 0
  OBVIOUS
<1>4. PICK u \in 0 .. 1 : u = 1 <=> s < 0
  OBVIOUS
<1> DEFINE dh == x - z - t + 10 * u
           dl == y - w - c + 10 * t
           d  == daa(r, f)
<1>5. /\ s \in Int /\ dh \in 0 .. 9 /\ dl \in 0 .. 9
      /\ s + (0 - (96 * u + 6 * t)) = (16 * dh + dl) + 256 * (0 - u)
      /\ 10 * dh + dl - 100 * u = (10 * x + y) - (10 * z + w) - c
  <2>1. s \in Int /\ dh \in 0 .. 9 /\ dl \in 0 .. 9
    BY <1>3, <1>4
  <2>2. s + (0 - (96 * u + 6 * t)) = (16 * dh + dl) + 256 * (0 - u)
    BY <1>3, <1>4
  <2>3. 10 * dh + dl - 100 * u = (10 * x + y) - (10 * z + w) - c
    BY <1>3, <1>4
  <2> QED BY <2>1, <2>2, <2>3
<1>6. /\ r = s % 256 /\ f.subtraction
      /\ f.carry <=> u = 1
      /\ f.halfCarry <=> t = 1
  BY <1>1, <1>2, <1>3, <1>4 DEF Subtracted
<1> HIDE DEF s, dh, dl
<1>7. /\ d.val = (r - (96 * u + 6 * t)) % 256
      /\ d.f \in FlagsRegister /\ One(d.f.carry) = u
  <2>1. PICK high \in 0 .. 1, low \in 0 .. 1 :
           /\ high = 1 <=> f.carry \/ (~f.subtraction /\ r > 153)
           /\ low = 1 <=> f.halfCarry \/ (~f.subtraction /\ Nibble(r) > 9)
           /\ d.val = (IF f.subtraction THEN r - (96 * high + 6 * low)
                                        ELSE r + (96 * high + 6 * low)) % 256
           /\ d.f \in FlagsRegister
           /\ One(d.f.carry) = high
    BY DaaIs
  <2>2. high = u /\ low = t
    BY <2>1, <1>6
  <2> QED BY <1>6, <2>1, <2>2
<1> HIDE DEF d
<1>8. d.val = 16 * dh + dl
  <2>1. PICK g \in Int : s = r + 256 * g
    BY <1>5, <1>6
  <2> DEFINE m == 16 * dh + dl
             i == 0 - u - g
             n == r - (96 * u + 6 * t)
  <2>2. m \in 0 .. 255 /\ i \in Int /\ n \in Int /\ n = m + 256 * i
    BY <1>5, <2>1 DEF Byte
  <2> HIDE DEF m, i, n
  <2>3. n % 256 = m
    BY <2>2, ModuloByte
  <2> QED BY <1>7, <2>3 DEF m, n
<1>9. /\ d.val \in Byte /\ IsBCD(d.val) /\ Digits(d.val) = 10 * dh + dl
  BY <1>5, <1>8, DecimalOf
<1>10. Digits(a) = 10 * x + y /\ Digits(v) = 10 * z + w
  BY <1>1, <1>2 DEF Digits
<1> QED
  BY <1>5, <1>7, <1>9, <1>10 DEF d

-----------------------------------------------------------------------------
(* The numbers.                                                             *)

\* r, with the carry or borrow c, is the digit of a and v with i carried in:
\* a digit is a byte, or two decimal digits.
Done(op, decimal, a, v, i, r, c) ==
  LET digit(b) == IF decimal THEN Digits(b) ELSE b
      carried  == IF decimal THEN 100 * c ELSE 256 * c
  IN /\ decimal => IsBCD(r)
     /\ op = "add" => digit(r) + carried = digit(a) + digit(v) + i
     /\ op = "sub" => digit(r) - carried = digit(a) - digit(v) - i

\* r and f are what the ALU leaves of a and v with i carried in.
Operated(op, a, v, i, r, f) ==
  /\ op = "add" => Added(a, v, i, r, f)
  /\ op = "sub" => Subtracted(a, v, i, r, f)

\* c is the carry or borrow out of the bytes stored so far.
Stored(c) ==
  \/ Len(out) = 0 /\ c = 0
  \/ Len(out) = 1 /\ Done(kind, bcd, xs[1], ys[1], 0, out[1], c)
  \/ /\ Len(out) = 2
     /\ \E d \in 0 .. 1 : /\ Done(kind, bcd, xs[1], ys[1], 0, out[1], d)
                          /\ Done(kind, bcd, xs[2], ys[2], d, out[2], c)

\* The flags carry what the stored bytes leave over the instructions between
\* two bytes; between an operation and its store they and A hold its result.
IInv ==
  /\ TypeOK /\ out \in Seq(Byte)
  /\ bcd => \A i \in 1 .. 2 : IsBCD(xs[i]) /\ IsBCD(ys[i])
  /\ next = "adjust" => bcd
  /\ next = "compute" => Len(out) = 0 \/ Stored(One(F.carry))
  /\ next # "compute" =>
       /\ Len(out) < 2
       /\ \E c \in 0 .. 1 :
            /\ Stored(c)
            /\ next = "adjust" => Operated(kind, xs[k], ys[k], c, A, F)
            /\ next = "store" => Done(kind, bcd, xs[k], ys[k], c, A, One(F.carry))

LEMMA DigitValues ==
  ASSUME NEW b \in Byte
  PROVE  Digits(b) \in Int /\ b \in Int
<1>1. PICK x \in 0 .. 15, y \in 0 .. 15 : b = 16 * x + y /\ High4(b) = x /\ Nibble(b) = y
  BY ByteParts
<1> QED BY <1>1 DEF Digits, Byte

\* Without DAA the byte and the carry are already the result.
LEMMA BinaryDone ==
  ASSUME NEW op \in {"add", "sub"}, NEW a \in Byte, NEW v \in Byte, NEW i \in 0 .. 1,
         NEW r \in Byte, NEW f \in FlagsRegister, Operated(op, a, v, i, r, f)
  PROVE  Done(op, FALSE, a, v, i, r, One(f.carry))
<1>1. a \in 0 .. 255 /\ v \in 0 .. 255
  BY DEF Byte
<1>2. CASE op = "add"
  <2>1. r = (a + v + i) % 256 /\ (f.carry <=> a + v + i > 255)
    BY <1>2 DEF Operated, Added
  <2>2. r + 256 * One(f.carry) = a + v + i
    BY <1>1, <2>1 DEF One
  <2> QED BY <1>2, <2>2 DEF Done
<1>3. CASE op = "sub"
  <2>1. r = (a - v - i) % 256 /\ (f.carry <=> a - v - i < 0)
    BY <1>3 DEF Operated, Subtracted
  <2>2. r - 256 * One(f.carry) = a - v - i
    BY <1>1, <2>1 DEF One
  <2> QED BY <1>3, <2>2 DEF Done
<1> QED BY <1>2, <1>3

\* DAA makes the result of decimal operands decimal.
LEMMA DecimalDone ==
  ASSUME NEW op \in {"add", "sub"}, NEW a \in Byte, NEW v \in Byte, NEW i \in 0 .. 1,
         IsBCD(a), IsBCD(v),
         NEW r \in Byte, NEW f \in FlagsRegister, Operated(op, a, v, i, r, f)
  PROVE  LET d == daa(r, f)
         IN /\ d.val \in Byte /\ d.f \in FlagsRegister
            /\ Done(op, TRUE, a, v, i, d.val, One(d.f.carry))
<1> DEFINE d == daa(r, f)
<1>1. CASE op = "add"
  <2>1. /\ d.val \in Byte /\ IsBCD(d.val) /\ d.f \in FlagsRegister
        /\ Digits(d.val) + 100 * One(d.f.carry) = Digits(a) + Digits(v) + i
    BY <1>1, DaaAfterAdd DEF Operated
  <2> HIDE DEF d
  <2> QED BY <1>1, <2>1 DEF Done, d
<1>2. CASE op = "sub"
  <2>1. /\ d.val \in Byte /\ IsBCD(d.val) /\ d.f \in FlagsRegister
        /\ Digits(d.val) - 100 * One(d.f.carry) = Digits(a) - Digits(v) - i
    BY <1>2, DaaAfterSub DEF Operated
  <2> HIDE DEF d
  <2> QED BY <1>2, <2>1 DEF Done, d
<1> QED BY <1>1, <1>2

-----------------------------------------------------------------------------
(* The invariant.                                                           *)

LEMMA InitOK == Init => IInv
<1> SUFFICES ASSUME Init PROVE IInv
  OBVIOUS
<1>1. Operands \subseteq Byte
  BY OperandsAssumption
<1>2. F \in FlagsRegister /\ A \in Byte
  <2>1. \A b \in Byte : FlagsOf(b) \in FlagsRegister
    BY DEF FlagsOf, Flags, FlagsRegister
  <2>2. 0 \in Byte /\ 240 \in Byte
    BY DEF Byte
  <2>3. FlagsOf(0) \in FlagsRegister /\ FlagsOf(240) \in FlagsRegister
    BY <2>1, <2>2
  <2> QED BY <2>2, <2>3 DEF Init
<1>3. out = << >> /\ out \in Seq(Byte) /\ Len(out) = 0
  BY DEF Init
<1>4. xs \in Byte \X Byte /\ ys \in Byte \X Byte
  BY <1>1 DEF Init
<1>5. TypeOK
  BY <1>2, <1>3, <1>4 DEF Init, TypeOK
<1> QED
  BY <1>3, <1>5 DEF Init, IInv

\* The operation on one byte, with the carry or borrow of the last one.
LEMMA ComputedIs ==
  ASSUME IInv, next = "compute", k <= 2
  PROVE  \E c \in 0 .. 1 :
           /\ Stored(c)
           /\ Operated(kind, xs[k], ys[k], c, Computed.val, Computed.f)
           /\ Computed.val \in Byte /\ Computed.f \in FlagsRegister
<1>1. /\ kind \in {"add", "sub"} /\ F \in FlagsRegister /\ k \in 1 .. 2
      /\ xs[k] \in Byte /\ ys[k] \in Byte /\ Len(out) = k - 1
  BY DEF IInv, TypeOK, k
<1>2. CASE k = 1
  <2>1. Stored(0)
    BY <1>1, <1>2 DEF Stored
  <2>2. Operated(kind, xs[k], ys[k], 0, Computed.val, Computed.f)
        /\ Computed.val \in Byte /\ Computed.f \in FlagsRegister
    <3>1. CASE kind = "add"
      BY <1>1, <1>2, <3>1, AddIs DEF Computed, Operated
    <3>2. CASE kind = "sub"
      BY <1>1, <1>2, <3>2, SubIs DEF Computed, Operated
    <3> QED BY <1>1, <3>1, <3>2
  <2> QED BY <2>1, <2>2
<1>3. CASE k = 2
  <2>1. Stored(One(F.carry)) /\ One(F.carry) \in 0 .. 1
    BY <1>1, <1>3, OneOf DEF IInv
  <2>2. Operated(kind, xs[k], ys[k], One(F.carry), Computed.val, Computed.f)
        /\ Computed.val \in Byte /\ Computed.f \in FlagsRegister
    <3>1. CASE kind = "add"
      BY <1>1, <1>3, <3>1, AdcIs DEF Computed, Operated
    <3>2. CASE kind = "sub"
      BY <1>1, <1>3, <3>2, SbcIs DEF Computed, Operated
    <3> QED BY <1>1, <3>1, <3>2
  <2> QED BY <2>1, <2>2
<1> QED BY <1>1, <1>2, <1>3

LEMMA ComputeOK == IInv /\ Compute => IInv'
<1> SUFFICES ASSUME IInv, Compute PROVE IInv'
  OBVIOUS
<1>1. PICK c \in 0 .. 1 :
        /\ Stored(c)
        /\ Operated(kind, xs[k], ys[k], c, A', F')
        /\ A' \in Byte /\ F' \in FlagsRegister
  BY ComputedIs DEF Compute
<1>2. /\ kind \in {"add", "sub"} /\ bcd \in BOOLEAN /\ k \in 1 .. 2
      /\ xs[k] \in Byte /\ ys[k] \in Byte
  BY DEF IInv, TypeOK, k, Compute
<1>3. UNCHANGED <<kind, bcd, xs, ys, out, k>> /\ next' = IF bcd THEN "adjust" ELSE "store"
  BY DEF Compute, k
<1>4. TypeOK' /\ (out \in Seq(Byte))'
  BY <1>1, <1>2, <1>3 DEF IInv, TypeOK
<1>5. Stored(c)' /\ Len(out)' < 2
  BY <1>1, <1>2, <1>3 DEF Stored, k, IInv, TypeOK
<1>6. next' = "store" => Done(kind, bcd, xs[k], ys[k], c, A', One(F'.carry))
  BY <1>1, <1>2, <1>3, BinaryDone
<1> QED
  BY <1>1, <1>2, <1>3, <1>4, <1>5, <1>6 DEF IInv

LEMMA AdjustOK == IInv /\ Adjust => IInv'
<1> SUFFICES ASSUME IInv, Adjust PROVE IInv'
  OBVIOUS
<1>1. PICK c \in 0 .. 1 : Stored(c) /\ Operated(kind, xs[k], ys[k], c, A, F)
  BY DEF IInv, Adjust
<1>2. /\ kind \in {"add", "sub"} /\ bcd = TRUE /\ k \in 1 .. 2
      /\ xs[k] \in Byte /\ ys[k] \in Byte /\ IsBCD(xs[k]) /\ IsBCD(ys[k])
      /\ A \in Byte /\ F \in FlagsRegister
  BY DEF IInv, TypeOK, k, Adjust
<1>3. /\ UNCHANGED <<kind, bcd, xs, ys, out, k>> /\ next' = "store"
      /\ A' = daa(A, F).val /\ F' = daa(A, F).f
  BY DEF Adjust, k
<1>4. A' \in Byte /\ F' \in FlagsRegister
      /\ Done(kind, bcd, xs[k], ys[k], c, A', One(F'.carry))
  BY <1>1, <1>2, <1>3, DecimalDone
<1>5. TypeOK' /\ (out \in Seq(Byte))'
  BY <1>2, <1>3, <1>4 DEF IInv, TypeOK
<1>6. Stored(c)' /\ Len(out)' < 2
  <2>1. Len(out)' < 2
    BY <1>2, <1>3 DEF IInv, Adjust
  <2>2. Stored(c)'
    BY <1>1, <1>3 DEF Stored
  <2> QED BY <2>1, <2>2
<1> QED
  BY <1>2, <1>3, <1>4, <1>5, <1>6 DEF IInv

LEMMA KeepOK == IInv /\ Keep => IInv'
<1> SUFFICES ASSUME IInv, Keep PROVE IInv'
  OBVIOUS
<1>1. PICK c \in 0 .. 1 :
        Stored(c) /\ Done(kind, bcd, xs[k], ys[k], c, A, One(F.carry))
  BY DEF IInv, Keep
<1>2. UNCHANGED <<kind, bcd, xs, ys, A, F>> /\ next' = "compute" /\ out' = Append(out, A)
  BY DEF Keep
<1>3. Len(out) \in 0 .. 1 /\ out \in Seq(Byte) /\ A \in Byte
  BY DEF IInv, TypeOK, Keep
<1>4. /\ out' \in Seq(Byte) /\ Len(out') = k /\ out'[k] = A
      /\ \A i \in 1 .. Len(out) : out'[i] = out[i]
  BY <1>2, <1>3 DEF k
<1>5. TypeOK'
  BY <1>2, <1>3, <1>4 DEF IInv, TypeOK, k
<1>6. Stored(One(F.carry))'
  <2>1. CASE Len(out) = 0
    BY <1>1, <1>2, <1>4, <2>1 DEF Stored, k
  <2>2. CASE Len(out) = 1
    <3>1. Done(kind, bcd, xs[1], ys[1], 0, out'[1], c)
      BY <1>1, <1>4, <2>2 DEF Stored
    <3> QED
      BY <1>1, <1>2, <1>4, <2>2, <3>1 DEF Stored, k
  <2> QED BY <1>3, <2>1, <2>2
<1> QED
  BY <1>2, <1>4, <1>5, <1>6 DEF IInv

LEMMA Inductive == IInv /\ [Next]_vars => IInv'
<1> SUFFICES ASSUME IInv, [Next]_vars PROVE IInv'
  OBVIOUS
<1>1. CASE UNCHANGED vars
  BY <1>1 DEF IInv, TypeOK, Stored, k, vars
<1> QED
  BY <1>1, ComputeOK, AdjustOK, KeepOK DEF Next

LEMMA Invariant == Spec => []IInv
BY InitOK, Inductive, PTL DEF Spec

-----------------------------------------------------------------------------
(* Theorems.                                                                *)

\* The registers stay bytes and flags whatever the operands.
THEOREM TypeCorrect == Spec => []TypeOK
<1>1. IInv => TypeOK
  BY DEF IInv
<1> QED
  BY <1>1, Invariant, PTL

\* Two-byte numbers, binary or BCD, are added and subtracted right by the
\* carry, the half carry and DAA, for every operand.
THEOREM ResultAlwaysCorrect == Spec => []ResultCorrect
<1>1. IInv => ResultCorrect
  <2> SUFFICES ASSUME IInv, Len(out) = 2 PROVE ResultCorrect!2
    BY DEF ResultCorrect
  <2>1. /\ kind \in {"add", "sub"} /\ bcd \in BOOLEAN /\ F \in FlagsRegister
        /\ xs[1] \in Byte /\ xs[2] \in Byte /\ ys[1] \in Byte /\ ys[2] \in Byte
        /\ out[1] \in Byte /\ out[2] \in Byte
    BY DEF IInv, TypeOK
  <2>2. Stored(One(F.carry))
    BY DEF IInv, TypeOK
  <2>3. PICK d \in 0 .. 1 :
          /\ Done(kind, bcd, xs[1], ys[1], 0, out[1], d)
          /\ Done(kind, bcd, xs[2], ys[2], d, out[2], One(F.carry))
    BY <2>2 DEF Stored
  <2>4. One(F.carry) \in 0 .. 1
    BY <2>1, OneOf
  <2>5. bcd => IsBCD(out[1]) /\ IsBCD(out[2])
    BY <2>3 DEF Done
  <2>6. Value(out) = IF kind = "add"
                       THEN Value(xs) + Value(ys) - One(F.carry) * Size
                       ELSE Value(xs) - Value(ys) + One(F.carry) * Size
    <3>1. CASE bcd
      <4>1. \A b \in Byte : Digits(b) \in Int
        BY DigitValues
      <4> QED BY <2>1, <2>3, <2>4, <3>1, <4>1 DEF Done, Value, Size
    <3>2. CASE ~bcd
      <4>1. \A b \in Byte : b \in Int
        BY DEF Byte
      <4> QED BY <2>1, <2>3, <2>4, <3>2, <4>1 DEF Done, Value, Size, Join
    <3> QED BY <3>1, <3>2
  <2> QED BY <2>5, <2>6
<1> QED
  BY <1>1, Invariant, PTL
=============================================================================
