-------------------------------- MODULE ALU --------------------------------
(* The arithmetic of src/cpu.cpp on one byte: what add(), adc(), sub(), ... *)
(* leave in their register and in the flags.  Every operator returns the    *)
(* record [val, f] of the two; f is the FlagsRegister of src/registers.h.   *)
(* An operator Op_Xyz is a faulty variant of Op, used to test the           *)
(* properties.                                                              *)
EXTENDS Bytes

FlagsRegister == [zero : BOOLEAN, subtraction : BOOLEAN,
                  halfCarry : BOOLEAN, carry : BOOLEAN]

Flags(z, n, h, c) ==
  [zero |-> z, subtraction |-> n, halfCarry |-> h, carry |-> c]

One(b) == IF b THEN 1 ELSE 0

\* FlagsRegister::getValue and setValue: the low four bits read as zero.
FlagByte(f) == 128 * One(f.zero) + 64 * One(f.subtraction)
               + 32 * One(f.halfCarry) + 16 * One(f.carry)
FlagsOf(b)  == Flags(Bit(b, 7) = 1, Bit(b, 6) = 1, Bit(b, 5) = 1, Bit(b, 4) = 1)

Result(v, z, n, h, c) == [val |-> v, f |-> Flags(z, n, h, c)]

-----------------------------------------------------------------------------
(* Register A with an operand v.                                            *)

add(a, v) ==
  LET n == a + v
  IN Result(n % 256, n % 256 = 0, FALSE, Bit(Nibble(a) + Nibble(v), 4) = 1, n > 255)

adc_NoCarryIn(a, v, f) == add(a, v)
adc(a, v, f) ==
  LET n == a + v + One(f.carry)
  IN Result(n % 256, n % 256 = 0, FALSE,
            (Bit(a, 4) + Bit(v, 4) + Bit(n, 4)) % 2 = 1, Bit(n, 8) = 1)

cp(a, v) == Result(a, a = v, TRUE, Nibble(a) < Nibble(v), a < v)

sub_NoWrap(a, v) == [cp(a, v) EXCEPT !.val = a - v]
sub(a, v) == [cp(a, v) EXCEPT !.val = (a - v) % 256]

sbc_CarryAsSub(a, v, f) ==
  LET c == One(f.carry)
      r == (a - v - c) % 256
  IN Result(r, r = 0, TRUE, Nibble(a) - Nibble(v) - c < 0, a < v)
sbc(a, v, f) ==
  LET c == One(f.carry)
      r == (a - v - c) % 256
  IN Result(r, r = 0, TRUE, Nibble(a) - Nibble(v) - c < 0, a < v + c)

and_(a, v) == Result(And(a, v), And(a, v) = 0, FALSE, TRUE, FALSE)
xor_(a, v) == Result(Xor(a, v), Xor(a, v) = 0, FALSE, FALSE, FALSE)
or_(a, v)  == Result(Or(a, v), Or(a, v) = 0, FALSE, FALSE, FALSE)

\* DAA: A and the flags corrected after a BCD addition or subtraction.
daa_NoHalf(a, f) ==
  LET high == f.carry \/ (~f.subtraction /\ a > 153)
      low  == ~f.subtraction /\ Nibble(a) > 9
      fix  == (IF high THEN 96 ELSE 0) + (IF low THEN 6 ELSE 0)
      r    == (IF f.subtraction THEN a - fix ELSE a + fix) % 256
  IN Result(r, r = 0, f.subtraction, FALSE, high)
daa(a, f) ==
  LET high == f.carry \/ (~f.subtraction /\ a > 153)
      low  == f.halfCarry \/ (~f.subtraction /\ Nibble(a) > 9)
      fix  == (IF high THEN 96 ELSE 0) + (IF low THEN 6 ELSE 0)
      r    == (IF f.subtraction THEN a - fix ELSE a + fix) % 256
  IN Result(r, r = 0, f.subtraction, FALSE, high)

cpl(a, f) == [val |-> 255 - a, f |-> [f EXCEPT !.subtraction = TRUE, !.halfCarry = TRUE]]

-----------------------------------------------------------------------------
(* One register or memory byte v.                                           *)

Shifted(v, c) == Result(v, v = 0, FALSE, FALSE, c = 1)

rlc(v)   == Shifted(Low(2 * v) + Bit(v, 7), Bit(v, 7))
rrc(v)   == Shifted(v \div 2 + 128 * Bit(v, 0), Bit(v, 0))
rl(v, f) == Shifted(Low(2 * v) + One(f.carry), Bit(v, 7))
rr_CarryLost(v, f) == Shifted(v \div 2, Bit(v, 0))
rr(v, f) == Shifted(v \div 2 + 128 * One(f.carry), Bit(v, 0))
sla(v)   == Shifted(Low(2 * v), Bit(v, 7))
sra(v)   == Shifted(v \div 2 + 128 * Bit(v, 7), Bit(v, 0))
swap(v)  == Shifted(Low(16 * v) + v \div 16, 0)
srl(v)   == Shifted(v \div 2, Bit(v, 0))

inc(v, f) == LET r == (v + 1) % 256
             IN Result(r, r = 0, FALSE, Nibble(v) = 15, f.carry)
dec_HalfOfOld(v, f) == LET r == (v - 1) % 256
                       IN Result(r, r = 0, TRUE, Nibble(v) = 15, f.carry)
dec(v, f) == LET r == (v - 1) % 256
             IN Result(r, r = 0, TRUE, Nibble(r) = 15, f.carry)

\* bit() only sets flags; RES and SET only change the byte.
bit(v, b, f) == Flags(Bit(v, b) = 0, FALSE, TRUE, f.carry)
res(v, b)    == v - Pow2[b + 1] * Bit(v, b)
set(v, b)    == v + Pow2[b + 1] * (1 - Bit(v, b))

-----------------------------------------------------------------------------
(* Words.                                                                   *)

addCompoundRegisters(a, b, f) ==
  [val |-> (a + b) % 65536,
   f   |-> [f EXCEPT !.subtraction = FALSE, !.carry = a + b > 65535,
                     !.halfCarry = (a % 4096) + (b % 4096) > 4095]]

\* ADD SP,s8 and LD HL,SP+s8: the flags are those of an unsigned addition of
\* the low bytes.
AddSigned(sp, b) ==
  Result((sp + Signed(b)) % 65536, FALSE, FALSE,
         Nibble(sp) + Nibble(b) > 15, Low(sp) + b > 255)
=============================================================================
