------------------------------- MODULE Bytes -------------------------------
(* The integer types of the emulator (uint8_t, uint16_t, int8_t) and the    *)
(* operations its instructions use on them: joining two bytes to a word,    *)
(* sign, single bits and the bitwise operators.                             *)
EXTENDS Integers

Byte == 0 .. 255
Word == 0 .. 65535

High(w)    == w \div 256
Low(w)     == w % 256
Nibble(v)  == v % 16
High4(v)   == v \div 16
Join(h, l) == h * 256 + l

\* (int8_t)b
Signed(b) == IF b < 128 THEN b ELSE b - 256

\* Bit i of v, for the bits of a byte and its carry.
Pow2      == <<1, 2, 4, 8, 16, 32, 64, 128, 256>>
Bit(v, i) == (v \div Pow2[i + 1]) % 2

\* The byte with the bits b[0] .. b[7].
OfBits(b) == b[0] + 2 * b[1] + 4 * b[2] + 8 * b[3]
             + 16 * b[4] + 32 * b[5] + 64 * b[6] + 128 * b[7]

And(v, w) == OfBits([i \in 0 .. 7 |-> Bit(v, i) * Bit(w, i)])
Or(v, w)  == OfBits([i \in 0 .. 7 |-> IF Bit(v, i) + Bit(w, i) > 0 THEN 1 ELSE 0])
Xor(v, w) == OfBits([i \in 0 .. 7 |-> (Bit(v, i) + Bit(w, i)) % 2])
=============================================================================
