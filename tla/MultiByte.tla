----------------------------- MODULE MultiByte -----------------------------
(* What the ALU's carry and half carry are for: programs add and subtract   *)
(* numbers of two bytes, binary or BCD, with ADD/ADC or SUB/SBC from the    *)
(* low byte up, and for BCD a DAA after each.  Other instructions may come  *)
(* between two of these as long as they keep A and the flags.               *)
EXTENDS ALU, Sequences

CONSTANT Operands       (* the bytes the numbers are made of                *)
ASSUME OperandsAssumption == Operands \subseteq Byte

VARIABLES
  kind,       (* "add" or "sub"                                             *)
  bcd,        (* whether DAA is used                                        *)
  xs, ys,     (* the numbers, low byte first                                *)
  A,          (* register A                                                 *)
  F,          (* the flags                                                  *)
  out,        (* the bytes of the result stored so far                      *)
  next        (* the next instruction                                       *)

vars == <<kind, bcd, xs, ys, A, F, out, next>>

IsBCD(b) == High4(b) < 10 /\ Nibble(b) < 10

Init ==
  /\ kind \in {"add", "sub"}
  /\ bcd \in BOOLEAN
  /\ xs \in Operands \X Operands /\ ys \in Operands \X Operands
  /\ bcd => \A i \in 1 .. 2 : IsBCD(xs[i]) /\ IsBCD(ys[i])
  /\ A = 0
  /\ F \in {FlagsOf(0), FlagsOf(240)}
  /\ out = << >>
  /\ next = "compute"

k == Len(out) + 1

\* LD A,x  followed by  ADD A,y  ADC A,y  SUB y  or  SBC A,y.
Computed ==
  CASE kind = "add" /\ k = 1 -> add(xs[k], ys[k])
    [] kind = "add" /\ k = 2 -> adc(xs[k], ys[k], F)
    [] kind = "sub" /\ k = 1 -> sub(xs[k], ys[k])
    [] kind = "sub" /\ k = 2 -> sbc(xs[k], ys[k], F)

Compute ==
  /\ next = "compute" /\ k <= 2
  /\ A' = Computed.val /\ F' = Computed.f
  /\ next' = IF bcd THEN "adjust" ELSE "store"
  /\ UNCHANGED <<kind, bcd, xs, ys, out>>

Adjust ==
  /\ next = "adjust"
  /\ A' = daa(A, F).val /\ F' = daa(A, F).f
  /\ next' = "store"
  /\ UNCHANGED <<kind, bcd, xs, ys, out>>

\* LD (nn),A keeps the flags.
Keep ==
  /\ next = "store"
  /\ out' = Append(out, A)
  /\ next' = "compute"
  /\ UNCHANGED <<kind, bcd, xs, ys, A, F>>

Next == Compute \/ Adjust \/ Keep
Spec == Init /\ [][Next]_vars

-----------------------------------------------------------------------------
(* Properties                                                               *)

Digits(b) == 10 * High4(b) + Nibble(b)
Value(s)  == IF bcd THEN Digits(s[1]) + 100 * Digits(s[2]) ELSE Join(s[2], s[1])
Size      == IF bcd THEN 10000 ELSE 65536

TypeOK ==
  /\ kind \in {"add", "sub"} /\ bcd \in BOOLEAN
  /\ xs \in Byte \X Byte /\ ys \in Byte \X Byte
  /\ A \in Byte /\ F \in FlagsRegister
  /\ Len(out) \in 0 .. 2 /\ \A i \in 1 .. Len(out) : out[i] \in Byte
  /\ next \in {"compute", "adjust", "store"}

\* The result and the carry are the sum, or the difference and the borrow,
\* of the two numbers; a BCD result has only decimal digits.
ResultCorrect ==
  Len(out) = 2 =>
    /\ bcd => IsBCD(out[1]) /\ IsBCD(out[2])
    /\ Value(out) = IF kind = "add"
                      THEN Value(xs) + Value(ys) - One(F.carry) * Size
                      ELSE Value(xs) - Value(ys) + One(F.carry) * Size
=============================================================================
