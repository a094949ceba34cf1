-------------------------- MODULE CPUTest_proofs --------------------------
(* Proofs about the instruction tester: the processor and the reference     *)
(* agree on every program and input, and the cycles are those of the table. *)
(* The instructions are taken one by one; what both do to a state is kept   *)
(* in Alike and Sim, what they do to their logs in OneLog and TwoLog.       *)
EXTENDS CPU_proofs

-----------------------------------------------------------------------------
(* The two processors side by side.                                         *)

\* The registers of the two but for the program counters, and the same in the
\* middle of an instruction, when the reference has its counter at p already.
Alike(c, s) ==
  /\ s.BC = Join(c.B, c.C) /\ s.DE = Join(c.D, c.E) /\ s.HL = Join(c.H, c.L)
  /\ s.AF = Join(c.A, FlagByte(c.F)) /\ s.sp = c.SP
  /\ s.halted = c.halted /\ s.interrupts_master_enabled = c.IME
Sim(c, s, p) == Derived(c) /\ c.PC = cpu.PC /\ s \in GbState /\ Alike(c, s) /\ s.pc = p

LEMMA SimPc ==
  ASSUME NEW c, NEW s, NEW p, Sim(c, s, p), NEW w \in Word
  PROVE  Sim(c, [s EXCEPT !.pc = w], w)
<1> DEFINE t == [s EXCEPT !.pc = w]
<1>1. s \in GbState
  BY DEF Sim
<1>2. t \in GbState
  BY <1>1, Zenon DEF GbState
<1>3. /\ t.pc = w /\ t.BC = s.BC /\ t.DE = s.DE /\ t.HL = s.HL /\ t.AF = s.AF /\ t.sp = s.sp
      /\ t.halted = s.halted /\ t.interrupts_master_enabled = s.interrupts_master_enabled
  BY <1>1, Zenon DEF GbState
<1> HIDE DEF t
<1>4. Sim(c, t, w)
  BY <1>2, <1>3 DEF Sim, Alike
<1> QED
  BY <1>4, Zenon DEF t

LEMMA SimSkip ==
  ASSUME NEW c, NEW s, NEW p \in Word, Sim(c, s, p), NEW k \in Int
  PROVE  Sim(c, Ref!Skip(s, k), (p + k) % 65536)
<1> DEFINE w == (p + k) % 65536
<1>1. w \in Word
  BY WordIs, Wrapped
<1>2. Ref!Skip(s, k) = [s EXCEPT !.pc = w]
  BY DEF Sim, Ref!Skip, Ref!Inc16
<1> HIDE DEF w
<1>3. Sim(c, [s EXCEPT !.pc = w], w)
  BY <1>1, SimPc, Zenon
<1> QED
  BY <1>2, <1>3 DEF w

LEMMA SimJump ==
  ASSUME NEW c, NEW s, NEW p, Sim(c, s, p), NEW w \in Word
  PROVE  Sim(c, Ref!Jump(s, w), w)
BY SimPc, Zenon DEF Ref!Jump

\* A register of the processor and its half of a pair.
LEMMA SimA ==
  ASSUME NEW c, NEW s, NEW p, Sim(c, s, p), NEW a \in Byte, NEW f \in FlagsRegister
  PROVE  Sim([c EXCEPT !.A = a, !.F = f], [s EXCEPT !.AF = Join(a, FlagByte(f))], p)
<1> DEFINE d == [c EXCEPT !.A = a, !.F = f]
           w == Join(a, FlagByte(f))
           t == [s EXCEPT !.AF = w]
<1>1. s \in GbState /\ c \in CPUState
  BY DEF Sim, Derived
<1>2. w \in Word
  BY Joined, FlagByteTyped
<1>3. Derived(d)
  BY Zenon DEF Derived, CPUState, Sim
<1>4. /\ d.A = a /\ d.F = f /\ d.B = c.B /\ d.C = c.C /\ d.D = c.D /\ d.E = c.E /\ d.H = c.H
      /\ d.L = c.L /\ d.SP = c.SP /\ d.PC = c.PC /\ d.halted = c.halted /\ d.IME = c.IME
  BY <1>1, Zenon DEF CPUState
<1> HIDE DEF d, w
<1>5. t \in GbState
  BY <1>1, <1>2, Zenon DEF GbState
<1>6. /\ t.AF = w /\ t.BC = s.BC /\ t.DE = s.DE /\ t.HL = s.HL /\ t.pc = s.pc /\ t.sp = s.sp
      /\ t.halted = s.halted /\ t.interrupts_master_enabled = s.interrupts_master_enabled
  BY <1>1, Zenon DEF GbState
<1> HIDE DEF t
<1>7. Sim(d, t, p)
  BY <1>3, <1>4, <1>5, <1>6 DEF Sim, Alike, w
<1> QED
  BY <1>7, Zenon DEF d, t, w

LEMMA SimBC ==
  ASSUME NEW c, NEW s, NEW p, Sim(c, s, p), NEW h \in Byte, NEW l \in Byte
  PROVE  Sim([c EXCEPT !.B = h, !.C = l], [s EXCEPT !.BC = Join(h, l)], p)
<1> DEFINE d == [c EXCEPT !.B = h, !.C = l]
           w == Join(h, l)
           t == [s EXCEPT !.BC = w]
<1>1. s \in GbState /\ c \in CPUState
  BY DEF Sim, Derived
<1>2. w \in Word
  BY Joined
<1>3. Derived(d)
  BY Zenon DEF Derived, CPUState, Sim
<1>4. /\ d.B = h /\ d.C = l /\ d.D = c.D /\ d.E = c.E /\ d.H = c.H /\ d.L = c.L /\ d.A = c.A
      /\ d.F = c.F /\ d.SP = c.SP /\ d.PC = c.PC /\ d.halted = c.halted /\ d.IME = c.IME
  BY <1>1, Zenon DEF CPUState
<1> HIDE DEF d, w
<1>5. t \in GbState
  BY <1>1, <1>2, Zenon DEF GbState
<1>6. /\ t.BC = w /\ t.DE = s.DE /\ t.HL = s.HL /\ t.AF = s.AF /\ t.pc = s.pc /\ t.sp = s.sp
      /\ t.halted = s.halted /\ t.interrupts_master_enabled = s.interrupts_master_enabled
  BY <1>1, Zenon DEF GbState
<1> HIDE DEF t
<1>7. Sim(d, t, p)
  BY <1>3, <1>4, <1>5, <1>6 DEF Sim, Alike, w
<1> QED
  BY <1>7, Zenon DEF d, t, w

LEMMA SimDE ==
  ASSUME NEW c, NEW s, NEW p, Sim(c, s, p), NEW h \in Byte, NEW l \in Byte
  PROVE  Sim([c EXCEPT !.D = h, !.E = l], [s EXCEPT !.DE = Join(h, l)], p)
<1> DEFINE d == [c EXCEPT !.D = h, !.E = l]
           w == Join(h, l)
           t == [s EXCEPT !.DE = w]
<1>1. s \in GbState /\ c \in CPUState
  BY DEF Sim, Derived
<1>2. w \in Word
  BY Joined
<1>3. Derived(d)
  BY Zenon DEF Derived, CPUState, Sim
<1>4. /\ d.D = h /\ d.E = l /\ d.B = c.B /\ d.C = c.C /\ d.H = c.H /\ d.L = c.L /\ d.A = c.A
      /\ d.F = c.F /\ d.SP = c.SP /\ d.PC = c.PC /\ d.halted = c.halted /\ d.IME = c.IME
  BY <1>1, Zenon DEF CPUState
<1> HIDE DEF d, w
<1>5. t \in GbState
  BY <1>1, <1>2, Zenon DEF GbState
<1>6. /\ t.DE = w /\ t.BC = s.BC /\ t.HL = s.HL /\ t.AF = s.AF /\ t.pc = s.pc /\ t.sp = s.sp
      /\ t.halted = s.halted /\ t.interrupts_master_enabled = s.interrupts_master_enabled
  BY <1>1, Zenon DEF GbState
<1> HIDE DEF t
<1>7. Sim(d, t, p)
  BY <1>3, <1>4, <1>5, <1>6 DEF Sim, Alike, w
<1> QED
  BY <1>7, Zenon DEF d, t, w

LEMMA SimHL ==
  ASSUME NEW c, NEW s, NEW p, Sim(c, s, p), NEW h \in Byte, NEW l \in Byte
  PROVE  Sim([c EXCEPT !.H = h, !.L = l], [s EXCEPT !.HL = Join(h, l)], p)
<1> DEFINE d == [c EXCEPT !.H = h, !.L = l]
           w == Join(h, l)
           t == [s EXCEPT !.HL = w]
<1>1. s \in GbState /\ c \in CPUState
  BY DEF Sim, Derived
<1>2. w \in Word
  BY Joined
<1>3. Derived(d)
  BY Zenon DEF Derived, CPUState, Sim
<1>4. /\ d.H = h /\ d.L = l /\ d.B = c.B /\ d.C = c.C /\ d.D = c.D /\ d.E = c.E /\ d.A = c.A
      /\ d.F = c.F /\ d.SP = c.SP /\ d.PC = c.PC /\ d.halted = c.halted /\ d.IME = c.IME
  BY <1>1, Zenon DEF CPUState
<1> HIDE DEF d, w
<1>5. t \in GbState
  BY <1>1, <1>2, Zenon DEF GbState
<1>6. /\ t.HL = w /\ t.BC = s.BC /\ t.DE = s.DE /\ t.AF = s.AF /\ t.pc = s.pc /\ t.sp = s.sp
      /\ t.halted = s.halted /\ t.interrupts_master_enabled = s.interrupts_master_enabled
  BY <1>1, Zenon DEF GbState
<1> HIDE DEF t
<1>7. Sim(d, t, p)
  BY <1>3, <1>4, <1>5, <1>6 DEF Sim, Alike, w
<1> QED
  BY <1>7, Zenon DEF d, t, w

LEMMA SimSp ==
  ASSUME NEW c, NEW s, NEW p, Sim(c, s, p), NEW w \in Word
  PROVE  Sim([c EXCEPT !.SP = w], [s EXCEPT !.sp = w], p)
<1> DEFINE d == [c EXCEPT !.SP = w]
           t == [s EXCEPT !.sp = w]
<1>1. s \in GbState /\ c \in CPUState
  BY DEF Sim, Derived
<1>2. Derived(d)
  BY Zenon DEF Derived, CPUState, Sim
<1>3. /\ d.B = c.B /\ d.C = c.C /\ d.D = c.D /\ d.E = c.E /\ d.H = c.H /\ d.L = c.L /\ d.A = c.A
      /\ d.F = c.F /\ d.SP = w /\ d.PC = c.PC /\ d.halted = c.halted /\ d.IME = c.IME
  BY <1>1, Zenon DEF CPUState
<1>4. t \in GbState
  BY <1>1, Zenon DEF GbState
<1>5. /\ t.BC = s.BC /\ t.DE = s.DE /\ t.HL = s.HL /\ t.AF = s.AF /\ t.pc = s.pc /\ t.sp = w
      /\ t.halted = s.halted /\ t.interrupts_master_enabled = s.interrupts_master_enabled
  BY <1>1, Zenon DEF GbState
<1> HIDE DEF d, t
<1>6. Sim(d, t, p)
  BY <1>2, <1>3, <1>4, <1>5 DEF Sim, Alike
<1> QED
  BY <1>6, Zenon DEF d, t

LEMMA SimSwitches ==
  ASSUME NEW c, NEW s, NEW p, Sim(c, s, p), NEW b \in BOOLEAN
  PROVE  /\ Sim([c EXCEPT !.halted = b], [s EXCEPT !.halted = b], p)
         /\ Sim([c EXCEPT !.IME = b], [s EXCEPT !.interrupts_master_enabled = b], p)
<1>1. s \in GbState /\ c \in CPUState
  BY DEF Sim, Derived
<1>2. Sim([c EXCEPT !.halted = b], [s EXCEPT !.halted = b], p)
  <2> DEFINE d == [c EXCEPT !.halted = b]
             t == [s EXCEPT !.halted = b]
  <2>1. Derived(d) /\ t \in GbState
    BY <1>1, Zenon DEF Derived, CPUState, GbState, Sim
  <2>2. /\ d.B = c.B /\ d.C = c.C /\ d.D = c.D /\ d.E = c.E /\ d.H = c.H /\ d.L = c.L /\ d.A = c.A
        /\ d.F = c.F /\ d.SP = c.SP /\ d.PC = c.PC /\ d.halted = b /\ d.IME = c.IME
    BY <1>1, Zenon DEF CPUState
  <2>3. /\ t.BC = s.BC /\ t.DE = s.DE /\ t.HL = s.HL /\ t.AF = s.AF /\ t.pc = s.pc /\ t.sp = s.sp
        /\ t.halted = b /\ t.interrupts_master_enabled = s.interrupts_master_enabled
    BY <1>1, Zenon DEF GbState
  <2> HIDE DEF d, t
  <2>4. Sim(d, t, p)
    BY <2>1, <2>2, <2>3, Zenon DEF Sim, Alike
  <2> QED
    BY <2>4, Zenon DEF d, t
<1>3. Sim([c EXCEPT !.IME = b], [s EXCEPT !.interrupts_master_enabled = b], p)
  <2> DEFINE d == [c EXCEPT !.IME = b]
             t == [s EXCEPT !.interrupts_master_enabled = b]
  <2>1. Derived(d) /\ t \in GbState
    BY <1>1, Zenon DEF Derived, CPUState, GbState, Sim
  <2>2. /\ d.B = c.B /\ d.C = c.C /\ d.D = c.D /\ d.E = c.E /\ d.H = c.H /\ d.L = c.L /\ d.A = c.A
        /\ d.F = c.F /\ d.SP = c.SP /\ d.PC = c.PC /\ d.halted = c.halted /\ d.IME = b
    BY <1>1, Zenon DEF CPUState
  <2>3. /\ t.BC = s.BC /\ t.DE = s.DE /\ t.HL = s.HL /\ t.AF = s.AF /\ t.pc = s.pc /\ t.sp = s.sp
        /\ t.halted = s.halted /\ t.interrupts_master_enabled = b
    BY <1>1, Zenon DEF GbState
  <2> HIDE DEF d, t
  <2>4. Sim(d, t, p)
    BY <2>1, <2>2, <2>3, Zenon DEF Sim, Alike
  <2> QED
    BY <2>4, Zenon DEF d, t
<1> QED
  BY <1>2, <1>3

\* What Sim says of the parts of the two states.
LEMMA SimParts ==
  ASSUME NEW c, NEW s, NEW p, Sim(c, s, p)
  PROVE  /\ Derived(c) /\ s \in GbState /\ s.pc = p /\ c.PC = cpu.PC
         /\ s.BC = Join(c.B, c.C) /\ s.DE = Join(c.D, c.E) /\ s.HL = HL(c) /\ s.sp = c.SP
         /\ s.AF = Join(c.A, FlagByte(c.F))
         /\ High(s.BC) = c.B /\ Low(s.BC) = c.C /\ High(s.DE) = c.D /\ Low(s.DE) = c.E
         /\ High(s.HL) = c.H /\ Low(s.HL) = c.L
         /\ High(s.AF) = c.A /\ Low(s.AF) = FlagByte(c.F)
<1>1. Derived(c) /\ s \in GbState /\ s.pc = p /\ c.PC = cpu.PC
  BY DEF Sim
<1>2. /\ s.BC = Join(c.B, c.C) /\ s.DE = Join(c.D, c.E) /\ s.HL = HL(c) /\ s.sp = c.SP
      /\ s.AF = Join(c.A, FlagByte(c.F))
  BY DEF Sim, Alike, HL
<1>3. FlagByte(c.F) \in Byte
  BY <1>1, Fields, FlagByteTyped
<1> QED
  BY <1>1, <1>2, <1>3, Fields, Joined DEF HL

\* Put8 and set8, and REG8 and get8, name the same register.
LEMMA SimPut8 ==
  ASSUME NEW c, NEW s, NEW p, Sim(c, s, p), NEW i \in 0 .. 7, NEW v \in Byte
  PROVE  Sim(set8(c, i, v), Ref!Put8(s, i, v), p)
<1>0. /\ c \in CPUState /\ c.B \in Byte /\ c.C \in Byte /\ c.D \in Byte /\ c.E \in Byte
      /\ c.H \in Byte /\ c.L \in Byte /\ c.F \in FlagsRegister
  BY SimParts, Fields DEF Derived
<1>1. ASSUME i = 0 PROVE Sim(set8(c, i, v), Ref!Put8(s, i, v), p)
  <2>1. set8(c, i, v) = [c EXCEPT !.B = v]
    BY <1>1 DEF set8, Reg8
  <2>2. [c EXCEPT !.B = v] = [c EXCEPT !.B = v, !.C = c.C]
    BY <1>0, Zenon DEF CPUState
  <2>3. Ref!Put8(s, i, v) = [s EXCEPT !.BC = Join(v, Low(s.BC))]
    <3>1. Ref!Pair(i) = "BC" /\ Ref!IsHigh(i) /\ i # 6
      BY <1>1 DEF Ref!Pair, Ref!IsHigh
    <3> QED
      BY <3>1, SameHalves, SameJoin, Zenon DEF Ref!Put8
  <2>4. Sim([c EXCEPT !.B = v, !.C = c.C], [s EXCEPT !.BC = Join(v, c.C)], p)
    BY <1>0, SimBC, Zenon
  <2> QED
    BY <2>1, <2>2, <2>3, <2>4, SimParts, Zenon
<1>2. ASSUME i = 1 PROVE Sim(set8(c, i, v), Ref!Put8(s, i, v), p)
  <2>1. set8(c, i, v) = [c EXCEPT !.C = v]
    BY <1>2 DEF set8, Reg8
  <2>2. [c EXCEPT !.C = v] = [c EXCEPT !.B = c.B, !.C = v]
    BY <1>0, Zenon DEF CPUState
  <2>3. Ref!Put8(s, i, v) = [s EXCEPT !.BC = Join(High(s.BC), v)]
    <3>1. Ref!Pair(i) = "BC" /\ ~Ref!IsHigh(i) /\ i # 6
      BY <1>2 DEF Ref!Pair, Ref!IsHigh
    <3> QED
      BY <3>1, SameHalves, SameJoin, Zenon DEF Ref!Put8
  <2>4. Sim([c EXCEPT !.B = c.B, !.C = v], [s EXCEPT !.BC = Join(c.B, v)], p)
    BY <1>0, SimBC, Zenon
  <2> QED
    BY <2>1, <2>2, <2>3, <2>4, SimParts, Zenon
<1>3. ASSUME i = 2 PROVE Sim(set8(c, i, v), Ref!Put8(s, i, v), p)
  <2>1. set8(c, i, v) = [c EXCEPT !.D = v]
    BY <1>3 DEF set8, Reg8
  <2>2. [c EXCEPT !.D = v] = [c EXCEPT !.D = v, !.E = c.E]
    BY <1>0, Zenon DEF CPUState
  <2>3. Ref!Put8(s, i, v) = [s EXCEPT !.DE = Join(v, Low(s.DE))]
    <3>1. Ref!Pair(i) = "DE" /\ Ref!IsHigh(i) /\ i # 6
      BY <1>3 DEF Ref!Pair, Ref!IsHigh
    <3> QED
      BY <3>1, SameHalves, SameJoin, Zenon DEF Ref!Put8
  <2>4. Sim([c EXCEPT !.D = v, !.E = c.E], [s EXCEPT !.DE = Join(v, c.E)], p)
    BY <1>0, SimDE, Zenon
  <2> QED
    BY <2>1, <2>2, <2>3, <2>4, SimParts, Zenon
<1>4. ASSUME i = 3 PROVE Sim(set8(c, i, v), Ref!Put8(s, i, v), p)
  <2>1. set8(c, i, v) = [c EXCEPT !.E = v]
    BY <1>4 DEF set8, Reg8
  <2>2. [c EXCEPT !.E = v] = [c EXCEPT !.D = c.D, !.E = v]
    BY <1>0, Zenon DEF CPUState
  <2>3. Ref!Put8(s, i, v) = [s EXCEPT !.DE = Join(High(s.DE), v)]
    <3>1. Ref!Pair(i) = "DE" /\ ~Ref!IsHigh(i) /\ i # 6
      BY <1>4 DEF Ref!Pair, Ref!IsHigh
    <3> QED
      BY <3>1, SameHalves, SameJoin, Zenon DEF Ref!Put8
  <2>4. Sim([c EXCEPT !.D = c.D, !.E = v], [s EXCEPT !.DE = Join(c.D, v)], p)
    BY <1>0, SimDE, Zenon
  <2> QED
    BY <2>1, <2>2, <2>3, <2>4, SimParts, Zenon
<1>5. ASSUME i = 4 PROVE Sim(set8(c, i, v), Ref!Put8(s, i, v), p)
  <2>1. set8(c, i, v) = [c EXCEPT !.H = v]
    BY <1>5 DEF set8, Reg8
  <2>2. [c EXCEPT !.H = v] = [c EXCEPT !.H = v, !.L = c.L]
    BY <1>0, Zenon DEF CPUState
  <2>3. Ref!Put8(s, i, v) = [s EXCEPT !.HL = Join(v, Low(s.HL))]
    <3>1. Ref!Pair(i) = "HL" /\ Ref!IsHigh(i) /\ i # 6
      BY <1>5 DEF Ref!Pair, Ref!IsHigh
    <3> QED
      BY <3>1, SameHalves, SameJoin, Zenon DEF Ref!Put8
  <2>4. Sim([c EXCEPT !.H = v, !.L = c.L], [s EXCEPT !.HL = Join(v, c.L)], p)
    BY <1>0, SimHL, Zenon
  <2> QED
    BY <2>1, <2>2, <2>3, <2>4, SimParts, Zenon
<1>6. ASSUME i = 5 PROVE Sim(set8(c, i, v), Ref!Put8(s, i, v), p)
  <2>1. set8(c, i, v) = [c EXCEPT !.L = v]
    BY <1>6 DEF set8, Reg8
  <2>2. [c EXCEPT !.L = v] = [c EXCEPT !.H = c.H, !.L = v]
    BY <1>0, Zenon DEF CPUState
  <2>3. Ref!Put8(s, i, v) = [s EXCEPT !.HL = Join(High(s.HL), v)]
    <3>1. Ref!Pair(i) = "HL" /\ ~Ref!IsHigh(i) /\ i # 6
      BY <1>6 DEF Ref!Pair, Ref!IsHigh
    <3> QED
      BY <3>1, SameHalves, SameJoin, Zenon DEF Ref!Put8
  <2>4. Sim([c EXCEPT !.H = c.H, !.L = v], [s EXCEPT !.HL = Join(c.H, v)], p)
    BY <1>0, SimHL, Zenon
  <2> QED
    BY <2>1, <2>2, <2>3, <2>4, SimParts, Zenon
<1>7. ASSUME i = 7 PROVE Sim(set8(c, i, v), Ref!Put8(s, i, v), p)
  <2>1. set8(c, i, v) = [c EXCEPT !.A = v]
    BY <1>7 DEF set8, Reg8
  <2>2. [c EXCEPT !.A = v] = [c EXCEPT !.A = v, !.F = c.F]
    BY <1>0, Zenon DEF CPUState
  <2>3. Ref!Put8(s, i, v) = [s EXCEPT !.AF = Join(v, Low(s.AF))]
    <3>1. Ref!Pair(i) = "AF" /\ Ref!IsHigh(i) /\ i # 6
      BY <1>7 DEF Ref!Pair, Ref!IsHigh
    <3> QED
      BY <3>1, SameHalves, SameJoin, Zenon DEF Ref!Put8
  <2>4. Sim([c EXCEPT !.A = v, !.F = c.F], [s EXCEPT !.AF = Join(v, FlagByte(c.F))], p)
    BY <1>0, SimA, Zenon
  <2> QED
    BY <2>1, <2>2, <2>3, <2>4, SimParts, Zenon
<1>8. ASSUME i = 6 PROVE Sim(set8(c, i, v), Ref!Put8(s, i, v), p)
  <2>1. set8(c, i, v) = c
    BY <1>8 DEF set8
  <2> DEFINE h == [s EXCEPT ![Ref!Pair(i)] = Join(v, Low(s[Ref!Pair(i)]))]
             l == [s EXCEPT ![Ref!Pair(i)] = Join(High(s[Ref!Pair(i)]), v)]
  <2>2. Ref!Put8(s, i, v) = CASE i = 6 -> s [] Ref!IsHigh(i) -> h [] OTHER -> l
    BY SameHalves, SameJoin, Zenon DEF Ref!Put8
  <2> HIDE DEF h, l
  <2>3. Ref!Put8(s, i, v) = s
    BY <1>8, <2>2 DEF Ref!IsHigh
  <2> QED
    BY <2>1, <2>3
<1> QED
  BY <1>1, <1>2, <1>3, <1>4, <1>5, <1>6, <1>7, <1>8

\* The two read the same memory, each in its way.
Programmed == MEM_SIZE \in Nat /\ memory \in [0 .. MEM_SIZE - 1 -> Byte]

LEMMA ProgramTyped == Programmed => Fetches /\ MemoryTyped
BY DEF Programmed, Fetches, MemoryTyped

LEMMA SameReads ==
  ASSUME Programmed, NEW a \in Word
  PROVE  Ref!mmu_read(a) = readByte(a) /\ Ref!mmu_read16(a) = readWord(a)
<1>1. \A b \in Word : Ref!mmu_read(b) = readByte(b)
  BY WordIs DEF Ref!mmu_read, readByte, Programmed
<1>2. Next16(a) \in Word /\ Ref!Inc16(a, 1) = Next16(a)
  BY WordIs, Wrapped DEF Next16, Ref!Inc16
<1>3. readByte(a) \in Byte /\ readByte(Next16(a)) \in Byte
  BY ProgramTyped, Reads
<1>4. Ref!mmu_read16(a) = readByte(a) + 256 * readByte(Next16(a))
  BY <1>1, <1>2, Zenon DEF Ref!mmu_read16
<1>5. readWord(a) = readByte(Next16(a)) * 256 + readByte(a)
  BY Zenon DEF readWord, Join
<1> QED
  BY <1>1, <1>3, <1>4, <1>5, ByteIs

LEMMA SimGet8 ==
  ASSUME Programmed, NEW c, NEW s, NEW p, Sim(c, s, p), NEW i \in 0 .. 7
  PROVE  Ref!REG8(s, i) = get8(c, i)
<1> DEFINE m == Ref!mmu_read(s.HL)
           h == High(s[Ref!Pair(i)])
           l == Low(s[Ref!Pair(i)])
<1>1. Ref!REG8(s, i) = CASE i = 6 -> m [] Ref!IsHigh(i) -> h [] OTHER -> l
  BY SameHalves, Zenon DEF Ref!REG8
<1>2. s.HL \in Word /\ s.HL = HL(c)
  BY SimParts, RefFields
<1>3. m = readByte(HL(c))
  BY <1>2, SameReads
<1>4. /\ i = 0 => Ref!Pair(i) = "BC"
      /\ i = 1 => Ref!Pair(i) = "BC"
      /\ i = 2 => Ref!Pair(i) = "DE"
      /\ i = 3 => Ref!Pair(i) = "DE"
      /\ i = 4 => Ref!Pair(i) = "HL"
      /\ i = 5 => Ref!Pair(i) = "HL"
      /\ i = 7 => Ref!Pair(i) = "AF"
  BY DEF Ref!Pair
<1>5. /\ i = 0 => h = c.B
      /\ i = 1 => l = c.C
      /\ i = 2 => h = c.D
      /\ i = 3 => l = c.E
      /\ i = 4 => h = c.H
      /\ i = 5 => l = c.L
      /\ i = 7 => h = c.A
  BY <1>4, SimParts
<1> HIDE DEF m, h, l
<1>6. Ref!IsHigh(i) <=> i \in {0, 2, 4, 7}
  BY DEF Ref!IsHigh
<1>7. /\ i = 6 => Ref!REG8(s, i) = m
      /\ i \in {0, 2, 4, 7} => Ref!REG8(s, i) = h
      /\ i \in {1, 3, 5} => Ref!REG8(s, i) = l
  BY <1>1, <1>6
<1> QED
  BY <1>3, <1>5, <1>7 DEF get8, Reg8

\* The state before an instruction, in which both decode the same.
Aligned == Programmed /\ Sim(cpu, ref, cpu.PC)

LEMMA AlignedParts ==
  ASSUME Aligned
  PROVE  /\ Programmed /\ Fetches /\ MemoryTyped /\ Sim(cpu, ref, cpu.PC)
         /\ cpu \in CPUState /\ ref \in GbState /\ cpu.PC \in Word
BY ProgramTyped, SimParts, Fields DEF Aligned, Derived

LEMMA Nexts ==
  ASSUME NEW w \in Word
  PROVE  Next16(w) \in Word /\ Next16(w) = (w + 1) % 65536 /\ Next16(w) = Ref!Inc16(w, 1)
BY WordIs, Wrapped DEF Next16, Ref!Inc16

LEMMA SameParts ==
  ASSUME Aligned
  PROVE  /\ Ref!opcode = op /\ Ref!r3 = y /\ Ref!r0 = z /\ Ref!rp = rr_
         /\ Ref!IMM8 = d8 /\ Ref!IMM16 = d16 /\ Ref!cb = d8 /\ Ref!cb3 = bitOf
         /\ Sim(cpu, Ref!s1, Next16(cpu.PC))
<1>1. cpu.PC \in Word /\ ref.pc = cpu.PC
  BY AlignedParts, SimParts
<1>2. Ref!opcode = op
  BY <1>1, AlignedParts, SameReads DEF Ref!opcode, op
<1>3. Sim(cpu, Ref!s1, Next16(cpu.PC))
  <2>1. Ref!s1 = Ref!Skip(ref, 1)
    BY Zenon DEF Ref!s1, Ref!Skip
  <2>2. Sim(cpu, Ref!Skip(ref, 1), (cpu.PC + 1) % 65536)
    BY <1>1, SimSkip, AlignedParts
  <2> QED
    BY <1>1, <2>1, <2>2, Nexts
<1>4. Ref!s1.pc = Next16(cpu.PC) /\ Next16(cpu.PC) \in Word
  BY <1>1, <1>3, SimParts, Nexts
<1>5. Ref!IMM8 = d8 /\ Ref!IMM16 = d16
  BY <1>4, AlignedParts, SameReads DEF Ref!IMM8, Ref!IMM16, d8, d16
<1> QED
  BY <1>2, <1>3, <1>5 DEF Ref!r3, y, Ref!r0, z, Ref!rp, rr_, Ref!cb, Ref!cb3, bitOf

\* After an instruction, as mycpu_get_state and rcpu_get_state see it.
Matching == Alike(cpu, ref) /\ ref.pc = cpu.PC /\ ref \in GbState

LEMMA SimGoto ==
  ASSUME NEW c, NEW s, NEW p \in Word, Sim(c, s, p), NEW n, ref' = s,
         Goto(c, p, n)
  PROVE  Matching'
<1>1. c \in CPUState /\ Alike(c, s) /\ s.pc = p /\ s \in GbState
  BY DEF Sim, Derived
<1>2. /\ cpu'.B = c.B /\ cpu'.C = c.C /\ cpu'.D = c.D /\ cpu'.E = c.E /\ cpu'.H = c.H
      /\ cpu'.L = c.L /\ cpu'.A = c.A /\ cpu'.F = c.F /\ cpu'.SP = c.SP /\ cpu'.PC = p
      /\ cpu'.halted = c.halted /\ cpu'.IME = c.IME
  BY <1>1, Zenon DEF CPUState, Goto
<1> QED
  BY <1>1, <1>2 DEF Matching, Alike

LEMMA SimFinish ==
  ASSUME NEW c, NEW s, NEW p, Sim(c, s, p), NEW len \in Int, NEW n,
         Finish(c, len, n), ref' = s, cpu.PC \in Word, p = (cpu.PC + len) % 65536
  PROVE  Matching'
<1>1. cpu' = [c EXCEPT !.PC = (c.PC + len) % 65536, !.cycles = n] /\ c.PC = cpu.PC
  BY SimParts DEF Finish
<1>2. p \in Word
  BY WordIs, Wrapped
<1>3. Goto(c, p, n)
  BY <1>1 DEF Goto
<1> QED
  BY <1>2, <1>3, SimGoto

\* The flags: those that SetFlags leaves alone are zero.
LEMMA NibbleOfFlags ==
  ASSUME NEW c, NEW s, NEW p, Sim(c, s, p)
  PROVE  Nibble(s.AF) = 0
<1>1. s.AF = Join(c.A, FlagByte(c.F)) /\ c.A \in Byte /\ c.F \in FlagsRegister
  BY SimParts, Fields
<1>2. /\ One(c.F.zero) \in 0 .. 1 /\ One(c.F.subtraction) \in 0 .. 1
      /\ One(c.F.halfCarry) \in 0 .. 1 /\ One(c.F.carry) \in 0 .. 1
  BY <1>1 DEF FlagsRegister, One
<1> QED
  BY <1>1, <1>2, ByteIs DEF Nibble, Join, FlagByte

LEMMA SimFlags ==
  ASSUME NEW c, NEW s, NEW p, Sim(c, s, p), NEW f \in FlagsRegister, NEW zf, f.zero = zf
  PROVE  Sim([c EXCEPT !.F = f],
             Ref!SetFlags(s, zf, One(f.subtraction), One(f.halfCarry), One(f.carry)), p)
<1> DEFINE b == 128 * One(f.zero) + 64 * One(f.subtraction) + 32 * One(f.halfCarry)
                + 16 * One(f.carry) + Nibble(s.AF)
<1>0. c \in CPUState /\ c.A \in Byte /\ High(s.AF) = c.A
  BY SimParts, Fields DEF Derived
<1>1. Ref!SetFlags(s, zf, One(f.subtraction), One(f.halfCarry), One(f.carry))
        = [s EXCEPT !.AF = Join(High(s.AF), b)]
  <2>1. Ref!B2N(f.zero) = One(f.zero)
    BY Zenon DEF Ref!B2N, One
  <2> QED
    BY <2>1, SameHalves, SameJoin, Zenon DEF Ref!SetFlags
<1>2. b = FlagByte(f)
  <2>1. Nibble(s.AF) = 0
    BY NibbleOfFlags
  <2>2. FlagByte(f) \in Byte
    BY FlagByteTyped
  <2> QED
    BY <2>1, <2>2, ByteIs DEF FlagByte
<1> HIDE DEF b
<1>3. [c EXCEPT !.F = f] = [c EXCEPT !.A = c.A, !.F = f]
  BY <1>0, Zenon DEF CPUState
<1>4. Sim([c EXCEPT !.A = c.A, !.F = f], [s EXCEPT !.AF = Join(c.A, FlagByte(f))], p)
  BY <1>0, SimA, Zenon
<1> QED
  BY <1>0, <1>1, <1>2, <1>3, <1>4, Zenon

LEMMA SimAF ==
  ASSUME NEW c, NEW s, NEW p, Sim(c, s, p), NEW a \in Byte, NEW f \in FlagsRegister
  PROVE  /\ Sim([c EXCEPT !.A = a, !.F = f],
                Ref!SetA(Ref!SetFlags(s, f.zero, One(f.subtraction), One(f.halfCarry),
                                      One(f.carry)), a), p)
         /\ Sim([c EXCEPT !.A = a, !.F = f], Ref!SetF(Ref!SetA(s, a), FlagByte(f)), p)
<1> DEFINE d == [c EXCEPT !.F = f]
           t == Ref!SetFlags(s, f.zero, One(f.subtraction), One(f.halfCarry), One(f.carry))
<1>0. c \in CPUState /\ 7 \in 0 .. 7
  BY SimParts DEF Derived
<1>1. Sim(d, t, p)
  BY SimFlags
<1>2. set8(d, 7, a) = [c EXCEPT !.A = a, !.F = f]
  <2>1. set8(d, 7, a) = [d EXCEPT !.A = a]
    <3> HIDE DEF d
    <3> QED
      BY DEF set8, Reg8
  <2>2. [d EXCEPT !.A = a] = [c EXCEPT !.A = a, !.F = f]
    BY <1>0, Zenon DEF CPUState
  <2> QED
    BY <2>1, <2>2, Zenon
<1> HIDE DEF d, t
<1>3. Sim(set8(d, 7, a), Ref!Put8(t, 7, a), p)
  BY <1>0, <1>1, SimPut8, Zenon
<1>4. Sim([c EXCEPT !.A = a, !.F = f], Ref!SetA(t, a), p)
  BY <1>2, <1>3, Zenon DEF Ref!SetA
<1>5. Sim([c EXCEPT !.A = a, !.F = f], Ref!SetF(Ref!SetA(s, a), FlagByte(f)), p)
  <2>1. Sim(set8(c, 7, a), Ref!SetA(s, a), p)
    BY <1>0, SimPut8, Zenon DEF Ref!SetA
  <2>2. set8(c, 7, a) = [c EXCEPT !.A = a]
    BY DEF set8, Reg8
  <2> DEFINE e == [c EXCEPT !.A = a]
             u == Ref!SetA(s, a)
  <2>3. Sim(e, u, p)
    BY <2>1, <2>2, Zenon
  <2>4. e.A = a
    BY <1>0, Zenon DEF CPUState
  <2>5. [e EXCEPT !.A = a, !.F = f] = [c EXCEPT !.A = a, !.F = f]
    BY <1>0, Zenon DEF CPUState
  <2> HIDE DEF e, u
  <2>6. High(u.AF) = a
    BY <2>3, <2>4, SimParts
  <2>7. Ref!SetF(u, FlagByte(f)) = [u EXCEPT !.AF = Join(a, FlagByte(f))]
    BY <2>6, SameHalves, SameJoin, Zenon DEF Ref!SetF
  <2>8. Sim([e EXCEPT !.A = a, !.F = f], [u EXCEPT !.AF = Join(a, FlagByte(f))], p)
    BY <2>3, SimA, Zenon
  <2> QED
    BY <2>5, <2>7, <2>8, Zenon DEF u
<1> QED
  BY <1>4, <1>5, Zenon DEF t

\* The 16-bit registers by the index of an opcode, and those of PUSH and POP.
LEMMA SimPairs ==
  ASSUME NEW c, NEW s, NEW p, Sim(c, s, p), NEW i \in 0 .. 3, NEW w \in Word
  PROVE  /\ Sim(set16(c, i, w), [s EXCEPT ![Ref!Reg16[i + 1]] = w], p)
         /\ s[Ref!Reg16[i + 1]] = get16(c, i)
         /\ s[Ref!Reg16s[i + 1]] = getStack(c, i)
<1>1. High(w) \in Byte /\ Low(w) \in Byte /\ Join(High(w), Low(w)) = w
  BY Halves
<1>2. ASSUME i = 0
      PROVE  /\ Sim(set16(c, i, w), [s EXCEPT ![Ref!Reg16[i + 1]] = w], p)
             /\ s[Ref!Reg16[i + 1]] = get16(c, i) /\ s[Ref!Reg16s[i + 1]] = getStack(c, i)
  <2>1. /\ Ref!Reg16[i + 1] = "BC" /\ Ref!Reg16s[i + 1] = "BC"
        /\ set16(c, i, w) = [c EXCEPT !.B = High(w), !.C = Low(w)]
        /\ get16(c, i) = Join(c.B, c.C) /\ getStack(c, i) = Join(c.B, c.C)
    BY <1>2 DEF set16, get16, getStack, Ref!Reg16, Ref!Reg16s
  <2>2. Sim([c EXCEPT !.B = High(w), !.C = Low(w)], [s EXCEPT !.BC = w], p)
    BY <1>1, SimBC, Zenon
  <2>3. Sim(set16(c, i, w), [s EXCEPT ![Ref!Reg16[i + 1]] = w], p)
    BY <1>1, <2>1, <2>2, Zenon
  <2> QED
    BY <2>1, <2>3, SimParts
<1>3. ASSUME i = 1
      PROVE  /\ Sim(set16(c, i, w), [s EXCEPT ![Ref!Reg16[i + 1]] = w], p)
             /\ s[Ref!Reg16[i + 1]] = get16(c, i) /\ s[Ref!Reg16s[i + 1]] = getStack(c, i)
  <2>1. /\ Ref!Reg16[i + 1] = "DE" /\ Ref!Reg16s[i + 1] = "DE"
        /\ set16(c, i, w) = [c EXCEPT !.D = High(w), !.E = Low(w)]
        /\ get16(c, i) = Join(c.D, c.E) /\ getStack(c, i) = Join(c.D, c.E)
    BY <1>3 DEF set16, get16, getStack, Ref!Reg16, Ref!Reg16s
  <2>2. Sim([c EXCEPT !.D = High(w), !.E = Low(w)], [s EXCEPT !.DE = w], p)
    BY <1>1, SimDE, Zenon
  <2>3. Sim(set16(c, i, w), [s EXCEPT ![Ref!Reg16[i + 1]] = w], p)
    BY <1>1, <2>1, <2>2, Zenon
  <2> QED
    BY <2>1, <2>3, SimParts
<1>4. ASSUME i = 2
      PROVE  /\ Sim(set16(c, i, w), [s EXCEPT ![Ref!Reg16[i + 1]] = w], p)
             /\ s[Ref!Reg16[i + 1]] = get16(c, i) /\ s[Ref!Reg16s[i + 1]] = getStack(c, i)
  <2>1. /\ Ref!Reg16[i + 1] = "HL" /\ Ref!Reg16s[i + 1] = "HL"
        /\ set16(c, i, w) = [c EXCEPT !.H = High(w), !.L = Low(w)]
        /\ get16(c, i) = HL(c) /\ getStack(c, i) = HL(c)
    BY <1>4 DEF set16, get16, getStack, Ref!Reg16, Ref!Reg16s
  <2>2. Sim([c EXCEPT !.H = High(w), !.L = Low(w)], [s EXCEPT !.HL = w], p)
    BY <1>1, SimHL, Zenon
  <2>3. Sim(set16(c, i, w), [s EXCEPT ![Ref!Reg16[i + 1]] = w], p)
    BY <1>1, <2>1, <2>2, Zenon
  <2> QED
    BY <2>1, <2>3, SimParts
<1>5. ASSUME i = 3
      PROVE  /\ Sim(set16(c, i, w), [s EXCEPT ![Ref!Reg16[i + 1]] = w], p)
             /\ s[Ref!Reg16[i + 1]] = get16(c, i) /\ s[Ref!Reg16s[i + 1]] = getStack(c, i)
  <2>1. /\ Ref!Reg16[i + 1] = "sp" /\ Ref!Reg16s[i + 1] = "AF"
        /\ set16(c, i, w) = [c EXCEPT !.SP = w]
        /\ get16(c, i) = c.SP /\ getStack(c, i) = Join(c.A, FlagByte(c.F))
    BY <1>5 DEF set16, get16, getStack, Ref!Reg16, Ref!Reg16s
  <2>2. Sim([c EXCEPT !.SP = w], [s EXCEPT !.sp = w], p)
    BY SimSp, Zenon
  <2>3. Sim(set16(c, i, w), [s EXCEPT ![Ref!Reg16[i + 1]] = w], p)
    BY <1>1, <2>1, <2>2, Zenon
  <2> QED
    BY <2>1, <2>3, SimParts
<1> QED
  BY <1>2, <1>3, <1>4, <1>5

-----------------------------------------------------------------------------
(* The logs of stores.                                                      *)

LEMMA SortedShort ==
  ASSUME NEW x, NEW v, x[1] \in Int, v[1] \in Int, x[1] < v[1]
  PROVE  /\ Sorted(<<x>>) = <<x>>
         /\ Sorted(<<x, v>>) = <<x, v>> /\ Sorted(<<v, x>>) = <<x, v>>
<1> DEFINE Orders(log) == {p \in Bijection(DOMAIN log, DOMAIN log) :
                             \A i, j \in DOMAIN log : i < j => log[p[i]][1] <= log[p[j]][1]}
           chosen(log) == CHOOSE p \in Bijection(DOMAIN log, DOMAIN log) :
                            \A i, j \in DOMAIN log : i < j => log[p[i]][1] <= log[p[j]][1]
<1>1. \A log : Sorted(log) = [i \in DOMAIN log |-> log[chosen(log)[i]]]
  BY Zenon DEF Sorted
<1>2. \A log : Orders(log) # {} => chosen(log) \in Orders(log)
  <2> TAKE log
  <2> HAVE Orders(log) # {}
  <2>1. PICK p : p \in Orders(log)
    OBVIOUS
  <2> QED
    BY <2>1, Zenon
<1> HIDE DEF chosen
<1>3. Sorted(<<x>>) = <<x>>
  <2> DEFINE s == <<x>>
             q == [i \in {1} |-> i]
  <2>1. DOMAIN s = {1}
    OBVIOUS
  <2>2. q \in Orders(s)
    <3>1. q[1] = 1 /\ q \in [{1} -> {1}]
      OBVIOUS
    <3> HIDE DEF q, s
    <3>2. (\A i, j \in {1} : q[i] = q[j] => i = j) /\ (\A j \in {1} : \E i \in {1} : q[i] = j)
      BY <3>1
    <3>3. q \in Bijection({1}, {1})
      BY <3>1, <3>2, Zenon DEF Bijection, Injection, Surjection, IsInjective
    <3> QED
      BY <2>1, <3>1, <3>3
  <2>3. chosen(s) \in [{1} -> {1}]
    <3>1. chosen(s) \in Orders(s)
      BY <1>2, <2>2
    <3> QED
      BY <2>1, <3>1 DEF Bijection, Injection
  <2>4. Sorted(s) = [i \in {1} |-> s[chosen(s)[i]]]
    BY <1>1, <2>1
  <2> QED
    BY <2>3, <2>4
<1>4. ASSUME NEW s, DOMAIN s = {1, 2}, NEW q \in Orders(s)
      PROVE  /\ chosen(s) \in [{1, 2} -> {1, 2}] /\ chosen(s)[1] # chosen(s)[2]
             /\ s[chosen(s)[1]][1] <= s[chosen(s)[2]][1]
             /\ Sorted(s) = [i \in {1, 2} |-> s[chosen(s)[i]]]
  <2>1. chosen(s) \in Orders(s)
    BY <1>2, <1>4
  <2> QED
    BY <1>1, <1>4, <2>1 DEF Bijection, Injection, IsInjective
<1>5. Sorted(<<x, v>>) = <<x, v>>
  <2> DEFINE s == <<x, v>>
             q == [i \in {1, 2} |-> i]
  <2>1. DOMAIN s = {1, 2} /\ s[1] = x /\ s[2] = v
    OBVIOUS
  <2> HIDE DEF s
  <2>2. q \in Orders(s)
    <3>1. q[1] = 1 /\ q[2] = 2 /\ q \in [{1, 2} -> {1, 2}]
      OBVIOUS
    <3> HIDE DEF q
    <3>2. /\ \A i, j \in {1, 2} : q[i] = q[j] => i = j
          /\ \A j \in {1, 2} : \E i \in {1, 2} : q[i] = j
      BY <3>1
    <3>3. q \in Bijection({1, 2}, {1, 2})
      BY <3>1, <3>2, Zenon DEF Bijection, Injection, Surjection, IsInjective
    <3>4. \A i, j \in DOMAIN s : i < j => s[q[i]][1] <= s[q[j]][1]
      BY <2>1, <3>1
    <3> QED
      BY <2>1, <3>3, <3>4
  <2>3. /\ chosen(s)[1] \in {1, 2} /\ chosen(s)[2] \in {1, 2} /\ chosen(s)[1] # chosen(s)[2]
        /\ s[chosen(s)[1]][1] <= s[chosen(s)[2]][1]
        /\ Sorted(s) = [i \in {1, 2} |-> s[chosen(s)[i]]]
    BY <1>4, <2>1, <2>2
  <2>4. chosen(s)[1] = 1 /\ chosen(s)[2] = 2
    BY <2>1, <2>3
  <2> QED
    BY <2>1, <2>3, <2>4 DEF s
<1>6. Sorted(<<v, x>>) = <<x, v>>
  <2> DEFINE s == <<v, x>>
             q == [i \in {1, 2} |-> 3 - i]
  <2>1. DOMAIN s = {1, 2} /\ s[1] = v /\ s[2] = x
    OBVIOUS
  <2> HIDE DEF s
  <2>2. q \in Orders(s)
    <3>1. q[1] = 2 /\ q[2] = 1 /\ q \in [{1, 2} -> {1, 2}]
      OBVIOUS
    <3> HIDE DEF q
    <3>2. /\ \A i, j \in {1, 2} : q[i] = q[j] => i = j
          /\ \A j \in {1, 2} : \E i \in {1, 2} : q[i] = j
      BY <3>1
    <3>3. q \in Bijection({1, 2}, {1, 2})
      BY <3>1, <3>2, Zenon DEF Bijection, Injection, Surjection, IsInjective
    <3>4. \A i, j \in DOMAIN s : i < j => s[q[i]][1] <= s[q[j]][1]
      BY <2>1, <3>1
    <3> QED
      BY <2>1, <3>3, <3>4
  <2>3. /\ chosen(s)[1] \in {1, 2} /\ chosen(s)[2] \in {1, 2} /\ chosen(s)[1] # chosen(s)[2]
        /\ s[chosen(s)[1]][1] <= s[chosen(s)[2]][1]
        /\ Sorted(s) = [i \in {1, 2} |-> s[chosen(s)[i]]]
    BY <1>4, <2>1, <2>2
  <2>4. chosen(s)[1] = 2 /\ chosen(s)[2] = 1
    BY <2>1, <2>3
  <2> QED
    BY <2>1, <2>3, <2>4 DEF s
<1> QED
  BY <1>3, <1>5, <1>6

\* What an instruction leaves in the two logs.
OneLog(a, v) == accesses = << <<a, Stored(a, v)>> >> /\ refAccesses = << <<a, v>> >>
TwoLog(a, l, h) ==
  /\ accesses = << <<Next16(a), IF a = DIV /\ memory[0] = 8 THEN 0 ELSE Stored(Next16(a), h)>>,
                   <<a, Stored(a, l)>> >>
  /\ refAccesses = << <<a, l>>, <<Next16(a), h>> >>
SameLogs ==
  \/ accesses = << >> /\ refAccesses = << >>
  \/ \E a \in Word, v \in Byte : OneLog(a, v)
  \/ \E a \in Word, l \in Byte, h \in Byte : TwoLog(a, l, h)

\* What AgreesWithReference says of the two logs.
LogsAgree ==
  /\ Sorted(accesses) = Sorted(Expected)
  /\ states_mem_accesses_eq(accesses, refAccesses)
       <=> ~ \E v \in 1 .. 255 : /\ <<DIV, v>> \in Range(refAccesses)
                                 /\ DIV = Sorted(refAccesses)[1][1]

LEMMA DivIs == DIV \in Word /\ DIV \in Int /\ Next16(DIV) # DIV
BY WordIs DEF DIV, Next16

LEMMA EmptyLogs == accesses = << >> /\ refAccesses = << >> => LogsAgree
<1> SUFFICES ASSUME accesses = << >>, refAccesses = << >>
             PROVE  LogsAgree
  OBVIOUS
<1>1. Expected = << >>
  BY DEF Expected
<1>2. Range(refAccesses) = {}
  BY DEF Range
<1>3. states_mem_accesses_eq(accesses, refAccesses)
  BY Zenon DEF states_mem_accesses_eq
<1>4. Sorted(accesses) = Sorted(Expected)
  BY <1>1, Zenon
<1> QED
  BY <1>2, <1>3, <1>4, Zenon DEF LogsAgree

LEMMA OneLogAgrees ==
  ASSUME NEW a \in Word, NEW v \in Byte, OneLog(a, v)
  PROVE  LogsAgree
<1> DEFINE e == <<a, Stored(a, v)>>
           r == <<a, v>>
<1>1. accesses = <<e>> /\ refAccesses = <<r>>
  BY DEF OneLog
<1>2. a \in Int /\ v \in Int /\ Stored(a, v) = IF a = DIV THEN 0 ELSE v
  BY WordIs, ByteIs DEF Stored
<1>3. e[1] = a /\ r[1] = a /\ r[2] = v /\ e[2] = Stored(a, v)
  OBVIOUS
<1>4. Expected = <<e>>
  <2>1. DOMAIN refAccesses = {1} /\ refAccesses[1] = r
    BY <1>1
  <2>2. Cleared(1) <=> a = DIV
    BY <1>3, <2>1 DEF Cleared
  <2>3. Expected = [i \in {1} |-> IF Cleared(i) THEN <<refAccesses[i][1], 0>> ELSE refAccesses[i]]
    BY <2>1 DEF Expected
  <2>4. (IF Cleared(1) THEN <<refAccesses[1][1], 0>> ELSE refAccesses[1]) = e
    BY <1>2, <1>3, <2>1, <2>2
  <2> HIDE DEF e
  <2> QED
    BY <2>3, <2>4
<1>5. Sorted(accesses) = <<e>> /\ Sorted(refAccesses) = <<r>> /\ Sorted(Expected) = <<e>>
  <2> DEFINE b == <<a + 1, 0>>
  <2>1. b[1] \in Int /\ a < b[1]
    BY <1>2
  <2> HIDE DEF b, e, r
  <2>2. e[1] \in Int /\ r[1] \in Int /\ e[1] < b[1] /\ r[1] < b[1]
    BY <1>2, <1>3, <2>1
  <2>3. Sorted(<<e>>) = <<e>> /\ Sorted(<<r>>) = <<r>>
    BY <2>1, <2>2, SortedShort, Zenon
  <2> QED
    BY <1>1, <1>4, <2>3
<1>6. Range(refAccesses) = {r}
  BY <1>1 DEF Range
<1>7. states_mem_accesses_eq(accesses, refAccesses) <=> e = r
  <2> HIDE DEF e, r
  <2> QED
    BY <1>1, <1>5 DEF states_mem_accesses_eq
<1>8. e = r <=> ~(a = DIV /\ v # 0)
  BY <1>2
<1>9. (\E w \in 1 .. 255 : <<DIV, w>> \in Range(refAccesses) /\ DIV = Sorted(refAccesses)[1][1])
        <=> a = DIV /\ v # 0
  <2>1. Sorted(refAccesses)[1][1] = a
    BY <1>3, <1>5
  <2>2. \A w : <<DIV, w>> \in Range(refAccesses) <=> DIV = a /\ w = v
    BY <1>6
  <2>3. v \in 1 .. 255 <=> v # 0
    BY ByteIs
  <2> QED
    BY <2>1, <2>2, <2>3, Zenon
<1> QED
  BY <1>4, <1>5, <1>7, <1>8, <1>9 DEF LogsAgree

LEMMA TwoLogAgrees ==
  ASSUME NEW a \in Word, NEW l \in Byte, NEW h \in Byte, TwoLog(a, l, h)
  PROVE  LogsAgree
<1> DEFINE b  == Next16(a)
           hs == IF a = DIV /\ memory[0] = 8 THEN 0 ELSE Stored(b, h)
           ea == <<a, Stored(a, l)>>
           eb == <<b, hs>>
           ra == <<a, l>>
           rb == <<b, h>>
<1>1. accesses = <<eb, ea>> /\ refAccesses = <<ra, rb>>
  BY DEF TwoLog
<1>2. b \in Word /\ a \in Int /\ b \in Int /\ l \in Int /\ h \in Int /\ a # b
  BY Nexts, WordIs, ByteIs
<1>3. Stored(a, l) = IF a = DIV THEN 0 ELSE l
  BY DEF Stored
<1>4. hs = IF b = DIV \/ (memory[0] = 8 /\ a = DIV) THEN 0 ELSE h
  <2>1. Stored(b, h) = IF b = DIV THEN 0 ELSE h
    BY Zenon DEF Stored
  <2>2. hs = IF a = DIV /\ memory[0] = 8 THEN 0 ELSE Stored(b, h)
    OBVIOUS
  <2> HIDE DEF b, hs
  <2> QED
    BY <2>1, <2>2, Zenon
<1>5. /\ ea[1] = a /\ ra[1] = a /\ eb[1] = b /\ rb[1] = b
      /\ ea[2] = Stored(a, l) /\ ra[2] = l /\ eb[2] = hs /\ rb[2] = h
  OBVIOUS
<1>6. Expected = <<ea, eb>>
  <2>1. DOMAIN refAccesses = {1, 2} /\ refAccesses[1] = ra /\ refAccesses[2] = rb
    BY <1>1
  <2>2. Cleared(1) <=> a = DIV
    BY <1>5, <2>1 DEF Cleared
  <2>3. Cleared(2) <=> b = DIV \/ (memory[0] = 8 /\ a = DIV)
    BY <1>5, <2>1 DEF Cleared
  <2>4. Expected = [i \in {1, 2} |-> IF Cleared(i) THEN <<refAccesses[i][1], 0>> ELSE refAccesses[i]]
    BY <2>1 DEF Expected
  <2>5. (IF Cleared(1) THEN <<refAccesses[1][1], 0>> ELSE refAccesses[1]) = ea
    BY <1>3, <1>5, <2>1, <2>2
  <2> HIDE DEF hs
  <2>6. (IF Cleared(2) THEN <<refAccesses[2][1], 0>> ELSE refAccesses[2]) = eb
    BY <1>4, <1>5, <2>1, <2>3
  <2> HIDE DEF ea, eb
  <2> QED
    BY <2>4, <2>5, <2>6
<1> HIDE DEF b, hs, ea, eb, ra, rb
<1>7. \/ /\ Sorted(accesses) = <<ea, eb>> /\ Sorted(Expected) = <<ea, eb>>
         /\ Sorted(refAccesses) = <<ra, rb>> /\ a < b
      \/ /\ Sorted(accesses) = <<eb, ea>> /\ Sorted(Expected) = <<eb, ea>>
         /\ Sorted(refAccesses) = <<rb, ra>> /\ b < a
  <2>1. ea[1] \in Int /\ eb[1] \in Int /\ ra[1] \in Int /\ rb[1] \in Int
    BY <1>2, <1>5
  <2>2. CASE a < b
    <3>1. ea[1] < eb[1] /\ ra[1] < rb[1]
      BY <1>5, <2>2
    <3>2. /\ Sorted(<<eb, ea>>) = <<ea, eb>> /\ Sorted(<<ea, eb>>) = <<ea, eb>>
          /\ Sorted(<<ra, rb>>) = <<ra, rb>>
      BY <2>1, <3>1, SortedShort, Zenon
    <3> QED
      BY <1>1, <1>6, <2>2, <3>2, Zenon
  <2>3. CASE b < a
    <3>1. eb[1] < ea[1] /\ rb[1] < ra[1]
      BY <1>5, <2>3
    <3>2. /\ Sorted(<<eb, ea>>) = <<eb, ea>> /\ Sorted(<<ea, eb>>) = <<eb, ea>>
          /\ Sorted(<<ra, rb>>) = <<rb, ra>>
      BY <2>1, <3>1, SortedShort, Zenon
    <3> QED
      BY <1>1, <1>6, <2>3, <3>2, Zenon
  <2> QED
    BY <1>2, <2>2, <2>3
<1>8. states_mem_accesses_eq(accesses, refAccesses)
        <=> Sorted(accesses)[1] = Sorted(refAccesses)[1]
  <2>1. Len(accesses) = 2 /\ Len(refAccesses) = 2 /\ accesses # << >>
    BY <1>1
  <2> QED
    BY <2>1, Zenon DEF states_mem_accesses_eq
<1>9. \A w : <<DIV, w>> \in Range(refAccesses) <=> (DIV = a /\ w = l) \/ (DIV = b /\ w = h)
  <2>1. Range(refAccesses) = {ra, rb}
    BY <1>1 DEF Range
  <2> QED
    BY <2>1 DEF ra, rb
<1> DEFINE values  == 1 .. 255
           noticed == \E w \in values : <<DIV, w>> \in Range(refAccesses) /\ DIV = Sorted(refAccesses)[1][1]
           equal   == states_mem_accesses_eq(accesses, refAccesses)
<1>10. (l \in values <=> l # 0) /\ (h \in values <=> h # 0)
  BY ByteIs
<1>13. LogsAgree <=> Sorted(accesses) = Sorted(Expected) /\ (equal <=> ~noticed)
  BY Zenon DEF LogsAgree
<1>14. b < a => a # DIV
  BY DEF b, Next16, DIV
<1> HIDE DEF values
<1>11. ea = ra <=> Stored(a, l) = l
  BY DEF ea, ra
<1>12. eb = rb <=> hs = h
  BY DEF eb, rb
<1>15. CASE a < b
  <2>1. Sorted(accesses)[1] = ea /\ Sorted(refAccesses)[1] = ra
    BY <1>2, <1>7, <1>15
  <2>2. noticed <=> a = DIV /\ l # 0
    <3>1. Sorted(refAccesses)[1][1] = a
      BY <1>5, <2>1
    <3>2. noticed <=> \E w \in values : /\ (DIV = a /\ w = l) \/ (DIV = b /\ w = h)
                                        /\ DIV = a
      BY <1>9, <3>1, Zenon
    <3> HIDE DEF noticed
    <3> QED
      BY <1>2, <1>10, <3>2
  <2>3. ea = ra <=> ~(a = DIV /\ l # 0)
    BY <1>3, <1>11
  <2>4. Sorted(accesses) = Sorted(Expected)
    BY <1>2, <1>7, <1>15
  <2> HIDE DEF noticed, equal
  <2> QED
    BY <1>8, <1>13, <2>1, <2>2, <2>3, <2>4 DEF equal
<1>16. CASE b < a
  <2>1. Sorted(accesses)[1] = eb /\ Sorted(refAccesses)[1] = rb
    BY <1>2, <1>7, <1>16
  <2>2. noticed <=> b = DIV /\ h # 0
    <3>1. Sorted(refAccesses)[1][1] = b
      BY <1>5, <2>1
    <3>2. noticed <=> \E w \in values : /\ (DIV = a /\ w = l) \/ (DIV = b /\ w = h)
                                        /\ DIV = b
      BY <1>9, <3>1, Zenon
    <3> HIDE DEF noticed
    <3> QED
      BY <1>2, <1>10, <3>2
  <2>3. eb = rb <=> ~(b = DIV /\ h # 0)
    BY <1>4, <1>12, <1>16, <1>14
  <2>4. Sorted(accesses) = Sorted(Expected)
    BY <1>2, <1>7, <1>16
  <2> HIDE DEF noticed, equal
  <2> QED
    BY <1>8, <1>13, <2>1, <2>2, <2>3, <2>4 DEF equal
<1> QED
  BY <1>2, <1>15, <1>16

-----------------------------------------------------------------------------
(* The masks of the reference's decoder.                                    *)

\* The bits of a byte.
LEMMA BitsOf ==
  ASSUME NEW v \in Byte
  PROVE  /\ \A i \in 0 .. 7 : Bit(v, i) \in 0 .. 1
         /\ v = Bit(v, 0) + 2 * Bit(v, 1) + 4 * Bit(v, 2) + 8 * Bit(v, 3)
                + 16 * Bit(v, 4) + 32 * Bit(v, 5) + 64 * Bit(v, 6) + 128 * Bit(v, 7)
<1>1. \A i \in 0 .. 7 : Bit(v, i) \in 0 .. 1
  BY BitIs, ByteIs
<1>2. /\ Pow2[0 + 1] = 1 /\ Pow2[1 + 1] = 2 /\ Pow2[2 + 1] = 4 /\ Pow2[3 + 1] = 8
      /\ Pow2[4 + 1] = 16 /\ Pow2[5 + 1] = 32 /\ Pow2[6 + 1] = 64 /\ Pow2[7 + 1] = 128
  BY DEF Pow2
<1>3. v = (v % 2) + 2 * ((v \div 2) % 2) + 4 * ((v \div 4) % 2) + 8 * ((v \div 8) % 2)
          + 16 * ((v \div 16) % 2) + 32 * ((v \div 32) % 2) + 64 * ((v \div 64) % 2)
          + 128 * ((v \div 128) % 2)
  <2>1. v = 2 * (v \div 2) + (v % 2)
    BY ByteIs
  <2>8. v \div 2 = 2 * (v \div 4) + ((v \div 2) % 2)
    BY ByteIs
  <2>2. v \div 4 = 2 * (v \div 8) + ((v \div 4) % 2) /\ v \div 8 = 2 * (v \div 16) + ((v \div 8) % 2)
    BY ByteIs
  <2>3. v \div 16 = 2 * (v \div 32) + ((v \div 16) % 2) /\ v \div 32 = 2 * (v \div 64) + ((v \div 32) % 2)
    BY ByteIs
  <2>4. v \div 64 = 2 * (v \div 128) + ((v \div 64) % 2) /\ v \div 128 = (v \div 128) % 2
    BY ByteIs
  <2> DEFINE n1 == v \div 2    m1 == n1 % 2
             n2 == v \div 4    m2 == n2 % 2
             n3 == v \div 8    m3 == n3 % 2
             n4 == v \div 16   m4 == n4 % 2
             n5 == v \div 32   m5 == n5 % 2
             n6 == v \div 64   m6 == n6 % 2
             n7 == v \div 128  m7 == n7 % 2
             m0 == v % 2
  <2>5. /\ v \in Int /\ n1 \in Int /\ n2 \in Int /\ n3 \in Int /\ n4 \in Int /\ n5 \in Int
        /\ n6 \in Int /\ n7 \in Int /\ m0 \in Int /\ m1 \in Int /\ m2 \in Int /\ m3 \in Int
        /\ m4 \in Int /\ m5 \in Int /\ m6 \in Int /\ m7 \in Int
    BY ByteIs
  <2>6. /\ v = 2 * n1 + m0 /\ n1 = 2 * n2 + m1 /\ n2 = 2 * n3 + m2 /\ n3 = 2 * n4 + m3
        /\ n4 = 2 * n5 + m4 /\ n5 = 2 * n6 + m5 /\ n6 = 2 * n7 + m6 /\ n7 = m7
    BY <2>1, <2>2, <2>3, <2>4, <2>8
  <2> HIDE DEF n1, n2, n3, n4, n5, n6, n7, m0, m1, m2, m3, m4, m5, m6, m7
  <2>7. v = m0 + 2 * m1 + 4 * m2 + 8 * m3 + 16 * m4 + 32 * m5 + 64 * m6 + 128 * m7
    BY <2>5, <2>6
  <2> QED
    BY <2>7 DEF n1, n2, n3, n4, n5, n6, n7, m0, m1, m2, m3, m4, m5, m6, m7
<1>4. v \div 1 = v
  BY ByteIs
<1> QED
  BY <1>1, <1>2, <1>3, <1>4 DEF Bit

\* A byte is made of the bits that another has, too.
LEMMA BitOfBits ==
  ASSUME NEW b0 \in 0 .. 1, NEW b1 \in 0 .. 1, NEW b2 \in 0 .. 1, NEW b3 \in 0 .. 1,
         NEW b4 \in 0 .. 1, NEW b5 \in 0 .. 1, NEW b6 \in 0 .. 1, NEW b7 \in 0 .. 1,
         NEW v, v = b0 + 2 * b1 + 4 * b2 + 8 * b3 + 16 * b4 + 32 * b5 + 64 * b6 + 128 * b7
  PROVE  /\ v \in Byte
         /\ Bit(v, 0) = b0 /\ Bit(v, 1) = b1 /\ Bit(v, 2) = b2 /\ Bit(v, 3) = b3
         /\ Bit(v, 4) = b4 /\ Bit(v, 5) = b5 /\ Bit(v, 6) = b6 /\ Bit(v, 7) = b7
<1>1. v \in Byte
  BY ByteIs
<1>2. /\ \A i \in 0 .. 7 : Bit(v, i) \in 0 .. 1
      /\ v = Bit(v, 0) + 2 * Bit(v, 1) + 4 * Bit(v, 2) + 8 * Bit(v, 3)
             + 16 * Bit(v, 4) + 32 * Bit(v, 5) + 64 * Bit(v, 6) + 128 * Bit(v, 7)
  BY <1>1, BitsOf
<1>3. /\ Bit(v, 0) \in 0 .. 1 /\ Bit(v, 1) \in 0 .. 1 /\ Bit(v, 2) \in 0 .. 1 /\ Bit(v, 3) \in 0 .. 1
      /\ Bit(v, 4) \in 0 .. 1 /\ Bit(v, 5) \in 0 .. 1 /\ Bit(v, 6) \in 0 .. 1 /\ Bit(v, 7) \in 0 .. 1
  BY <1>2
<1> DEFINE c0 == Bit(v, 0)  c1 == Bit(v, 1)  c2 == Bit(v, 2)  c3 == Bit(v, 3)
           c4 == Bit(v, 4)  c5 == Bit(v, 5)  c6 == Bit(v, 6)  c7 == Bit(v, 7)
<1>4. /\ c0 \in 0 .. 1 /\ c1 \in 0 .. 1 /\ c2 \in 0 .. 1 /\ c3 \in 0 .. 1
      /\ c4 \in 0 .. 1 /\ c5 \in 0 .. 1 /\ c6 \in 0 .. 1 /\ c7 \in 0 .. 1
  BY <1>3
<1>5. c0 + 2 * c1 + 4 * c2 + 8 * c3 + 16 * c4 + 32 * c5 + 64 * c6 + 128 * c7
        = b0 + 2 * b1 + 4 * b2 + 8 * b3 + 16 * b4 + 32 * b5 + 64 * b6 + 128 * b7
  BY <1>2
<1> HIDE DEF c0, c1, c2, c3, c4, c5, c6, c7
<1>6. c7 = b7 /\ c6 = b6
  BY <1>4, <1>5
<1>7. c5 = b5 /\ c4 = b4
  BY <1>4, <1>5, <1>6
<1>8. c3 = b3 /\ c2 = b2
  BY <1>4, <1>5, <1>6, <1>7
<1>9. c1 = b1 /\ c0 = b0
  BY <1>4, <1>5, <1>6, <1>7, <1>8
<1> QED
  BY <1>1, <1>6, <1>7, <1>8, <1>9 DEF c0, c1, c2, c3, c4, c5, c6, c7

LEMMA AndIs ==
  ASSUME NEW v, NEW w
  PROVE  And(v, w) = Bit(v, 0) * Bit(w, 0) + 2 * (Bit(v, 1) * Bit(w, 1))
                     + 4 * (Bit(v, 2) * Bit(w, 2)) + 8 * (Bit(v, 3) * Bit(w, 3))
                     + 16 * (Bit(v, 4) * Bit(w, 4)) + 32 * (Bit(v, 5) * Bit(w, 5))
                     + 64 * (Bit(v, 6) * Bit(w, 6)) + 128 * (Bit(v, 7) * Bit(w, 7))
BY DEF And, OfBits

\* The four masks by the octal digits of an opcode.
LEMMA Masked ==
  ASSUME NEW b \in [0 .. 7 -> 0 .. 1], NEW o, o = OfBits(b)
  PROVE  /\ And(o, 192) = 64 * b[6] + 128 * b[7]
         /\ And(o, 199) = b[0] + 2 * b[1] + 4 * b[2] + 64 * b[6] + 128 * b[7]
         /\ And(o, 207) = b[0] + 2 * b[1] + 4 * b[2] + 8 * b[3] + 64 * b[6] + 128 * b[7]
         /\ And(o, 231) = b[0] + 2 * b[1] + 4 * b[2] + 32 * b[5] + 64 * b[6] + 128 * b[7]
<1>1. /\ b[0] \in 0 .. 1 /\ b[1] \in 0 .. 1 /\ b[2] \in 0 .. 1 /\ b[3] \in 0 .. 1
      /\ b[4] \in 0 .. 1 /\ b[5] \in 0 .. 1 /\ b[6] \in 0 .. 1 /\ b[7] \in 0 .. 1
  OBVIOUS
<1>2. o = b[0] + 2 * b[1] + 4 * b[2] + 8 * b[3] + 16 * b[4] + 32 * b[5] + 64 * b[6] + 128 * b[7]
  BY DEF OfBits
<1>3. /\ Bit(o, 0) = b[0] /\ Bit(o, 1) = b[1] /\ Bit(o, 2) = b[2] /\ Bit(o, 3) = b[3]
      /\ Bit(o, 4) = b[4] /\ Bit(o, 5) = b[5] /\ Bit(o, 6) = b[6] /\ Bit(o, 7) = b[7]
  BY <1>1, <1>2, BitOfBits
<1>4. /\ Bit(192, 0) = 0 /\ Bit(192, 1) = 0 /\ Bit(192, 2) = 0 /\ Bit(192, 3) = 0
      /\ Bit(192, 4) = 0 /\ Bit(192, 5) = 0 /\ Bit(192, 6) = 1 /\ Bit(192, 7) = 1
  BY DEF Bit, Pow2
<1>5. /\ Bit(199, 0) = 1 /\ Bit(199, 1) = 1 /\ Bit(199, 2) = 1 /\ Bit(199, 3) = 0
      /\ Bit(199, 4) = 0 /\ Bit(199, 5) = 0 /\ Bit(199, 6) = 1 /\ Bit(199, 7) = 1
  BY DEF Bit, Pow2
<1>6. /\ Bit(207, 0) = 1 /\ Bit(207, 1) = 1 /\ Bit(207, 2) = 1 /\ Bit(207, 3) = 1
      /\ Bit(207, 4) = 0 /\ Bit(207, 5) = 0 /\ Bit(207, 6) = 1 /\ Bit(207, 7) = 1
  BY DEF Bit, Pow2
<1>7. /\ Bit(231, 0) = 1 /\ Bit(231, 1) = 1 /\ Bit(231, 2) = 1 /\ Bit(231, 3) = 0
      /\ Bit(231, 4) = 0 /\ Bit(231, 5) = 1 /\ Bit(231, 6) = 1 /\ Bit(231, 7) = 1
  BY DEF Bit, Pow2
<1>8. \A n \in Int : n * 0 = 0 /\ n * 1 = n
  OBVIOUS
<1>9. And(o, 192) = 64 * b[6] + 128 * b[7]
  BY <1>1, <1>3, <1>4, AndIs
<1>10. And(o, 199) = b[0] + 2 * b[1] + 4 * b[2] + 64 * b[6] + 128 * b[7]
  BY <1>1, <1>3, <1>5, AndIs
<1>11. And(o, 207) = b[0] + 2 * b[1] + 4 * b[2] + 8 * b[3] + 64 * b[6] + 128 * b[7]
  BY <1>1, <1>3, <1>6, AndIs
<1>12. And(o, 231) = b[0] + 2 * b[1] + 4 * b[2] + 32 * b[5] + 64 * b[6] + 128 * b[7]
  BY <1>1, <1>3, <1>7, AndIs
<1> QED
  BY <1>9, <1>10, <1>11, <1>12

\* The same by the octal digits of the byte.
LEMMA Octal ==
  ASSUME NEW o \in Byte
  PROVE  LET i == o \div 64
             j == (o \div 8) % 8
             k == o % 8
         IN /\ i \in 0 .. 3 /\ j \in 0 .. 7 /\ k \in 0 .. 7 /\ o = 64 * i + 8 * j + k
            /\ (o \div 16) % 4 = j \div 2
            /\ And(o, 192) = 64 * i /\ And(o, 199) = 64 * i + k
            /\ And(o, 207) = 64 * i + 8 * (j % 2) + k
            /\ And(o, 231) = 64 * i + 32 * (j \div 4) + k
<1> DEFINE b == [n \in 0 .. 7 |-> Bit(o, n)]
<1>1. /\ \A n \in 0 .. 7 : Bit(o, n) \in 0 .. 1
      /\ o = Bit(o, 0) + 2 * Bit(o, 1) + 4 * Bit(o, 2) + 8 * Bit(o, 3)
             + 16 * Bit(o, 4) + 32 * Bit(o, 5) + 64 * Bit(o, 6) + 128 * Bit(o, 7)
  BY BitsOf
<1>2. b \in [0 .. 7 -> 0 .. 1]
  BY <1>1
<1>3. o = OfBits(b)
  BY <1>1 DEF OfBits
<1> HIDE DEF b
<1>4. /\ b[0] \in 0 .. 1 /\ b[1] \in 0 .. 1 /\ b[2] \in 0 .. 1 /\ b[3] \in 0 .. 1
      /\ b[4] \in 0 .. 1 /\ b[5] \in 0 .. 1 /\ b[6] \in 0 .. 1 /\ b[7] \in 0 .. 1
  BY <1>2
<1>5. o = b[0] + 2 * b[1] + 4 * b[2] + 8 * b[3] + 16 * b[4] + 32 * b[5] + 64 * b[6] + 128 * b[7]
  BY <1>3 DEF OfBits
<1> DEFINE p == b[6] + 2 * b[7]
           q == b[3] + 2 * b[4] + 4 * b[5]
           r == b[0] + 2 * b[1] + 4 * b[2]
<1>6. p \in 0 .. 3 /\ q \in 0 .. 7 /\ r \in 0 .. 7
  BY <1>4
<1>7. o = 64 * p + 8 * q + r
  BY <1>4, <1>5, ByteIs
<1>8. q % 2 = b[3] /\ q \div 4 = b[5]
  BY <1>4
<1>9. /\ And(o, 192) = 64 * b[6] + 128 * b[7]
      /\ And(o, 199) = b[0] + 2 * b[1] + 4 * b[2] + 64 * b[6] + 128 * b[7]
      /\ And(o, 207) = b[0] + 2 * b[1] + 4 * b[2] + 8 * b[3] + 64 * b[6] + 128 * b[7]
      /\ And(o, 231) = b[0] + 2 * b[1] + 4 * b[2] + 32 * b[5] + 64 * b[6] + 128 * b[7]
  BY <1>2, <1>3, Masked
<1>10. /\ And(o, 192) = 64 * p /\ And(o, 199) = 64 * p + r
       /\ And(o, 207) = 64 * p + 8 * b[3] + r
       /\ And(o, 231) = 64 * p + 32 * b[5] + r
  BY <1>4, <1>9
<1> HIDE DEF p, q, r
<1>11. o \div 64 = p /\ o % 8 = r
  BY <1>6, <1>7
<1>12. o \div 8 = 8 * p + q
  BY <1>6, <1>7
<1>13. (o \div 8) % 8 = q
  BY <1>6, <1>12
<1>14. o \div 16 = 4 * p + (q \div 2) /\ q \div 2 \in 0 .. 3
  BY <1>6, <1>7
<1>15. (o \div 16) % 4 = q \div 2
  BY <1>6, <1>14
<1> DEFINE i == o \div 64
           j == (o \div 8) % 8
           k == o % 8
           t == (o \div 16) % 4
<1>16. i = p /\ j = q /\ k = r /\ t = q \div 2
  BY <1>11, <1>13, <1>15
<1> HIDE DEF i, j, k, t
<1>17. /\ i \in 0 .. 3 /\ j \in 0 .. 7 /\ k \in 0 .. 7 /\ o = 64 * i + 8 * j + k
       /\ t = j \div 2
       /\ And(o, 192) = 64 * i /\ And(o, 199) = 64 * i + k
       /\ And(o, 207) = 64 * i + 8 * (j % 2) + k
       /\ And(o, 231) = 64 * i + 32 * (j \div 4) + k
  BY <1>6, <1>7, <1>8, <1>10, <1>16
<1> QED
  BY <1>17 DEF i, j, k, t

\* The octal digits i, j and k of the opcodes of each branch of the decoder.
RefSelects(i, j, k, e) ==
  /\ Ref!R_NOP => i = 0 /\ k = 0 /\ j = 0
  /\ Ref!R_HALT => (i = 0 /\ k = 0 /\ j = 2) \/ (i = 1 /\ j = 6 /\ k = 6)
  /\ Ref!R_LD16_imm => i = 0 /\ k = 1 /\ e = 0
  /\ Ref!R_INC16 => i = 0 /\ k = 3 /\ e = 0
  /\ Ref!R_DEC16 => i = 0 /\ k = 3 /\ e = 1
  /\ Ref!R_ADD16 => i = 0 /\ k = 1 /\ e = 1
  /\ Ref!R_LD_mem_A => i = 0 /\ k = 2 /\ j \in {0, 2}
  /\ Ref!R_LD_A_mem => i = 0 /\ k = 2 /\ j \in {1, 3}
  /\ Ref!R_LDI_mem => i = 0 /\ k = 2 /\ j \in {4, 6}
  /\ Ref!R_LDI_A => i = 0 /\ k = 2 /\ j \in {5, 7}
  /\ Ref!R_LD8_imm => i = 0 /\ k = 6
  /\ Ref!R_LD8 => i = 1 /\ ~(j = 6 /\ k = 6)
  /\ Ref!R_LD_imm16_SP => i = 0 /\ k = 0 /\ j = 1
  /\ Ref!R_LDH_imm_A => i = 3 /\ k = 0 /\ j = 4
  /\ Ref!R_LDH_C_A => i = 3 /\ k = 2 /\ j = 4
  /\ Ref!R_LD_imm16_A => i = 3 /\ k = 2 /\ j = 5
  /\ Ref!R_LDH_A_imm => i = 3 /\ k = 0 /\ j = 6
  /\ Ref!R_LDH_A_C => i = 3 /\ k = 2 /\ j = 6
  /\ Ref!R_LD_A_imm16 => i = 3 /\ k = 2 /\ j = 7
  /\ Ref!R_LD_SP_HL => i = 3 /\ k = 1 /\ j = 7
  /\ Ref!R_ADD_SP => i = 3 /\ k = 0 /\ j = 5
  /\ Ref!R_LD_HL_SP => i = 3 /\ k = 0 /\ j = 7
  /\ Ref!R_Arith8 => i = 2
  /\ Ref!R_Arith_imm => i = 3 /\ k = 6
  /\ Ref!R_INC8 => i = 0 /\ k = 4
  /\ Ref!R_DEC8 => i = 0 /\ k = 5
  /\ Ref!R_RotateA => i = 0 /\ k = 7 /\ j < 4
  /\ Ref!R_DAA => i = 0 /\ k = 7 /\ j = 4
  /\ Ref!R_CPL => i = 0 /\ k = 7 /\ j = 5
  /\ Ref!R_SCF => i = 0 /\ k = 7 /\ j = 6
  /\ Ref!R_CCF => i = 0 /\ k = 7 /\ j = 7
  /\ Ref!R_JR => i = 0 /\ k = 0 /\ j = 3
  /\ Ref!R_JR_cc => i = 0 /\ k = 0 /\ j >= 4
  /\ Ref!R_JP => i = 3 /\ k = 3 /\ j = 0
  /\ Ref!R_JP_cc => i = 3 /\ k = 2 /\ j < 4
  /\ Ref!R_JP_HL => i = 3 /\ k = 1 /\ j = 5
  /\ Ref!R_CALL => i = 3 /\ k = 5 /\ j = 1
  /\ Ref!R_CALL_cc => i = 3 /\ k = 4 /\ j < 4
  /\ Ref!R_RST => i = 3 /\ k = 7
  /\ Ref!R_RET => i = 3 /\ k = 1 /\ j = 1
  /\ Ref!R_RETI => i = 3 /\ k = 1 /\ j = 3
  /\ Ref!R_RET_cc => i = 3 /\ k = 0 /\ j < 4
  /\ Ref!R_PUSH => i = 3 /\ k = 5 /\ e = 0
  /\ Ref!R_POP => i = 3 /\ k = 1 /\ e = 0
  /\ Ref!R_DI => i = 3 /\ k = 3 /\ j = 6
  /\ Ref!R_EI => i = 3 /\ k = 3 /\ j = 7
  /\ Ref!R_CB => i = 3 /\ k = 3 /\ j = 1

LEMMA RefGuards ==
  ASSUME NEW i \in 0 .. 3, NEW j \in 0 .. 7, NEW k \in 0 .. 7, NEW e \in 0 .. 1, NEW d \in 0 .. 1,
         NEW o, o = Ref!opcode, o = 64 * i + 8 * j + k, d = 1 <=> j >= 4,
         Ref!And(o, 192) = 64 * i, Ref!And(o, 199) = 64 * i + k,
         Ref!And(o, 207) = 64 * i + 8 * e + k, Ref!And(o, 231) = 64 * i + 32 * d + k
  PROVE  RefSelects(i, j, k, e)
<1>1. \A v, w : Ref!M(o, v, w) <=> Ref!And(o, w) = v
  BY Zenon DEF Ref!M
<1> DEFINE m1 == 64 * i
           m2 == 64 * i + k
           m3 == 64 * i + 8 * e + k
           m4 == 64 * i + 32 * d + k
<1>2. /\ Ref!R_LD16_imm => Ref!M(o, 1, 207)
      /\ Ref!R_INC16 => Ref!M(o, 3, 207)
      /\ Ref!R_DEC16 => Ref!M(o, 11, 207)
      /\ Ref!R_ADD16 => Ref!M(o, 9, 207)
      /\ Ref!R_LD8_imm => Ref!M(o, 6, 199)
      /\ Ref!R_LD8 => Ref!M(o, 64, 192) /\ o # 118
      /\ Ref!R_Arith8 => Ref!M(o, 128, 192)
      /\ Ref!R_Arith_imm => Ref!M(o, 198, 199)
      /\ Ref!R_INC8 => Ref!M(o, 4, 199)
      /\ Ref!R_DEC8 => Ref!M(o, 5, 199)
      /\ Ref!R_JR_cc => Ref!M(o, 32, 231)
      /\ Ref!R_JP_cc => Ref!M(o, 194, 231)
      /\ Ref!R_CALL_cc => Ref!M(o, 196, 231)
      /\ Ref!R_RST => Ref!M(o, 199, 199)
      /\ Ref!R_RET_cc => Ref!M(o, 192, 231)
      /\ Ref!R_PUSH => Ref!M(o, 197, 207)
      /\ Ref!R_POP => Ref!M(o, 193, 207)
  <2>1. Ref!R_LD16_imm => Ref!M(Ref!opcode, 1, 207)
    BY PTL DEF Ref!R_LD16_imm
  <2>2. Ref!R_INC16 => Ref!M(Ref!opcode, 3, 207)
    BY PTL DEF Ref!R_INC16
  <2>3. Ref!R_DEC16 => Ref!M(Ref!opcode, 11, 207)
    BY PTL DEF Ref!R_DEC16
  <2>4. Ref!R_ADD16 => Ref!M(Ref!opcode, 9, 207)
    BY PTL DEF Ref!R_ADD16
  <2>5. Ref!R_LD8_imm => Ref!M(Ref!opcode, 6, 199)
    BY PTL DEF Ref!R_LD8_imm
  <2>6. Ref!R_LD8 => Ref!M(Ref!opcode, 64, 192) /\ Ref!opcode # 118
    BY PTL DEF Ref!R_LD8
  <2>7. Ref!R_Arith8 => Ref!M(Ref!opcode, 128, 192)
    BY PTL DEF Ref!R_Arith8
  <2>8. Ref!R_Arith_imm => Ref!M(Ref!opcode, 198, 199)
    BY PTL DEF Ref!R_Arith_imm
  <2>9. Ref!R_INC8 => Ref!M(Ref!opcode, 4, 199)
    BY PTL DEF Ref!R_INC8
  <2>10. Ref!R_DEC8 => Ref!M(Ref!opcode, 5, 199)
    BY PTL DEF Ref!R_DEC8
  <2>11. Ref!R_JR_cc => Ref!M(Ref!opcode, 32, 231)
    BY PTL DEF Ref!R_JR_cc
  <2>12. Ref!R_JP_cc => Ref!M(Ref!opcode, 194, 231)
    BY PTL DEF Ref!R_JP_cc
  <2>13. Ref!R_CALL_cc => Ref!M(Ref!opcode, 196, 231)
    BY PTL DEF Ref!R_CALL_cc
  <2>14. Ref!R_RST => Ref!M(Ref!opcode, 199, 199)
    BY PTL DEF Ref!R_RST
  <2>15. Ref!R_RET_cc => Ref!M(Ref!opcode, 192, 231)
    BY PTL DEF Ref!R_RET_cc
  <2>16. Ref!R_PUSH => Ref!M(Ref!opcode, 197, 207)
    BY PTL DEF Ref!R_PUSH
  <2>17. Ref!R_POP => Ref!M(Ref!opcode, 193, 207)
    BY PTL DEF Ref!R_POP
  <2> QED
    BY <2>1, <2>2, <2>3, <2>4, <2>5, <2>6, <2>7, <2>8, <2>9, <2>10, <2>11, <2>12, <2>13, <2>14,
       <2>15, <2>16, <2>17
<1>3. /\ Ref!R_NOP => o = 0
      /\ Ref!R_LD_mem_A => o \in {2, 18}
      /\ Ref!R_LD_A_mem => o \in {10, 26}
      /\ Ref!R_LDI_mem => o \in {34, 50}
      /\ Ref!R_LDI_A => o \in {42, 58}
      /\ Ref!R_LD_imm16_SP => o = 8
      /\ Ref!R_LDH_imm_A => o = 224
      /\ Ref!R_LDH_C_A => o = 226
      /\ Ref!R_LD_imm16_A => o = 234
      /\ Ref!R_LDH_A_imm => o = 240
      /\ Ref!R_LDH_A_C => o = 242
      /\ Ref!R_LD_A_imm16 => o = 250
      /\ Ref!R_LD_SP_HL => o = 249
      /\ Ref!R_ADD_SP => o = 232
      /\ Ref!R_LD_HL_SP => o = 248
      /\ Ref!R_RotateA => o \in {7, 15, 23, 31}
      /\ Ref!R_DAA => o = 39
      /\ Ref!R_CPL => o = 47
      /\ Ref!R_SCF => o = 55
      /\ Ref!R_CCF => o = 63
      /\ Ref!R_JR => o = 24
      /\ Ref!R_JP => o = 195
      /\ Ref!R_JP_HL => o = 233
      /\ Ref!R_CALL => o = 205
      /\ Ref!R_RET => o = 201
      /\ Ref!R_RETI => o = 217
      /\ Ref!R_DI => o = 243
      /\ Ref!R_EI => o = 251
      /\ Ref!R_CB => o = 203
  <2>1. Ref!R_NOP => Ref!opcode = 0
    BY PTL DEF Ref!R_NOP
  <2>2. Ref!R_LD_mem_A => Ref!opcode \in {2, 18}
    BY PTL DEF Ref!R_LD_mem_A
  <2>3. Ref!R_LD_A_mem => Ref!opcode \in {10, 26}
    BY PTL DEF Ref!R_LD_A_mem
  <2>4. Ref!R_LDI_mem => Ref!opcode \in {34, 50}
    BY PTL DEF Ref!R_LDI_mem
  <2>5. Ref!R_LDI_A => Ref!opcode \in {42, 58}
    BY PTL DEF Ref!R_LDI_A
  <2>6. Ref!R_LD_imm16_SP => Ref!opcode = 8
    BY PTL DEF Ref!R_LD_imm16_SP
  <2>7. Ref!R_LDH_imm_A => Ref!opcode = 224
    BY PTL DEF Ref!R_LDH_imm_A
  <2>8. Ref!R_LDH_C_A => Ref!opcode = 226
    BY PTL DEF Ref!R_LDH_C_A
  <2>9. Ref!R_LD_imm16_A => Ref!opcode = 234
    BY PTL DEF Ref!R_LD_imm16_A
  <2>10. Ref!R_LDH_A_imm => Ref!opcode = 240
    BY PTL DEF Ref!R_LDH_A_imm
  <2>11. Ref!R_LDH_A_C => Ref!opcode = 242
    BY PTL DEF Ref!R_LDH_A_C
  <2>12. Ref!R_LD_A_imm16 => Ref!opcode = 250
    BY PTL DEF Ref!R_LD_A_imm16
  <2>13. Ref!R_LD_SP_HL => Ref!opcode = 249
    BY PTL DEF Ref!R_LD_SP_HL
  <2>14. Ref!R_ADD_SP => Ref!opcode = 232
    BY PTL DEF Ref!R_ADD_SP
  <2>15. Ref!R_LD_HL_SP => Ref!opcode = 248
    BY PTL DEF Ref!R_LD_HL_SP
  <2>16. Ref!R_RotateA => Ref!opcode \in {7, 15, 23, 31}
    BY PTL DEF Ref!R_RotateA
  <2>17. Ref!R_DAA => Ref!opcode = 39
    BY PTL DEF Ref!R_DAA
  <2>18. Ref!R_CPL => Ref!opcode = 47
    BY PTL DEF Ref!R_CPL
  <2>19. Ref!R_SCF => Ref!opcode = 55
    BY PTL DEF Ref!R_SCF
  <2>20. Ref!R_CCF => Ref!opcode = 63
    BY PTL DEF Ref!R_CCF
  <2>21. Ref!R_JR => Ref!opcode = 24
    BY PTL DEF Ref!R_JR
  <2>22. Ref!R_JP => Ref!opcode = 195
    BY PTL DEF Ref!R_JP
  <2>23. Ref!R_JP_HL => Ref!opcode = 233
    BY PTL DEF Ref!R_JP_HL
  <2>24. Ref!R_CALL => Ref!opcode = 205
    BY PTL DEF Ref!R_CALL
  <2>25. Ref!R_RET => Ref!opcode = 201
    BY PTL DEF Ref!R_RET
  <2>26. Ref!R_RETI => Ref!opcode = 217
    BY PTL DEF Ref!R_RETI
  <2>27. Ref!R_DI => Ref!opcode = 243
    BY PTL DEF Ref!R_DI
  <2>28. Ref!R_EI => Ref!opcode = 251
    BY PTL DEF Ref!R_EI
  <2>29. Ref!R_CB => Ref!opcode = 203
    BY PTL DEF Ref!R_CB, Ref!R_CB_Shift, Ref!R_CB_BIT, Ref!R_CB_RES, Ref!R_CB_SET
  <2> QED
    BY <2>1, <2>2, <2>3, <2>4, <2>5, <2>6, <2>7, <2>8, <2>9, <2>10, <2>11, <2>12, <2>13, <2>14,
       <2>15, <2>16, <2>17, <2>18, <2>19, <2>20, <2>21, <2>22, <2>23, <2>24, <2>25, <2>26,
       <2>27, <2>28, <2>29
<1>4. /\ m3 = 1 => i = 0 /\ k = 1 /\ e = 0
      /\ m3 = 3 => i = 0 /\ k = 3 /\ e = 0
      /\ m3 = 11 => i = 0 /\ k = 3 /\ e = 1
      /\ m3 = 9 => i = 0 /\ k = 1 /\ e = 1
      /\ m2 = 6 => i = 0 /\ k = 6
      /\ m1 = 64 /\ o # 118 => i = 1 /\ ~(j = 6 /\ k = 6)
      /\ m1 = 128 => i = 2
      /\ m2 = 198 => i = 3 /\ k = 6
      /\ m2 = 4 => i = 0 /\ k = 4
      /\ m2 = 5 => i = 0 /\ k = 5
      /\ m4 = 32 => i = 0 /\ k = 0 /\ j >= 4
      /\ m4 = 194 => i = 3 /\ k = 2 /\ j < 4
      /\ m4 = 196 => i = 3 /\ k = 4 /\ j < 4
      /\ m2 = 199 => i = 3 /\ k = 7
      /\ m4 = 192 => i = 3 /\ k = 0 /\ j < 4
      /\ m3 = 197 => i = 3 /\ k = 5 /\ e = 0
      /\ m3 = 193 => i = 3 /\ k = 1 /\ e = 0
  <2>1. m3 = 1 => i = 0 /\ k = 1 /\ e = 0
    OBVIOUS
  <2>2. m3 = 3 => i = 0 /\ k = 3 /\ e = 0
    OBVIOUS
  <2>3. m3 = 11 => i = 0 /\ k = 3 /\ e = 1
    OBVIOUS
  <2>4. m3 = 9 => i = 0 /\ k = 1 /\ e = 1
    OBVIOUS
  <2>5. m2 = 6 => i = 0 /\ k = 6
    OBVIOUS
  <2>6. m1 = 64 /\ o # 118 => i = 1 /\ ~(j = 6 /\ k = 6)
    OBVIOUS
  <2>7. m1 = 128 => i = 2
    OBVIOUS
  <2>8. m2 = 198 => i = 3 /\ k = 6
    OBVIOUS
  <2>9. m2 = 4 => i = 0 /\ k = 4
    OBVIOUS
  <2>10. m2 = 5 => i = 0 /\ k = 5
    OBVIOUS
  <2>11. m4 = 32 => i = 0 /\ k = 0 /\ j >= 4
    OBVIOUS
  <2>12. m4 = 194 => i = 3 /\ k = 2 /\ j < 4
    OBVIOUS
  <2>13. m4 = 196 => i = 3 /\ k = 4 /\ j < 4
    OBVIOUS
  <2>14. m2 = 199 => i = 3 /\ k = 7
    OBVIOUS
  <2>15. m4 = 192 => i = 3 /\ k = 0 /\ j < 4
    OBVIOUS
  <2>16. m3 = 197 => i = 3 /\ k = 5 /\ e = 0
    OBVIOUS
  <2>17. m3 = 193 => i = 3 /\ k = 1 /\ e = 0
    OBVIOUS
  <2> QED
    BY <2>1, <2>2, <2>3, <2>4, <2>5, <2>6, <2>7, <2>8, <2>9, <2>10, <2>11, <2>12, <2>13, <2>14,
       <2>15, <2>16, <2>17
<1>5. /\ o = 0 => i = 0 /\ k = 0 /\ j = 0
      /\ o \in {2, 18} => i = 0 /\ k = 2 /\ j \in {0, 2}
      /\ o \in {10, 26} => i = 0 /\ k = 2 /\ j \in {1, 3}
      /\ o \in {34, 50} => i = 0 /\ k = 2 /\ j \in {4, 6}
      /\ o \in {42, 58} => i = 0 /\ k = 2 /\ j \in {5, 7}
      /\ o = 8 => i = 0 /\ k = 0 /\ j = 1
      /\ o = 224 => i = 3 /\ k = 0 /\ j = 4
      /\ o = 226 => i = 3 /\ k = 2 /\ j = 4
      /\ o = 234 => i = 3 /\ k = 2 /\ j = 5
      /\ o = 240 => i = 3 /\ k = 0 /\ j = 6
      /\ o = 242 => i = 3 /\ k = 2 /\ j = 6
      /\ o = 250 => i = 3 /\ k = 2 /\ j = 7
      /\ o = 249 => i = 3 /\ k = 1 /\ j = 7
      /\ o = 232 => i = 3 /\ k = 0 /\ j = 5
      /\ o = 248 => i = 3 /\ k = 0 /\ j = 7
      /\ o \in {7, 15, 23, 31} => i = 0 /\ k = 7 /\ j < 4
      /\ o = 39 => i = 0 /\ k = 7 /\ j = 4
      /\ o = 47 => i = 0 /\ k = 7 /\ j = 5
      /\ o = 55 => i = 0 /\ k = 7 /\ j = 6
      /\ o = 63 => i = 0 /\ k = 7 /\ j = 7
      /\ o = 24 => i = 0 /\ k = 0 /\ j = 3
      /\ o = 195 => i = 3 /\ k = 3 /\ j = 0
      /\ o = 233 => i = 3 /\ k = 1 /\ j = 5
      /\ o = 205 => i = 3 /\ k = 5 /\ j = 1
      /\ o = 201 => i = 3 /\ k = 1 /\ j = 1
      /\ o = 217 => i = 3 /\ k = 1 /\ j = 3
      /\ o = 243 => i = 3 /\ k = 3 /\ j = 6
      /\ o = 251 => i = 3 /\ k = 3 /\ j = 7
      /\ o = 203 => i = 3 /\ k = 3 /\ j = 1
  <2>1. o = 0 => i = 0 /\ k = 0 /\ j = 0
    OBVIOUS
  <2>2. o \in {2, 18} => i = 0 /\ k = 2 /\ j \in {0, 2}
    OBVIOUS
  <2>3. o \in {10, 26} => i = 0 /\ k = 2 /\ j \in {1, 3}
    OBVIOUS
  <2>4. o \in {34, 50} => i = 0 /\ k = 2 /\ j \in {4, 6}
    OBVIOUS
  <2>5. o \in {42, 58} => i = 0 /\ k = 2 /\ j \in {5, 7}
    OBVIOUS
  <2>6. o = 8 => i = 0 /\ k = 0 /\ j = 1
    OBVIOUS
  <2>7. o = 224 => i = 3 /\ k = 0 /\ j = 4
    OBVIOUS
  <2>8. o = 226 => i = 3 /\ k = 2 /\ j = 4
    OBVIOUS
  <2>9. o = 234 => i = 3 /\ k = 2 /\ j = 5
    OBVIOUS
  <2>10. o = 240 => i = 3 /\ k = 0 /\ j = 6
    OBVIOUS
  <2>11. o = 242 => i = 3 /\ k = 2 /\ j = 6
    OBVIOUS
  <2>12. o = 250 => i = 3 /\ k = 2 /\ j = 7
    OBVIOUS
  <2>13. o = 249 => i = 3 /\ k = 1 /\ j = 7
    OBVIOUS
  <2>14. o = 232 => i = 3 /\ k = 0 /\ j = 5
    OBVIOUS
  <2>15. o = 248 => i = 3 /\ k = 0 /\ j = 7
    OBVIOUS
  <2>16. o \in {7, 15, 23, 31} => i = 0 /\ k = 7 /\ j < 4
    OBVIOUS
  <2>17. o = 39 => i = 0 /\ k = 7 /\ j = 4
    OBVIOUS
  <2>18. o = 47 => i = 0 /\ k = 7 /\ j = 5
    OBVIOUS
  <2>19. o = 55 => i = 0 /\ k = 7 /\ j = 6
    OBVIOUS
  <2>20. o = 63 => i = 0 /\ k = 7 /\ j = 7
    OBVIOUS
  <2>21. o = 24 => i = 0 /\ k = 0 /\ j = 3
    OBVIOUS
  <2>22. o = 195 => i = 3 /\ k = 3 /\ j = 0
    OBVIOUS
  <2>23. o = 233 => i = 3 /\ k = 1 /\ j = 5
    OBVIOUS
  <2>24. o = 205 => i = 3 /\ k = 5 /\ j = 1
    OBVIOUS
  <2>25. o = 201 => i = 3 /\ k = 1 /\ j = 1
    OBVIOUS
  <2>26. o = 217 => i = 3 /\ k = 1 /\ j = 3
    OBVIOUS
  <2>27. o = 243 => i = 3 /\ k = 3 /\ j = 6
    OBVIOUS
  <2>28. o = 251 => i = 3 /\ k = 3 /\ j = 7
    OBVIOUS
  <2>29. o = 203 => i = 3 /\ k = 3 /\ j = 1
    OBVIOUS
  <2> QED
    BY <2>1, <2>2, <2>3, <2>4, <2>5, <2>6, <2>7, <2>8, <2>9, <2>10, <2>11, <2>12, <2>13, <2>14,
       <2>15, <2>16, <2>17, <2>18, <2>19, <2>20, <2>21, <2>22, <2>23, <2>24, <2>25, <2>26,
       <2>27, <2>28, <2>29
<1>6. /\ Ref!R_LD16_imm => m3 = 1
      /\ Ref!R_INC16 => m3 = 3
      /\ Ref!R_DEC16 => m3 = 11
      /\ Ref!R_ADD16 => m3 = 9
      /\ Ref!R_LD8_imm => m2 = 6
      /\ Ref!R_LD8 => m1 = 64 /\ o # 118
      /\ Ref!R_Arith8 => m1 = 128
      /\ Ref!R_Arith_imm => m2 = 198
      /\ Ref!R_INC8 => m2 = 4
      /\ Ref!R_DEC8 => m2 = 5
      /\ Ref!R_JR_cc => m4 = 32
      /\ Ref!R_JP_cc => m4 = 194
      /\ Ref!R_CALL_cc => m4 = 196
      /\ Ref!R_RST => m2 = 199
      /\ Ref!R_RET_cc => m4 = 192
      /\ Ref!R_PUSH => m3 = 197
      /\ Ref!R_POP => m3 = 193
  BY <1>1, <1>2
<1> HIDE DEF m1, m2, m3, m4
<1>7. Ref!R_HALT => Ref!opcode \in {16, 118}
  BY PTL DEF Ref!R_HALT
<1>8. o \in {16, 118} => (i = 0 /\ k = 0 /\ j = 2) \/ (i = 1 /\ j = 6 /\ k = 6)
  OBVIOUS
<1> QED
  BY <1>3, <1>4, <1>5, <1>6, <1>7, <1>8 DEF RefSelects

\* Before an instruction of the tester.
Paired ==
  /\ Aligned /\ ~shouldWriteToMemory
  /\ accesses = << >> /\ refAccesses = << >>
  /\ memory[0] = op

\* A load of a register but (HL).
LD_r_r == \E r \in {"A", "B", "C", "D", "E", "H", "L"}, n \in 1 .. 2 : Load(r, n)

LEMMA SomeLoad ==
  LD_A_r \/ LD_B_r \/ LD_C_r \/ LD_D_r \/ LD_E_r \/ LD_H_r \/ LD_L_r \/ LD_r_HL => LD_r_r
<1>1. 1 \in 1 .. 2 /\ 2 \in 1 .. 2
  OBVIOUS
<1> QED
  BY <1>1, Zenon DEF LD_A_r, LD_B_r, LD_C_r, LD_D_r, LD_E_r, LD_H_r, LD_L_r, LD_r_HL, LD_r_r

\* The octal digits of the opcodes of each case of executeInstruction.
OpSelects(i, j, k, e) ==
  /\ NOP => i = 0 /\ k = 0 /\ j = 0
  /\ HALT => (i = 0 /\ k = 0 /\ j = 2) \/ (i = 1 /\ j = 6 /\ k = 6)
  /\ LD_HL_r => i = 1 /\ j = 6 /\ k # 6
  /\ LD_r_d8 => i = 0 /\ k = 6
  /\ LD_rr_d16 => i = 0 /\ k = 1 /\ e = 0
  /\ LD_rr_A => i = 0 /\ k = 2 /\ j \in {0, 2}
  /\ LD_A_rr => i = 0 /\ k = 2 /\ j \in {1, 3}
  /\ LD_HL_inc_A => i = 0 /\ k = 2 /\ j \in {4, 6}
  /\ LD_A_HL_inc => i = 0 /\ k = 2 /\ j \in {5, 7}
  /\ LD_a16_SP => i = 0 /\ k = 0 /\ j = 1
  /\ LD_a16_A => i = 3 /\ k = 2 /\ j = 5
  /\ LD_A_a16 => i = 3 /\ k = 2 /\ j = 7
  /\ LD_A_a8 => i = 3 /\ k = 0 /\ j = 6
  /\ LD_mem_C_A => i = 3 /\ k = 2 /\ j = 4
  /\ LD_A_mem_C => i = 3 /\ k = 2 /\ j = 6
  /\ LD_a8_A => i = 3 /\ k = 0 /\ j = 4
  /\ LD_SP_HL => i = 3 /\ k = 1 /\ j = 7
  /\ ADD_SP_s8 => i = 3 /\ k = 0 /\ j = 5
  /\ LD_HL_SP_s8 => i = 3 /\ k = 0 /\ j = 7
  /\ Arithmetic_A_r => i = 2
  /\ Arithmetic_A_d8 => i = 3 /\ k = 6
  /\ INC_DEC_r => i = 0 /\ k \in {4, 5}
  /\ INC_DEC_mem_HL => i = 0 /\ k \in {4, 5}
  /\ INC_rr => i = 0 /\ k = 3 /\ e = 0
  /\ DEC_rr => i = 0 /\ k = 3 /\ e = 1
  /\ ADD_HL_rr => i = 0 /\ k = 1 /\ e = 1
  /\ RotateA => i = 0 /\ k = 7 /\ j < 4
  /\ DAA => i = 0 /\ k = 7 /\ j = 4
  /\ CPL => i = 0 /\ k = 7 /\ j = 5
  /\ SCF_CCF => i = 0 /\ k = 7 /\ j \in {6, 7}
  /\ JR => i = 0 /\ k = 0 /\ j = 3
  /\ JR_cc => i = 0 /\ k = 0 /\ j >= 4
  /\ JP => i = 3 /\ k = 3 /\ j = 0
  /\ JP_cc => i = 3 /\ k = 2 /\ j < 4
  /\ JP_HL => i = 3 /\ k = 1 /\ j = 5
  /\ CALL => i = 3 /\ k = 5 /\ j = 1
  /\ CALL_cc => i = 3 /\ k = 4 /\ j < 4
  /\ RST => i = 3 /\ k = 7
  /\ RET => i = 3 /\ k = 1 /\ j = 1
  /\ RETI => i = 3 /\ k = 1 /\ j = 3
  /\ RET_cc => i = 3 /\ k = 0 /\ j < 4
  /\ PUSH => i = 3 /\ k = 5 /\ e = 0
  /\ POP => i = 3 /\ k = 1 /\ e = 0
  /\ DI_EI => i = 3 /\ k = 3 /\ j \in {6, 7}
  /\ Prefixed => i = 3 /\ k = 3 /\ j = 1
  /\ LD_r_r => i = 1 /\ j # 6

LEMMA OpGuards ==
  ASSUME NEW i \in 0 .. 3, NEW j \in 0 .. 7, NEW k \in 0 .. 7, NEW e \in 0 .. 1, NEW h \in 0 .. 3,
         op = 64 * i + 8 * j + k, y = j, z = k, j = 2 * h + e
  PROVE  OpSelects(i, j, k, e)
<1>1. NOP => i = 0 /\ k = 0 /\ j = 0
  <2>1. NOP => op = 0
    BY PTL DEF NOP
  <2> QED
    BY <2>1
<1>2. HALT => (i = 0 /\ k = 0 /\ j = 2) \/ (i = 1 /\ j = 6 /\ k = 6)
  <2>1. HALT => op \in {16, 118}
    BY PTL DEF HALT
  <2> QED
    BY <2>1
<1>3. LD_HL_r => i = 1 /\ j = 6 /\ k # 6
  <2>1. LD_HL_r => op \in LoadOps /\ y = 6 /\ z # 6
    BY PTL DEF LD_HL_r
  <2> QED
    BY <2>1 DEF LoadOps
<1>4. LD_r_d8 => i = 0 /\ k = 6
  <2>1. LD_r_d8 => op \in MiscOps /\ z = 6
    BY PTL DEF LD_r_d8
  <2> QED
    BY <2>1 DEF MiscOps
<1>5. LD_rr_d16 => i = 0 /\ k = 1 /\ e = 0
  <2>1. LD_rr_d16 => op \in {1, 17, 33, 49}
    BY PTL DEF LD_rr_d16
  <2> QED
    BY <2>1
<1>6. LD_rr_A => i = 0 /\ k = 2 /\ j \in {0, 2}
  <2>1. LD_rr_A => op \in {2, 18}
    BY PTL DEF LD_rr_A
  <2> QED
    BY <2>1
<1>7. LD_A_rr => i = 0 /\ k = 2 /\ j \in {1, 3}
  <2>1. LD_A_rr => op \in {10, 26}
    BY PTL DEF LD_A_rr
  <2> QED
    BY <2>1
<1>8. LD_HL_inc_A => i = 0 /\ k = 2 /\ j \in {4, 6}
  <2>1. LD_HL_inc_A => op \in {34, 50}
    BY PTL DEF LD_HL_inc_A
  <2> QED
    BY <2>1
<1>9. LD_A_HL_inc => i = 0 /\ k = 2 /\ j \in {5, 7}
  <2>1. LD_A_HL_inc => op \in {42, 58}
    BY PTL DEF LD_A_HL_inc
  <2> QED
    BY <2>1
<1>10. LD_a16_SP => i = 0 /\ k = 0 /\ j = 1
  <2>1. LD_a16_SP => op = 8
    BY PTL DEF LD_a16_SP
  <2> QED
    BY <2>1
<1>11. LD_a16_A => i = 3 /\ k = 2 /\ j = 5
  <2>1. LD_a16_A => op = 234
    BY PTL DEF LD_a16_A
  <2> QED
    BY <2>1
<1>12. LD_A_a16 => i = 3 /\ k = 2 /\ j = 7
  <2>1. LD_A_a16 => op = 250
    BY PTL DEF LD_A_a16
  <2> QED
    BY <2>1
<1>13. LD_A_a8 => i = 3 /\ k = 0 /\ j = 6
  <2>1. LD_A_a8 => op = 240
    BY PTL DEF LD_A_a8
  <2> QED
    BY <2>1
<1>14. LD_mem_C_A => i = 3 /\ k = 2 /\ j = 4
  <2>1. LD_mem_C_A => op = 226
    BY PTL DEF LD_mem_C_A
  <2> QED
    BY <2>1
<1>15. LD_A_mem_C => i = 3 /\ k = 2 /\ j = 6
  <2>1. LD_A_mem_C => op = 242
    BY PTL DEF LD_A_mem_C
  <2> QED
    BY <2>1
<1>16. LD_a8_A => i = 3 /\ k = 0 /\ j = 4
  <2>1. LD_a8_A => op = 224
    BY PTL DEF LD_a8_A
  <2> QED
    BY <2>1
<1>17. LD_SP_HL => i = 3 /\ k = 1 /\ j = 7
  <2>1. LD_SP_HL => op = 249
    BY PTL DEF LD_SP_HL
  <2> QED
    BY <2>1
<1>18. ADD_SP_s8 => i = 3 /\ k = 0 /\ j = 5
  <2>1. ADD_SP_s8 => op = 232
    BY PTL DEF ADD_SP_s8
  <2> QED
    BY <2>1
<1>19. LD_HL_SP_s8 => i = 3 /\ k = 0 /\ j = 7
  <2>1. LD_HL_SP_s8 => op = 248
    BY PTL DEF LD_HL_SP_s8
  <2> QED
    BY <2>1
<1>20. Arithmetic_A_r => i = 2
  <2>1. Arithmetic_A_r => op \in ArithmeticOps
    BY Zenon DEF Arithmetic_A_r, ADD_A_r, ADC_A_r, SUB_r, SBC_A_r, AND_r,
       XOR_r, OR_r, CP_r, With_r
  <2> QED
    BY <2>1 DEF ArithmeticOps
<1>21. Arithmetic_A_d8 => i = 3 /\ k = 6
  <2>1. Arithmetic_A_d8 => op \in ControlOps /\ z = 6
    BY PTL DEF Arithmetic_A_d8
  <2> QED
    BY <2>1 DEF ControlOps
<1>22. INC_DEC_r => i = 0 /\ k \in {4, 5}
  <2>1. INC_DEC_r => op \in MiscOps /\ z \in {4, 5}
    BY PTL DEF INC_DEC_r
  <2> QED
    BY <2>1 DEF MiscOps
<1>23. INC_DEC_mem_HL => i = 0 /\ k \in {4, 5}
  <2>1. INC_DEC_mem_HL => op \in {52, 53}
    BY PTL DEF INC_DEC_mem_HL
  <2> QED
    BY <2>1
<1>24. INC_rr => i = 0 /\ k = 3 /\ e = 0
  <2>1. INC_rr => op \in {3, 19, 35, 51}
    BY PTL DEF INC_rr
  <2> QED
    BY <2>1
<1>25. DEC_rr => i = 0 /\ k = 3 /\ e = 1
  <2>1. DEC_rr => op \in {11, 27, 43, 59}
    BY PTL DEF DEC_rr
  <2> QED
    BY <2>1
<1>26. ADD_HL_rr => i = 0 /\ k = 1 /\ e = 1
  <2>1. ADD_HL_rr => op \in {9, 25, 41, 57}
    BY PTL DEF ADD_HL_rr
  <2> QED
    BY <2>1
<1>27. RotateA => i = 0 /\ k = 7 /\ j < 4
  <2>1. RotateA => op \in {7, 15, 23, 31}
    BY PTL DEF RotateA
  <2> QED
    BY <2>1
<1>28. DAA => i = 0 /\ k = 7 /\ j = 4
  <2>1. DAA => op = 39
    BY PTL DEF DAA
  <2> QED
    BY <2>1
<1>29. CPL => i = 0 /\ k = 7 /\ j = 5
  <2>1. CPL => op = 47
    BY PTL DEF CPL
  <2> QED
    BY <2>1
<1>30. SCF_CCF => i = 0 /\ k = 7 /\ j \in {6, 7}
  <2>1. SCF_CCF => op \in {55, 63}
    BY PTL DEF SCF_CCF
  <2> QED
    BY <2>1
<1>31. JR => i = 0 /\ k = 0 /\ j = 3
  <2>1. JR => op = 24
    BY PTL DEF JR
  <2> QED
    BY <2>1
<1>32. JR_cc => i = 0 /\ k = 0 /\ j >= 4
  <2>1. JR_cc => op \in {32, 40, 48, 56}
    BY PTL DEF JR_cc
  <2> QED
    BY <2>1
<1>33. JP => i = 3 /\ k = 3 /\ j = 0
  <2>1. JP => op = 195
    BY PTL DEF JP
  <2> QED
    BY <2>1
<1>34. JP_cc => i = 3 /\ k = 2 /\ j < 4
  <2>1. JP_cc => op \in {194, 202, 210, 218}
    BY PTL DEF JP_cc
  <2> QED
    BY <2>1
<1>35. JP_HL => i = 3 /\ k = 1 /\ j = 5
  <2>1. JP_HL => op = 233
    BY PTL DEF JP_HL
  <2> QED
    BY <2>1
<1>36. CALL => i = 3 /\ k = 5 /\ j = 1
  <2>1. CALL => op = 205
    BY PTL DEF CALL
  <2> QED
    BY <2>1
<1>37. CALL_cc => i = 3 /\ k = 4 /\ j < 4
  <2>1. CALL_cc => op \in {196, 204, 212, 220}
    BY PTL DEF CALL_cc
  <2> QED
    BY <2>1
<1>38. RST => i = 3 /\ k = 7
  <2>1. RST => op \in ControlOps /\ z = 7
    BY PTL DEF RST
  <2> QED
    BY <2>1 DEF ControlOps
<1>39. RET => i = 3 /\ k = 1 /\ j = 1
  <2>1. RET => op = 201
    BY PTL DEF RET
  <2> QED
    BY <2>1
<1>40. RETI => i = 3 /\ k = 1 /\ j = 3
  <2>1. RETI => op = 217
    BY PTL DEF RETI
  <2> QED
    BY <2>1
<1>41. RET_cc => i = 3 /\ k = 0 /\ j < 4
  <2>1. RET_cc => op \in {192, 200, 208, 216}
    BY PTL DEF RET_cc
  <2> QED
    BY <2>1
<1>42. PUSH => i = 3 /\ k = 5 /\ e = 0
  <2>1. PUSH => op \in {197, 213, 229, 245}
    BY PTL DEF PUSH
  <2> QED
    BY <2>1
<1>43. POP => i = 3 /\ k = 1 /\ e = 0
  <2>1. POP => op \in {193, 209, 225, 241}
    BY PTL DEF POP
  <2> QED
    BY <2>1
<1>44. DI_EI => i = 3 /\ k = 3 /\ j \in {6, 7}
  <2>1. DI_EI => op \in {243, 251}
    BY PTL DEF DI_EI
  <2> QED
    BY <2>1
<1>45. Prefixed => i = 3 /\ k = 3 /\ j = 1
  <2>1. Prefixed => op = 203
    BY PTL DEF Prefixed, CB_RotateShift, CB_BIT, CB_RES, CB_SET
  <2> QED
    BY <2>1
<1>46. LD_r_r => i = 1 /\ j # 6
  <2>1. LD_r_r => op \in LoadOps /\ Reg8[y + 1] # "HL"
    BY Zenon DEF LD_r_r, Load
  <2>2. Reg8[6 + 1] = "HL"
    BY DEF Reg8
  <2>3. LD_r_r => op \in LoadOps /\ y # 6
    BY <2>1, <2>2, Zenon
  <2> QED
    BY <2>3 DEF LoadOps
<1> QED
  BY <1>1, <1>2, <1>3, <1>4, <1>5, <1>6, <1>7, <1>8, <1>9, <1>10, <1>11, <1>12, <1>13,
     <1>14, <1>15, <1>16, <1>17, <1>18, <1>19, <1>20, <1>21, <1>22, <1>23, <1>24, <1>25,
     <1>26, <1>27, <1>28, <1>29, <1>30, <1>31, <1>32, <1>33, <1>34, <1>35, <1>36, <1>37,
     <1>38, <1>39, <1>40, <1>41, <1>42, <1>43, <1>44, <1>45, <1>46 DEF OpSelects

\* Every case of executeInstruction meets its branch of the reference.
LEMMA Pairs ==
  ASSUME Paired, tick, Ref!rcpu_step
  PROVE  \/ LD_r_r /\ Ref!R_LD8
         \/ NOP /\ Ref!R_NOP
         \/ HALT /\ Ref!R_HALT
         \/ LD_HL_r /\ Ref!R_LD8
         \/ LD_r_d8 /\ Ref!R_LD8_imm
         \/ LD_rr_d16 /\ Ref!R_LD16_imm
         \/ LD_rr_A /\ Ref!R_LD_mem_A
         \/ LD_A_rr /\ Ref!R_LD_A_mem
         \/ LD_HL_inc_A /\ Ref!R_LDI_mem
         \/ LD_A_HL_inc /\ Ref!R_LDI_A
         \/ LD_a16_SP /\ Ref!R_LD_imm16_SP
         \/ LD_a16_A /\ Ref!R_LD_imm16_A
         \/ LD_A_a16 /\ Ref!R_LD_A_imm16
         \/ LD_A_a8 /\ Ref!R_LDH_A_imm
         \/ LD_mem_C_A /\ Ref!R_LDH_C_A
         \/ LD_A_mem_C /\ Ref!R_LDH_A_C
         \/ LD_a8_A /\ Ref!R_LDH_imm_A
         \/ LD_SP_HL /\ Ref!R_LD_SP_HL
         \/ ADD_SP_s8 /\ Ref!R_ADD_SP
         \/ LD_HL_SP_s8 /\ Ref!R_LD_HL_SP
         \/ Arithmetic_A_r /\ Ref!R_Arith8
         \/ Arithmetic_A_d8 /\ Ref!R_Arith_imm
         \/ INC_DEC_r /\ (Ref!R_INC8 \/ Ref!R_DEC8)
         \/ INC_DEC_mem_HL /\ (Ref!R_INC8 \/ Ref!R_DEC8)
         \/ INC_rr /\ Ref!R_INC16
         \/ DEC_rr /\ Ref!R_DEC16
         \/ ADD_HL_rr /\ Ref!R_ADD16
         \/ RotateA /\ Ref!R_RotateA
         \/ DAA /\ Ref!R_DAA
         \/ CPL /\ Ref!R_CPL
         \/ SCF_CCF /\ (Ref!R_SCF \/ Ref!R_CCF)
         \/ JR /\ Ref!R_JR
         \/ JR_cc /\ Ref!R_JR_cc
         \/ JP /\ Ref!R_JP
         \/ JP_cc /\ Ref!R_JP_cc
         \/ JP_HL /\ Ref!R_JP_HL
         \/ CALL /\ Ref!R_CALL
         \/ CALL_cc /\ Ref!R_CALL_cc
         \/ RST /\ Ref!R_RST
         \/ RET /\ Ref!R_RET
         \/ RETI /\ Ref!R_RETI
         \/ RET_cc /\ Ref!R_RET_cc
         \/ PUSH /\ Ref!R_PUSH
         \/ POP /\ Ref!R_POP
         \/ DI_EI /\ (Ref!R_DI \/ Ref!R_EI)
         \/ Prefixed /\ Ref!R_CB
<1> DEFINE i == op \div 64
           j == (op \div 8) % 8
           k == op % 8
           e == j % 2
           d == j \div 4
           h == j \div 2
           m1 == And(op, 192)
           m2 == And(op, 199)
           m3 == And(op, 207)
           m4 == And(op, 231)
<1>1. op \in Byte /\ Ref!opcode = op
  BY SameParts, AlignedParts, Decoded DEF Paired
<1>2. /\ i \in 0 .. 3 /\ j \in 0 .. 7 /\ k \in 0 .. 7 /\ op = 64 * i + 8 * j + k
      /\ m1 = 64 * i /\ m2 = 64 * i + k /\ m3 = 64 * i + 8 * e + k /\ m4 = 64 * i + 32 * d + k
  BY <1>1, Octal
<1>3. y = j /\ z = k
  BY DEF y, z
<1> HIDE DEF i, j, k, m1, m2, m3, m4
<1>4. e \in 0 .. 1 /\ d \in 0 .. 1 /\ h \in 0 .. 3 /\ j = 2 * h + e /\ (d = 1 <=> j >= 4)
  BY <1>2
<1> HIDE DEF e, d, h
<1>5. /\ Ref!And(op, 192) = 64 * i /\ Ref!And(op, 199) = 64 * i + k
      /\ Ref!And(op, 207) = 64 * i + 8 * e + k /\ Ref!And(op, 231) = 64 * i + 32 * d + k
  BY <1>2, SameBits DEF m1, m2, m3, m4
<1>6. RefSelects(i, j, k, e)
  BY <1>1, <1>2, <1>4, <1>5, RefGuards
<1>7. OpSelects(i, j, k, e)
  BY <1>2, <1>3, <1>4, OpGuards
<1>8. \/ Ref!R_NOP
      \/ Ref!R_HALT
      \/ Ref!R_LD16_imm
      \/ Ref!R_INC16
      \/ Ref!R_DEC16
      \/ Ref!R_ADD16
      \/ Ref!R_LD_mem_A
      \/ Ref!R_LD_A_mem
      \/ Ref!R_LDI_mem
      \/ Ref!R_LDI_A
      \/ Ref!R_LD8_imm
      \/ Ref!R_LD8
      \/ Ref!R_LD_imm16_SP
      \/ Ref!R_LDH_imm_A
      \/ Ref!R_LDH_C_A
      \/ Ref!R_LD_imm16_A
      \/ Ref!R_LDH_A_imm
      \/ Ref!R_LDH_A_C
      \/ Ref!R_LD_A_imm16
      \/ Ref!R_LD_SP_HL
      \/ Ref!R_ADD_SP
      \/ Ref!R_LD_HL_SP
      \/ Ref!R_Arith8
      \/ Ref!R_Arith_imm
      \/ Ref!R_INC8
      \/ Ref!R_DEC8
      \/ Ref!R_RotateA
      \/ Ref!R_DAA
      \/ Ref!R_CPL
      \/ Ref!R_SCF
      \/ Ref!R_CCF
      \/ Ref!R_JR
      \/ Ref!R_JR_cc
      \/ Ref!R_JP
      \/ Ref!R_JP_cc
      \/ Ref!R_JP_HL
      \/ Ref!R_CALL
      \/ Ref!R_CALL_cc
      \/ Ref!R_RST
      \/ Ref!R_RET
      \/ Ref!R_RETI
      \/ Ref!R_RET_cc
      \/ Ref!R_PUSH
      \/ Ref!R_POP
      \/ Ref!R_DI
      \/ Ref!R_EI
      \/ Ref!R_CB
  BY Zenon DEF Ref!rcpu_step, Ref!R_Loads, Ref!R_Arith, Ref!R_Jumps
<1>9. \/ LD_r_r
      \/ NOP
      \/ HALT
      \/ LD_HL_r
      \/ LD_r_d8
      \/ LD_rr_d16
      \/ LD_rr_A
      \/ LD_A_rr
      \/ LD_HL_inc_A
      \/ LD_A_HL_inc
      \/ LD_a16_SP
      \/ LD_a16_A
      \/ LD_A_a16
      \/ LD_A_a8
      \/ LD_mem_C_A
      \/ LD_A_mem_C
      \/ LD_a8_A
      \/ LD_SP_HL
      \/ ADD_SP_s8
      \/ LD_HL_SP_s8
      \/ Arithmetic_A_r
      \/ Arithmetic_A_d8
      \/ INC_DEC_r
      \/ INC_DEC_mem_HL
      \/ INC_rr
      \/ DEC_rr
      \/ ADD_HL_rr
      \/ RotateA
      \/ DAA
      \/ CPL
      \/ SCF_CCF
      \/ JR
      \/ JR_cc
      \/ JP
      \/ JP_cc
      \/ JP_HL
      \/ CALL
      \/ CALL_cc
      \/ RST
      \/ RET
      \/ RETI
      \/ RET_cc
      \/ PUSH
      \/ POP
      \/ DI_EI
      \/ Prefixed
  <2>1. ~LD_a8_A_HandOver
    <3>1. LD_a8_A_HandOver => shouldWriteToMemory
      BY PTL DEF LD_a8_A_HandOver
    <3> QED
      BY <3>1 DEF Paired
  <2> QED
    BY <2>1, SomeLoad, PTL DEF tick, Loads, Computes, Branches
<1>10. LD_r_r => Ref!R_LD8
  BY <1>2, <1>4, <1>6, <1>7, <1>8 DEF RefSelects, OpSelects
<1>11. NOP => Ref!R_NOP
  BY <1>2, <1>4, <1>6, <1>7, <1>8 DEF RefSelects, OpSelects
<1>12. HALT => Ref!R_HALT
  BY <1>2, <1>4, <1>6, <1>7, <1>8 DEF RefSelects, OpSelects
<1>13. LD_HL_r => Ref!R_LD8
  BY <1>2, <1>4, <1>6, <1>7, <1>8 DEF RefSelects, OpSelects
<1>14. LD_r_d8 => Ref!R_LD8_imm
  BY <1>2, <1>4, <1>6, <1>7, <1>8 DEF RefSelects, OpSelects
<1>15. LD_rr_d16 => Ref!R_LD16_imm
  BY <1>2, <1>4, <1>6, <1>7, <1>8 DEF RefSelects, OpSelects
<1>16. LD_rr_A => Ref!R_LD_mem_A
  BY <1>2, <1>4, <1>6, <1>7, <1>8 DEF RefSelects, OpSelects
<1>17. LD_A_rr => Ref!R_LD_A_mem
  BY <1>2, <1>4, <1>6, <1>7, <1>8 DEF RefSelects, OpSelects
<1>18. LD_HL_inc_A => Ref!R_LDI_mem
  BY <1>2, <1>4, <1>6, <1>7, <1>8 DEF RefSelects, OpSelects
<1>19. LD_A_HL_inc => Ref!R_LDI_A
  BY <1>2, <1>4, <1>6, <1>7, <1>8 DEF RefSelects, OpSelects
<1>20. LD_a16_SP => Ref!R_LD_imm16_SP
  BY <1>2, <1>4, <1>6, <1>7, <1>8 DEF RefSelects, OpSelects
<1>21. LD_a16_A => Ref!R_LD_imm16_A
  BY <1>2, <1>4, <1>6, <1>7, <1>8 DEF RefSelects, OpSelects
<1>22. LD_A_a16 => Ref!R_LD_A_imm16
  BY <1>2, <1>4, <1>6, <1>7, <1>8 DEF RefSelects, OpSelects
<1>23. LD_A_a8 => Ref!R_LDH_A_imm
  BY <1>2, <1>4, <1>6, <1>7, <1>8 DEF RefSelects, OpSelects
<1>24. LD_mem_C_A => Ref!R_LDH_C_A
  BY <1>2, <1>4, <1>6, <1>7, <1>8 DEF RefSelects, OpSelects
<1>25. LD_A_mem_C => Ref!R_LDH_A_C
  BY <1>2, <1>4, <1>6, <1>7, <1>8 DEF RefSelects, OpSelects
<1>26. LD_a8_A => Ref!R_LDH_imm_A
  BY <1>2, <1>4, <1>6, <1>7, <1>8 DEF RefSelects, OpSelects
<1>27. LD_SP_HL => Ref!R_LD_SP_HL
  BY <1>2, <1>4, <1>6, <1>7, <1>8 DEF RefSelects, OpSelects
<1>28. ADD_SP_s8 => Ref!R_ADD_SP
  BY <1>2, <1>4, <1>6, <1>7, <1>8 DEF RefSelects, OpSelects
<1>29. LD_HL_SP_s8 => Ref!R_LD_HL_SP
  BY <1>2, <1>4, <1>6, <1>7, <1>8 DEF RefSelects, OpSelects
<1>30. Arithmetic_A_r => Ref!R_Arith8
  BY <1>2, <1>4, <1>6, <1>7, <1>8 DEF RefSelects, OpSelects
<1>31. Arithmetic_A_d8 => Ref!R_Arith_imm
  BY <1>2, <1>4, <1>6, <1>7, <1>8 DEF RefSelects, OpSelects
<1>32. INC_DEC_r => Ref!R_INC8 \/ Ref!R_DEC8
  BY <1>2, <1>4, <1>6, <1>7, <1>8 DEF RefSelects, OpSelects
<1>33. INC_DEC_mem_HL => Ref!R_INC8 \/ Ref!R_DEC8
  BY <1>2, <1>4, <1>6, <1>7, <1>8 DEF RefSelects, OpSelects
<1>34. INC_rr => Ref!R_INC16
  BY <1>2, <1>4, <1>6, <1>7, <1>8 DEF RefSelects, OpSelects
<1>35. DEC_rr => Ref!R_DEC16
  BY <1>2, <1>4, <1>6, <1>7, <1>8 DEF RefSelects, OpSelects
<1>36. ADD_HL_rr => Ref!R_ADD16
  BY <1>2, <1>4, <1>6, <1>7, <1>8 DEF RefSelects, OpSelects
<1>37. RotateA => Ref!R_RotateA
  BY <1>2, <1>4, <1>6, <1>7, <1>8 DEF RefSelects, OpSelects
<1>38. DAA => Ref!R_DAA
  BY <1>2, <1>4, <1>6, <1>7, <1>8 DEF RefSelects, OpSelects
<1>39. CPL => Ref!R_CPL
  BY <1>2, <1>4, <1>6, <1>7, <1>8 DEF RefSelects, OpSelects
<1>40. SCF_CCF => Ref!R_SCF \/ Ref!R_CCF
  BY <1>2, <1>4, <1>6, <1>7, <1>8 DEF RefSelects, OpSelects
<1>41. JR => Ref!R_JR
  BY <1>2, <1>4, <1>6, <1>7, <1>8 DEF RefSelects, OpSelects
<1>42. JR_cc => Ref!R_JR_cc
  BY <1>2, <1>4, <1>6, <1>7, <1>8 DEF RefSelects, OpSelects
<1>43. JP => Ref!R_JP
  BY <1>2, <1>4, <1>6, <1>7, <1>8 DEF RefSelects, OpSelects
<1>44. JP_cc => Ref!R_JP_cc
  BY <1>2, <1>4, <1>6, <1>7, <1>8 DEF RefSelects, OpSelects
<1>45. JP_HL => Ref!R_JP_HL
  BY <1>2, <1>4, <1>6, <1>7, <1>8 DEF RefSelects, OpSelects
<1>46. CALL => Ref!R_CALL
  BY <1>2, <1>4, <1>6, <1>7, <1>8 DEF RefSelects, OpSelects
<1>47. CALL_cc => Ref!R_CALL_cc
  BY <1>2, <1>4, <1>6, <1>7, <1>8 DEF RefSelects, OpSelects
<1>48. RST => Ref!R_RST
  BY <1>2, <1>4, <1>6, <1>7, <1>8 DEF RefSelects, OpSelects
<1>49. RET => Ref!R_RET
  BY <1>2, <1>4, <1>6, <1>7, <1>8 DEF RefSelects, OpSelects
<1>50. RETI => Ref!R_RETI
  BY <1>2, <1>4, <1>6, <1>7, <1>8 DEF RefSelects, OpSelects
<1>51. RET_cc => Ref!R_RET_cc
  BY <1>2, <1>4, <1>6, <1>7, <1>8 DEF RefSelects, OpSelects
<1>52. PUSH => Ref!R_PUSH
  BY <1>2, <1>4, <1>6, <1>7, <1>8 DEF RefSelects, OpSelects
<1>53. POP => Ref!R_POP
  BY <1>2, <1>4, <1>6, <1>7, <1>8 DEF RefSelects, OpSelects
<1>54. DI_EI => Ref!R_DI \/ Ref!R_EI
  BY <1>2, <1>4, <1>6, <1>7, <1>8 DEF RefSelects, OpSelects
<1>55. Prefixed => Ref!R_CB
  BY <1>2, <1>4, <1>6, <1>7, <1>8 DEF RefSelects, OpSelects
<1> QED
  BY <1>9, <1>10, <1>11, <1>12, <1>13, <1>14, <1>15, <1>16, <1>17, <1>18, <1>19, <1>20,
     <1>21, <1>22, <1>23, <1>24, <1>25, <1>26, <1>27, <1>28, <1>29, <1>30, <1>31, <1>32,
     <1>33, <1>34, <1>35, <1>36, <1>37, <1>38, <1>39, <1>40, <1>41, <1>42, <1>43, <1>44,
     <1>45, <1>46, <1>47, <1>48, <1>49, <1>50, <1>51, <1>52, <1>53, <1>54, <1>55, PTL

-----------------------------------------------------------------------------
(* What the two log of the same stores.                                     *)

LEMMA QuietLogs == ASSUME Paired, NoStore, Ref!Silent PROVE SameLogs'
<1>1. accesses = << >> /\ refAccesses = << >>
  BY DEF Paired
<1>2. accesses' = accesses /\ refAccesses' = refAccesses
  BY DEF NoStore, Ref!Silent
<1> QED
  BY <1>1, <1>2 DEF SameLogs

LEMMA StoreLogs ==
  ASSUME Paired, NEW a \in Word, NEW v \in Byte,
         Store(<< <<a, v>> >>), Ref!mmu_write(<< <<a, v>> >>)
  PROVE  SameLogs'
<1> DEFINE u  == Stored(a, v)
           e  == <<a, u>>
           r  == <<a, v>>
<1>1. accesses = << >> /\ refAccesses = << >> /\ ~shouldWriteToMemory
  BY DEF Paired
<1>2. AsStored(<<r>>) = <<e>>
  BY DEF AsStored
<1>3. accesses' = accesses \o <<e>>
  BY <1>1, <1>2 DEF Store, Write
<1>4. refAccesses' = refAccesses \o <<r>>
  BY DEF Ref!mmu_write
<1> HIDE DEF u, e, r
<1>5. accesses' = <<e>> /\ refAccesses' = <<r>>
  BY <1>1, <1>3, <1>4
<1>6. OneLog(a, v)'
  BY <1>5, Zenon DEF OneLog, Stored, e, r, u
<1> QED
  BY <1>6, Zenon DEF SameLogs

LEMMA TwoLogs ==
  ASSUME Paired, NEW a \in Word, NEW l \in Byte, NEW h \in Byte, NEW v \in Byte, NEW w \in Byte,
         Write(AsStored(<< <<Next16(a), w>>, <<a, v>> >>)),
         Ref!mmu_write(<< <<a, l>>, <<Next16(a), h>> >>),
         Stored(a, v) = Stored(a, l),
         Stored(Next16(a), w) = IF a = DIV /\ memory[0] = 8 THEN 0 ELSE Stored(Next16(a), h)
  PROVE  SameLogs'
<1> DEFINE b  == Next16(a)
           e1 == <<b, Stored(b, w)>>
           e2 == <<a, Stored(a, v)>>
           r1 == <<a, l>>
           r2 == <<b, h>>
           q1 == <<b, w>>
           q2 == <<a, v>>
<1>1. accesses = << >> /\ refAccesses = << >> /\ ~shouldWriteToMemory
  BY DEF Paired
<1>2. AsStored(<<q1, q2>>) = <<e1, e2>>
  <2>1. q1[1] = b /\ q1[2] = w /\ q2[1] = a /\ q2[2] = v
    OBVIOUS
  <2> HIDE DEF q1, q2, b
  <2> QED
    BY <2>1 DEF AsStored
<1>3. accesses' = accesses \o <<e1, e2>> /\ memory' = memory
  BY <1>1, <1>2 DEF Write
<1>4. refAccesses' = refAccesses \o <<r1, r2>>
  BY DEF Ref!mmu_write
<1> HIDE DEF e1, e2, r1, r2
<1>5. accesses' = <<e1, e2>> /\ refAccesses' = <<r1, r2>>
  BY <1>1, <1>3, <1>4
<1> DEFINE u == IF a = DIV /\ memory[0] = 8 THEN 0 ELSE Stored(b, h)
<1>6. e1 = <<b, u>> /\ e2 = <<a, Stored(a, l)>>
  BY Zenon DEF e1, e2
<1>7. u' = u
  BY <1>3, Zenon DEF Stored
<1> HIDE DEF u
<1>8. /\ accesses' = << <<b, u'>>, <<a, Stored(a, l)>> >>
      /\ refAccesses' = << <<a, l>>, <<b, h>> >>
  BY <1>5, <1>6, <1>7, Zenon DEF r1, r2
<1>9. TwoLog(a, l, h)'
  BY <1>8, Zenon DEF TwoLog, u
<1> QED
  BY <1>9, Zenon DEF SameLogs

\* A word that is pushed.
LEMMA PushLogs ==
  ASSUME Paired, op # 8, NEW w \in Word, Store(PushStores(cpu, w)), Ref!push16(ref, w)
  PROVE  SameLogs'
<1> DEFINE a == (cpu.SP - 2) % 65536
           l == Low(w)
           h == High(w)
<1>1. cpu.SP \in Word /\ ref.sp = cpu.SP
  BY AlignedParts, SimParts, Fields DEF Paired
<1>2. a \in Word
  BY <1>1, Wrapped, WordIs
<1>3. (cpu.SP - 1) % 65536 = Next16(a) /\ Ref!Inc16(ref.sp, 65534) = a
  BY <1>1, WordIs DEF Next16, Ref!Inc16
<1>4. l \in Byte /\ h \in Byte
  BY Halves
<1>5. Write(AsStored(<< <<Next16(a), h>>, <<a, l>> >>))
  BY <1>3 DEF Store, PushStores
<1>6. Ref!mmu_write(<< <<a, l>>, <<Next16(a), h>> >>)
  <2>1. refAccesses' = refAccesses \o Ref!Bytes16(Ref!Inc16(ref.sp, 65534), w) /\ memory' = memory
    BY DEF Ref!push16, Ref!mmu_write
  <2>2. Ref!Bytes16(a, w) = << <<a, l>>, <<Next16(a), h>> >>
    BY <1>2, SameHalves, Nexts DEF Ref!Bytes16
  <2> DEFINE q == Ref!Inc16(ref.sp, 65534)
             x == << <<a, l>>, <<Next16(a), h>> >>
  <2>3. q = a
    BY <1>3
  <2>4. refAccesses' = refAccesses \o Ref!Bytes16(q, w) /\ memory' = memory
    BY <2>1
  <2> HIDE DEF a, q, x
  <2>5. refAccesses' = refAccesses \o x
    BY <2>2, <2>3, <2>4, Zenon DEF x
  <2>6. Ref!mmu_write(x)
    BY <2>4, <2>5, Zenon DEF Ref!mmu_write
  <2> QED
    BY <2>6 DEF x
<1>7. memory[0] # 8
  BY DEF Paired
<1> HIDE DEF a, l, h
<1> QED
  BY <1>2, <1>4, <1>5, <1>6, <1>7, TwoLogs

\* LD (a16),SP
LEMMA WordLogs ==
  ASSUME Paired, op = 8, NEW a \in Word, NEW w \in Word,
         StoreWord(a, w), Ref!mmu_write(Ref!Bytes16(a, w))
  PROVE  SameLogs'
<1> DEFINE v == IF a = DIV THEN 0 ELSE w
           l == Low(w)
           h == High(w)
           s == Low(v)
           t == High(v)
<1>1. v \in Word
  BY WordIs
<1>2. l \in Byte /\ h \in Byte /\ s \in Byte /\ t \in Byte
  BY <1>1, Halves
<1>3. Write(AsStored(<< <<Next16(a), t>>, <<a, s>> >>))
  BY DEF StoreWord
<1>4. Ref!mmu_write(<< <<a, l>>, <<Next16(a), h>> >>)
  <2>1. Ref!Bytes16(a, w) = << <<a, l>>, <<Next16(a), h>> >>
    BY SameHalves, Nexts DEF Ref!Bytes16
  <2> QED
    BY <2>1, Zenon
<1>5. memory[0] = 8
  BY DEF Paired
<1>6. Stored(a, s) = Stored(a, l)
  <2>1. CASE a = DIV
    BY <2>1, Zenon DEF Stored
  <2>2. CASE a # DIV
    BY <2>2, Zenon
  <2> QED
    BY <2>1, <2>2
<1>7. Stored(Next16(a), t) = IF a = DIV /\ memory[0] = 8 THEN 0 ELSE Stored(Next16(a), h)
  <2>1. CASE a = DIV
    <3>1. t = 0
      BY <2>1 DEF High
    <3>2. Stored(Next16(a), 0) = 0
      BY Zenon DEF Stored
    <3> HIDE DEF t
    <3> QED
      BY <1>5, <2>1, <3>1, <3>2, Zenon
  <2>2. CASE a # DIV
    BY <2>2, Zenon
  <2> QED
    BY <2>1, <2>2
<1> HIDE DEF v, l, h, s, t
<1> QED
  BY <1>2, <1>3, <1>4, <1>6, <1>7, TwoLogs

\* A register or (HL).
LEMMA Logs8 ==
  ASSUME Paired, NEW c, HL(c) = HL(cpu), NEW i \in 0 .. 7, NEW v \in Byte,
         Store(Stores8(c, i, v)), Ref!Write8(ref, i, v)
  PROVE  SameLogs'
<1>1. ref.HL = HL(cpu) /\ HL(cpu) \in Word
  BY AlignedParts, SimParts, RefFields DEF Paired
<1>2. CASE i = 6
  <2>1. Store(<< <<HL(cpu), v>> >>) /\ Ref!mmu_write(<< <<HL(cpu), v>> >>)
    BY <1>1, <1>2 DEF Stores8, Ref!Write8
  <2> QED
    BY <1>1, <2>1, StoreLogs
<1>3. CASE i # 6
  <2>1. Store(<< >>) /\ Ref!mmu_write(<< >>)
    BY <1>3 DEF Stores8, Ref!Write8
  <2>2. AsStored(<< >>) = << >>
    BY DEF AsStored
  <2>3. accesses = << >> /\ refAccesses = << >> /\ ~shouldWriteToMemory
    BY DEF Paired
  <2>4. accesses' = accesses \o << >> /\ refAccesses' = refAccesses \o << >>
    BY <2>1, <2>2, <2>3 DEF Store, Write, Ref!mmu_write
  <2> QED
    BY <2>3, <2>4 DEF SameLogs
<1> QED
  BY <1>2, <1>3

-----------------------------------------------------------------------------
(* The instructions side by side.  An instruction ends Agreed when the      *)
(* states match and the logs are of the same stores.                        *)

Agreed == Matching /\ SameLogs

\* The addresses one, two and three bytes on.
After1 == Next16(cpu.PC)
After2 == (After1 + 1) % 65536
After3 == (After1 + 2) % 65536

LEMMA PairedParts ==
  ASSUME Paired
  PROVE  /\ Programmed /\ MemoryTyped /\ cpu \in CPUState /\ Derived(cpu)
         /\ Sim(cpu, ref, cpu.PC) /\ Sim(cpu, Ref!s1, After1)
         /\ Ref!opcode = op /\ Ref!r3 = y /\ Ref!r0 = z /\ Ref!rp = rr_
         /\ Ref!IMM8 = d8 /\ Ref!IMM16 = d16 /\ Ref!cb = d8 /\ Ref!cb3 = bitOf
         /\ op \in Byte /\ y \in 0 .. 7 /\ z \in 0 .. 7 /\ rr_ \in 0 .. 3
         /\ d8 \in Byte /\ d16 \in Word /\ bitOf \in 0 .. 7 /\ regOf \in 0 .. 7
         /\ HL(cpu) \in Word /\ get16(cpu, rr_) \in Word /\ getStack(cpu, rr_) \in Word
         /\ cpu.A \in Byte /\ cpu.C \in Byte /\ cpu.F \in FlagsRegister /\ cpu.SP \in Word
         /\ cpu.PC \in Word /\ After1 \in Word
<1>1. Aligned
  BY DEF Paired
<1>2. Programmed /\ MemoryTyped /\ cpu \in CPUState /\ Sim(cpu, ref, cpu.PC) /\ cpu.PC \in Word
  BY <1>1, AlignedParts
<1>3. After1 \in Word
  BY <1>2, Nexts DEF After1
<1>4. Derived(cpu)
  BY <1>2, AlwaysDerived
<1>5. /\ Sim(cpu, Ref!s1, After1) /\ Ref!opcode = op /\ Ref!r3 = y /\ Ref!r0 = z /\ Ref!rp = rr_
      /\ Ref!IMM8 = d8 /\ Ref!IMM16 = d16 /\ Ref!cb = d8 /\ Ref!cb3 = bitOf
  BY <1>1, SameParts, Zenon DEF After1
<1>6. /\ op \in Byte /\ y \in 0 .. 7 /\ z \in 0 .. 7 /\ rr_ \in 0 .. 3
      /\ d8 \in Byte /\ d16 \in Word /\ bitOf \in 0 .. 7 /\ regOf \in 0 .. 7
  BY <1>2, Decoded, Zenon
<1>7. HL(cpu) \in Word /\ get16(cpu, rr_) \in Word /\ getStack(cpu, rr_) \in Word
  BY <1>4, <1>6, Get16, Zenon
<1>8. cpu.A \in Byte /\ cpu.C \in Byte /\ cpu.F \in FlagsRegister /\ cpu.SP \in Word
  BY <1>4, Fields
<1> QED
  BY <1>2, <1>3, <1>4, <1>5, <1>6, <1>7, <1>8

LEMMA Skips ==
  ASSUME Paired, NEW c, NEW s, Sim(c, s, After1)
  PROVE  Sim(c, Ref!Skip(s, 1), After2) /\ Sim(c, Ref!Skip(s, 2), After3)
BY PairedParts, SimSkip DEF After2, After3

LEMMA Ends ==
  ASSUME Paired, NEW c, NEW s, ref' = s, NEW n
  PROVE  /\ Sim(c, s, After1) /\ Finish(c, 1, n) => Matching'
         /\ Sim(c, s, After2) /\ Finish(c, 2, n) => Matching'
         /\ Sim(c, s, After3) /\ Finish(c, 3, n) => Matching'
<1>1. cpu.PC \in Word
  BY PairedParts
<1>2. After1 = (cpu.PC + 1) % 65536 /\ After2 = (cpu.PC + 2) % 65536 /\ After3 = (cpu.PC + 3) % 65536
  BY <1>1, WordIs DEF After1, After2, After3, Next16
<1>3. Sim(c, s, After1) /\ Finish(c, 1, n) => Matching'
  BY <1>1, <1>2, SimFinish
<1>4. Sim(c, s, After2) /\ Finish(c, 2, n) => Matching'
  BY <1>1, <1>2, SimFinish
<1>5. Sim(c, s, After3) /\ Finish(c, 3, n) => Matching'
  BY <1>1, <1>2, SimFinish
<1> QED
  BY <1>3, <1>4, <1>5

\* The four ways in which an instruction that only moves on ends.
LEMMA QuietEnds ==
  ASSUME Paired, NEW c, NEW s, ref' = s, NEW n, NoStore, Ref!Silent,
         \/ Sim(c, s, After1) /\ Finish(c, 1, n)
         \/ Sim(c, s, After2) /\ Finish(c, 2, n)
         \/ Sim(c, s, After3) /\ Finish(c, 3, n)
         \/ \E p \in Word : Sim(c, s, p) /\ Goto(c, p, n)
  PROVE  Agreed'
<1>1. SameLogs'
  BY QuietLogs
<1>2. Matching'
  BY Ends, SimGoto
<1> QED
  BY <1>1, <1>2 DEF Agreed

LEMMA StoreEnds ==
  ASSUME Paired, NEW c, NEW s, ref' = s, NEW n, NEW a \in Word, NEW v \in Byte,
         Store(<< <<a, v>> >>), Ref!mmu_write(<< <<a, v>> >>),
         \/ Sim(c, s, After1) /\ Finish(c, 1, n)
         \/ Sim(c, s, After2) /\ Finish(c, 2, n)
         \/ Sim(c, s, After3) /\ Finish(c, 3, n)
  PROVE  Agreed'
<1>1. SameLogs'
  BY StoreLogs
<1>2. Matching'
  BY Ends
<1> QED
  BY <1>1, <1>2 DEF Agreed

\* A fresh value of A.
LEMMA SimSetA ==
  ASSUME NEW c, NEW s, NEW p, Sim(c, s, p), NEW a \in Byte
  PROVE  Sim([c EXCEPT !.A = a], Ref!SetA(s, a), p)
<1>1. 7 \in 0 .. 7
  OBVIOUS
<1>2. set8(c, 7, a) = [c EXCEPT !.A = a]
  BY DEF set8, Reg8
<1>3. Sim(set8(c, 7, a), Ref!SetA(s, a), p)
  BY <1>1, SimPut8, Zenon DEF Ref!SetA
<1> QED
  BY <1>2, <1>3, Zenon

\* What A and the flags of the reference are.
LEMMA SimReadA ==
  ASSUME NEW c, NEW s, NEW p, Sim(c, s, p)
  PROVE  Ref!A(s) = c.A /\ Ref!F(s) = FlagByte(c.F)
BY SimParts, SameHalves DEF Ref!A, Ref!F

LEMMA QuietLogs8 ==
  ASSUME Paired, NEW i, i # 6, NEW v, NoStore, Ref!Write8(ref, i, v)
  PROVE  SameLogs'
<1>1. accesses = << >> /\ refAccesses = << >> /\ accesses' = accesses
  BY DEF Paired, NoStore
<1>2. refAccesses' = refAccesses \o << >>
  BY DEF Ref!Write8, Ref!mmu_write
<1> QED
  BY <1>1, <1>2 DEF SameLogs

\* The sixth register is (HL), which is no register.
LEMMA PutHL == ASSUME NEW s, NEW v PROVE Ref!Put8(s, 6, v) = s
<1> DEFINE i == 6
           h == [s EXCEPT ![Ref!Pair(i)] = Join(v, Low(s[Ref!Pair(i)]))]
           l == [s EXCEPT ![Ref!Pair(i)] = Join(High(s[Ref!Pair(i)]), v)]
<1>1. Ref!Put8(s, i, v) = CASE i = 6 -> s [] Ref!IsHigh(i) -> h [] OTHER -> l
  BY SameHalves, SameJoin, Zenon DEF Ref!Put8
<1> HIDE DEF h, l
<1> QED
  BY <1>1 DEF Ref!IsHigh

-----------------------------------------------------------------------------
(* Loads.                                                                   *)

LEMMA SameNOP == ASSUME Paired, NOP, Ref!R_NOP PROVE Agreed'
<1>1. Finish(cpu, 1, 1) /\ NoStore
  BY PTL DEF NOP
<1>2. ref' = Ref!s1 /\ Ref!Silent
  BY PTL DEF Ref!R_NOP
<1> QED
  BY <1>1, <1>2, PairedParts, QuietEnds

LEMMA SameHALT == ASSUME Paired, HALT, Ref!R_HALT PROVE Agreed'
<1> DEFINE c == [cpu EXCEPT !.halted = TRUE]
           s == [Ref!s1 EXCEPT !.halted = TRUE]
<1>1. Finish(c, 1, 1) /\ NoStore
  BY PTL DEF HALT
<1>2. ref' = s /\ Ref!Silent
  BY PTL DEF Ref!R_HALT
<1>3. Sim(c, s, After1)
  BY PairedParts, SimSwitches, Zenon
<1> HIDE DEF c, s
<1> QED
  BY <1>1, <1>2, <1>3, QuietEnds

LEMMA SameLD_r_r == ASSUME Paired, LD_r_r, Ref!R_LD8 PROVE Agreed'
<1> DEFINE v == get8(cpu, z)
           s == Ref!Put8(Ref!s1, y, v)
<1>1. PICK r, n : Load(r, n) /\ r # "HL"
  BY DEF LD_r_r
<1>2. Reg8[y + 1] = r /\ Finish([cpu EXCEPT ![r] = v], 1, n) /\ NoStore
  BY <1>1, Zenon DEF Load
<1>3. v \in Byte /\ Ref!REG8(ref, z) = v
  BY PairedParts, Get8, SimGet8, Zenon
<1>4. ref' = s /\ Ref!Write8(ref, y, v)
  BY <1>3, PairedParts, Zenon DEF Ref!R_LD8
<1> HIDE DEF v
<1>5. y # 6
  BY <1>1, <1>2 DEF Reg8
<1>6. Finish(set8(cpu, y, v), 1, n)
  BY <1>2, <1>5, Zenon DEF set8
<1>7. Sim(set8(cpu, y, v), s, After1)
  BY <1>3, PairedParts, SimPut8, Zenon
<1> HIDE DEF s
<1>8. Matching'
  BY <1>4, <1>6, <1>7, Ends, Zenon
<1> QED
  BY <1>2, <1>4, <1>5, <1>8, QuietLogs8, Zenon DEF Agreed

LEMMA SameLD_HL_r == ASSUME Paired, LD_HL_r, Ref!R_LD8 PROVE Agreed'
<1> DEFINE v == get8(cpu, z)
<1>1. y = 6 /\ Finish(cpu, 1, 2) /\ Store(<< <<HL(cpu), v>> >>)
  BY PTL DEF LD_HL_r
<1>2. v \in Byte /\ Ref!REG8(ref, z) = v
  BY PairedParts, Get8, SimGet8, Zenon
<1>3. ref' = Ref!Put8(Ref!s1, y, v) /\ Ref!Write8(ref, y, v)
  BY <1>2, PairedParts, Zenon DEF Ref!R_LD8
<1>4. Ref!Put8(Ref!s1, y, v) = Ref!s1
  BY <1>1, PutHL, Zenon
<1>5. Stores8(cpu, y, v) = << <<HL(cpu), v>> >>
  BY <1>1 DEF Stores8
<1> HIDE DEF v
<1>6. SameLogs'
  <2>1. Store(Stores8(cpu, y, v))
    BY <1>1, <1>5, Zenon
  <2> QED
    BY <1>2, <1>3, <2>1, PairedParts, Logs8
<1>7. Matching'
  BY <1>1, <1>3, <1>4, PairedParts, Ends
<1> QED
  BY <1>6, <1>7 DEF Agreed

LEMMA SameLD_r_d8 == ASSUME Paired, LD_r_d8, Ref!R_LD8_imm PROVE Agreed'
<1> DEFINE n == IF y = 6 THEN 3 ELSE 2
           s == Ref!Put8(Ref!Skip(Ref!s1, 1), y, d8)
<1>1. Finish(set8(cpu, y, d8), 2, n) /\ Store(Stores8(cpu, y, d8))
  BY PTL DEF LD_r_d8
<1>2. ref' = s /\ Ref!Write8(ref, y, d8)
  BY PairedParts, Zenon DEF Ref!R_LD8_imm
<1>3. Sim(set8(cpu, y, d8), s, After2)
  BY PairedParts, Skips, SimPut8, Zenon
<1>4. SameLogs'
  BY <1>1, <1>2, PairedParts, Logs8
<1> HIDE DEF s, n
<1> QED
  BY <1>1, <1>2, <1>3, <1>4, Ends, Zenon DEF Agreed

LEMMA SameLD_rr_d16 == ASSUME Paired, LD_rr_d16, Ref!R_LD16_imm PROVE Agreed'
<1> DEFINE t == [Ref!s1 EXCEPT ![Ref!Reg16[rr_ + 1]] = d16]
           s == Ref!Skip(t, 2)
<1>1. Finish(set16(cpu, rr_, d16), 3, 3) /\ NoStore
  BY PTL DEF LD_rr_d16
<1>2. ref' = s /\ Ref!Silent
  BY PairedParts, Zenon DEF Ref!R_LD16_imm
<1>3. Sim(set16(cpu, rr_, d16), t, After1)
  BY PairedParts, SimPairs, Zenon
<1> HIDE DEF t
<1>4. Sim(set16(cpu, rr_, d16), s, After3)
  BY <1>3, Skips, Zenon
<1> HIDE DEF s
<1> QED
  BY <1>1, <1>2, <1>4, QuietEnds

LEMMA SameLD_rr_A == ASSUME Paired, LD_rr_A, Ref!R_LD_mem_A PROVE Agreed'
<1> DEFINE a == get16(cpu, rr_)
<1>1. Finish(cpu, 1, 2) /\ Store(<< <<a, cpu.A>> >>)
  BY PTL DEF LD_rr_A
<1>2. ref[Ref!Reg16[rr_ + 1]] = a /\ Ref!A(ref) = cpu.A
  BY PairedParts, SimPairs, SimReadA, Zenon
<1>3. ref' = Ref!s1 /\ Ref!mmu_write(<< <<a, cpu.A>> >>)
  BY <1>2, PairedParts, Zenon DEF Ref!R_LD_mem_A
<1> HIDE DEF a
<1>4. a \in Word /\ cpu.A \in Byte /\ Sim(cpu, Ref!s1, After1)
  BY PairedParts DEF a
<1> QED
  BY <1>1, <1>3, <1>4, StoreEnds

LEMMA SameLD_A_rr == ASSUME Paired, LD_A_rr, Ref!R_LD_A_mem PROVE Agreed'
<1> DEFINE a == get16(cpu, rr_)
           v == readByte(a)
           c == [cpu EXCEPT !.A = v]
           s == Ref!SetA(Ref!s1, v)
<1>1. Finish(c, 1, 2) /\ NoStore
  BY PTL DEF LD_A_rr
<1>2. ref[Ref!Reg16[rr_ + 1]] = a /\ a \in Word
  BY PairedParts, SimPairs, Zenon
<1>3. Ref!mmu_read(a) = v /\ v \in Byte
  BY <1>2, PairedParts, SameReads, Reads, Zenon
<1>4. ref' = s /\ Ref!Silent
  BY <1>2, <1>3, PairedParts, Zenon DEF Ref!R_LD_A_mem
<1>5. Sim(c, s, After1)
  BY <1>3, PairedParts, SimSetA, Zenon
<1> HIDE DEF c, s
<1> QED
  BY <1>1, <1>4, <1>5, QuietEnds

\* LDI and LDD: HL afterwards.
LEMMA SimStepped ==
  ASSUME Paired, NEW c, NEW s, NEW p, Sim(c, s, p)
  PROVE  Sim(Stepped(c), Ref!Moved(s), p)
<1> DEFINE w == (IF op < 48 THEN HL(c) + 1 ELSE HL(c) - 1) % 65536
<1>1. HL(c) \in Word /\ s.HL = HL(c)
  BY SimParts, Get16
<1>2. w \in Word
  BY <1>1, Wrapped, WordIs
<1>3. Stepped(c) = set16(c, 2, w)
  BY DEF Stepped
<1>4. Ref!Moved(s) = [s EXCEPT !.HL = w]
  <2>1. Ref!Inc16(s.HL, IF Ref!opcode < 48 THEN 1 ELSE 65535) = w
    BY <1>1, PairedParts, WordIs DEF Ref!Inc16
  <2> HIDE DEF w
  <2> QED
    BY <2>1 DEF Ref!Moved
<1>5. Ref!Reg16[2 + 1] = "HL" /\ 2 \in 0 .. 3
  BY DEF Ref!Reg16
<1> HIDE DEF w
<1>6. Sim(set16(c, 2, w), [s EXCEPT ![Ref!Reg16[2 + 1]] = w], p)
  BY <1>2, <1>5, SimPairs
<1> QED
  BY <1>3, <1>4, <1>5, <1>6, Zenon

LEMMA SameLD_HL_inc_A == ASSUME Paired, LD_HL_inc_A, Ref!R_LDI_mem PROVE Agreed'
<1>1. Finish(Stepped(cpu), 1, 2) /\ Store(<< <<HL(cpu), cpu.A>> >>)
  BY PTL DEF LD_HL_inc_A
<1>2. ref.HL = HL(cpu) /\ Ref!A(ref) = cpu.A
  BY PairedParts, SimParts, SimReadA, Zenon
<1>3. ref' = Ref!Moved(Ref!s1) /\ Ref!mmu_write(<< <<HL(cpu), cpu.A>> >>)
  BY <1>2, PairedParts, Zenon DEF Ref!R_LDI_mem
<1>4. HL(cpu) \in Word /\ cpu.A \in Byte /\ Sim(Stepped(cpu), Ref!Moved(Ref!s1), After1)
  BY PairedParts, SimStepped
<1> QED
  BY <1>1, <1>3, <1>4, StoreEnds

LEMMA SameLD_A_HL_inc == ASSUME Paired, LD_A_HL_inc, Ref!R_LDI_A PROVE Agreed'
<1> DEFINE v == readByte(HL(cpu))
           c == [cpu EXCEPT !.A = v]
           s == Ref!SetA(Ref!s1, v)
<1>1. Finish(Stepped(c), 1, 2) /\ NoStore
  BY PTL DEF LD_A_HL_inc
<1>2. ref.HL = HL(cpu) /\ HL(cpu) \in Word
  BY PairedParts, SimParts, Zenon
<1>3. Ref!mmu_read(HL(cpu)) = v /\ v \in Byte
  BY <1>2, PairedParts, SameReads, Reads, Zenon
<1>4. ref' = Ref!Moved(s) /\ Ref!Silent
  BY <1>2, <1>3, PairedParts, Zenon DEF Ref!R_LDI_A
<1>5. Sim(c, s, After1)
  BY <1>3, PairedParts, SimSetA, Zenon
<1> HIDE DEF c, s
<1>6. Sim(Stepped(c), Ref!Moved(s), After1)
  BY <1>5, SimStepped
<1> QED
  BY <1>1, <1>4, <1>6, QuietEnds

LEMMA SameLD_a16_SP == ASSUME Paired, LD_a16_SP, Ref!R_LD_imm16_SP PROVE Agreed'
<1>1. op = 8 /\ Finish(cpu, 3, 5) /\ StoreWord(d16, cpu.SP)
  BY PTL DEF LD_a16_SP
<1>2. ref.sp = cpu.SP
  BY PairedParts, SimParts, Zenon
<1>3. ref' = Ref!Skip(Ref!s1, 2) /\ Ref!mmu_write(Ref!Bytes16(d16, cpu.SP))
  BY <1>2, PairedParts, Zenon DEF Ref!R_LD_imm16_SP
<1>4. Sim(cpu, Ref!Skip(Ref!s1, 2), After3)
  BY PairedParts, Skips
<1>5. Matching'
  BY <1>1, <1>3, <1>4, Ends
<1>6. SameLogs'
  BY <1>1, <1>3, PairedParts, WordLogs
<1> QED
  BY <1>5, <1>6 DEF Agreed

LEMMA SameLD_a16_A == ASSUME Paired, LD_a16_A, Ref!R_LD_imm16_A PROVE Agreed'
<1>1. Finish(cpu, 3, 4) /\ Store(<< <<d16, cpu.A>> >>)
  BY PTL DEF LD_a16_A
<1>2. Ref!A(ref) = cpu.A
  BY PairedParts, SimReadA, Zenon
<1>3. ref' = Ref!Skip(Ref!s1, 2) /\ Ref!mmu_write(<< <<d16, cpu.A>> >>)
  BY <1>2, PairedParts, Zenon DEF Ref!R_LD_imm16_A
<1>4. Sim(cpu, Ref!Skip(Ref!s1, 2), After3) /\ d16 \in Word /\ cpu.A \in Byte
  BY PairedParts, Skips
<1> QED
  BY <1>1, <1>3, <1>4, StoreEnds

LEMMA SameLD_A_a16 == ASSUME Paired, LD_A_a16, Ref!R_LD_A_imm16 PROVE Agreed'
<1> DEFINE v == readByte(d16)
           c == [cpu EXCEPT !.A = v]
           s == Ref!SetA(Ref!Skip(Ref!s1, 2), v)
<1>1. Finish(c, 3, 4) /\ NoStore
  BY PTL DEF LD_A_a16
<1>2. Ref!mmu_read(d16) = v /\ v \in Byte
  BY PairedParts, SameReads, Reads, Zenon
<1>3. ref' = s /\ Ref!Silent
  BY <1>2, PairedParts, Zenon DEF Ref!R_LD_A_imm16
<1>4. Sim(c, s, After3)
  BY <1>2, PairedParts, Skips, SimSetA, Zenon
<1> HIDE DEF c, s
<1> QED
  BY <1>1, <1>3, <1>4, QuietEnds

\* The high page: LDH.
LEMMA HighIs ==
  ASSUME NEW v \in Byte
  PROVE  HighPage + v \in Word /\ 65280 + v = HighPage + v
BY WordIs, ByteIs DEF HighPage

LEMMA SameLD_A_a8 == ASSUME Paired, LD_A_a8, Ref!R_LDH_A_imm PROVE Agreed'
<1> DEFINE a == HighPage + d8
           v == readByte(a)
           c == [cpu EXCEPT !.A = v]
           s == Ref!SetA(Ref!Skip(Ref!s1, 1), v)
<1>1. Finish(c, 2, 3) /\ NoStore
  BY PTL DEF LD_A_a8
<1>2. ref' = Ref!SetA(Ref!Skip(Ref!s1, 1), Ref!mmu_read(65280 + Ref!IMM8)) /\ Ref!Silent
  BY PTL DEF Ref!R_LDH_A_imm
<1>3. a \in Word /\ 65280 + Ref!IMM8 = a
  BY PairedParts, HighIs
<1> HIDE DEF a
<1>4. Ref!mmu_read(a) = v /\ v \in Byte
  BY <1>3, PairedParts, SameReads, Reads
<1>5. ref' = s
  BY <1>2, <1>3, <1>4
<1>6. Sim(c, s, After2)
  BY <1>4, PairedParts, Skips, SimSetA, Zenon
<1> HIDE DEF c, s
<1> QED
  BY <1>1, <1>2, <1>5, <1>6, QuietEnds

LEMMA SameLD_A_mem_C == ASSUME Paired, LD_A_mem_C, Ref!R_LDH_A_C PROVE Agreed'
<1> DEFINE a == HighPage + cpu.C
           v == readByte(a)
           c == [cpu EXCEPT !.A = v]
           s == Ref!SetA(Ref!s1, v)
<1>1. Finish(c, 1, 2) /\ NoStore
  BY PTL DEF LD_A_mem_C
<1>2. ref' = Ref!SetA(Ref!s1, Ref!mmu_read(65280 + Ref!Low(ref.BC))) /\ Ref!Silent
  BY PTL DEF Ref!R_LDH_A_C
<1>3. a \in Word /\ 65280 + Ref!Low(ref.BC) = a
  BY PairedParts, SimParts, SameHalves, HighIs
<1> HIDE DEF a
<1>4. Ref!mmu_read(a) = v /\ v \in Byte
  BY <1>3, PairedParts, SameReads, Reads
<1>5. ref' = s
  BY <1>2, <1>3, <1>4
<1>6. Sim(c, s, After1)
  BY <1>4, PairedParts, SimSetA, Zenon
<1> HIDE DEF c, s
<1> QED
  BY <1>1, <1>2, <1>5, <1>6, QuietEnds

LEMMA SameLD_mem_C_A == ASSUME Paired, LD_mem_C_A, Ref!R_LDH_C_A PROVE Agreed'
<1> DEFINE a == HighPage + cpu.C
           b == 65280 + Ref!Low(ref.BC)
<1>1. Finish(cpu, 1, 2) /\ Store(<< <<a, cpu.A>> >>)
  BY PTL DEF LD_mem_C_A
<1>2. ref' = Ref!s1 /\ Ref!mmu_write(<< <<b, Ref!A(ref)>> >>)
  BY PTL DEF Ref!R_LDH_C_A
<1>3. a \in Word /\ b = a
  BY PairedParts, SimParts, SameHalves, HighIs
<1> HIDE DEF a, b
<1>4. Ref!A(ref) = cpu.A
  BY PairedParts, SimReadA, Zenon
<1>5. Ref!mmu_write(<< <<a, cpu.A>> >>)
  BY <1>2, <1>3, <1>4, Zenon
<1>6. Sim(cpu, Ref!s1, After1) /\ cpu.A \in Byte
  BY PairedParts
<1> QED
  BY <1>1, <1>2, <1>3, <1>5, <1>6, StoreEnds

LEMMA SameLD_a8_A == ASSUME Paired, LD_a8_A, Ref!R_LDH_imm_A PROVE Agreed'
<1> DEFINE a == HighPage + d8
           b == 65280 + Ref!IMM8
<1>1. Finish(cpu, 2, 3) /\ Store(<< <<a, cpu.A>> >>)
  BY PTL DEF LD_a8_A
<1>2. ref' = Ref!Skip(Ref!s1, 1) /\ Ref!mmu_write(<< <<b, Ref!A(ref)>> >>)
  BY PTL DEF Ref!R_LDH_imm_A
<1>3. a \in Word /\ b = a
  BY PairedParts, HighIs
<1> HIDE DEF a, b
<1>4. Ref!A(ref) = cpu.A
  BY PairedParts, SimReadA, Zenon
<1>5. Ref!mmu_write(<< <<a, cpu.A>> >>)
  BY <1>2, <1>3, <1>4, Zenon
<1>6. Sim(cpu, Ref!Skip(Ref!s1, 1), After2) /\ cpu.A \in Byte
  BY PairedParts, Skips
<1> QED
  BY <1>1, <1>2, <1>3, <1>5, <1>6, StoreEnds, Zenon

LEMMA SameLD_SP_HL == ASSUME Paired, LD_SP_HL, Ref!R_LD_SP_HL PROVE Agreed'
<1> DEFINE c == [cpu EXCEPT !.SP = HL(cpu)]
           s == [Ref!s1 EXCEPT !.sp = HL(cpu)]
<1>1. Finish(c, 1, 2) /\ NoStore
  BY PTL DEF LD_SP_HL
<1>2. ref.HL = HL(cpu)
  BY PairedParts, SimParts, Zenon
<1>3. ref' = s /\ Ref!Silent
  BY <1>2, Zenon DEF Ref!R_LD_SP_HL
<1>4. Sim(c, s, After1)
  BY PairedParts, SimSp, Zenon
<1> HIDE DEF c, s
<1> QED
  BY <1>1, <1>3, <1>4, QuietEnds

\* ADD SP,s8 and LD HL,SP+s8: the sum and the flags.
LEMMA SpSums ==
  ASSUME Paired, NEW s, NEW p, Sim(cpu, s, p)
  PROVE  LET r == AddSigned(cpu.SP, d8)
         IN /\ r.val \in Word /\ Ref!SpSum = r.val
            /\ Sim([cpu EXCEPT !.F = r.f], Ref!SpFlags(s), p)
<1> DEFINE r  == AddSigned(cpu.SP, d8)
           hf == Ref!B2N((ref.sp % 16) + (Ref!IMM8 % 16) > 15)
           cf == Ref!B2N(Ref!Low(ref.sp) + Ref!IMM8 > 255)
<1>1. r.val \in Word /\ r.f \in FlagsRegister
  BY PairedParts, AddSignedTyped
<1>2. ref.sp = cpu.SP /\ Ref!IMM8 = d8
  BY PairedParts, SimParts, Zenon
<1>3. Ref!SpSum = r.val
  BY <1>2, SameBits DEF Ref!SpSum, AddSigned, Result
<1> DEFINE h == Nibble(cpu.SP) + Nibble(d8) > 15
           k == Low(cpu.SP) + d8 > 255
           n == (cpu.SP + Signed(d8)) % 65536
<1>4. r.f.zero = FALSE /\ r.f.subtraction = FALSE /\ r.f.halfCarry = h /\ r.f.carry = k
  <2> DEFINE no == FALSE
  <2>1. r = Result(n, no, no, h, k)
    BY DEF AddSigned
  <2> HIDE DEF r, n, h, k, no
  <2>2. r.f.zero = no /\ r.f.subtraction = no /\ r.f.halfCarry = h /\ r.f.carry = k
    BY <2>1, Zenon DEF Result, Flags
  <2> QED
    BY <2>2 DEF no
<1>5. One(r.f.subtraction) = 0 /\ One(r.f.halfCarry) = hf /\ One(r.f.carry) = cf
  <2>1. One(FALSE) = 0 /\ One(h) = hf /\ One(k) = cf
    BY <1>2, SameHalves DEF One, Ref!B2N, Nibble
  <2> HIDE DEF r, h, k
  <2> QED
    BY <1>4, <2>1, Zenon
<1>6. Ref!SpFlags(s) = Ref!SetFlags(s, FALSE, 0, hf, cf)
  BY DEF Ref!SpFlags
<1> HIDE DEF r, hf, cf, h, k, n
<1>7. Sim([cpu EXCEPT !.F = r.f],
          Ref!SetFlags(s, r.f.zero, One(r.f.subtraction), One(r.f.halfCarry), One(r.f.carry)), p)
  BY <1>1, SimFlags, Zenon
<1>8. Sim([cpu EXCEPT !.F = r.f], Ref!SpFlags(s), p)
  BY <1>4, <1>5, <1>6, <1>7, Zenon
<1> QED
  BY <1>1, <1>3, <1>8 DEF r

LEMMA SameADD_SP_s8 == ASSUME Paired, ADD_SP_s8, Ref!R_ADD_SP PROVE Agreed'
<1> DEFINE r == AddSigned(cpu.SP, d8)
           v == r.val
           f == r.f
           d == [cpu EXCEPT !.F = f]
           c == [cpu EXCEPT !.SP = v, !.F = f]
           t == Ref!SpFlags(Ref!Skip(Ref!s1, 1))
           s == [t EXCEPT !.sp = v]
<1>1. Finish(c, 2, 4) /\ NoStore
  BY PTL DEF ADD_SP_s8
<1>2. v \in Word /\ Ref!SpSum = v /\ Sim(d, t, After2)
  BY PairedParts, Skips, SpSums
<1>3. ref' = s /\ Ref!Silent
  BY <1>2, Zenon DEF Ref!R_ADD_SP
<1> HIDE DEF r, v, f, t
<1>4. [d EXCEPT !.SP = v] = c
  BY PairedParts, Zenon DEF CPUState
<1> HIDE DEF c, d, s
<1>5. Sim([d EXCEPT !.SP = v], s, After2)
  BY <1>2, SimSp, Zenon DEF s
<1> QED
  BY <1>1, <1>3, <1>4, <1>5, QuietEnds

\* A change of the flags commutes with one of a register.
LEMMA CommuteHL ==
  ASSUME NEW c \in CPUState, NEW f, NEW w
  PROVE  [set16(c, 2, w) EXCEPT !.F = f] = set16([c EXCEPT !.F = f], 2, w)
<1> DEFINE h == High(w)
           l == Low(w)
<1>1. /\ set16(c, 2, w) = [c EXCEPT !.H = h, !.L = l]
      /\ set16([c EXCEPT !.F = f], 2, w) = [[c EXCEPT !.F = f] EXCEPT !.H = h, !.L = l]
  <2>1. \A d : set16(d, 2, w) = [d EXCEPT !.H = h, !.L = l]
    BY DEF set16
  <2> QED
    BY <2>1, Zenon
<1> HIDE DEF h, l
<1>2. [[c EXCEPT !.H = h, !.L = l] EXCEPT !.F = f] = [[c EXCEPT !.F = f] EXCEPT !.H = h, !.L = l]
  BY Zenon DEF CPUState
<1> QED
  BY <1>1, <1>2, Zenon

LEMMA Commute8 ==
  ASSUME NEW c \in CPUState, NEW f, NEW i \in 0 .. 7, NEW v
  PROVE  [set8(c, i, v) EXCEPT !.F = f] = set8([c EXCEPT !.F = f], i, v)
<1> DEFINE e == [c EXCEPT !.F = f]
<1>1. CASE i = 6
  <2>1. \A d : set8(d, i, v) = d
    BY <1>1 DEF set8
  <2>2. set8(c, i, v) = c /\ set8(e, i, v) = e
    BY <2>1, Zenon
  <2> QED
    BY <2>2, Zenon
<1>2. CASE i # 6
  <2>1. PICK r \in {"B", "C", "D", "E", "H", "L", "A"} : r = Reg8[i + 1]
    BY <1>2 DEF Reg8
  <2>2. set8(c, i, v) = [c EXCEPT ![r] = v] /\ set8(e, i, v) = [e EXCEPT ![r] = v]
    BY <1>2, <2>1, Zenon DEF set8
  <2>3. [[c EXCEPT ![r] = v] EXCEPT !.F = f] = [e EXCEPT ![r] = v]
    <3>1. r # "F"
      OBVIOUS
    <3>2. r \in DOMAIN c
      BY DEF CPUState
    <3> QED
      BY <3>1, <3>2, Zenon DEF CPUState
  <2>4. [set8(c, i, v) EXCEPT !.F = f] = set8(e, i, v)
    BY <2>2, <2>3, Zenon
  <2> QED
    BY <2>4
<1> QED
  BY <1>1, <1>2, Zenon

LEMMA SimPutHL ==
  ASSUME NEW c, NEW s, NEW p, Sim(c, s, p), NEW w \in Word
  PROVE  Sim(set16(c, 2, w), [s EXCEPT !.HL = w], p)
<1>1. Ref!Reg16[2 + 1] = "HL" /\ 2 \in 0 .. 3
  BY DEF Ref!Reg16
<1>2. Sim(set16(c, 2, w), [s EXCEPT ![Ref!Reg16[2 + 1]] = w], p)
  BY <1>1, SimPairs
<1> QED
  BY <1>1, <1>2, Zenon

LEMMA SameLD_HL_SP_s8 == ASSUME Paired, LD_HL_SP_s8, Ref!R_LD_HL_SP PROVE Agreed'
<1> DEFINE r == AddSigned(cpu.SP, d8)
           v == r.val
           f == r.f
           d == [cpu EXCEPT !.F = f]
           c == [set16(cpu, 2, v) EXCEPT !.F = f]
           t == Ref!SpFlags(Ref!Skip(Ref!s1, 1))
           s == [t EXCEPT !.HL = v]
<1>1. Finish(c, 2, 3) /\ NoStore
  BY PTL DEF LD_HL_SP_s8
<1>2. v \in Word /\ Ref!SpSum = v /\ Sim(d, t, After2)
  BY PairedParts, Skips, SpSums
<1>3. ref' = s /\ Ref!Silent
  BY <1>2, Zenon DEF Ref!R_LD_HL_SP
<1> HIDE DEF r, v, f, t
<1>4. set16(d, 2, v) = c
  <2>1. cpu \in CPUState
    BY PairedParts
  <2>2. \A g, w : set16([cpu EXCEPT !.F = g], 2, w) = [set16(cpu, 2, w) EXCEPT !.F = g]
    BY <2>1, CommuteHL
  <2> QED
    BY <2>2
<1> HIDE DEF c, d, s
<1>5. Sim(set16(d, 2, v), s, After2)
  BY <1>2, SimPutHL, Zenon DEF s
<1> QED
  BY <1>1, <1>3, <1>4, <1>5, QuietEnds

-----------------------------------------------------------------------------
(* The flags of the two, and results of an operation.                       *)

LEMMA FourBits ==
  ASSUME NEW a \in Int, NEW b7 \in 0 .. 1, NEW b6 \in 0 .. 1, NEW b5 \in 0 .. 1, NEW b4 \in 0 .. 1,
         NEW w, w = 256 * a + 128 * b7 + 64 * b6 + 32 * b5 + 16 * b4
  PROVE  Bit(w, 7) = b7 /\ Bit(w, 6) = b6 /\ Bit(w, 5) = b5 /\ Bit(w, 4) = b4
<1>1. /\ Bit(w, 7) = (w \div 128) % 2 /\ Bit(w, 6) = (w \div 64) % 2
      /\ Bit(w, 5) = (w \div 32) % 2 /\ Bit(w, 4) = (w \div 16) % 2
  BY DEF Bit, Pow2
<1>2. w \div 128 = 2 * a + b7
  OBVIOUS
<1>3. w \div 64 = 2 * (2 * a + b7) + b6
  OBVIOUS
<1>4. w \div 32 = 2 * (4 * a + 2 * b7 + b6) + b5
  OBVIOUS
<1>5. w \div 16 = 2 * (8 * a + 4 * b7 + 2 * b6 + b5) + b4
  OBVIOUS
<1>6. (2 * a + b7) % 2 = b7 /\ (2 * (2 * a + b7) + b6) % 2 = b6
  OBVIOUS
<1>7. (2 * (4 * a + 2 * b7 + b6) + b5) % 2 = b5
  OBVIOUS
<1>8. (2 * (8 * a + 4 * b7 + 2 * b6 + b5) + b4) % 2 = b4
  OBVIOUS
<1> QED
  BY <1>1, <1>2, <1>3, <1>4, <1>5, <1>6, <1>7, <1>8

LEMMA SameFlags ==
  ASSUME Paired
  PROVE  /\ Ref!ZF(ref) = One(cpu.F.zero) /\ Ref!NF = One(cpu.F.subtraction)
         /\ Ref!HF = One(cpu.F.halfCarry) /\ Ref!CF = One(cpu.F.carry)
         /\ Ref!ZF(Ref!s1) = One(cpu.F.zero)
<1> DEFINE w == ref.AF
           b7 == One(cpu.F.zero)
           b6 == One(cpu.F.subtraction)
           b5 == One(cpu.F.halfCarry)
           b4 == One(cpu.F.carry)
<1>1. b7 \in 0 .. 1 /\ b6 \in 0 .. 1 /\ b5 \in 0 .. 1 /\ b4 \in 0 .. 1 /\ cpu.A \in Int
  BY PairedParts, OneIs, ByteIs DEF FlagsRegister
<1>2. w = 256 * cpu.A + 128 * b7 + 64 * b6 + 32 * b5 + 16 * b4 /\ Ref!s1.AF = w
  <2>1. ref.AF = Join(cpu.A, FlagByte(cpu.F)) /\ Ref!s1.AF = Join(cpu.A, FlagByte(cpu.F))
    BY PairedParts, SimParts
  <2>2. Join(cpu.A, FlagByte(cpu.F)) = 256 * cpu.A + 128 * b7 + 64 * b6 + 32 * b5 + 16 * b4
    <3> HIDE DEF b7, b6, b5, b4
    <3>1. FlagByte(cpu.F) = 128 * b7 + 64 * b6 + 32 * b5 + 16 * b4
      BY Zenon DEF FlagByte, b7, b6, b5, b4
    <3> QED
      BY <1>1, <3>1 DEF Join
  <2> QED
    BY <2>1, <2>2
<1> HIDE DEF w, b7, b6, b5, b4
<1>3. Bit(w, 7) = b7 /\ Bit(w, 6) = b6 /\ Bit(w, 5) = b5 /\ Bit(w, 4) = b4
  BY <1>1, <1>2, FourBits
<1> QED
  BY <1>2, <1>3, SameBits DEF w, b7, b6, b5, b4, Ref!ZF, Ref!NF, Ref!HF, Ref!CF

\* A result with its flags one by one.
LEMMA SimResult ==
  ASSUME NEW c, NEW s, NEW p, Sim(c, s, p),
         NEW r, r.val \in Byte, r.f \in FlagsRegister,
         NEW v, r.val = v, NEW zf, r.f.zero = zf, NEW nf, One(r.f.subtraction) = nf,
         NEW hf, One(r.f.halfCarry) = hf, NEW cf, One(r.f.carry) = cf
  PROVE  Sim([c EXCEPT !.A = r.val, !.F = r.f],
             Ref!SetA(Ref!SetFlags(s, zf, nf, hf, cf), v), p)
<1>1. Sim([c EXCEPT !.A = r.val, !.F = r.f],
          Ref!SetA(Ref!SetFlags(s, r.f.zero, One(r.f.subtraction), One(r.f.halfCarry),
                                One(r.f.carry)), r.val), p)
  BY SimAF, Zenon
<1> QED
  BY <1>1, Zenon

LEMMA XorBit ==
  ASSUME NEW v \in Byte, NEW w \in Byte
  PROVE  Xor(v, w) \in Byte /\ Bit(Xor(v, w), 4) = (Bit(v, 4) + Bit(w, 4)) % 2
<1> DEFINE b(i) == (Bit(v, i) + Bit(w, i)) % 2
           x == Xor(v, w)
<1>1. x = b(0) + 2 * b(1) + 4 * b(2) + 8 * b(3) + 16 * b(4) + 32 * b(5) + 64 * b(6) + 128 * b(7)
  BY DEF Xor, OfBits
<1>2. \A i \in 0 .. 7 : b(i) \in 0 .. 1
  <2> TAKE i \in 0 .. 7
  <2>1. Bit(v, i) \in 0 .. 1 /\ Bit(w, i) \in 0 .. 1
    BY BitsOf
  <2> QED
    BY <2>1
<1> HIDE DEF b, x
<1>3. /\ b(0) \in 0 .. 1 /\ b(1) \in 0 .. 1 /\ b(2) \in 0 .. 1 /\ b(3) \in 0 .. 1
      /\ b(4) \in 0 .. 1 /\ b(5) \in 0 .. 1 /\ b(6) \in 0 .. 1 /\ b(7) \in 0 .. 1
  BY <1>2
<1>4. x \in Byte /\ Bit(x, 4) = b(4)
  BY <1>1, <1>3, BitOfBits
<1> QED
  BY <1>4 DEF x, b

\* The half carry of the reference: the carry into bit 4.
LEMMA HalfXor ==
  ASSUME NEW a \in Byte, NEW v \in Byte, NEW n \in Int
  PROVE  Bit(Xor(Xor(a, v), Low(n)), 4) = (Bit(a, 4) + Bit(v, 4) + Bit(n, 4)) % 2
<1> DEFINE x == Xor(a, v)
           l == Low(n)
           ba == Bit(a, 4)
           bv == Bit(v, 4)
           bx == Bit(x, 4)
           bl == Bit(l, 4)
<1>1. l \in Byte
  BY Wrapped DEF Low
<1>2. x \in Byte /\ bx = (ba + bv) % 2
  BY XorBit
<1>3. bl = Bit(n, 4)
  <2>1. ((n % 256) \div 16) % 2 = (n \div 16) % 2
    OBVIOUS
  <2> QED
    BY <2>1 DEF Low, Bit, Pow2
<1> HIDE DEF x, l
<1>4. Bit(Xor(x, l), 4) = (bx + bl) % 2
  BY <1>1, <1>2, XorBit
<1>5. ba \in 0 .. 1 /\ bv \in 0 .. 1 /\ bl \in 0 .. 1
  BY <1>1, BitsOf
<1> HIDE DEF ba, bv, bx, bl
<1>6. (((ba + bv) % 2) + bl) % 2 = (ba + bv + bl) % 2
  BY <1>5
<1>7. Bit(Xor(x, l), 4) = (ba + bv + bl) % 2
  BY <1>2, <1>4, <1>6
<1> QED
  BY <1>3, <1>7 DEF x, l, ba, bv

-----------------------------------------------------------------------------
(* A and an operand.                                                        *)

\* r is the sum of A, v and a carry, and r the difference.
LEMMA SimAdded ==
  ASSUME NEW c, NEW s, NEW p, Sim(c, s, p), NEW v \in Byte, NEW q \in 0 .. 1,
         NEW r, r.val = Low(c.A + v + q), r.f \in FlagsRegister,
         r.f.zero = (Low(c.A + v + q) = 0), One(r.f.subtraction) = 0,
         One(r.f.halfCarry) = (Bit(c.A, 4) + Bit(v, 4) + Bit(c.A + v + q, 4)) % 2,
         One(r.f.carry) = Bit(c.A + v + q, 8)
  PROVE  Sim([c EXCEPT !.A = r.val, !.F = r.f], Ref!Added(s, v, q), p)
<1> DEFINE n  == c.A + v + q
           l  == Low(n)
           zf == (l = 0)
           hf == Bit(Xor(Xor(c.A, v), l), 4)
           cf == Bit(n, 8)
<1>1. c.A \in Byte /\ n \in Int /\ l \in Byte
  BY SimParts, Fields, Wrapped, ByteIs DEF Low
<1>2. Ref!A(s) = c.A
  BY SimReadA
<1>3. Ref!Low(n) = l /\ Ref!Bit(n, 8) = cf /\ Ref!Bit(Ref!Xor(Ref!Xor(c.A, v), l), 4) = hf
  <2> DEFINE x1 == Xor(c.A, v)
             x2 == Xor(x1, l)
  <2>1. Ref!Low(n) = l
    BY SameHalves
  <2>2. Ref!Xor(c.A, v) = x1
    BY SameBits, Zenon
  <2> HIDE DEF x1, l, n
  <2>3. Ref!Xor(x1, l) = x2
    BY SameBits, Zenon
  <2> HIDE DEF x2
  <2>4. Ref!Bit(x2, 4) = Bit(x2, 4) /\ Ref!Bit(n, 8) = Bit(n, 8)
    BY SameBits
  <2> QED
    BY <2>1, <2>2, <2>3, <2>4, Zenon DEF x1, x2
<1>4. Ref!Added(s, v, q) = Ref!SetA(Ref!SetFlags(s, zf, 0, hf, cf), l)
  BY <1>2, <1>3, Zenon DEF Ref!Added
<1>5. hf = One(r.f.halfCarry)
  BY <1>1, HalfXor
<1> HIDE DEF n, l, zf, hf, cf
<1>6. /\ r.val = l /\ r.f.zero = zf /\ One(r.f.carry) = cf
  BY Zenon DEF n, l, zf, cf
<1>7. Sim([c EXCEPT !.A = r.val, !.F = r.f], Ref!SetA(Ref!SetFlags(s, zf, 0, hf, cf), l), p)
  BY <1>1, <1>5, <1>6, SimResult, Zenon
<1> QED
  BY <1>4, <1>7, Zenon

LEMMA SimSubtracted ==
  ASSUME NEW c, NEW s, NEW p, Sim(c, s, p), NEW v \in Byte, NEW q \in 0 .. 1,
         NEW r, r.val = Low(c.A - v - q), r.f \in FlagsRegister,
         r.f.zero = (Low(c.A - v - q) = 0), One(r.f.subtraction) = 1,
         r.f.halfCarry <=> Nibble(c.A) - Nibble(v) - q < 0,
         r.f.carry <=> c.A < v + q
  PROVE  Sim([c EXCEPT !.A = r.val, !.F = r.f], Ref!Subtracted(s, v, q), p)
<1> DEFINE a  == c.A
           l  == Low(a - v - q)
           zf == (l = 0)
           hf == Ref!B2N((a % 16) - (v % 16) - q < 0)
           cf == Ref!B2N(a < v + q)
<1>1. a \in Byte /\ l \in Byte
  BY SimParts, Fields, Wrapped, ByteIs DEF Low
<1>2. Ref!A(s) = a /\ Ref!Low(a - v - q) = l
  BY SimReadA, SameHalves
<1>3. Ref!Subtracted(s, v, q) = Ref!SetA(Ref!SetFlags(s, zf, 1, hf, cf), l)
  BY <1>2 DEF Ref!Subtracted
<1>4. hf = One(r.f.halfCarry) /\ cf = One(r.f.carry)
  BY DEF One, Ref!B2N, Nibble
<1> HIDE DEF l, zf, hf, cf
<1>5. r.val = l /\ r.f.zero = zf
  BY Zenon DEF l, zf, a
<1>6. Sim([c EXCEPT !.A = r.val, !.F = r.f], Ref!SetA(Ref!SetFlags(s, zf, 1, hf, cf), l), p)
  BY <1>1, <1>4, <1>5, SimResult, Zenon
<1> QED
  BY <1>3, <1>6, Zenon

\* The carry out of the low digits.
LEMMA HalfSum ==
  ASSUME NEW a \in Byte, NEW v \in Byte
  PROVE  (Bit(a, 4) + Bit(v, 4) + Bit(a + v, 4)) % 2 = Bit(Nibble(a) + Nibble(v), 4)
<1> DEFINE x == a \div 16
           k == a % 16
           w == v \div 16
           m == v % 16
<1>1. /\ x \in 0 .. 15 /\ k \in 0 .. 15 /\ w \in 0 .. 15 /\ m \in 0 .. 15
      /\ a = 16 * x + k /\ v = 16 * w + m
  BY ByteIs
<1>2. /\ Bit(a, 4) = x % 2 /\ Bit(v, 4) = w % 2 /\ Bit(a + v, 4) = ((a + v) \div 16) % 2
      /\ Bit(Nibble(a) + Nibble(v), 4) = ((k + m) \div 16) % 2
  BY DEF Bit, Pow2, Nibble
<1> HIDE DEF x, k, w, m
<1>3. PICK q \in 0 .. 1 : (k + m) \div 16 = q /\ (a + v) \div 16 = x + w + q
  <2>1. CASE k + m > 15
    BY <1>1, <2>1
  <2>2. CASE k + m <= 15
    BY <1>1, <2>2
  <2> QED
    BY <1>1, <2>1, <2>2
<1>4. ((x % 2) + (w % 2) + ((x + w + q) % 2)) % 2 = q /\ q % 2 = q
  BY <1>1
<1> QED
  BY <1>2, <1>3, <1>4

LEMMA OneBit == ASSUME NEW b \in 0 .. 1 PROVE One(b = 1) = b
BY DEF One

LEMMA OperandsTyped ==
  ASSUME NEW c, NEW s, NEW p, Sim(c, s, p), NEW v \in Byte, NEW f \in FlagsRegister
  PROVE  /\ c.A \in Byte /\ One(f.carry) \in 0 .. 1
         /\ add(c.A, v).f \in FlagsRegister /\ adc(c.A, v, f).f \in FlagsRegister
         /\ sub(c.A, v).f \in FlagsRegister /\ sbc(c.A, v, f).f \in FlagsRegister
         /\ cp(c.A, v).f \in FlagsRegister
<1>1. c.A \in Byte
  BY SimParts, Fields
<1>2. One(f.carry) \in 0 .. 1
  BY OneIs DEF FlagsRegister
<1> QED
  BY <1>1, <1>2, BinaryTyped

LEMMA SimAdd ==
  ASSUME NEW c, NEW s, NEW p, Sim(c, s, p), NEW v \in Byte, NEW f \in FlagsRegister,
         NEW r, r = add(c.A, v)
  PROVE  Sim([c EXCEPT !.A = r.val, !.F = r.f], Ref!Added(s, v, 0), p)
<1> DEFINE a == c.A
           n == a + v + 0
           h == Bit(Nibble(a) + Nibble(v), 4)
<1>1. a \in Byte /\ r.f \in FlagsRegister
  BY OperandsTyped, Zenon
<1>2. n = a + v
  BY <1>1, ByteIs
<1>3. /\ r.val = n % 256 /\ r.f.zero = (n % 256 = 0) /\ r.f.subtraction = FALSE
      /\ r.f.halfCarry = (h = 1) /\ r.f.carry = (n > 255)
  <2>1. add(a, v) = Result((a + v) % 256, (a + v) % 256 = 0, FALSE, h = 1, a + v > 255)
    BY Zenon DEF add
  <2> HIDE DEF n, h
  <2> DEFINE zf == (n % 256 = 0)
             hf == (h = 1)
             cf == (n > 255)
             e == Result(n % 256, zf, FALSE, hf, cf)
  <2>2. r = e
    BY <1>2, <2>1
  <2> HIDE DEF zf, hf, cf
  <2>3. /\ e.val = n % 256 /\ e.f.zero = zf /\ e.f.subtraction = FALSE
        /\ e.f.halfCarry = hf /\ e.f.carry = cf
    BY Zenon DEF Result, Flags
  <2> HIDE DEF e
  <2> QED
    BY <2>2, <2>3, ZenonT(60) DEF zf, hf, cf
<1>4. One(r.f.halfCarry) = (Bit(a, 4) + Bit(v, 4) + Bit(n, 4)) % 2
  <2>1. (Bit(a, 4) + Bit(v, 4) + Bit(n, 4)) % 2 = h
    BY <1>1, <1>2, HalfSum
  <2>2. h \in 0 .. 1
    <3>1. Nibble(a) + Nibble(v) \in Int
      BY <1>1, ByteIs DEF Nibble
    <3> QED
      BY <3>1, BitIs
  <2>3. One(h = 1) = h
    BY <2>2, OneBit, Zenon
  <2> QED
    BY <1>3, <2>1, <2>3, Zenon
<1>5. One(r.f.carry) = Bit(n, 8)
  <2>1. (n \div 256) % 2 = IF n > 255 THEN 1 ELSE 0
    BY <1>1, ByteIs
  <2>2. Bit(n, 8) = (n \div 256) % 2
    BY DEF Bit, Pow2
  <2>3. One(n > 255) = Bit(n, 8)
    BY <2>1, <2>2 DEF One
  <2> HIDE DEF n
  <2> QED
    BY <1>3, <2>3, Zenon
<1>6. One(r.f.subtraction) = 0
  BY <1>3, Zenon DEF One
<1>7. r.val = Low(n) /\ r.f.zero = (Low(n) = 0)
  BY <1>3, Zenon DEF Low
<1>8. 0 \in 0 .. 1
  OBVIOUS
<1> QED
  BY <1>1, <1>4, <1>5, <1>6, <1>7, <1>8, SimAdded, Zenon

LEMMA SimAdc ==
  ASSUME NEW c, NEW s, NEW p, Sim(c, s, p), NEW v \in Byte,
         NEW f \in FlagsRegister, NEW r, r = adc(c.A, v, f)
  PROVE  Sim([c EXCEPT !.A = r.val, !.F = r.f], Ref!Added(s, v, One(f.carry)), p)
<1> DEFINE a == c.A
           q == One(f.carry)
           n == a + v + q
           h == (Bit(a, 4) + Bit(v, 4) + Bit(n, 4)) % 2
           k == Bit(n, 8)
<1>1. a \in Byte /\ r.f \in FlagsRegister /\ q \in 0 .. 1
  BY OperandsTyped, Zenon
<1>2. /\ r.val = n % 256 /\ r.f.zero = (n % 256 = 0) /\ r.f.subtraction = FALSE
      /\ r.f.halfCarry = (h = 1) /\ r.f.carry = (k = 1)
  BY Zenon DEF adc, Result, Flags
<1>3. h \in 0 .. 1 /\ k \in 0 .. 1
  <2>1. n \in Int /\ a \in Int /\ v \in Int
    BY <1>1, ByteIs
  <2>2. Bit(a, 4) \in 0 .. 1 /\ Bit(v, 4) \in 0 .. 1 /\ Bit(n, 4) \in 0 .. 1 /\ k \in 0 .. 1
    BY <2>1, BitIs
  <2> QED
    BY <2>2
<1>4. One(h = 1) = h /\ One(k = 1) = k
  BY <1>3, OneBit, Zenon
<1>5. One(r.f.halfCarry) = h /\ One(r.f.carry) = k /\ One(r.f.subtraction) = 0
  BY <1>2, <1>4, Zenon DEF One
<1>6. r.val = Low(n) /\ r.f.zero = (Low(n) = 0)
  BY <1>2, Zenon DEF Low
<1> QED
  BY <1>1, <1>5, <1>6, SimAdded, Zenon

\* The difference of two bytes, modulo 256.
LEMMA ZeroDifference ==
  ASSUME NEW a \in Byte, NEW v \in Byte
  PROVE  (a - v) % 256 = 0 <=> a = v
<1> DEFINE m == a - v
<1>1. m \in -255 .. 255 /\ (m = 0 <=> a = v)
  <2>1. a \in 0 .. 255 /\ v \in 0 .. 255
    BY DEF Byte
  <2> QED
    BY <2>1
<1> HIDE DEF m
<1>2. m % 256 = 0 <=> m = 0
  BY <1>1
<1> QED
  BY <1>1, <1>2 DEF m

LEMMA SimSub ==
  ASSUME NEW c, NEW s, NEW p, Sim(c, s, p), NEW v \in Byte, NEW f \in FlagsRegister,
         NEW r, r = sub(c.A, v)
  PROVE  Sim([c EXCEPT !.A = r.val, !.F = r.f], Ref!Subtracted(s, v, 0), p)
<1> DEFINE a == c.A
           m == (a - v - 0) % 256
           h == Nibble(a) - Nibble(v) - 0 < 0
           k == a < v + 0
<1>1. a \in Byte /\ r.f \in FlagsRegister
  BY OperandsTyped, Zenon
<1>2. /\ r.val = (a - v) % 256 /\ r.f.zero = (a = v) /\ r.f.subtraction = TRUE
      /\ r.f.halfCarry = (Nibble(a) < Nibble(v)) /\ r.f.carry = (a < v)
  BY Zenon DEF sub, cp, Result, Flags
<1>3. (a - v) % 256 = m /\ (a < v <=> k)
  BY <1>1, ByteIs
<1>4. h <=> Nibble(a) < Nibble(v)
  BY <1>1, ByteIs DEF Nibble
<1>5. m = 0 <=> a = v
  <2>1. (a - v) % 256 = 0 <=> a = v
    BY <1>1, ZeroDifference
  <2> HIDE DEF m
  <2> QED
    BY <1>3, <2>1
<1>6. r.val = Low(a - v - 0) /\ r.f.zero = (Low(a - v - 0) = 0)
  BY <1>2, <1>3, <1>5, Zenon DEF Low
<1>7. One(r.f.subtraction) = 1 /\ (r.f.halfCarry <=> h) /\ (r.f.carry <=> k)
  BY <1>2, <1>3, <1>4, Zenon DEF One
<1>8. 0 \in 0 .. 1
  OBVIOUS
<1> QED
  BY <1>1, <1>6, <1>7, <1>8, SimSubtracted, Zenon

LEMMA SimSbc ==
  ASSUME NEW c, NEW s, NEW p, Sim(c, s, p), NEW v \in Byte,
         NEW f \in FlagsRegister, NEW r, r = sbc(c.A, v, f)
  PROVE  Sim([c EXCEPT !.A = r.val, !.F = r.f], Ref!Subtracted(s, v, One(f.carry)), p)
<1> DEFINE a == c.A
           q == One(f.carry)
           m == (a - v - q) % 256
<1>1. a \in Byte /\ r.f \in FlagsRegister /\ q \in 0 .. 1
  BY OperandsTyped, Zenon
<1>2. /\ r.val = m /\ r.f.zero = (m = 0) /\ r.f.subtraction = TRUE
      /\ r.f.halfCarry = (Nibble(a) - Nibble(v) - q < 0) /\ r.f.carry = (a < v + q)
  BY Zenon DEF sbc, Result, Flags
<1>3. r.val = Low(a - v - q) /\ r.f.zero = (Low(a - v - q) = 0) /\ One(r.f.subtraction) = 1
  BY <1>2, Zenon DEF Low, One
<1>4. /\ r.f.halfCarry <=> Nibble(a) - Nibble(v) - q < 0
      /\ r.f.carry <=> a < v + q
  BY <1>2, Zenon
<1> QED
  BY <1>1, <1>3, <1>4, SimSubtracted, Zenon

\* The logical operations and the comparison.
LEMMA SimAnd ==
  ASSUME NEW c, NEW s, NEW p, Sim(c, s, p), NEW v \in Byte,
         NEW r, r = and_(c.A, v)
  PROVE  Sim([c EXCEPT !.A = r.val, !.F = r.f], Ref!Anded(s, v), p)
<1> DEFINE n == And(c.A, v)
           zf == (n = 0)
<1>1. c.A \in Byte
  BY SimParts, Fields
<1>2. r.val \in Byte /\ r.f \in FlagsRegister
  BY <1>1, LogicTyped
<1>3. /\ r.val = n /\ r.f.zero = zf /\ r.f.subtraction = FALSE
      /\ r.f.halfCarry = TRUE /\ r.f.carry = FALSE
  BY Zenon DEF and_, Result, Flags
<1>4. Ref!Anded(s, v) = Ref!SetA(Ref!SetFlags(s, zf, 0, 1, 0), n)
  BY SimReadA, SameBits, Zenon DEF Ref!Anded
<1>5. One(r.f.subtraction) = 0 /\ One(r.f.halfCarry) = 1 /\ One(r.f.carry) = 0
  BY <1>3, Zenon DEF One
<1> HIDE DEF n, zf
<1>6. Sim([c EXCEPT !.A = r.val, !.F = r.f], Ref!SetA(Ref!SetFlags(s, zf, 0, 1, 0), n), p)
  BY <1>2, <1>3, <1>5, SimResult, Zenon
<1> QED
  BY <1>4, <1>6, Zenon

LEMMA SimLogic ==
  ASSUME NEW c, NEW s, NEW p, Sim(c, s, p), NEW n \in Byte,
         NEW r, r = Result(n, n = 0, FALSE, FALSE, FALSE)
  PROVE  Sim([c EXCEPT !.A = r.val, !.F = r.f], Ref!Logic(s, n), p)
<1> DEFINE zf == (n = 0)
           b  == IF n = 0 THEN 128 ELSE 0
<1>1. r.val = n /\ r.f = Flags(zf, FALSE, FALSE, FALSE)
  BY Zenon DEF Result
<1>2. Flags(zf, FALSE, FALSE, FALSE) \in FlagsRegister
  BY DEF Flags, FlagsRegister
<1>3. FlagByte(Flags(zf, FALSE, FALSE, FALSE)) = b
  <2> DEFINE e == FlagByte(Flags(zf, FALSE, FALSE, FALSE))
             o == One(zf)
             k == One(FALSE)
  <2>1. e = 128 * o + 64 * k + 32 * k + 16 * k
    BY Zenon DEF FlagByte, Flags
  <2>2. k = 0 /\ o = IF n = 0 THEN 1 ELSE 0
    BY Zenon DEF One
  <2> HIDE DEF e, o, k
  <2>3. e = b
    BY <2>1, <2>2
  <2> QED
    BY <2>3, Zenon DEF e
<1>4. Ref!Logic(s, n) = Ref!SetF(Ref!SetA(s, n), b)
  BY Zenon DEF Ref!Logic
<1> HIDE DEF b, zf
<1>5. Sim([c EXCEPT !.A = r.val, !.F = r.f], Ref!SetF(Ref!SetA(s, r.val), FlagByte(r.f)), p)
  <2>1. r.val \in Byte /\ r.f \in FlagsRegister
    BY <1>1, <1>2, Zenon
  <2> QED
    BY <2>1, SimAF, Zenon
<1> QED
  BY <1>1, <1>3, <1>4, <1>5, Zenon

LEMMA SimCp ==
  ASSUME NEW c, NEW s, NEW p, Sim(c, s, p), NEW v \in Byte, NEW f \in FlagsRegister,
         NEW r, r = cp(c.A, v)
  PROVE  Sim([c EXCEPT !.A = r.val, !.F = r.f], Ref!Compared(s, v), p)
<1> DEFINE a  == c.A
           zf == (a = v)
           hf == Ref!B2N(Ref!Nibble(a) < Ref!Nibble(v))
           cf == Ref!B2N(a < v)
<1>1. c \in CPUState /\ a \in Byte /\ r.f \in FlagsRegister
  <2>1. c \in CPUState
    BY SimParts DEF Derived
  <2> QED
    BY <2>1, OperandsTyped, Zenon
<1>2. /\ r.val = a /\ r.f.zero = zf /\ r.f.subtraction = TRUE
      /\ r.f.halfCarry = (Nibble(a) < Nibble(v)) /\ r.f.carry = (a < v)
  BY Zenon DEF cp, Result, Flags
<1>3. One(r.f.subtraction) = 1 /\ One(r.f.halfCarry) = hf /\ One(r.f.carry) = cf
  <2>1. Ref!Nibble(a) = Nibble(a) /\ Ref!Nibble(v) = Nibble(v)
    BY SameHalves
  <2> QED
    BY <1>2, <2>1, Zenon DEF One, Ref!B2N
<1>4. Ref!Compared(s, v) = Ref!SetFlags(s, zf, 1, hf, cf)
  BY SimReadA, Zenon DEF Ref!Compared
<1>5. [c EXCEPT !.A = r.val, !.F = r.f] = [c EXCEPT !.F = r.f]
  BY <1>1, <1>2, Zenon DEF CPUState
<1> HIDE DEF zf, hf, cf
<1>6. Sim([c EXCEPT !.F = r.f],
          Ref!SetFlags(s, zf, One(r.f.subtraction), One(r.f.halfCarry), One(r.f.carry)), p)
  BY <1>1, <1>2, SimFlags, Zenon
<1> QED
  BY <1>3, <1>4, <1>5, <1>6, Zenon

LEMMA SimApplied ==
  ASSUME Paired, NEW s, NEW p, Sim(cpu, s, p), NEW v \in Byte
  PROVE  Sim(WithA(Immediate(v)), Ref!Applied(s, v), p)
<1> DEFINE a  == cpu.A
           q  == One(cpu.F.carry)
           x  == Xor(a, v)
           o  == Or(a, v)
           e0 == Ref!Added(s, v, 0)       i0 == add(a, v)
           e1 == Ref!Added(s, v, q)       i1 == adc(a, v, cpu.F)
           e2 == Ref!Subtracted(s, v, 0)  i2 == sub(a, v)
           e3 == Ref!Subtracted(s, v, q)  i3 == sbc(a, v, cpu.F)
           e4 == Ref!Anded(s, v)          i4 == and_(a, v)
           e5 == Ref!Logic(s, x)          i5 == xor_(a, v)
           e6 == Ref!Logic(s, o)          i6 == or_(a, v)
           e7 == Ref!Compared(s, v)       i7 == cp(a, v)
<1>1. y \in 0 .. 7 /\ a \in Byte /\ cpu.F \in FlagsRegister
  BY PairedParts
<1>2. x \in Byte /\ o \in Byte
  BY <1>1, BitwiseTyped
<1>3. Sim(WithA(i0), e0, p) /\ Sim(WithA(i1), e1, p) /\ Sim(WithA(i2), e2, p) /\ Sim(WithA(i3), e3, p)
  BY <1>1, SimAdd, SimAdc, SimSub, SimSbc, Zenon DEF WithA
<1>4. Sim(WithA(i4), e4, p) /\ Sim(WithA(i7), e7, p)
  BY <1>1, SimAnd, SimCp, Zenon DEF WithA
<1>5. Sim(WithA(i5), e5, p) /\ Sim(WithA(i6), e6, p)
  <2>1. i5 = Result(x, x = 0, FALSE, FALSE, FALSE) /\ i6 = Result(o, o = 0, FALSE, FALSE, FALSE)
    BY Zenon DEF xor_, or_
  <2> HIDE DEF i5, i6, x, o
  <2> QED
    BY <1>2, <2>1, SimLogic, Zenon DEF WithA
<1>6. /\ Ref!r3 = y /\ Ref!CF = q /\ Ref!A(s) = a /\ Ref!Xor(a, v) = x /\ Ref!Or(a, v) = o
  BY PairedParts, SameFlags, SimReadA, SameBits, Zenon
<1>7. Ref!Applied(s, v) = CASE y = 0 -> e0 [] y = 1 -> e1 [] y = 2 -> e2 [] y = 3 -> e3
                            [] y = 4 -> e4 [] y = 5 -> e5 [] y = 6 -> e6 [] y = 7 -> e7
  BY <1>6, Zenon DEF Ref!Applied
<1>8. Immediate(v) = CASE y = 0 -> i0 [] y = 1 -> i1 [] y = 2 -> i2 [] y = 3 -> i3
                       [] y = 4 -> i4 [] y = 5 -> i5 [] y = 6 -> i6 [] y = 7 -> i7
  BY Zenon DEF Immediate
<1> HIDE DEF a, q, x, o, e0, e1, e2, e3, e4, e5, e6, e7, i0, i1, i2, i3, i4, i5, i6, i7
<1> QED
  BY <1>1, <1>3, <1>4, <1>5, <1>7, <1>8

LEMMA SameArithmetic_A_r == ASSUME Paired, Arithmetic_A_r, Ref!R_Arith8 PROVE Agreed'
<1> DEFINE v == get8(cpu, z)
           s == Ref!Applied(Ref!s1, v)
           c == WithA(Immediate(v))
<1>1. v \in Byte /\ Ref!REG8(ref, z) = v
  BY PairedParts, Get8, SimGet8, Zenon
<1>2. ref' = s /\ Ref!Silent
  BY <1>1, PairedParts, Zenon DEF Ref!R_Arith8
<1>3. PICK i, result, n : i \in 0 .. 7 /\ With_r(i, result, n) /\ result = Immediate(v)
  <2> DEFINE i0 == add(cpu.A, v)   i1 == adc(cpu.A, v, cpu.F)
             i2 == sub(cpu.A, v)   i3 == sbc(cpu.A, v, cpu.F)
             i4 == and_(cpu.A, v)  i5 == xor_(cpu.A, v)
             i6 == or_(cpu.A, v)   i7 == cp(cpu.A, v)
  <2>1. Immediate(v) = CASE y = 0 -> i0 [] y = 1 -> i1 [] y = 2 -> i2 [] y = 3 -> i3
                         [] y = 4 -> i4 [] y = 5 -> i5 [] y = 6 -> i6 [] y = 7 -> i7
    BY Zenon DEF Immediate
  <2>2. /\ ADD_A_r => With_r(0, i0, 2)
        /\ ADC_A_r => With_r(1, i1, 2)
        /\ SUB_r => With_r(2, i2, 2)
        /\ SBC_A_r => With_r(3, i3, 2)
        /\ AND_r => With_r(4, i4, 2)
        /\ XOR_r => With_r(5, i5, 2)
        /\ OR_r => With_r(6, i6, 2)
        /\ CP_r => With_r(7, i7, 1)
    BY Zenon DEF ADD_A_r, ADC_A_r, SUB_r, SBC_A_r, AND_r, XOR_r, OR_r, CP_r, Source
  <2>3. \A i, e, n : With_r(i, e, n) => y = i
    BY Zenon DEF With_r
  <2> HIDE DEF i0, i1, i2, i3, i4, i5, i6, i7, v
  <2>4. /\ y = 0 => Immediate(v) = i0
        /\ y = 1 => Immediate(v) = i1
        /\ y = 2 => Immediate(v) = i2
        /\ y = 3 => Immediate(v) = i3
        /\ y = 4 => Immediate(v) = i4
        /\ y = 5 => Immediate(v) = i5
        /\ y = 6 => Immediate(v) = i6
        /\ y = 7 => Immediate(v) = i7
    BY <2>1
  <2> QED
    BY <2>2, <2>3, <2>4 DEF Arithmetic_A_r
<1> DEFINE n1 == IF z = 6 THEN n ELSE 1
<1>4. Finish(c, 1, n1) /\ NoStore
  BY <1>3, Zenon DEF With_r
<1>5. Sim(c, s, After1)
  BY <1>1, PairedParts, SimApplied, Zenon
<1> HIDE DEF c, s, n1
<1> QED
  BY <1>2, <1>4, <1>5, QuietEnds

LEMMA SameArithmetic_A_d8 == ASSUME Paired, Arithmetic_A_d8, Ref!R_Arith_imm PROVE Agreed'
<1> DEFINE s == Ref!Applied(Ref!Skip(Ref!s1, 1), d8)
           c == WithA(Immediate(d8))
<1>1. Finish(c, 2, 2) /\ NoStore
  BY PTL DEF Arithmetic_A_d8
<1>2. ref' = s /\ Ref!Silent
  BY PairedParts, Zenon DEF Ref!R_Arith_imm
<1>3. Sim(c, s, After2)
  BY PairedParts, Skips, SimApplied, Zenon
<1> HIDE DEF c, s
<1> QED
  BY <1>1, <1>2, <1>3, QuietEnds

-----------------------------------------------------------------------------
(* INC and DEC.                                                             *)

LEMMA Digits ==
  ASSUME Paired
  PROVE  LET i == op \div 64
         IN /\ i \in 0 .. 3 /\ op = 64 * i + 8 * y + z /\ rr_ = y \div 2
            /\ And(op, 199) = 64 * i + z /\ And(op, 207) = 64 * i + 8 * (y % 2) + z
            /\ And(op, 231) = 64 * i + 32 * (y \div 4) + z
<1>1. op \in Byte
  BY PairedParts
<1> QED
  BY <1>1, Octal DEF y, z, rr_

LEMMA MaskIs ==
  ASSUME Paired, NEW v, NEW m
  PROVE  Ref!M(Ref!opcode, v, m) <=> And(op, m) = v
BY PairedParts, SameBits, Zenon DEF Ref!M

LEMMA SimInc ==
  ASSUME Paired, NEW v \in Byte, NEW r, r = inc(v, cpu.F)
  PROVE  LET n == Ref!Low(v + 1)
         IN /\ r.val = n /\ n \in Byte
            /\ Sim([cpu EXCEPT !.F = r.f],
                   Ref!SetFlags(Ref!s1, n = 0, 0, Ref!B2N(v % 16 = 15), Ref!CF), After1)
<1> DEFINE n  == Ref!Low(v + 1)
           zf == (n = 0)
           hf == Ref!B2N(v % 16 = 15)
           m  == (v + 1) % 256
           h  == (Nibble(v) = 15)
<1>1. cpu.F \in FlagsRegister /\ Sim(cpu, Ref!s1, After1) /\ Ref!CF = One(cpu.F.carry)
  BY PairedParts, SameFlags
<1>2. r.val \in Byte /\ r.f \in FlagsRegister
  BY <1>1, UnaryTyped
<1>3. n = m
  BY SameHalves DEF Low
<1>4. r.val = m /\ r.f.zero = (m = 0) /\ r.f.subtraction = FALSE /\ r.f.halfCarry = h
      /\ r.f.carry = cpu.F.carry
  <2> DEFINE e == Result(m, m = 0, FALSE, h, cpu.F.carry)
  <2>1. r = e
    BY Zenon DEF inc
  <2> HIDE DEF m, h
  <2>2. /\ e.val = m /\ e.f.zero = (m = 0) /\ e.f.subtraction = FALSE /\ e.f.halfCarry = h
        /\ e.f.carry = cpu.F.carry
    BY Zenon DEF Result, Flags
  <2> HIDE DEF e
  <2> QED
    BY <2>1, <2>2, Zenon
<1>5. One(h) = hf
  BY Zenon DEF One, Ref!B2N, Nibble, h
<1> HIDE DEF n, m, h, hf
<1>6. /\ r.f.zero = zf /\ One(r.f.subtraction) = 0 /\ One(r.f.halfCarry) = hf
      /\ One(r.f.carry) = Ref!CF
  BY <1>1, <1>3, <1>4, <1>5, Zenon DEF One
<1>7. Sim([cpu EXCEPT !.F = r.f],
          Ref!SetFlags(Ref!s1, zf, One(r.f.subtraction), One(r.f.halfCarry), One(r.f.carry)), After1)
  BY <1>1, <1>2, <1>6, SimFlags, Zenon
<1>8. Sim([cpu EXCEPT !.F = r.f], Ref!SetFlags(Ref!s1, zf, 0, hf, Ref!CF), After1)
  BY <1>6, <1>7, Zenon
<1> QED
  BY <1>2, <1>3, <1>4, <1>8, Zenon DEF n, hf

LEMMA SimDec ==
  ASSUME Paired, NEW v \in Byte, NEW r, r = dec(v, cpu.F)
  PROVE  LET n == Ref!Low(v + 255)
         IN /\ r.val = n /\ n \in Byte
            /\ Sim([cpu EXCEPT !.F = r.f],
                   Ref!SetFlags(Ref!s1, n = 0, 1, Ref!B2N(n % 16 = 15), Ref!CF), After1)
<1> DEFINE n  == Ref!Low(v + 255)
           zf == (n = 0)
           hf == Ref!B2N(n % 16 = 15)
           m  == (v - 1) % 256
           h  == (Nibble(m) = 15)
<1>1. cpu.F \in FlagsRegister /\ Sim(cpu, Ref!s1, After1) /\ Ref!CF = One(cpu.F.carry)
  BY PairedParts, SameFlags
<1>2. r.val \in Byte /\ r.f \in FlagsRegister
  BY <1>1, UnaryTyped
<1>3. n = m
  BY SameHalves, ByteIs DEF Low
<1>4. r.val = m /\ r.f.zero = (m = 0) /\ r.f.subtraction = TRUE /\ r.f.halfCarry = h
      /\ r.f.carry = cpu.F.carry
  <2> DEFINE e == Result(m, m = 0, TRUE, h, cpu.F.carry)
  <2>1. r = e
    BY Zenon DEF dec
  <2> HIDE DEF m, h
  <2>2. /\ e.val = m /\ e.f.zero = (m = 0) /\ e.f.subtraction = TRUE /\ e.f.halfCarry = h
        /\ e.f.carry = cpu.F.carry
    BY Zenon DEF Result, Flags
  <2> HIDE DEF e
  <2> QED
    BY <2>1, <2>2, Zenon
<1> HIDE DEF n, m
<1>5. One(h) = hf
  BY <1>3, Zenon DEF One, Ref!B2N, Nibble, h
<1> HIDE DEF h, hf
<1>6. /\ r.f.zero = zf /\ One(r.f.subtraction) = 1 /\ One(r.f.halfCarry) = hf
      /\ One(r.f.carry) = Ref!CF
  BY <1>1, <1>3, <1>4, <1>5, Zenon DEF One
<1>7. Sim([cpu EXCEPT !.F = r.f],
          Ref!SetFlags(Ref!s1, zf, One(r.f.subtraction), One(r.f.halfCarry), One(r.f.carry)), After1)
  BY <1>1, <1>2, <1>6, SimFlags, Zenon
<1>8. Sim([cpu EXCEPT !.F = r.f], Ref!SetFlags(Ref!s1, zf, 1, hf, Ref!CF), After1)
  BY <1>6, <1>7, Zenon
<1> QED
  BY <1>2, <1>3, <1>4, <1>8, Zenon DEF n, hf

LEMMA SameStepped8 ==
  ASSUME Paired, op \in MiscOps, z \in {4, 5}, Ref!R_INC8 \/ Ref!R_DEC8
  PROVE  LET v == Stepped8.val
         IN /\ v \in Byte /\ Ref!Write8(ref, y, v)
            /\ \E t : /\ ref' = Ref!Put8(t, y, v)
                      /\ Sim([cpu EXCEPT !.F = Stepped8.f], t, After1)
<1> DEFINE u == get8(cpu, y)
           r == Stepped8
<1>1. u \in Byte /\ Ref!REG8(ref, Ref!r3) = u /\ Ref!r3 = y
  BY PairedParts, Get8, SimGet8, Zenon
<1>2. CASE Ref!R_INC8
  <2> DEFINE n == Ref!Low(u + 1)
             t == Ref!SetFlags(Ref!s1, n = 0, 0, Ref!B2N(u % 16 = 15), Ref!CF)
  <2>1. Ref!M(Ref!opcode, 4, 199) /\ ref' = Ref!Put8(t, y, n) /\ Ref!Write8(ref, y, n)
    BY <1>1, <1>2, Zenon DEF Ref!R_INC8
  <2>2. z = 4
    <3>1. And(op, 199) = 4
      BY <2>1, MaskIs
    <3> QED
      BY <3>1, Digits
  <2>3. r = inc(u, cpu.F)
    BY <2>2 DEF Stepped8
  <2> HIDE DEF r, u
  <2>4. r.val = n /\ n \in Byte /\ Sim([cpu EXCEPT !.F = r.f], t, After1)
    BY <1>1, <2>3, SimInc, Zenon
  <2> HIDE DEF n, t
  <2> QED
    BY <2>1, <2>4, Zenon DEF r
<1>3. CASE Ref!R_DEC8
  <2> DEFINE n == Ref!Low(u + 255)
             t == Ref!SetFlags(Ref!s1, n = 0, 1, Ref!B2N(n % 16 = 15), Ref!CF)
  <2>1. Ref!M(Ref!opcode, 5, 199) /\ ref' = Ref!Put8(t, y, n) /\ Ref!Write8(ref, y, n)
    BY <1>1, <1>3, ZenonT(60) DEF Ref!R_DEC8
  <2>2. z = 5
    <3>1. And(op, 199) = 5
      BY <2>1, MaskIs
    <3> QED
      BY <3>1, Digits
  <2>3. r = dec(u, cpu.F)
    BY <2>2 DEF Stepped8
  <2> HIDE DEF r, u
  <2>4. r.val = n /\ n \in Byte /\ Sim([cpu EXCEPT !.F = r.f], t, After1)
    BY <1>1, <2>3, SimDec
  <2> HIDE DEF n, t
  <2> QED
    BY <2>1, <2>4, Zenon DEF r
<1> QED
  BY <1>2, <1>3

LEMMA SameINC_DEC_r == ASSUME Paired, INC_DEC_r, Ref!R_INC8 \/ Ref!R_DEC8 PROVE Agreed'
<1> DEFINE v == Stepped8.val
           f == Stepped8.f
           d == [cpu EXCEPT !.F = f]
           c == [set8(cpu, y, v) EXCEPT !.F = f]
<1>1. op \in MiscOps /\ z \in {4, 5} /\ y # 6 /\ Finish(c, 1, 1) /\ NoStore
  BY PTL DEF INC_DEC_r
<1>2. v \in Byte /\ Ref!Write8(ref, y, v)
  BY <1>1, SameStepped8
<1>3. PICK t : ref' = Ref!Put8(t, y, v) /\ Sim(d, t, After1)
  BY <1>1, SameStepped8
<1> HIDE DEF v, f
<1>4. set8(d, y, v) = c
  <2>1. cpu \in CPUState /\ y \in 0 .. 7
    BY PairedParts
  <2> QED
    BY <2>1, Commute8
<1>5. Sim(set8(d, y, v), Ref!Put8(t, y, v), After1)
  BY <1>2, <1>3, PairedParts, SimPut8, Zenon
<1> HIDE DEF d, c
<1>6. Matching'
  BY <1>1, <1>3, <1>4, <1>5, Ends
<1>7. SameLogs'
  BY <1>1, <1>2, QuietLogs8
<1> QED
  BY <1>6, <1>7 DEF Agreed

LEMMA SameINC_DEC_mem_HL ==
  ASSUME Paired, INC_DEC_mem_HL, Ref!R_INC8 \/ Ref!R_DEC8
  PROVE  Agreed'
<1> DEFINE v == Stepped8.val
           d == [cpu EXCEPT !.F = Stepped8.f]
<1>1. op \in {52, 53} /\ Finish(d, 1, 3) /\ Store(<< <<HL(cpu), v>> >>)
  BY PTL DEF INC_DEC_mem_HL
<1>2. op \in MiscOps /\ z \in {4, 5} /\ y = 6
  <2>1. op \in MiscOps
    BY <1>1 DEF MiscOps
  <2> QED
    BY <1>1, <2>1 DEF y, z
<1>3. v \in Byte /\ Ref!Write8(ref, y, v)
  BY <1>2, SameStepped8
<1>4. PICK t : ref' = Ref!Put8(t, y, v) /\ Sim(d, t, After1)
  BY <1>2, SameStepped8
<1>5. Ref!Put8(t, y, v) = t
  BY <1>2, PutHL, Zenon
<1>6. Stores8(cpu, y, v) = << <<HL(cpu), v>> >>
  BY <1>2 DEF Stores8
<1> HIDE DEF v, d
<1>7. SameLogs'
  <2>1. Store(Stores8(cpu, y, v))
    BY <1>1, <1>6, Zenon
  <2> QED
    BY <1>3, <2>1, PairedParts, Logs8
<1>8. Matching'
  BY <1>1, <1>4, <1>5, Ends
<1> QED
  BY <1>7, <1>8 DEF Agreed

-----------------------------------------------------------------------------
(* The other arithmetic.                                                    *)

LEMMA SameINC_rr == ASSUME Paired, INC_rr, Ref!R_INC16 PROVE Agreed'
<1> DEFINE w == get16(cpu, rr_)
           u == Next16(w)
           n == IF op = 3 THEN 1 ELSE 2
           c == set16(cpu, rr_, u)
           s == [Ref!s1 EXCEPT ![Ref!Reg16[rr_ + 1]] = u]
<1>1. Finish(c, 1, n) /\ NoStore
  BY PTL DEF INC_rr
<1>2. w \in Word /\ u \in Word /\ Ref!Inc16(w, 1) = u
  BY PairedParts, Nexts
<1>3. Ref!s1[Ref!Reg16[rr_ + 1]] = w
  BY PairedParts, SimPairs, Zenon
<1>4. ref' = s /\ Ref!Silent
  BY <1>2, <1>3, PairedParts, Zenon DEF Ref!R_INC16
<1> HIDE DEF w, u, n
<1>5. Sim(c, s, After1)
  BY <1>2, PairedParts, SimPairs, Zenon
<1> HIDE DEF c, s
<1> QED
  BY <1>1, <1>4, <1>5, QuietEnds

LEMMA SameDEC_rr == ASSUME Paired, DEC_rr, Ref!R_DEC16 PROVE Agreed'
<1> DEFINE w == get16(cpu, rr_)
           u == (w - 1) % 65536
           c == set16(cpu, rr_, u)
           s == [Ref!s1 EXCEPT ![Ref!Reg16[rr_ + 1]] = u]
<1>1. Finish(c, 1, 2) /\ NoStore
  BY PTL DEF DEC_rr
<1>2. w \in Word /\ u \in Word
  BY PairedParts, WordIs, Wrapped
<1>3. Ref!Inc16(w, 65535) = u
  BY <1>2, WordIs DEF Ref!Inc16
<1>4. Ref!s1[Ref!Reg16[rr_ + 1]] = w /\ Ref!rp = rr_
  BY PairedParts, SimPairs, Zenon
<1>5. ref' = s /\ Ref!Silent
  <2> DEFINE k == 65535
  <2>1. ref' = [Ref!s1 EXCEPT ![Ref!Reg16[Ref!rp + 1]] = Ref!Inc16(@, k)] /\ Ref!Silent
    BY PTL DEF Ref!R_DEC16
  <2>2. Ref!Inc16(w, k) = u
    BY <1>3
  <2> HIDE DEF w, u, k
  <2> QED
    BY <1>4, <2>1, <2>2, Zenon
<1> HIDE DEF w, u
<1>6. Sim(c, s, After1)
  BY <1>2, PairedParts, SimPairs, Zenon
<1> HIDE DEF c, s
<1> QED
  BY <1>1, <1>5, <1>6, QuietEnds

LEMMA ZeroFlag ==
  ASSUME Paired
  PROVE  (Ref!ZF(ref) = 1) = cpu.F.zero
<1>1. cpu.F.zero \in BOOLEAN /\ Ref!ZF(ref) = One(cpu.F.zero)
  BY PairedParts, SameFlags DEF FlagsRegister
<1>2. One(cpu.F.zero) = 1 <=> cpu.F.zero
  BY <1>1 DEF One
<1> QED
  BY <1>1, <1>2, Zenon

LEMMA SameADD_HL_rr == ASSUME Paired, ADD_HL_rr, Ref!R_ADD16 PROVE Agreed'
<1> DEFINE w == HL(cpu)
           u == get16(cpu, rr_)
           r == addCompoundRegisters(w, u, cpu.F)
           v == r.val
           f == r.f
           d == [cpu EXCEPT !.F = f]
           c == [set16(cpu, 2, v) EXCEPT !.F = f]
           hf == Ref!B2N((w % 4096) + (u % 4096) > 4095)
           cf == Ref!B2N(w + u > 65535)
           t == Ref!SetFlags(Ref!s1, Ref!ZF(ref) = 1, 0, hf, cf)
           s == [t EXCEPT !.HL = v]
<1>1. Finish(c, 1, 2) /\ NoStore
  BY PTL DEF ADD_HL_rr
<1>2. w \in Word /\ u \in Word /\ cpu.F \in FlagsRegister /\ v \in Word /\ f \in FlagsRegister
  BY PairedParts, AddWordsTyped
<1>3. ref.HL = w /\ ref[Ref!Reg16[Ref!rp + 1]] = u
  <2>1. ref.HL = w /\ Ref!rp = rr_
    BY PairedParts, SimParts, Zenon
  <2>2. ref[Ref!Reg16[rr_ + 1]] = u
    BY PairedParts, SimPairs, Zenon
  <2> QED
    BY <2>1, <2>2, Zenon
<1>4. v = (w + u) % 65536
  BY DEF addCompoundRegisters
<1>5. ref' = s /\ Ref!Silent
  <2> DEFINE src == ref[Ref!Reg16[Ref!rp + 1]]
             sum == ref.HL + src
             h2 == Ref!B2N((ref.HL % 4096) + (src % 4096) > 4095)
             k2 == Ref!B2N(sum > 65535)
             t2 == Ref!SetFlags(Ref!s1, Ref!ZF(ref) = 1, 0, h2, k2)
  <2>1. ref' = [t2 EXCEPT !.HL = sum % 65536] /\ Ref!Silent
    BY PTL DEF Ref!R_ADD16
  <2>2. h2 = hf /\ k2 = cf
    BY <1>3
  <2> DEFINE m == sum % 65536
             q == (w + u) % 65536
  <2>3. ref' = [t2 EXCEPT !.HL = m] /\ Ref!Silent /\ m = q
    BY <1>3, <2>1
  <2> HIDE DEF h2, k2, hf, cf, m, v, sum
  <2>4. v = q
    BY <1>4
  <2>5. t2 = t
    BY <2>2, Zenon
  <2> HIDE DEF q, t, t2
  <2> QED
    BY <2>3, <2>4, <2>5, Zenon
<1>6. f.zero = (Ref!ZF(ref) = 1) /\ One(f.subtraction) = 0 /\ One(f.halfCarry) = hf /\ One(f.carry) = cf
  <2> DEFINE h == (w % 4096) + (u % 4096) > 4095
             k == w + u > 65535
             e == [cpu.F EXCEPT !.subtraction = FALSE, !.carry = k, !.halfCarry = h]
  <2>1. f = e
    BY DEF addCompoundRegisters
  <2>2. One(h) = hf /\ One(k) = cf
    BY DEF One, Ref!B2N
  <2> HIDE DEF h, k, hf, cf, f, w, u
  <2>3. e.zero = cpu.F.zero /\ e.subtraction = FALSE /\ e.halfCarry = h /\ e.carry = k
    BY <1>2, Zenon DEF FlagsRegister
  <2> HIDE DEF e
  <2> QED
    BY <2>1, <2>2, <2>3, ZeroFlag, Zenon DEF One
<1> HIDE DEF w, u, r, v, f, hf, cf
<1>7. Sim(d, t, After1)
  <2>1. Sim(d, Ref!SetFlags(Ref!s1, Ref!ZF(ref) = 1, One(f.subtraction), One(f.halfCarry),
                            One(f.carry)), After1)
    BY <1>2, <1>6, PairedParts, SimFlags, Zenon
  <2> QED
    BY <1>6, <2>1, Zenon
<1> HIDE DEF t
<1>8. set16(d, 2, v) = c
  <2>1. cpu \in CPUState
    BY PairedParts
  <2> QED
    BY <2>1, CommuteHL
<1>9. Sim(set16(d, 2, v), s, After1)
  <2> HIDE DEF d
  <2> QED
    BY <1>2, <1>7, SimPutHL, Zenon
<1> HIDE DEF c, d, s
<1> QED
  BY <1>1, <1>5, <1>8, <1>9, QuietEnds

\* The rotations of A, which clear the zero flag.
LEMMA SimRotated ==
  ASSUME Paired, NEW v \in Byte, NEW b \in 0 .. 1, NEW r, r = Shifted(v, b)
  PROVE  LET c == [WithA(r) EXCEPT !.F.zero = FALSE]
         IN /\ Sim(c, Ref!SetF(Ref!SetA(Ref!s1, v), 16 * b), After1)
            /\ Sim(c, Ref!SetA(Ref!SetFlags(Ref!s1, FALSE, 0, 0, b), v), After1)
<1> DEFINE zf == (v = 0)
           no == FALSE
           k == (b = 1)
           g == Flags(zf, no, no, k)
           f == Flags(no, no, no, k)
           c == [WithA(r) EXCEPT !.F.zero = no]
           d == [cpu EXCEPT !.A = v, !.F = f]
<1>1. cpu \in CPUState /\ Sim(cpu, Ref!s1, After1)
  BY PairedParts
<1>2. r.val = v /\ r.f = g
  BY Zenon DEF Shifted, Result
<1>3. f \in FlagsRegister
  BY DEF Flags, FlagsRegister
<1>4. c = d
  <2>1. WithA(r) = [cpu EXCEPT !.A = v, !.F = g]
    BY <1>2, Zenon DEF WithA
  <2>2. [g EXCEPT !.zero = no] = f
    <3>1. /\ g = [zero |-> zf, subtraction |-> no, halfCarry |-> no, carry |-> k]
          /\ f = [zero |-> no, subtraction |-> no, halfCarry |-> no, carry |-> k]
      BY Zenon DEF Flags
    <3> HIDE DEF zf, no, k, g, f
    <3> QED
      BY <3>1
  <2> HIDE DEF g, f, no
  <2> DEFINE e == [cpu EXCEPT !.A = v, !.F = g]
  <2>3. e.F = g
    BY <1>1, Zenon DEF CPUState
  <2>4. [e EXCEPT !.F.zero = no] = [e EXCEPT !.F = [g EXCEPT !.zero = no]]
    BY <2>3, Zenon
  <2>5. [e EXCEPT !.F = f] = d
    BY <1>1, Zenon DEF CPUState
  <2> QED
    BY <2>1, <2>2, <2>4, <2>5, Zenon
<1>5. /\ f.zero = FALSE /\ One(f.subtraction) = 0 /\ One(f.halfCarry) = 0 /\ One(f.carry) = b
  <2>1. One(k) = b
    BY OneBit
  <2> HIDE DEF k
  <2>2. f.zero = no /\ f.subtraction = no /\ f.halfCarry = no /\ f.carry = k
    <3> HIDE DEF no
    <3> QED
      BY Zenon DEF Flags
  <2> HIDE DEF f
  <2> QED
    BY <2>1, <2>2, Zenon DEF One
<1>6. FlagByte(f) = 16 * b
  <2>1. One(f.zero) = 0
    BY <1>5, Zenon DEF One
  <2> HIDE DEF f
  <2>2. FlagByte(f) = 128 * 0 + 64 * 0 + 32 * 0 + 16 * b
    BY <1>5, <2>1 DEF FlagByte
  <2> QED
    BY <2>2
<1> HIDE DEF f, g, zf, k
<1>7. Sim(d, Ref!SetF(Ref!SetA(Ref!s1, v), FlagByte(f)), After1)
  BY <1>1, <1>3, SimAF, Zenon
<1>8. Sim(d, Ref!SetA(Ref!SetFlags(Ref!s1, f.zero, One(f.subtraction), One(f.halfCarry),
                                             One(f.carry)), v), After1)
  BY <1>1, <1>3, SimAF, Zenon
<1> HIDE DEF c, d
<1>9. Sim(c, Ref!SetF(Ref!SetA(Ref!s1, v), 16 * b), After1)
  BY <1>4, <1>6, <1>7
<1>10. Sim(c, Ref!SetA(Ref!SetFlags(Ref!s1, FALSE, 0, 0, b), v), After1)
  BY <1>4, <1>5, <1>8, Zenon
<1> QED
  BY <1>9, <1>10, Zenon DEF c, no

LEMMA SameRotateA == ASSUME Paired, RotateA, Ref!R_RotateA PROVE Agreed'
<1> DEFINE a == cpu.A
           r == RotateShift(y, a, cpu.F)
           c == [WithA(r) EXCEPT !.F.zero = FALSE]
           q == One(cpu.F.carry)
           b7 == Bit(a, 7)
           b0 == Bit(a, 0)
           v0 == Low(2 * a) + b7
           v1 == (a \div 2) + 128 * b0
           v2 == Low(2 * a) + q
           v3 == (a \div 2) + 128 * q
           s0 == Ref!SetF(Ref!SetA(Ref!s1, v0), 16 * b7)
           s1_ == Ref!SetF(Ref!SetA(Ref!s1, v1), 16 * b0)
           s2_ == Ref!SetF(Ref!SetA(Ref!s1, v2), 16 * b7)
           s3 == Ref!SetA(Ref!SetFlags(Ref!s1, FALSE, 0, 0, b0), v3)
<1>1. op \in {7, 15, 23, 31} /\ Finish(c, 1, 1) /\ NoStore
  BY PTL DEF RotateA
<1>2. a \in Byte /\ q \in 0 .. 1 /\ b7 \in 0 .. 1 /\ b0 \in 0 .. 1
  BY PairedParts, OneIs, BitsOf DEF FlagsRegister
<1>3. b7 = a \div 128 /\ b0 = a % 2
  BY <1>2, ByteIs DEF Bit, Pow2
<1>4. v0 \in Byte /\ v1 \in Byte /\ v2 \in Byte /\ v3 \in Byte
  <2> HIDE DEF q, b7, b0
  <2> QED
    BY <1>2, ByteIs DEF Low
<1>5. Ref!A(ref) = a /\ Ref!opcode = op /\ Ref!CF = q /\ Ref!Low(2 * a) = Low(2 * a) /\ Ref!Bit(a, 7) = b7
  BY PairedParts, SimReadA, SameFlags, SameHalves, SameBits, Zenon
<1>6. /\ Ref!Silent
      /\ ref' = CASE op = 7 -> s0 [] op = 15 -> s1_ [] op = 23 -> s2_ [] op = 31 -> s3
  <2>1. /\ Ref!SetF(Ref!SetA(Ref!s1, Ref!Low(2 * a) + (a \div 128)), 16 * (a \div 128)) = s0
        /\ Ref!SetF(Ref!SetA(Ref!s1, (a \div 2) + 128 * (a % 2)), 16 * (a % 2)) = s1_
        /\ Ref!SetF(Ref!SetA(Ref!s1, Ref!Low(2 * a) + Ref!CF), 16 * Ref!Bit(a, 7)) = s2_
        /\ Ref!SetA(Ref!SetFlags(Ref!s1, FALSE, 0, 0, a % 2), (a \div 2) + 128 * Ref!CF) = s3
    <3> HIDE DEF a, q, b7, b0
    <3> QED
      BY <1>3, <1>5
  <2> HIDE DEF s0, s1_, s2_, s3, a
  <2>2. Ref!A(ref) = a /\ Ref!opcode = op
    BY <1>5
  <2> QED
    BY <2>1, <2>2, Zenon DEF Ref!R_RotateA
<1>7. /\ op = 7 => y = 0
      /\ op = 15 => y = 1
      /\ op = 23 => y = 2
      /\ op = 31 => y = 3
  BY DEF y
<1> DEFINE i0 == rlc(a)         i1 == rrc(a)  i2 == rl(a, cpu.F)  i3 == rr(a, cpu.F)
           i4 == sla(a)         i5 == sra(a)  i6 == swap(a)       i7 == srl(a)
<1>8. r = CASE y = 0 -> i0 [] y = 1 -> i1 [] y = 2 -> i2 [] y = 3 -> i3
            [] y = 4 -> i4 [] y = 5 -> i5 [] y = 6 -> i6 [] y = 7 -> i7
  BY Zenon DEF RotateShift
<1>9. i0 = Shifted(v0, b7) /\ i1 = Shifted(v1, b0) /\ i2 = Shifted(v2, b7) /\ i3 = Shifted(v3, b0)
  BY Zenon DEF rlc, rrc, rl, rr
<1> HIDE DEF i0, i1, i2, i3, i4, i5, i6, i7, r
<1>10. /\ op = 7 => r = Shifted(v0, b7)
       /\ op = 15 => r = Shifted(v1, b0)
       /\ op = 23 => r = Shifted(v2, b7)
       /\ op = 31 => r = Shifted(v3, b0)
  <2> HIDE DEF v0, v1, v2, v3, b7, b0
  <2> QED
    BY <1>7, <1>8, <1>9
<1> HIDE DEF v0, v1, v2, v3, b7, b0
<1>11. /\ op = 7 => Sim(c, s0, After1)
       /\ op = 15 => Sim(c, s1_, After1)
       /\ op = 23 => Sim(c, s2_, After1)
       /\ op = 31 => Sim(c, s3, After1)
  BY <1>2, <1>4, <1>10, SimRotated, Zenon
<1> HIDE DEF c, s0, s1_, s2_, s3
<1>12. Sim(c, ref', After1)
  BY <1>1, <1>6, <1>11
<1> QED
  BY <1>1, <1>6, <1>12, QuietEnds

\* DAA, in which the two add the corrections up in different orders.
LEMMA SameDAA == ASSUME Paired, DAA, Ref!R_DAA PROVE Agreed'
<1> DEFINE a == cpu.A
           f == cpu.F
           high == f.carry \/ (~f.subtraction /\ a > 153)
           low == f.halfCarry \/ (~f.subtraction /\ Nibble(a) > 9)
           fix == (IF high THEN 96 ELSE 0) + (IF low THEN 6 ELSE 0)
           n == (IF f.subtraction THEN a - fix ELSE a + fix) % 256
           zf == (n = 0)
           no == FALSE
           r == daa(a, f)
           c == WithA(r)
           low_ == (Ref!NF = 0 /\ a % 16 > 9) \/ Ref!HF = 1
           high_ == (Ref!NF = 0 /\ a > 153) \/ Ref!CF = 1
           fix_ == (IF low_ THEN 6 ELSE 0) + (IF high_ THEN 96 ELSE 0)
           m == IF Ref!NF = 1 THEN a - fix_ ELSE a + fix_
           s == Ref!SetA(Ref!SetFlags(Ref!s1, zf, Ref!NF, 0, One(high)), n)
<1>1. Finish(c, 1, 1) /\ NoStore
  BY PTL DEF DAA
<1>2. a \in Byte /\ f \in FlagsRegister /\ Sim(cpu, Ref!s1, After1) /\ cpu \in CPUState
  BY PairedParts
<1>3. /\ f.zero \in BOOLEAN /\ f.subtraction \in BOOLEAN /\ f.halfCarry \in BOOLEAN
      /\ f.carry \in BOOLEAN
  BY <1>2, Zenon DEF FlagsRegister
<1>4. /\ Ref!NF = One(f.subtraction) /\ (Ref!NF = 1 <=> f.subtraction)
      /\ (Ref!NF = 0 <=> ~f.subtraction) /\ (Ref!HF = 1 <=> f.halfCarry)
      /\ (Ref!CF = 1 <=> f.carry)
  <2>1. Ref!NF = One(f.subtraction) /\ Ref!HF = One(f.halfCarry) /\ Ref!CF = One(f.carry)
    BY SameFlags
  <2> HIDE DEF f
  <2> QED
    BY <1>3, <2>1 DEF One
<1> HIDE DEF a, f
<1>5. (low_ <=> low) /\ (high_ <=> high)
  BY <1>4 DEF Nibble
<1> HIDE DEF low, high, low_, high_
<1>6. m % 256 = n /\ n \in Byte
  <2>1. fix_ = fix /\ fix \in Int
    BY <1>5
  <2> HIDE DEF fix, fix_
  <2> QED
    BY <1>2, <1>4, <2>1, ByteIs
<1> HIDE DEF fix, fix_
<1>7. ref' = s /\ Ref!Silent
  <2>1. ref' = Ref!SetA(Ref!SetFlags(Ref!s1, Ref!Low(m) = 0, Ref!NF, 0, Ref!B2N(high_)), Ref!Low(m))
        /\ Ref!Silent
    <3>1. Ref!A(ref) = a
      BY PairedParts, SimReadA DEF a
    <3> QED
      BY <3>1, ZenonT(60) DEF Ref!R_DAA, low_, high_, fix_
  <2>2. Ref!Low(m) = n /\ (Ref!Low(m) = 0) = zf
    <3>1. Ref!Low(m) = n
      BY <1>6 DEF Ref!Low
    <3> HIDE DEF m, n
    <3> QED
      BY <3>1, Zenon
  <2>3. Ref!B2N(high_) = One(high)
    BY <1>5, Zenon DEF Ref!B2N, One
  <2> HIDE DEF m, n, zf
  <2> QED
    BY <2>1, <2>2, <2>3, Zenon
<1>8. /\ r.val = n /\ r.f.zero = zf /\ r.f.subtraction = f.subtraction /\ r.f.halfCarry = no
      /\ r.f.carry = high /\ r.f \in FlagsRegister
  <2> DEFINE e == Result(n, zf, f.subtraction, no, high)
  <2>1. r = e
    BY Zenon DEF daa, high, low, fix
  <2>2. zf \in BOOLEAN /\ no \in BOOLEAN /\ high \in BOOLEAN
    BY DEF high
  <2> HIDE DEF n, zf, no, r
  <2>3. /\ e.val = n /\ e.f.zero = zf /\ e.f.subtraction = f.subtraction /\ e.f.halfCarry = no
        /\ e.f.carry = high /\ e.f \in FlagsRegister
    BY <1>3, <2>2, Zenon DEF Result, Flags, FlagsRegister, f
  <2> HIDE DEF e
  <2> QED
    BY <2>1, <2>3
<1>9. Sim([cpu EXCEPT !.A = r.val, !.F = r.f], s, After1)
  <2>1. One(r.f.subtraction) = Ref!NF /\ One(r.f.halfCarry) = 0 /\ One(r.f.carry) = One(high)
    BY <1>4, <1>8, Zenon DEF One
  <2>2. r.val = n /\ r.f.zero = zf /\ r.f \in FlagsRegister /\ r.val \in Byte
    BY <1>6, <1>8
  <2> HIDE DEF n, zf, r
  <2> QED
    BY <1>2, <2>1, <2>2, SimResult, Zenon
<1>10. Sim(c, s, After1)
  BY <1>9, Zenon DEF WithA
<1> HIDE DEF c, s
<1> QED
  BY <1>1, <1>7, <1>10, QuietEnds

LEMMA SameCPL == ASSUME Paired, CPL, Ref!R_CPL PROVE Agreed'
<1> DEFINE a == cpu.A
           n == 255 - a
           f == cpu.F
           g == [f EXCEPT !.subtraction = TRUE, !.halfCarry = TRUE]
           r == cpl(a, f)
           c == WithA(r)
           s == Ref!SetA(Ref!SetFlags(Ref!s1, f.zero, 1, 1, One(f.carry)), n)
<1>1. Finish(c, 1, 1) /\ NoStore
  BY PTL DEF CPL
<1>2. f \in FlagsRegister /\ Sim(cpu, Ref!s1, After1) /\ a \in Byte
  BY PairedParts
<1>3. n \in Byte
  BY <1>2, ByteIs
<1>4. Ref!A(ref) = a /\ Ref!CF = One(f.carry) /\ (Ref!ZF(ref) = 1) = f.zero
  BY PairedParts, SimReadA, SameFlags, ZeroFlag, Zenon
<1>5. ref' = s /\ Ref!Silent
  BY <1>4, Zenon DEF Ref!R_CPL
<1>6. r.val = n /\ r.f = g
  BY Zenon DEF cpl
<1>7. /\ g \in FlagsRegister /\ g.zero = f.zero /\ g.carry = f.carry
      /\ g.subtraction = TRUE /\ g.halfCarry = TRUE
  BY <1>2, Zenon DEF FlagsRegister
<1>8. One(g.subtraction) = 1 /\ One(g.halfCarry) = 1 /\ One(g.carry) = One(f.carry)
  BY <1>7, Zenon DEF One
<1> HIDE DEF g, r, n
<1>9. Sim([cpu EXCEPT !.A = r.val, !.F = r.f], s, After1)
  BY <1>2, <1>3, <1>6, <1>7, <1>8, SimResult, Zenon
<1>10. Sim(c, s, After1)
  BY <1>9, Zenon DEF WithA
<1> HIDE DEF c, s
<1> QED
  BY <1>1, <1>5, <1>10, QuietEnds

LEMMA SameSCF_CCF == ASSUME Paired, SCF_CCF, Ref!R_SCF \/ Ref!R_CCF PROVE Agreed'
<1> DEFINE f == cpu.F
           k == IF op = 55 THEN TRUE ELSE ~f.carry
           no == FALSE
           g == Flags(f.zero, no, no, k)
           c == [cpu EXCEPT !.F = g]
           s == Ref!SetFlags(Ref!s1, f.zero, 0, 0, One(k))
<1>1. Finish(c, 1, 1) /\ NoStore
  BY Zenon DEF SCF_CCF
<1>2. f \in FlagsRegister /\ Sim(cpu, Ref!s1, After1) /\ Ref!opcode = op
  BY PairedParts
<1>3. f.zero \in BOOLEAN /\ f.carry \in BOOLEAN /\ k \in BOOLEAN
  <2>1. f.zero \in BOOLEAN /\ f.carry \in BOOLEAN
    BY <1>2, Zenon DEF FlagsRegister
  <2> DEFINE o == op = 55
             q == ~f.carry
  <2>2. q \in BOOLEAN /\ o \in BOOLEAN
    BY Zenon
  <2>3. k = IF o THEN TRUE ELSE q
    BY Zenon
  <2> HIDE DEF o, q, k
  <2>4. k = TRUE \/ k = q
    BY <2>3, Zenon
  <2> QED
    BY <2>1, <2>2, <2>4, Zenon
<1>4. Ref!CF = One(f.carry) /\ (Ref!ZF(ref) = 1) = f.zero
  BY SameFlags, ZeroFlag, Zenon
<1>5. ref' = s /\ Ref!Silent
  <2>1. CASE Ref!R_SCF
    <3>1. op = 55 /\ ref' = Ref!SetFlags(Ref!s1, Ref!ZF(ref) = 1, 0, 0, 1) /\ Ref!Silent
      BY <1>2, <2>1, Zenon DEF Ref!R_SCF
    <3>2. One(k) = 1
      BY <3>1 DEF One
    <3> HIDE DEF k
    <3> QED
      BY <1>4, <3>1, <3>2, Zenon
  <2>2. CASE Ref!R_CCF
    <3>1. op = 63 /\ ref' = Ref!SetFlags(Ref!s1, Ref!ZF(ref) = 1, 0, 0, 1 - Ref!CF) /\ Ref!Silent
      BY <1>2, <2>2, Zenon DEF Ref!R_CCF
    <3>2. One(k) = 1 - One(f.carry)
      <4> HIDE DEF f
      <4> QED
        BY <1>3, <3>1 DEF One
    <3> HIDE DEF k
    <3> QED
      BY <1>4, <3>1, <3>2, Zenon
  <2> QED
    BY <2>1, <2>2, Zenon
<1> HIDE DEF k
<1>6. /\ g.zero = f.zero /\ g.subtraction = no /\ g.halfCarry = no /\ g.carry = k
      /\ g \in FlagsRegister
  <2>1. no \in BOOLEAN
    OBVIOUS
  <2> HIDE DEF no
  <2> QED
    BY <1>3, <2>1, Zenon DEF Flags, FlagsRegister
<1>7. One(g.subtraction) = 0 /\ One(g.halfCarry) = 0 /\ One(g.carry) = One(k)
  BY <1>6, Zenon DEF One
<1> HIDE DEF g
<1>8. Sim(c, s, After1)
  <2>1. Sim(c, Ref!SetFlags(Ref!s1, f.zero, One(g.subtraction), One(g.halfCarry), One(g.carry)), After1)
    BY <1>2, <1>6, SimFlags, Zenon
  <2> QED
    BY <1>7, <2>1, Zenon
<1> HIDE DEF c, s
<1> QED
  BY <1>1, <1>5, <1>8, QuietEnds

-----------------------------------------------------------------------------
(* Jumps, calls and the stack.                                              *)

LEMMA SameCondition == ASSUME Paired PROVE Ref!CondHolds <=> Taken
<1> DEFINE i == y % 4
           zero == cpu.F.zero
           carry == cpu.F.carry
<1>1. i \in 0 .. 3 /\ Ref!r3 = y /\ zero \in BOOLEAN /\ carry \in BOOLEAN
  <2>1. y \in 0 .. 7 /\ Ref!r3 = y /\ cpu.F \in FlagsRegister
    BY PairedParts
  <2>2. zero \in BOOLEAN /\ carry \in BOOLEAN
    BY <2>1, Zenon DEF FlagsRegister
  <2> HIDE DEF zero, carry
  <2> QED
    BY <2>1, <2>2
<1>2. Ref!CondHolds <=> (IF i \div 2 = 0 THEN One(zero) ELSE One(carry)) = i % 2
  <2>1. Ref!ZF(ref) = One(zero) /\ Ref!CF = One(carry)
    BY SameFlags
  <2> QED
    BY <1>1, <2>1, Zenon DEF Ref!CondHolds, Ref!FLAG
<1>3. Taken <=> CASE i = 0 -> ~zero [] i = 1 -> zero [] i = 2 -> ~carry [] i = 3 -> carry
  BY Zenon DEF Taken, Condition
<1> HIDE DEF i, zero, carry
<1>4. /\ i = 0 => i \div 2 = 0 /\ i % 2 = 0
      /\ i = 1 => i \div 2 = 0 /\ i % 2 = 1
      /\ i = 2 => i \div 2 = 1 /\ i % 2 = 0
      /\ i = 3 => i \div 2 = 1 /\ i % 2 = 1
  OBVIOUS
<1>5. /\ One(zero) = 1 <=> zero
      /\ One(zero) = 0 <=> ~zero
      /\ One(carry) = 1 <=> carry
      /\ One(carry) = 0 <=> ~carry
  BY <1>1 DEF One
<1>6. CASE i = 0
  BY <1>2, <1>3, <1>4, <1>5, <1>6
<1>7. CASE i = 1
  BY <1>2, <1>3, <1>4, <1>5, <1>7
<1>8. CASE i = 2
  BY <1>2, <1>3, <1>4, <1>5, <1>8
<1>9. CASE i = 3
  BY <1>2, <1>3, <1>4, <1>5, <1>9
<1> QED
  BY <1>1, <1>6, <1>7, <1>8, <1>9

LEMMA SameRelative ==
  ASSUME Paired
  PROVE  /\ (Ref!s1.pc + Ref!Signed(Ref!IMM8) + 1) % 65536 = Relative(cpu.PC)
         /\ Relative(cpu.PC) \in Word
<1> DEFINE pc == cpu.PC
           k == Signed(d8)
<1>1. pc \in Word /\ d8 \in Byte /\ Ref!IMM8 = d8 /\ Sim(cpu, Ref!s1, After1)
  BY PairedParts
<1>2. k \in Int
  BY <1>1, SignedIs
<1>3. Ref!s1.pc = (pc + 1) % 65536
  BY <1>1, SimParts, Nexts DEF After1
<1>4. Ref!Signed(Ref!IMM8) = k
  BY <1>1, SameBits
<1> HIDE DEF pc, k
<1>5. (((pc + 1) % 65536) + k + 1) % 65536 = (pc + 2 + k) % 65536 /\ pc + 2 + k \in Int
  BY <1>1, <1>2, WordIs
<1> QED
  BY <1>3, <1>4, <1>5, Wrapped DEF pc, k, Relative

LEMMA SimJumps ==
  ASSUME NEW c, NEW s, NEW p, Sim(c, s, p), NEW w \in Word
  PROVE  \E q \in Word : Sim(c, Ref!Jump(s, w), q) /\ q = w
BY SimJump

LEMMA SimPushed ==
  ASSUME NEW c, NEW s, NEW p, Sim(c, s, p)
  PROVE  Sim(Pushed(c), Ref!Push(s), p)
<1> DEFINE w == (c.SP - 2) % 65536
<1>1. c.SP \in Word /\ s.sp = c.SP
  BY SimParts, Fields
<1>2. w \in Word
  BY <1>1, WordIs, Wrapped
<1>3. Ref!Push(s) = [s EXCEPT !.sp = w]
  <2>1. (c.SP + 65534) % 65536 = w
    BY <1>1, WordIs
  <2> QED
    BY <1>1, <2>1 DEF Ref!Push, Ref!Inc16
<1>4. Pushed(c) = [c EXCEPT !.SP = w]
  BY DEF Pushed
<1> HIDE DEF w
<1>5. Sim([c EXCEPT !.SP = w], [s EXCEPT !.sp = w], p)
  BY <1>2, SimSp
<1> QED
  BY <1>3, <1>4, <1>5, Zenon

LEMMA SimPopped ==
  ASSUME NEW c, NEW s, NEW p, Sim(c, s, p)
  PROVE  Sim(Popped(c), Ref!PopTo(s), p)
<1> DEFINE w == (c.SP + 2) % 65536
<1>1. c.SP \in Word /\ s.sp = c.SP
  BY SimParts, Fields
<1>2. w \in Word
  BY <1>1, WordIs, Wrapped
<1>3. Ref!PopTo(s) = [s EXCEPT !.sp = w]
  BY <1>1, <1>2 DEF Ref!PopTo, Ref!Inc16
<1>4. Popped(c) = [c EXCEPT !.SP = w]
  BY DEF Popped
<1> HIDE DEF w
<1>5. Sim([c EXCEPT !.SP = w], [s EXCEPT !.sp = w], p)
  BY <1>2, SimSp
<1> QED
  BY <1>3, <1>4, <1>5, Zenon

LEMMA SameTop ==
  ASSUME Paired
  PROVE  Ref!mmu_read16(ref.sp) = PopWord(cpu) /\ PopWord(cpu) \in Word
<1>1. ref.sp = cpu.SP /\ cpu.SP \in Word /\ Programmed /\ MemoryTyped
  BY PairedParts, SimParts
<1> QED
  BY <1>1, SameReads, Reads DEF PopWord

LEMMA PushEnds ==
  ASSUME Paired, op # 8, NEW c, NEW s, ref' = s, NEW n, NEW w \in Word,
         Store(PushStores(cpu, w)), Ref!push16(ref, w),
         \/ Sim(c, s, After1) /\ Finish(c, 1, n)
         \/ \E p \in Word : Sim(c, s, p) /\ Goto(c, p, n)
  PROVE  Agreed'
<1>1. SameLogs'
  BY PushLogs
<1>2. Matching'
  BY Ends, SimGoto
<1> QED
  BY <1>1, <1>2 DEF Agreed

LEMMA SameJR == ASSUME Paired, JR, Ref!R_JR PROVE Agreed'
<1> DEFINE a == Relative(cpu.PC)
           s == Ref!Jump(Ref!s1, a)
<1>1. Goto(cpu, a, 2) /\ NoStore
  BY PTL DEF JR
<1>2. a \in Word /\ Sim(cpu, Ref!s1, After1)
  BY PairedParts, SameRelative
<1> DEFINE b == (Ref!s1.pc + Ref!Signed(Ref!IMM8) + 1) % 65536
<1>3. ref' = s /\ Ref!Silent
  <2>1. ref' = Ref!Jump(Ref!s1, b) /\ Ref!Silent
    BY PTL DEF Ref!R_JR
  <2>2. b = a
    BY SameRelative
  <2> HIDE DEF a, b
  <2> QED
    BY <2>1, <2>2, Zenon
<1> HIDE DEF a
<1>4. Sim(cpu, s, a)
  BY <1>2, SimJump, Zenon
<1> HIDE DEF s
<1> QED
  BY <1>1, <1>2, <1>3, <1>4, QuietEnds

LEMMA SameJR_cc == ASSUME Paired, JR_cc, Ref!R_JR_cc PROVE Agreed'
<1> DEFINE a == Relative(cpu.PC)
           s == Ref!Jump(Ref!s1, a)
           t == Ref!Skip(Ref!s1, 1)
<1>1. (IF Taken THEN Goto(cpu, a, 3) ELSE Finish(cpu, 2, 2)) /\ NoStore
  BY PTL DEF JR_cc
<1>2. a \in Word /\ Sim(cpu, Ref!s1, After1) /\ Sim(cpu, t, After2)
  BY PairedParts, SameRelative, Skips
<1> DEFINE b == (Ref!s1.pc + Ref!Signed(Ref!IMM8) + 1) % 65536
<1>3. ref' = (IF Ref!CondHolds THEN s ELSE t) /\ Ref!Silent
  <2>1. ref' = (IF Ref!CondHolds THEN Ref!Jump(Ref!s1, b) ELSE t) /\ Ref!Silent
    BY PTL DEF Ref!R_JR_cc
  <2>2. b = a
    BY SameRelative
  <2> HIDE DEF a, b
  <2> QED
    BY <2>1, <2>2, Zenon
<1>4. Ref!CondHolds <=> Taken
  BY SameCondition
<1> HIDE DEF a
<1>5. Sim(cpu, s, a)
  BY <1>2, SimJump, Zenon
<1> HIDE DEF s, t
<1>6. CASE Taken
  <2>1. Goto(cpu, a, 3) /\ ref' = s
    BY <1>1, <1>3, <1>4, <1>6
  <2>2. \E p \in Word : Sim(cpu, s, p) /\ Goto(cpu, p, 3)
    BY <1>2, <1>5, <2>1
  <2> QED
    BY <1>1, <1>3, <2>1, <2>2, QuietEnds
<1>7. CASE ~Taken
  <2>1. Finish(cpu, 2, 2) /\ ref' = t
    BY <1>1, <1>3, <1>4, <1>7
  <2> QED
    BY <1>1, <1>2, <1>3, <2>1, QuietEnds
<1> QED
  BY <1>6, <1>7

LEMMA SameJP == ASSUME Paired, JP, Ref!R_JP PROVE Agreed'
<1> DEFINE s == Ref!Jump(Ref!s1, d16)
<1>1. Goto(cpu, d16, 4) /\ NoStore
  BY PTL DEF JP
<1>2. d16 \in Word /\ Sim(cpu, Ref!s1, After1) /\ Ref!IMM16 = d16
  BY PairedParts
<1>3. ref' = s /\ Ref!Silent
  BY <1>2, Zenon DEF Ref!R_JP
<1>4. Sim(cpu, s, d16)
  BY <1>2, SimJump, Zenon
<1> HIDE DEF s
<1> QED
  BY <1>1, <1>2, <1>3, <1>4, QuietEnds

LEMMA SameJP_cc == ASSUME Paired, JP_cc, Ref!R_JP_cc PROVE Agreed'
<1> DEFINE s == Ref!Jump(Ref!s1, d16)
           t == Ref!Skip(Ref!s1, 2)
<1>1. (IF Taken THEN Goto(cpu, d16, 4) ELSE Finish(cpu, 3, 3)) /\ NoStore
  BY PTL DEF JP_cc
<1>2. d16 \in Word /\ Sim(cpu, Ref!s1, After1) /\ Sim(cpu, t, After3) /\ Ref!IMM16 = d16
  BY PairedParts, Skips
<1>3. ref' = (IF Ref!CondHolds THEN s ELSE t) /\ Ref!Silent
  BY <1>2, Zenon DEF Ref!R_JP_cc
<1>4. Ref!CondHolds <=> Taken
  BY SameCondition
<1>5. Sim(cpu, s, d16)
  BY <1>2, SimJump, Zenon
<1> HIDE DEF s, t
<1>6. CASE Taken
  <2>1. Goto(cpu, d16, 4) /\ ref' = s
    BY <1>1, <1>3, <1>4, <1>6
  <2>2. \E p \in Word : Sim(cpu, s, p) /\ Goto(cpu, p, 4)
    BY <1>2, <1>5, <2>1
  <2> QED
    BY <1>1, <1>3, <2>1, <2>2, QuietEnds
<1>7. CASE ~Taken
  <2>1. Finish(cpu, 3, 3) /\ ref' = t
    BY <1>1, <1>3, <1>4, <1>7
  <2> QED
    BY <1>1, <1>2, <1>3, <2>1, QuietEnds
<1> QED
  BY <1>6, <1>7

LEMMA SameJP_HL == ASSUME Paired, JP_HL, Ref!R_JP_HL PROVE Agreed'
<1> DEFINE a == HL(cpu)
           s == Ref!Jump(Ref!s1, a)
<1>1. Goto(cpu, a, 1) /\ NoStore
  BY PTL DEF JP_HL
<1>2. a \in Word /\ Sim(cpu, Ref!s1, After1) /\ ref.HL = a
  BY PairedParts, SimParts
<1>3. ref' = s /\ Ref!Silent
  BY <1>2, Zenon DEF Ref!R_JP_HL
<1> HIDE DEF a
<1>4. Sim(cpu, s, a)
  BY <1>2, SimJump, Zenon
<1> HIDE DEF s
<1> QED
  BY <1>1, <1>2, <1>3, <1>4, QuietEnds

\* Where a call and RST return to.
LEMMA Returns ==
  ASSUME Paired
  PROVE  /\ Ref!Inc16(Ref!s1.pc, 2) = (cpu.PC + 3) % 65536 /\ (cpu.PC + 3) % 65536 \in Word
         /\ Ref!s1.pc = Next16(cpu.PC) /\ Next16(cpu.PC) \in Word
<1>1. cpu.PC \in Word /\ Sim(cpu, Ref!s1, After1)
  BY PairedParts
<1>2. Ref!s1.pc = (cpu.PC + 1) % 65536
  BY <1>1, SimParts, Nexts DEF After1
<1>3. (((cpu.PC + 1) % 65536) + 2) % 65536 = (cpu.PC + 3) % 65536 /\ cpu.PC + 3 \in Int
  BY <1>1, WordIs
<1>4. Next16(cpu.PC) = (cpu.PC + 1) % 65536 /\ Next16(cpu.PC) \in Word
  BY <1>1, Nexts
<1> QED
  BY <1>2, <1>3, <1>4, Wrapped DEF Ref!Inc16

LEMMA SameCall ==
  ASSUME Paired, op # 8, Call, ref' = Ref!Jump(Ref!Push(Ref!s1), d16),
         Ref!push16(ref, Ref!Inc16(Ref!s1.pc, 2))
  PROVE  Agreed'
<1> DEFINE w == (cpu.PC + 3) % 65536
           c == Pushed(cpu)
           s == Ref!Jump(Ref!Push(Ref!s1), d16)
<1>1. Goto(c, d16, 6) /\ Store(PushStores(cpu, w))
  BY PTL DEF Call
<1>2. d16 \in Word /\ Sim(cpu, Ref!s1, After1)
  BY PairedParts
<1>3. w \in Word /\ Ref!push16(ref, w)
  BY Returns
<1>4. Sim(c, Ref!Push(Ref!s1), After1)
  BY <1>2, SimPushed
<1> HIDE DEF c, w
<1>5. Sim(c, s, d16)
  BY <1>2, <1>4, SimJump, Zenon
<1> HIDE DEF s
<1>6. \E p \in Word : Sim(c, s, p) /\ Goto(c, p, 6)
  BY <1>1, <1>2, <1>5
<1>7. ref' = s
  BY DEF s
<1> QED
  BY <1>1, <1>3, <1>6, <1>7, PushEnds

LEMMA SameCALL == ASSUME Paired, CALL, Ref!R_CALL PROVE Agreed'
<1>1. op = 205 /\ Call
  BY PTL DEF CALL
<1>2. Ref!IMM16 = d16
  BY PairedParts
<1>3. ref' = Ref!Jump(Ref!Push(Ref!s1), d16) /\ Ref!push16(ref, Ref!Inc16(Ref!s1.pc, 2))
  BY <1>2, Zenon DEF Ref!R_CALL
<1>4. op # 8
  BY <1>1
<1> QED
  BY <1>1, <1>3, <1>4, SameCall

LEMMA SameCALL_cc == ASSUME Paired, CALL_cc, Ref!R_CALL_cc PROVE Agreed'
<1> DEFINE t == Ref!Skip(Ref!s1, 2)
<1>1. /\ op \in {196, 204, 212, 220}
      /\ IF Taken THEN Call ELSE Finish(cpu, 3, 3) /\ NoStore
  BY PTL DEF CALL_cc
<1>2. Ref!IMM16 = d16 /\ Sim(cpu, Ref!s1, After1) /\ Sim(cpu, t, After3)
  BY PairedParts, Skips
<1>3. IF Ref!CondHolds THEN /\ ref' = Ref!Jump(Ref!Push(Ref!s1), d16)
                            /\ Ref!push16(ref, Ref!Inc16(Ref!s1.pc, 2))
      ELSE ref' = t /\ Ref!Silent
  BY <1>2, Zenon DEF Ref!R_CALL_cc
<1>4. Ref!CondHolds <=> Taken
  BY SameCondition
<1>5. op # 8
  BY <1>1
<1>6. CASE Taken
  BY <1>1, <1>3, <1>4, <1>5, <1>6, SameCall
<1>7. CASE ~Taken
  <2>1. Finish(cpu, 3, 3) /\ NoStore /\ ref' = t /\ Ref!Silent
    BY <1>1, <1>3, <1>4, <1>7
  <2> HIDE DEF t
  <2> QED
    BY <1>2, <2>1, QuietEnds
<1> QED
  BY <1>6, <1>7

LEMMA SameRST == ASSUME Paired, RST, Ref!R_RST PROVE Agreed'
<1> DEFINE w == Next16(cpu.PC)
           a == 8 * y
           c == Pushed(cpu)
           s == Ref!Jump(Ref!Push(Ref!s1), a)
<1>1. op \in ControlOps /\ Goto(c, a, 4) /\ Store(PushStores(cpu, w))
  BY PTL DEF RST
<1>2. y \in 0 .. 7 /\ Ref!r3 = y /\ Sim(cpu, Ref!s1, After1)
  BY PairedParts
<1>3. w \in Word /\ Ref!s1.pc = w
  BY Returns
<1>4. a \in Word
  BY <1>2, WordIs
<1>5. ref' = s /\ Ref!push16(ref, w)
  BY <1>2, <1>3, Zenon DEF Ref!R_RST
<1>6. Sim(c, Ref!Push(Ref!s1), After1)
  BY <1>2, SimPushed
<1> HIDE DEF c, w, a
<1>7. Sim(c, s, a)
  BY <1>4, <1>6, SimJump, Zenon
<1> HIDE DEF s
<1>8. \E p \in Word : Sim(c, s, p) /\ Goto(c, p, 4)
  BY <1>1, <1>4, <1>7
<1>9. op # 8
  BY <1>1 DEF ControlOps
<1>10. Store(PushStores(cpu, w))
  BY <1>1
<1> QED
  BY <1>3, <1>5, <1>8, <1>9, <1>10, PushEnds, Zenon

LEMMA SameRET == ASSUME Paired, RET, Ref!R_RET PROVE Agreed'
<1> DEFINE a == PopWord(cpu)
           c == Popped(cpu)
           s == Ref!Jump(Ref!PopTo(Ref!s1), a)
<1>1. Goto(c, a, 4) /\ NoStore
  BY PTL DEF RET
<1>2. a \in Word /\ Ref!mmu_read16(ref.sp) = a /\ Sim(cpu, Ref!s1, After1)
  BY PairedParts, SameTop
<1>3. ref' = s /\ Ref!Silent
  BY <1>2, Zenon DEF Ref!R_RET
<1>4. Sim(c, Ref!PopTo(Ref!s1), After1)
  BY <1>2, SimPopped
<1> HIDE DEF c, a
<1>5. Sim(c, s, a)
  BY <1>2, <1>4, SimJump, Zenon
<1> HIDE DEF s
<1> QED
  BY <1>1, <1>2, <1>3, <1>5, QuietEnds

LEMMA SameRETI == ASSUME Paired, RETI, Ref!R_RETI PROVE Agreed'
<1> DEFINE a == PopWord(cpu)
           d == Popped(cpu)
           c == [d EXCEPT !.IME = TRUE]
           t == Ref!Jump(Ref!PopTo(Ref!s1), a)
           s == [t EXCEPT !.interrupts_master_enabled = TRUE]
<1>1. Goto(c, a, 4) /\ NoStore
  BY PTL DEF RETI
<1>2. a \in Word /\ Ref!mmu_read16(ref.sp) = a /\ Sim(cpu, Ref!s1, After1)
  BY PairedParts, SameTop
<1>3. ref' = s /\ Ref!Silent
  BY <1>2, Zenon DEF Ref!R_RETI
<1>4. Sim(d, Ref!PopTo(Ref!s1), After1)
  BY <1>2, SimPopped
<1> HIDE DEF d, a
<1>5. Sim(d, t, a)
  BY <1>2, <1>4, SimJump, Zenon
<1> HIDE DEF t
<1>6. Sim(c, s, a)
  <2> DEFINE yes == TRUE
  <2>1. yes \in BOOLEAN
    OBVIOUS
  <2> HIDE DEF yes
  <2>2. Sim([d EXCEPT !.IME = yes], [t EXCEPT !.interrupts_master_enabled = yes], a)
    BY <1>5, <2>1, SimSwitches, Zenon
  <2> QED
    BY <2>2 DEF yes
<1> HIDE DEF c, s
<1> QED
  BY <1>1, <1>2, <1>3, <1>6, QuietEnds

LEMMA SameRET_cc == ASSUME Paired, RET_cc, Ref!R_RET_cc PROVE Agreed'
<1> DEFINE a == PopWord(cpu)
           c == Popped(cpu)
           s == Ref!Jump(Ref!PopTo(Ref!s1), a)
<1>1. (IF Taken THEN Goto(c, a, 5) ELSE Finish(cpu, 1, 2)) /\ NoStore
  BY PTL DEF RET_cc
<1>2. a \in Word /\ Ref!mmu_read16(ref.sp) = a /\ Sim(cpu, Ref!s1, After1)
  BY PairedParts, SameTop
<1>3. ref' = (IF Ref!CondHolds THEN s ELSE Ref!s1) /\ Ref!Silent
  BY <1>2, Zenon DEF Ref!R_RET_cc
<1>4. Sim(c, Ref!PopTo(Ref!s1), After1)
  BY <1>2, SimPopped
<1>5. Ref!CondHolds <=> Taken
  BY SameCondition
<1> HIDE DEF c, a
<1>6. Sim(c, s, a)
  BY <1>2, <1>4, SimJump, Zenon
<1> HIDE DEF s
<1>7. CASE Taken
  <2>1. Goto(c, a, 5) /\ ref' = s /\ NoStore /\ Ref!Silent
    BY <1>1, <1>3, <1>5, <1>7
  <2>2. \E p \in Word : Sim(c, s, p) /\ Goto(c, p, 5)
    BY <1>2, <1>6, <2>1
  <2> QED
    BY <2>1, <2>2, QuietEnds, Zenon
<1>8. CASE ~Taken
  <2>1. Finish(cpu, 1, 2) /\ ref' = Ref!s1
    BY <1>1, <1>3, <1>5, <1>8
  <2> QED
    BY <1>1, <1>2, <1>3, <2>1, QuietEnds
<1> QED
  BY <1>7, <1>8

LEMMA SamePUSH == ASSUME Paired, PUSH, Ref!R_PUSH PROVE Agreed'
<1> DEFINE w == getStack(cpu, rr_)
           c == Pushed(cpu)
           s == Ref!Push(Ref!s1)
<1>1. op \in {197, 213, 229, 245} /\ Finish(c, 1, 4) /\ Store(PushStores(cpu, w))
  BY PTL DEF PUSH
<1>2. /\ w \in Word /\ Sim(cpu, ref, cpu.PC) /\ Sim(cpu, Ref!s1, After1)
      /\ Ref!rp = rr_ /\ rr_ \in 0 .. 3
  BY PairedParts
<1>3. ref[Ref!Reg16s[rr_ + 1]] = w
  BY <1>2, SimPairs, Zenon
<1>4. ref' = s /\ Ref!push16(ref, w)
  BY <1>2, <1>3, Zenon DEF Ref!R_PUSH
<1>5. Sim(c, s, After1)
  BY <1>2, SimPushed
<1>6. op # 8
  BY <1>1
<1> HIDE DEF c, s, w
<1> QED
  BY <1>1, <1>2, <1>4, <1>5, <1>6, PushEnds

\* The flags of a byte that is popped: its high digit.
LEMMA FlagByteOf ==
  ASSUME NEW b \in Byte
  PROVE  FlagByte(FlagsOf(b)) = b - (b % 16)
<1> DEFINE b0 == Bit(b, 0)  b1 == Bit(b, 1)  b2 == Bit(b, 2)  b3 == Bit(b, 3)
           b4 == Bit(b, 4)  b5 == Bit(b, 5)  b6 == Bit(b, 6)  b7 == Bit(b, 7)
<1>1. /\ b0 \in 0 .. 1 /\ b1 \in 0 .. 1 /\ b2 \in 0 .. 1 /\ b3 \in 0 .. 1
      /\ b4 \in 0 .. 1 /\ b5 \in 0 .. 1 /\ b6 \in 0 .. 1 /\ b7 \in 0 .. 1
      /\ b = b0 + 2 * b1 + 4 * b2 + 8 * b3 + 16 * b4 + 32 * b5 + 64 * b6 + 128 * b7
  BY BitsOf
<1>2. One(b7 = 1) = b7 /\ One(b6 = 1) = b6 /\ One(b5 = 1) = b5 /\ One(b4 = 1) = b4
  BY <1>1, OneBit, Zenon
<1> DEFINE z7 == (b7 = 1)  z6 == (b6 = 1)  z5 == (b5 = 1)  z4 == (b4 = 1)
           f == Flags(z7, z6, z5, z4)
<1>3. FlagsOf(b) = f
  BY Zenon DEF FlagsOf
<1>4. FlagByte(f) = 128 * b7 + 64 * b6 + 32 * b5 + 16 * b4
  <2> HIDE DEF z7, z6, z5, z4
  <2>1. f.zero = z7 /\ f.subtraction = z6 /\ f.halfCarry = z5 /\ f.carry = z4
    BY Zenon DEF Flags
  <2>2. One(z7) = b7 /\ One(z6) = b6 /\ One(z5) = b5 /\ One(z4) = b4
    BY <1>2 DEF z7, z6, z5, z4
  <2> HIDE DEF f, b7, b6, b5, b4
  <2> QED
    BY <2>1, <2>2, Zenon DEF FlagByte
<1> HIDE DEF b0, b1, b2, b3, b4, b5, b6, b7, f
<1> DEFINE l == b0 + 2 * b1 + 4 * b2 + 8 * b3
           h == b4 + 2 * b5 + 4 * b6 + 8 * b7
<1>5. l \in 0 .. 15 /\ h \in 0 .. 15 /\ b = 16 * h + l /\ FlagByte(f) = 16 * h
  BY <1>1, <1>4
<1> HIDE DEF l, h
<1>6. (16 * h + l) % 16 = l
  BY <1>5
<1> QED
  BY <1>3, <1>5, <1>6

LEMMA SamePOP == ASSUME Paired, POP, Ref!R_POP PROVE Agreed'
<1> DEFINE w == PopWord(cpu)
           i == rr_
           d == Popped(cpu)
           c == setStack(d, i, w)
           u == Ref!PopTo(Ref!s1)
           t == [u EXCEPT ![Ref!Reg16s[i + 1]] = w]
           b == Ref!F(t)
           s == Ref!SetF(t, b - Ref!Nibble(b))
<1>1. Finish(c, 1, 3) /\ NoStore
  BY PTL DEF POP
<1>2. i \in 0 .. 3 /\ Ref!rp = i /\ w \in Word /\ Ref!mmu_read16(ref.sp) = w /\ Sim(d, u, After1)
  BY PairedParts, SameTop, SimPopped
<1>3. ref' = s /\ Ref!Silent
  BY <1>2, Zenon DEF Ref!R_POP
<1>4. s = [t EXCEPT !.AF = Join(High(t.AF), Low(t.AF) - Nibble(Low(t.AF)))]
  BY SameHalves, SameJoin, Zenon DEF Ref!SetF, Ref!F
<1>5. High(w) \in Byte /\ Low(w) \in Byte /\ Join(High(w), Low(w)) = w
  BY <1>2, Halves
<1>6. u \in GbState /\ d \in CPUState
  BY <1>2, SimParts DEF Derived
<1> HIDE DEF w, d, u, s
<1>7. CASE i = 3
  <2> DEFINE a == High(w)
             l == Low(w)
             f == FlagsOf(l)
  <2>1. c = [d EXCEPT !.A = a, !.F = f]
    BY <1>7, Zenon DEF setStack
  <2>2. Ref!Reg16s[i + 1] = "AF"
    BY <1>7 DEF Ref!Reg16s
  <2>3. t = [u EXCEPT !.AF = w]
    BY <2>2, Zenon
  <2>4. t.AF = w
    BY <1>6, <2>3, Zenon DEF GbState
  <2>5. f \in FlagsRegister /\ FlagByte(f) = l - Nibble(l)
    BY <1>5, FlagsOfTyped, FlagByteOf DEF Nibble
  <2> DEFINE x == Join(a, FlagByte(f))
  <2>6. s = [t EXCEPT !.AF = x]
    BY <1>4, <2>4, <2>5, Zenon
  <2> HIDE DEF x
  <2>7. [t EXCEPT !.AF = x] = [u EXCEPT !.AF = x]
    <3> HIDE DEF t
    <3> QED
      BY <1>6, <2>3, Zenon DEF GbState
  <2> HIDE DEF a, l, f, c, t
  <2>8. Sim([d EXCEPT !.A = a, !.F = f], [u EXCEPT !.AF = Join(a, FlagByte(f))], After1)
    BY <1>2, <1>5, <2>5, SimA, Zenon DEF a
  <2>9. Sim(c, s, After1)
    BY <2>1, <2>6, <2>7, <2>8, Zenon DEF x
  <2> QED
    BY <1>1, <1>3, <2>9, QuietEnds
<1>8. CASE i # 3
  <2>1. i \in 0 .. 2 /\ c = set16(d, i, w) /\ Ref!Reg16s[i + 1] = Ref!Reg16[i + 1]
    BY <1>2, <1>8 DEF setStack, Ref!Reg16, Ref!Reg16s
  <2>2. Sim(set16(d, i, w), [u EXCEPT ![Ref!Reg16[i + 1]] = w], After1)
    BY <1>2, SimPairs, Zenon
  <2>3. Sim(c, t, After1)
    BY <2>1, <2>2, Zenon
  <2> HIDE DEF c, t
  <2>4. t \in GbState /\ t.AF \in Word /\ Nibble(t.AF) = 0
    BY <2>3, SimParts, RefFields, NibbleOfFlags
  <2>5. Low(t.AF) - Nibble(Low(t.AF)) = Low(t.AF) /\ Join(High(t.AF), Low(t.AF)) = t.AF
    <3> DEFINE v == t.AF
    <3>1. v \in Word
      BY <2>4
    <3>2. (v % 256) % 16 = v % 16 /\ v % 256 \in Int
      <4> HIDE DEF v
      <4> QED
        BY <3>1, WordIs
    <3>3. v % 16 = 0
      BY <2>4 DEF Nibble
    <3>4. Join(High(v), Low(v)) = v
      BY <3>1, Halves
    <3>5. (v % 256) - ((v % 256) % 16) = v % 256
      BY <3>2, <3>3
    <3>6. Low(v) - Nibble(Low(v)) = Low(v)
      BY <3>5 DEF Low, Nibble
    <3> QED
      BY <3>4, <3>6
  <2>6. [t EXCEPT !.AF = t.AF] = t
    BY <2>4, Zenon DEF GbState
  <2>7. Sim(c, s, After1)
    BY <1>4, <2>3, <2>5, <2>6, Zenon
  <2> QED
    BY <1>1, <1>3, <2>7, QuietEnds
<1> QED
  BY <1>7, <1>8

LEMMA SameDI_EI == ASSUME Paired, DI_EI, Ref!R_DI \/ Ref!R_EI PROVE Agreed'
<1> DEFINE k == (op = 251)
           c == [cpu EXCEPT !.IME = k]
           s == [Ref!s1 EXCEPT !.interrupts_master_enabled = k]
<1>1. Finish(c, 1, 1) /\ NoStore
  BY PTL DEF DI_EI
<1>2. Ref!opcode = op /\ Sim(cpu, Ref!s1, After1) /\ k \in BOOLEAN
  BY PairedParts
<1>3. ref' = s /\ Ref!Silent
  <2>1. CASE Ref!R_DI
    <3>1. op = 243 /\ Ref!Silent /\ ref' = [Ref!s1 EXCEPT !.interrupts_master_enabled = FALSE]
      <4>1. Ref!opcode = 243 /\ Ref!Silent /\ ref' = [Ref!s1 EXCEPT !.interrupts_master_enabled = FALSE]
        BY <2>1, PTL DEF Ref!R_DI
      <4> QED
        BY <1>2, <4>1
    <3>2. k = FALSE
      BY <3>1
    <3> HIDE DEF k
    <3> QED
      BY <3>1, <3>2, Zenon
  <2>2. CASE Ref!R_EI
    <3>1. op = 251 /\ Ref!Silent /\ ref' = [Ref!s1 EXCEPT !.interrupts_master_enabled = TRUE]
      BY <1>2, <2>2, Zenon DEF Ref!R_EI
    <3>2. k = TRUE
      BY <3>1
    <3> HIDE DEF k
    <3> QED
      BY <3>1, <3>2, Zenon
  <2> QED
    BY <2>1, <2>2, Zenon
<1> HIDE DEF k
<1>4. Sim(c, s, After1)
  BY <1>2, SimSwitches, Zenon
<1> HIDE DEF c, s
<1> QED
  BY <1>1, <1>3, <1>4, QuietEnds

-----------------------------------------------------------------------------
(* Prefixed instructions.                                                   *)

\* The masks of a bit.
LEMMA BitMasks ==
  ASSUME NEW b \in 0 .. 7, NEW i \in 0 .. 7
  PROVE  /\ Bit(255 - Pow2[b + 1], i) = IF i = b THEN 0 ELSE 1
         /\ Bit(Pow2[b + 1], i) = IF i = b THEN 1 ELSE 0
<1> DEFINE m == 255 - Pow2[b + 1]
           n == Pow2[b + 1]
           q == Pow2[i + 1]
<1>1. /\ b = 0 => n = 1 /\ m = 254
      /\ b = 1 => n = 2 /\ m = 253
      /\ b = 2 => n = 4 /\ m = 251
      /\ b = 3 => n = 8 /\ m = 247
      /\ b = 4 => n = 16 /\ m = 239
      /\ b = 5 => n = 32 /\ m = 223
      /\ b = 6 => n = 64 /\ m = 191
      /\ b = 7 => n = 128 /\ m = 127
  BY DEF Pow2
<1>2. /\ i = 0 => q = 1
      /\ i = 1 => q = 2
      /\ i = 2 => q = 4
      /\ i = 3 => q = 8
      /\ i = 4 => q = 16
      /\ i = 5 => q = 32
      /\ i = 6 => q = 64
      /\ i = 7 => q = 128
  BY DEF Pow2
<1>3. Bit(m, i) = (m \div q) % 2 /\ Bit(n, i) = (n \div q) % 2
  BY DEF Bit
<1> HIDE DEF m, n, q
<1>4. /\ i = 0 => (m \div q) % 2 = m % 2 /\ (n \div q) % 2 = n % 2
      /\ i = 1 => (m \div q) % 2 = (m \div 2) % 2 /\ (n \div q) % 2 = (n \div 2) % 2
      /\ i = 2 => (m \div q) % 2 = (m \div 4) % 2 /\ (n \div q) % 2 = (n \div 4) % 2
      /\ i = 3 => (m \div q) % 2 = (m \div 8) % 2 /\ (n \div q) % 2 = (n \div 8) % 2
      /\ i = 4 => (m \div q) % 2 = (m \div 16) % 2 /\ (n \div q) % 2 = (n \div 16) % 2
      /\ i = 5 => (m \div q) % 2 = (m \div 32) % 2 /\ (n \div q) % 2 = (n \div 32) % 2
      /\ i = 6 => (m \div q) % 2 = (m \div 64) % 2 /\ (n \div q) % 2 = (n \div 64) % 2
      /\ i = 7 => (m \div q) % 2 = (m \div 128) % 2 /\ (n \div q) % 2 = (n \div 128) % 2
  BY <1>1, <1>2
<1> QED
  BY <1>1, <1>3, <1>4 DEF m, n

\* A byte without one bit, or with it.
LEMMA OneBitChanged ==
  ASSUME NEW v \in Byte, NEW b \in 0 .. 7
  PROVE  /\ And(v, 255 - Pow2[b + 1]) = res(v, b) /\ Or(v, Pow2[b + 1]) = set(v, b)
<1> DEFINE m == 255 - Pow2[b + 1]
           n == Pow2[b + 1]
           w == Bit(v, b)
           v0 == Bit(v, 0)  v1 == Bit(v, 1)  v2 == Bit(v, 2)  v3 == Bit(v, 3)
           v4 == Bit(v, 4)  v5 == Bit(v, 5)  v6 == Bit(v, 6)  v7 == Bit(v, 7)
           m0 == Bit(m, 0)  m1 == Bit(m, 1)  m2 == Bit(m, 2)  m3 == Bit(m, 3)
           m4 == Bit(m, 4)  m5 == Bit(m, 5)  m6 == Bit(m, 6)  m7 == Bit(m, 7)
           n0 == Bit(n, 0)  n1 == Bit(n, 1)  n2 == Bit(n, 2)  n3 == Bit(n, 3)
           n4 == Bit(n, 4)  n5 == Bit(n, 5)  n6 == Bit(n, 6)  n7 == Bit(n, 7)
           or(i, j) == IF i + j > 0 THEN 1 ELSE 0
<1>1. /\ v0 \in 0 .. 1 /\ v1 \in 0 .. 1 /\ v2 \in 0 .. 1 /\ v3 \in 0 .. 1
      /\ v4 \in 0 .. 1 /\ v5 \in 0 .. 1 /\ v6 \in 0 .. 1 /\ v7 \in 0 .. 1
      /\ v = v0 + 2 * v1 + 4 * v2 + 8 * v3 + 16 * v4 + 32 * v5 + 64 * v6 + 128 * v7
  BY BitsOf
<1>2. /\ m0 = (IF b = 0 THEN 0 ELSE 1) /\ m1 = (IF b = 1 THEN 0 ELSE 1)
      /\ m2 = (IF b = 2 THEN 0 ELSE 1) /\ m3 = (IF b = 3 THEN 0 ELSE 1)
      /\ m4 = (IF b = 4 THEN 0 ELSE 1) /\ m5 = (IF b = 5 THEN 0 ELSE 1)
      /\ m6 = (IF b = 6 THEN 0 ELSE 1) /\ m7 = (IF b = 7 THEN 0 ELSE 1)
  BY BitMasks
<1>3. /\ n0 = (IF b = 0 THEN 1 ELSE 0) /\ n1 = (IF b = 1 THEN 1 ELSE 0)
      /\ n2 = (IF b = 2 THEN 1 ELSE 0) /\ n3 = (IF b = 3 THEN 1 ELSE 0)
      /\ n4 = (IF b = 4 THEN 1 ELSE 0) /\ n5 = (IF b = 5 THEN 1 ELSE 0)
      /\ n6 = (IF b = 6 THEN 1 ELSE 0) /\ n7 = (IF b = 7 THEN 1 ELSE 0)
  BY BitMasks
<1>4. And(v, m) = v0 * m0 + 2 * (v1 * m1) + 4 * (v2 * m2) + 8 * (v3 * m3) + 16 * (v4 * m4)
                  + 32 * (v5 * m5) + 64 * (v6 * m6) + 128 * (v7 * m7)
  BY AndIs
<1>5. Or(v, n) = or(v0, n0) + 2 * or(v1, n1) + 4 * or(v2, n2) + 8 * or(v3, n3) + 16 * or(v4, n4)
                 + 32 * or(v5, n5) + 64 * or(v6, n6) + 128 * or(v7, n7)
  BY DEF Or, OfBits
<1>6. res(v, b) = v - n * w /\ set(v, b) = v + n * (1 - w)
  BY DEF res, set
<1>7. /\ b = 0 => n = 1 /\ w = v0
      /\ b = 1 => n = 2 /\ w = v1
      /\ b = 2 => n = 4 /\ w = v2
      /\ b = 3 => n = 8 /\ w = v3
      /\ b = 4 => n = 16 /\ w = v4
      /\ b = 5 => n = 32 /\ w = v5
      /\ b = 6 => n = 64 /\ w = v6
      /\ b = 7 => n = 128 /\ w = v7
  BY DEF Pow2
<1>8. \A k \in Int : k * 0 = 0 /\ k * 1 = k
  OBVIOUS
<1> HIDE DEF m, n, w, v0, v1, v2, v3, v4, v5, v6, v7
<1> HIDE DEF m0, m1, m2, m3, m4, m5, m6, m7, n0, n1, n2, n3, n4, n5, n6, n7
<1>9. And(v, m) = v - n * w
  BY <1>1, <1>2, <1>4, <1>7
<1>10. Or(v, n) = v + n * (1 - w)
  <2>1. /\ or(v0, n0) = (IF b = 0 THEN 1 ELSE v0) /\ or(v1, n1) = (IF b = 1 THEN 1 ELSE v1)
        /\ or(v2, n2) = (IF b = 2 THEN 1 ELSE v2) /\ or(v3, n3) = (IF b = 3 THEN 1 ELSE v3)
        /\ or(v4, n4) = (IF b = 4 THEN 1 ELSE v4) /\ or(v5, n5) = (IF b = 5 THEN 1 ELSE v5)
        /\ or(v6, n6) = (IF b = 6 THEN 1 ELSE v6) /\ or(v7, n7) = (IF b = 7 THEN 1 ELSE v7)
    BY <1>1, <1>3
  <2> HIDE DEF or
  <2> QED
    BY <1>1, <1>5, <1>7, <2>1
<1> QED
  BY <1>6, <1>9, <1>10 DEF m, n

\* The digits of the byte behind the prefix.
LEMMA CbDigits ==
  ASSUME Paired
  PROVE  LET x == d8 \div 64
         IN /\ x \in 0 .. 3 /\ d8 = 64 * x + 8 * bitOf + regOf
            /\ \A v : Ref!M(Ref!cb, v, 192) <=> v = 64 * x
            /\ Ref!cb % 8 = regOf
<1>1. d8 \in Byte /\ Ref!cb = d8
  BY PairedParts
<1>2. /\ d8 \div 64 \in 0 .. 3 /\ d8 = 64 * (d8 \div 64) + 8 * bitOf + regOf
      /\ And(d8, 192) = 64 * (d8 \div 64)
  BY <1>1, Octal DEF bitOf, regOf
<1>3. \A v : Ref!M(Ref!cb, v, 192) <=> v = And(d8, 192)
  BY <1>1, SameBits, Zenon DEF Ref!M
<1> QED
  BY <1>1, <1>2, <1>3 DEF regOf

LEMMA SameCbPut ==
  ASSUME Paired, NEW c, NEW t, Sim(c, t, After2), HL(c) = HL(cpu), NEW v \in Byte,
         CB_Write(c, v), Ref!CbPut(t, v)
  PROVE  Agreed'
<1> DEFINE n == IF regOf = 6 THEN 4 ELSE 2
           d == set8(c, regOf, v)
           s == Ref!Put8(t, regOf, v)
<1>1. Finish(d, 2, n) /\ Store(Stores8(c, regOf, v))
  BY PTL DEF CB_Write
<1>2. regOf \in 0 .. 7
  BY PairedParts
<1>3. ref' = s /\ Ref!Write8(ref, regOf, v)
  BY CbDigits, Zenon DEF Ref!CbPut
<1>4. Sim(d, s, After2)
  BY <1>2, SimPut8, Zenon
<1>5. SameLogs'
  BY <1>1, <1>2, <1>3, Logs8
<1> HIDE DEF d, s, n
<1>6. Matching'
  BY <1>1, <1>3, <1>4, Ends
<1> QED
  BY <1>5, <1>6 DEF Agreed

\* A prefixed instruction that sets the flags f and writes v.
LEMMA SameCbFlags ==
  ASSUME Paired, NEW f \in FlagsRegister, NEW v \in Byte, NEW t,
         CB_Write([cpu EXCEPT !.F = f], v), Ref!CbPut(t, v),
         Sim([cpu EXCEPT !.F = f], t, After2)
  PROVE  Agreed'
<1> DEFINE c == [cpu EXCEPT !.F = f]
<1>1. cpu \in CPUState
  BY PairedParts
<1>2. c.H = cpu.H /\ c.L = cpu.L
  BY <1>1, Zenon DEF CPUState
<1>3. HL(c) = HL(cpu)
  BY <1>2, Zenon DEF HL
<1> HIDE DEF c
<1>4. Sim(c, t, After2) /\ CB_Write(c, v)
  BY DEF c
<1> QED
  BY <1>3, <1>4, SameCbPut

\* The flags of a result that is shifted.
LEMMA ShiftedIs ==
  ASSUME NEW v \in Byte, NEW b \in 0 .. 1, NEW r, r = Shifted(v, b)
  PROVE  /\ r.val = v /\ r.f \in FlagsRegister /\ r.f.zero = (v = 0)
         /\ One(r.f.subtraction) = 0 /\ One(r.f.halfCarry) = 0 /\ One(r.f.carry) = b
<1> DEFINE zf == (v = 0)
           no == FALSE
           k == (b = 1)
           g == Flags(zf, no, no, k)
<1>1. r.val = v /\ r.f = g
  BY Zenon DEF Shifted, Result
<1>2. zf \in BOOLEAN /\ no \in BOOLEAN /\ k \in BOOLEAN
  OBVIOUS
<1>3. One(no) = 0 /\ One(k) = b
  BY OneBit DEF One
<1> HIDE DEF zf, no, k
<1>4. g.zero = zf /\ g.subtraction = no /\ g.halfCarry = no /\ g.carry = k /\ g \in FlagsRegister
  BY <1>2, Zenon DEF Flags, FlagsRegister
<1> HIDE DEF g
<1> QED
  BY <1>1, <1>3, <1>4, Zenon DEF zf

LEMMA SameCbShift ==
  ASSUME Paired, NEW n \in Byte, NEW b \in 0 .. 1, NEW r, r = Shifted(n, b),
         CB_Write([cpu EXCEPT !.F = r.f], r.val), Ref!CbShift(n, b)
  PROVE  Agreed'
<1> DEFINE f == r.f
           zf == (n = 0)
           t == Ref!SetFlags(Ref!s2, zf, 0, 0, b)
<1>1. Sim(cpu, Ref!s2, After2)
  BY PairedParts, Skips DEF Ref!s2
<1>2. /\ r.val = n /\ f \in FlagsRegister /\ f.zero = zf
      /\ One(f.subtraction) = 0 /\ One(f.halfCarry) = 0 /\ One(f.carry) = b
  BY ShiftedIs
<1>3. Ref!CbPut(t, n)
  BY Zenon DEF Ref!CbShift
<1> HIDE DEF f, zf
<1>4. Sim([cpu EXCEPT !.F = f],
          Ref!SetFlags(Ref!s2, f.zero, One(f.subtraction), One(f.halfCarry), One(f.carry)), After2)
  BY <1>1, <1>2, SimFlags, Zenon
<1>5. Sim([cpu EXCEPT !.F = f], t, After2)
  BY <1>2, <1>4, Zenon
<1>6. CB_Write([cpu EXCEPT !.F = f], n)
  BY <1>2, Zenon DEF f
<1> HIDE DEF t
<1> QED
  BY <1>2, <1>3, <1>5, <1>6, SameCbFlags, Zenon

\* SWAP assigns the whole of F.
LEMMA SameCbSwap ==
  ASSUME Paired, NEW n \in Byte, NEW r, r = Shifted(n, 0),
         CB_Write([cpu EXCEPT !.F = r.f], r.val),
         Ref!CbPut(Ref!SetF(Ref!s2, IF n = 0 THEN 128 ELSE 0), n)
  PROVE  Agreed'
<1> DEFINE f == r.f
           b == IF n = 0 THEN 128 ELSE 0
           t == Ref!SetF(Ref!s2, b)
           u == Ref!s2
           w == Join(cpu.A, b)
<1>1. Sim(cpu, u, After2) /\ cpu \in CPUState /\ cpu.A \in Byte
  BY PairedParts, Skips DEF Ref!s2
<1>2. /\ r.val = n /\ f \in FlagsRegister /\ f.zero = (n = 0)
      /\ One(f.subtraction) = 0 /\ One(f.halfCarry) = 0 /\ One(f.carry) = 0
  BY ShiftedIs
<1> HIDE DEF f
<1>3. FlagByte(f) = b
  <2>1. One(f.zero) = IF n = 0 THEN 1 ELSE 0
    BY <1>2, Zenon DEF One
  <2> QED
    BY <1>2, <2>1 DEF FlagByte
<1>4. t = [u EXCEPT !.AF = w]
  <2>1. High(u.AF) = cpu.A
    BY <1>1, SimParts
  <2> HIDE DEF b
  <2> QED
    BY <2>1, SameHalves, SameJoin, Zenon DEF Ref!SetF
<1> HIDE DEF b, u
<1>5. Sim([cpu EXCEPT !.A = cpu.A, !.F = f], [u EXCEPT !.AF = Join(cpu.A, FlagByte(f))], After2)
  BY <1>1, <1>2, SimA, Zenon
<1>6. [cpu EXCEPT !.A = cpu.A, !.F = f] = [cpu EXCEPT !.F = f]
  BY <1>1, Zenon DEF CPUState
<1> HIDE DEF t
<1>7. Sim([cpu EXCEPT !.F = f], t, After2)
  BY <1>3, <1>4, <1>5, <1>6, Zenon
<1>8. CB_Write([cpu EXCEPT !.F = f], n)
  BY <1>2, Zenon DEF f
<1>9. Ref!CbPut(t, n)
  BY DEF t, b, u
<1> QED
  BY <1>2, <1>7, <1>8, <1>9, SameCbFlags, Zenon

LEMMA SameCB_RotateShift == ASSUME Paired, CB_RotateShift, Ref!R_CB_Shift PROVE Agreed'
<1> DEFINE v == Operand
           f == cpu.F
           r == RotateShift(bitOf, v, f)
           q == One(f.carry)
           b7 == Bit(v, 7)
           b0 == Bit(v, 0)
           n0 == Low(2 * v) + b7
           n1 == (v \div 2) + 128 * b0
           n2 == Low(2 * v) + q
           n3 == (v \div 2) + 128 * q
           n4 == Low(2 * v)
           n5 == (v \div 2) + 128 * b7
           n6 == Low(16 * v) + (v \div 16)
           n7 == v \div 2
           k == bitOf
<1>1. CB_Write([cpu EXCEPT !.F = r.f], r.val)
  BY PTL DEF CB_RotateShift
<1>2. /\ Programmed /\ MemoryTyped /\ Derived(cpu) /\ Sim(cpu, ref, cpu.PC) /\ regOf \in 0 .. 7
      /\ f \in FlagsRegister /\ k \in 0 .. 7 /\ Ref!cb3 = k
  BY PairedParts
<1>3. v \in Byte /\ Ref!REG8(ref, regOf) = v
  BY <1>2, Get8, SimGet8, Zenon DEF Operand
<1>4. q \in 0 .. 1 /\ b7 \in 0 .. 1 /\ b0 \in 0 .. 1
  BY <1>2, <1>3, OneIs, BitsOf DEF FlagsRegister
<1>5. Ref!Val = v /\ Ref!CF = q
  BY <1>3, CbDigits, SameFlags, Zenon DEF Ref!Val
<1> HIDE DEF v, f
<1>6. b7 = v \div 128 /\ b0 = v % 2
  BY <1>3, ByteIs DEF Bit, Pow2
<1>7. Ref!Low(2 * v) = Low(2 * v) /\ Ref!Low(16 * v) = Low(16 * v)
  BY SameHalves
<1>8. Ref!And(v, 128) = 128 * b7
  <2>1. /\ Bit(128, 0) = 0 /\ Bit(128, 1) = 0 /\ Bit(128, 2) = 0 /\ Bit(128, 3) = 0
        /\ Bit(128, 4) = 0 /\ Bit(128, 5) = 0 /\ Bit(128, 6) = 0 /\ Bit(128, 7) = 1
    BY DEF Bit, Pow2
  <2>2. \A i \in 0 .. 7 : Bit(v, i) \in 0 .. 1
    BY <1>3, BitsOf
  <2>3. \A m \in Int : m * 0 = 0 /\ m * 1 = m
    OBVIOUS
  <2>4. And(v, 128) = 128 * Bit(v, 7)
    BY <2>1, <2>2, <2>3, AndIs
  <2> QED
    BY <2>4, SameBits
<1>9. /\ n0 \in Byte /\ n1 \in Byte /\ n2 \in Byte /\ n3 \in Byte /\ n4 \in Byte
      /\ n5 \in Byte /\ n6 \in Byte /\ n7 \in Byte
  <2> HIDE DEF q, b7, b0
  <2>1. n0 \in Byte /\ n1 \in Byte /\ n2 \in Byte /\ n3 \in Byte
    BY <1>3, <1>4, ByteIs DEF Low
  <2>2. n4 \in Byte /\ n5 \in Byte /\ n6 \in Byte /\ n7 \in Byte
    BY <1>3, <1>4, ByteIs DEF Low
  <2> QED
    BY <2>1, <2>2
<1> DEFINE i0 == rlc(v)         i1 == rrc(v)  i2 == rl(v, f)  i3 == rr(v, f)
           i4 == sla(v)         i5 == sra(v)  i6 == swap(v)   i7 == srl(v)
<1>10. r = CASE k = 0 -> i0 [] k = 1 -> i1 [] k = 2 -> i2 [] k = 3 -> i3
            [] k = 4 -> i4 [] k = 5 -> i5 [] k = 6 -> i6 [] k = 7 -> i7
  BY Zenon DEF RotateShift
<1>11. /\ i0 = Shifted(n0, b7) /\ i1 = Shifted(n1, b0) /\ i2 = Shifted(n2, b7)
       /\ i3 = Shifted(n3, b0) /\ i4 = Shifted(n4, b7) /\ i5 = Shifted(n5, b0)
       /\ i6 = Shifted(n6, 0) /\ i7 = Shifted(n7, b0)
  BY Zenon DEF rlc, rrc, rl, rr, sla, sra, swap, srl
<1> DEFINE a0 == Ref!CbShift(n0, b7)  a1 == Ref!CbShift(n1, b0)
           a2 == Ref!CbShift(n2, b7)  a3 == Ref!CbShift(n3, b0)
           a4 == Ref!CbShift(n4, b7)  a5 == Ref!CbShift(n5, b0)
           a6 == Ref!CbPut(Ref!SetF(Ref!s2, IF n6 = 0 THEN 128 ELSE 0), n6)
           a7 == Ref!CbShift(n7, b0)
<1>12. (CASE k = 0 -> a0 [] k = 1 -> a1 [] k = 2 -> a2 [] k = 3 -> a3
          [] k = 4 -> a4 [] k = 5 -> a5 [] k = 6 -> a6 [] k = 7 -> a7)
  BY <1>2, <1>5, <1>6, <1>7, <1>8, Zenon DEF Ref!R_CB_Shift
<1> HIDE DEF i0, i1, i2, i3, i4, i5, i6, i7, r, a0, a1, a2, a3, a4, a5, a6, a7, k
<1>13. /\ k = 0 => r = i0
       /\ k = 1 => r = i1
       /\ k = 2 => r = i2
       /\ k = 3 => r = i3
       /\ k = 4 => r = i4
       /\ k = 5 => r = i5
       /\ k = 6 => r = i6
       /\ k = 7 => r = i7
  BY <1>10
<1>14. k = 0 => a0
  <2>1. k = 0 => k # 1 /\ k # 2 /\ k # 3 /\ k # 4 /\ k # 5 /\ k # 6 /\ k # 7
    OBVIOUS
  <2> QED
    BY <1>12, <2>1, Zenon
<1>15. k = 1 => a1
  <2>1. k = 1 => k # 0 /\ k # 2 /\ k # 3 /\ k # 4 /\ k # 5 /\ k # 6 /\ k # 7
    OBVIOUS
  <2> QED
    BY <1>12, <2>1, Zenon
<1>16. k = 2 => a2
  <2>1. k = 2 => k # 0 /\ k # 1 /\ k # 3 /\ k # 4 /\ k # 5 /\ k # 6 /\ k # 7
    OBVIOUS
  <2> QED
    BY <1>12, <2>1, Zenon
<1>17. k = 3 => a3
  <2>1. k = 3 => k # 0 /\ k # 1 /\ k # 2 /\ k # 4 /\ k # 5 /\ k # 6 /\ k # 7
    OBVIOUS
  <2> QED
    BY <1>12, <2>1, Zenon
<1>18. k = 4 => a4
  <2>1. k = 4 => k # 0 /\ k # 1 /\ k # 2 /\ k # 3 /\ k # 5 /\ k # 6 /\ k # 7
    OBVIOUS
  <2> QED
    BY <1>12, <2>1, Zenon
<1>19. k = 5 => a5
  <2>1. k = 5 => k # 0 /\ k # 1 /\ k # 2 /\ k # 3 /\ k # 4 /\ k # 6 /\ k # 7
    OBVIOUS
  <2> QED
    BY <1>12, <2>1, Zenon
<1>20. k = 6 => a6
  <2>1. k = 6 => k # 0 /\ k # 1 /\ k # 2 /\ k # 3 /\ k # 4 /\ k # 5 /\ k # 7
    OBVIOUS
  <2> QED
    BY <1>12, <2>1, Zenon
<1>21. k = 7 => a7
  <2>1. k = 7 => k # 0 /\ k # 1 /\ k # 2 /\ k # 3 /\ k # 4 /\ k # 5 /\ k # 6
    OBVIOUS
  <2> QED
    BY <1>12, <2>1, Zenon
<1> HIDE DEF n0, n1, n2, n3, n4, n5, n6, n7, b7, b0, q
<1>22. CASE k = 0
  BY <1>1, <1>4, <1>9, <1>11, <1>13, <1>22, <1>14, SameCbShift, Zenon DEF a0
<1>23. CASE k = 1
  BY <1>1, <1>4, <1>9, <1>11, <1>13, <1>23, <1>15, SameCbShift, Zenon DEF a1
<1>24. CASE k = 2
  BY <1>1, <1>4, <1>9, <1>11, <1>13, <1>24, <1>16, SameCbShift, Zenon DEF a2
<1>25. CASE k = 3
  BY <1>1, <1>4, <1>9, <1>11, <1>13, <1>25, <1>17, SameCbShift, Zenon DEF a3
<1>26. CASE k = 4
  BY <1>1, <1>4, <1>9, <1>11, <1>13, <1>26, <1>18, SameCbShift, Zenon DEF a4
<1>27. CASE k = 5
  BY <1>1, <1>4, <1>9, <1>11, <1>13, <1>27, <1>19, SameCbShift, Zenon DEF a5
<1>28. CASE k = 6
  BY <1>1, <1>9, <1>11, <1>13, <1>28, <1>20, SameCbSwap, Zenon DEF a6
<1>29. CASE k = 7
  BY <1>1, <1>4, <1>9, <1>11, <1>13, <1>29, <1>21, SameCbShift, Zenon DEF a7
<1> QED
  BY <1>2, <1>22, <1>23, <1>24, <1>25, <1>26, <1>27, <1>28, <1>29 DEF k

LEMMA SameCB_BIT == ASSUME Paired, CB_BIT, Ref!R_CB_BIT PROVE Agreed'
<1> DEFINE v == Operand
           w == Bit(v, bitOf)
           f == cpu.F
           zf == (w = 0)
           no == FALSE
           yes == TRUE
           k == f.carry
           g == bit(v, bitOf, f)
           e == Flags(zf, no, yes, k)
           n == IF regOf = 6 THEN 3 ELSE 2
           c == [cpu EXCEPT !.F = g]
           s == Ref!SetFlags(Ref!s2, zf, 0, 1, One(k))
<1>1. Finish(c, 2, n) /\ NoStore
  BY PTL DEF CB_BIT
<1>2. /\ Programmed /\ Sim(cpu, ref, cpu.PC) /\ regOf \in 0 .. 7 /\ f \in FlagsRegister
      /\ Ref!cb3 = bitOf
  BY PairedParts
<1>3. Ref!REG8(ref, regOf) = v
  BY <1>2, SimGet8, Zenon DEF Operand
<1>4. Ref!Val = v /\ Ref!CF = One(k)
  BY <1>3, CbDigits, SameFlags, Zenon DEF Ref!Val
<1>5. Ref!Bit(v, bitOf) = w
  BY SameBits
<1>6. ref' = s /\ Ref!Silent
  BY <1>2, <1>4, <1>5, Zenon DEF Ref!R_CB_BIT
<1>7. Sim(cpu, Ref!s2, After2)
  BY PairedParts, Skips DEF Ref!s2
<1>8. zf \in BOOLEAN /\ no \in BOOLEAN /\ yes \in BOOLEAN /\ One(no) = 0 /\ One(yes) = 1
  BY DEF One
<1>9. k \in BOOLEAN
  BY <1>2, Zenon DEF FlagsRegister
<1>10. g = e
  BY Zenon DEF bit
<1> HIDE DEF zf, no, yes, k, g
<1>11. e \in FlagsRegister /\ e.zero = zf /\ e.subtraction = no /\ e.halfCarry = yes /\ e.carry = k
  BY <1>8, <1>9, Zenon DEF Flags, FlagsRegister
<1> HIDE DEF e
<1>12. Sim([cpu EXCEPT !.F = e],
           Ref!SetFlags(Ref!s2, e.zero, One(e.subtraction), One(e.halfCarry), One(e.carry)), After2)
  BY <1>7, <1>11, SimFlags, Zenon
<1>13. Sim(c, s, After2)
  BY <1>8, <1>10, <1>11, <1>12, Zenon
<1> HIDE DEF c, s, n
<1> QED
  BY <1>1, <1>6, <1>13, QuietEnds

\* RES and SET leave the flags alone.
LEMMA SameCbWrite ==
  ASSUME Paired, NEW v \in Byte, CB_Write(cpu, v), Ref!CbPut(Ref!s2, v)
  PROVE  Agreed'
<1>1. Sim(cpu, Ref!s2, After2)
  BY PairedParts, Skips DEF Ref!s2
<1> QED
  BY <1>1, SameCbPut, Zenon

LEMMA CbOperand ==
  ASSUME Paired
  PROVE  /\ Ref!Val = Operand /\ Operand \in Byte /\ Ref!cb3 = bitOf /\ bitOf \in 0 .. 7
         /\ res(Operand, bitOf) \in Byte /\ set(Operand, bitOf) \in Byte
         /\ Ref!And(Operand, 255 - Ref!Pow2[bitOf + 1]) = res(Operand, bitOf)
         /\ Ref!Or(Operand, Ref!Pow2[bitOf + 1]) = set(Operand, bitOf)
<1>1. /\ Programmed /\ MemoryTyped /\ Derived(cpu) /\ Sim(cpu, ref, cpu.PC) /\ regOf \in 0 .. 7
      /\ Ref!cb3 = bitOf /\ bitOf \in 0 .. 7 /\ cpu.F \in FlagsRegister
  BY PairedParts
<1>2. Operand \in Byte /\ Ref!REG8(ref, regOf) = Operand
  BY <1>1, Get8, SimGet8, Zenon DEF Operand
<1>3. Ref!Val = Operand
  BY <1>2, CbDigits, Zenon DEF Ref!Val
<1>4. res(Operand, bitOf) \in Byte /\ set(Operand, bitOf) \in Byte
  BY <1>1, <1>2, ResSetTyped, Zenon
<1> DEFINE m == 255 - Pow2[bitOf + 1]
           n == Pow2[bitOf + 1]
<1>5. And(Operand, m) = res(Operand, bitOf) /\ Or(Operand, n) = set(Operand, bitOf)
  BY <1>1, <1>2, OneBitChanged
<1>6. 255 - Ref!Pow2[bitOf + 1] = m /\ Ref!Pow2[bitOf + 1] = n
  BY SamePowers
<1> HIDE DEF m, n
<1>7. Ref!And(Operand, m) = And(Operand, m) /\ Ref!Or(Operand, n) = Or(Operand, n)
  BY SameBits
<1> QED
  BY <1>1, <1>2, <1>3, <1>4, <1>5, <1>6, <1>7

LEMMA SameCB_RES == ASSUME Paired, CB_RES, Ref!R_CB_RES PROVE Agreed'
<1>1. CB_Write(cpu, res(Operand, bitOf))
  BY PTL DEF CB_RES
<1>2. Ref!CbPut(Ref!s2, Ref!And(Ref!Val, 255 - Ref!Pow2[Ref!cb3 + 1]))
  BY PTL DEF Ref!R_CB_RES
<1>3. Ref!CbPut(Ref!s2, res(Operand, bitOf)) /\ res(Operand, bitOf) \in Byte
  BY <1>2, CbOperand, Zenon
<1> QED
  BY <1>1, <1>3, SameCbWrite

LEMMA SameCB_SET == ASSUME Paired, CB_SET, Ref!R_CB_SET PROVE Agreed'
<1>1. CB_Write(cpu, set(Operand, bitOf))
  BY PTL DEF CB_SET
<1>2. Ref!CbPut(Ref!s2, Ref!Or(Ref!Val, Ref!Pow2[Ref!cb3 + 1]))
  BY PTL DEF Ref!R_CB_SET
<1>3. Ref!CbPut(Ref!s2, set(Operand, bitOf)) /\ set(Operand, bitOf) \in Byte
  BY <1>2, CbOperand, Zenon
<1> QED
  BY <1>1, <1>3, SameCbWrite

LEMMA SamePrefixed == ASSUME Paired, Prefixed, Ref!R_CB PROVE Agreed'
<1> DEFINE x == d8 \div 64
<1>1. /\ x \in 0 .. 3 /\ \A v : Ref!M(Ref!cb, v, 192) <=> v = 64 * x
      /\ d8 \in Byte
  BY CbDigits, PairedParts
<1>2. /\ Ref!R_CB_Shift => Ref!M(Ref!cb, 0, 192)
      /\ Ref!R_CB_BIT => Ref!M(Ref!cb, 64, 192)
      /\ Ref!R_CB_RES => Ref!M(Ref!cb, 128, 192)
      /\ Ref!R_CB_SET => Ref!M(Ref!cb, 192, 192)
  BY PTL DEF Ref!R_CB_Shift, Ref!R_CB_BIT, Ref!R_CB_RES, Ref!R_CB_SET
<1>3. /\ CB_RotateShift => d8 \in ShiftOps
      /\ CB_BIT => d8 \in BitOps
      /\ CB_RES => d8 \in ResOps
      /\ CB_SET => d8 \in SetOps
  BY PTL DEF CB_RotateShift, CB_BIT, CB_RES, CB_SET
<1>4. /\ Ref!M(Ref!cb, 0, 192) <=> x = 0
      /\ Ref!M(Ref!cb, 64, 192) <=> x = 1
      /\ Ref!M(Ref!cb, 128, 192) <=> x = 2
      /\ Ref!M(Ref!cb, 192, 192) <=> x = 3
  BY <1>1
<1>5. /\ d8 \in ShiftOps <=> x = 0
      /\ d8 \in BitOps <=> x = 1
      /\ d8 \in ResOps <=> x = 2
      /\ d8 \in SetOps <=> x = 3
  BY <1>1, ByteIs DEF ShiftOps, BitOps, ResOps, SetOps
<1> HIDE DEF x
<1>6. CASE x = 0
  <2>1. CB_RotateShift /\ Ref!R_CB_Shift
    BY <1>2, <1>3, <1>4, <1>5, <1>6 DEF Prefixed, Ref!R_CB
  <2> QED
    BY <2>1, SameCB_RotateShift
<1>7. CASE x = 1
  <2>1. CB_BIT /\ Ref!R_CB_BIT
    BY <1>2, <1>3, <1>4, <1>5, <1>7 DEF Prefixed, Ref!R_CB
  <2> QED
    BY <2>1, SameCB_BIT
<1>8. CASE x = 2
  <2>1. CB_RES /\ Ref!R_CB_RES
    BY <1>2, <1>3, <1>4, <1>5, <1>8 DEF Prefixed, Ref!R_CB
  <2> QED
    BY <2>1, SameCB_RES
<1>9. CASE x = 3
  <2>1. CB_SET /\ Ref!R_CB_SET
    BY <1>2, <1>3, <1>4, <1>5, <1>9 DEF Prefixed, Ref!R_CB
  <2> QED
    BY <2>1, SameCB_SET
<1> QED
  BY <1>1, <1>6, <1>7, <1>8, <1>9

\* Whatever the instruction, the two agree on it.
LEMMA StepsAgree == ASSUME Paired, tick, Ref!rcpu_step PROVE Agreed'
<1>1. LD_r_r /\ Ref!R_LD8 => Agreed'
  BY SameLD_r_r
<1>2. NOP /\ Ref!R_NOP => Agreed'
  BY SameNOP
<1>3. HALT /\ Ref!R_HALT => Agreed'
  BY SameHALT
<1>4. LD_HL_r /\ Ref!R_LD8 => Agreed'
  BY SameLD_HL_r
<1>5. LD_r_d8 /\ Ref!R_LD8_imm => Agreed'
  BY SameLD_r_d8
<1>6. LD_rr_d16 /\ Ref!R_LD16_imm => Agreed'
  BY SameLD_rr_d16
<1>7. LD_rr_A /\ Ref!R_LD_mem_A => Agreed'
  BY SameLD_rr_A
<1>8. LD_A_rr /\ Ref!R_LD_A_mem => Agreed'
  BY SameLD_A_rr
<1>9. LD_HL_inc_A /\ Ref!R_LDI_mem => Agreed'
  BY SameLD_HL_inc_A
<1>10. LD_A_HL_inc /\ Ref!R_LDI_A => Agreed'
  BY SameLD_A_HL_inc
<1>11. LD_a16_SP /\ Ref!R_LD_imm16_SP => Agreed'
  BY SameLD_a16_SP
<1>12. LD_a16_A /\ Ref!R_LD_imm16_A => Agreed'
  BY SameLD_a16_A
<1>13. LD_A_a16 /\ Ref!R_LD_A_imm16 => Agreed'
  BY SameLD_A_a16
<1>14. LD_A_a8 /\ Ref!R_LDH_A_imm => Agreed'
  BY SameLD_A_a8
<1>15. LD_mem_C_A /\ Ref!R_LDH_C_A => Agreed'
  BY SameLD_mem_C_A
<1>16. LD_A_mem_C /\ Ref!R_LDH_A_C => Agreed'
  BY SameLD_A_mem_C
<1>17. LD_a8_A /\ Ref!R_LDH_imm_A => Agreed'
  BY SameLD_a8_A
<1>18. LD_SP_HL /\ Ref!R_LD_SP_HL => Agreed'
  BY SameLD_SP_HL
<1>19. ADD_SP_s8 /\ Ref!R_ADD_SP => Agreed'
  BY SameADD_SP_s8
<1>20. LD_HL_SP_s8 /\ Ref!R_LD_HL_SP => Agreed'
  BY SameLD_HL_SP_s8
<1>21. Arithmetic_A_r /\ Ref!R_Arith8 => Agreed'
  BY SameArithmetic_A_r
<1>22. Arithmetic_A_d8 /\ Ref!R_Arith_imm => Agreed'
  BY SameArithmetic_A_d8
<1>23. INC_DEC_r /\ (Ref!R_INC8 \/ Ref!R_DEC8) => Agreed'
  BY SameINC_DEC_r
<1>24. INC_DEC_mem_HL /\ (Ref!R_INC8 \/ Ref!R_DEC8) => Agreed'
  BY SameINC_DEC_mem_HL
<1>25. INC_rr /\ Ref!R_INC16 => Agreed'
  BY SameINC_rr
<1>26. DEC_rr /\ Ref!R_DEC16 => Agreed'
  BY SameDEC_rr
<1>27. ADD_HL_rr /\ Ref!R_ADD16 => Agreed'
  BY SameADD_HL_rr
<1>28. RotateA /\ Ref!R_RotateA => Agreed'
  BY SameRotateA
<1>29. DAA /\ Ref!R_DAA => Agreed'
  BY SameDAA
<1>30. CPL /\ Ref!R_CPL => Agreed'
  BY SameCPL
<1>31. SCF_CCF /\ (Ref!R_SCF \/ Ref!R_CCF) => Agreed'
  BY SameSCF_CCF
<1>32. JR /\ Ref!R_JR => Agreed'
  BY SameJR
<1>33. JR_cc /\ Ref!R_JR_cc => Agreed'
  BY SameJR_cc
<1>34. JP /\ Ref!R_JP => Agreed'
  BY SameJP
<1>35. JP_cc /\ Ref!R_JP_cc => Agreed'
  BY SameJP_cc
<1>36. JP_HL /\ Ref!R_JP_HL => Agreed'
  BY SameJP_HL
<1>37. CALL /\ Ref!R_CALL => Agreed'
  BY SameCALL
<1>38. CALL_cc /\ Ref!R_CALL_cc => Agreed'
  BY SameCALL_cc
<1>39. RST /\ Ref!R_RST => Agreed'
  BY SameRST
<1>40. RET /\ Ref!R_RET => Agreed'
  BY SameRET
<1>41. RETI /\ Ref!R_RETI => Agreed'
  BY SameRETI
<1>42. RET_cc /\ Ref!R_RET_cc => Agreed'
  BY SameRET_cc
<1>43. PUSH /\ Ref!R_PUSH => Agreed'
  BY SamePUSH
<1>44. POP /\ Ref!R_POP => Agreed'
  BY SamePOP
<1>45. DI_EI /\ (Ref!R_DI \/ Ref!R_EI) => Agreed'
  BY SameDI_EI
<1>46. Prefixed /\ Ref!R_CB => Agreed'
  BY SamePrefixed
<1> QED
  BY <1>1, <1>2, <1>3, <1>4, <1>5, <1>6, <1>7, <1>8, <1>9, <1>10, <1>11, <1>12, <1>13, <1>14,
     <1>15, <1>16, <1>17, <1>18, <1>19, <1>20, <1>21, <1>22, <1>23, <1>24, <1>25, <1>26, <1>27,
     <1>28, <1>29, <1>30, <1>31, <1>32, <1>33, <1>34, <1>35, <1>36, <1>37, <1>38, <1>39, <1>40,
     <1>41, <1>42, <1>43, <1>44, <1>45, <1>46, Pairs

-----------------------------------------------------------------------------
(* The tester's comparison.                                                 *)

\* An instruction starts with the two alike and their logs empty, and the
\* comparison finds them alike again.
AgreeInv ==
  /\ TesterInv
  /\ phase = "step" => Paired
  /\ phase = "compare" => Agreed

\* mycpu_set_state and rcpu_reset give the two the same input.
LEMMA InputsPaired ==
  ASSUME NEW g \in [BC : Word, DE : Word, HL : Word, SP : Word, IME : BOOLEAN],
         NEW a \in Byte, NEW f \in Byte, Nibble(f) = 0,
         cpu' = SetState(g, a, f), ref' = ResetRef(g, a, f)
  PROVE  Sim(cpu, ref, 0)' /\ cpu'.PC = 0
<1>1. cpu' \in CPUState /\ ref' \in GbState
  BY InputsTyped
<1>2. /\ cpu'.A = a /\ cpu'.F = FlagsOf(f) /\ cpu'.SP = g.SP /\ cpu'.IME = g.IME
      /\ cpu'.B = High(g.BC) /\ cpu'.C = Low(g.BC) /\ cpu'.D = High(g.DE) /\ cpu'.E = Low(g.DE)
      /\ cpu'.H = High(g.HL) /\ cpu'.L = Low(g.HL) /\ cpu'.PC = 0 /\ cpu'.halted = FALSE
  BY Zenon DEF SetState, ZeroState
<1>3. /\ ref'.BC = g.BC /\ ref'.DE = g.DE /\ ref'.HL = g.HL /\ ref'.AF = Join(a, f)
      /\ ref'.sp = g.SP /\ ref'.pc = 0 /\ ref'.halted = FALSE
      /\ ref'.interrupts_master_enabled = g.IME
  BY Zenon DEF ResetRef
<1>4. g.BC \in Word /\ g.DE \in Word /\ g.HL \in Word
  OBVIOUS
<1>5. /\ Join(High(g.BC), Low(g.BC)) = g.BC /\ Join(High(g.DE), Low(g.DE)) = g.DE
      /\ Join(High(g.HL), Low(g.HL)) = g.HL
  BY <1>4, Halves
<1>6. FlagByte(FlagsOf(f)) = f
  <2>1. f % 16 = 0 /\ f \in Int
    BY ByteIs DEF Nibble
  <2>2. FlagByte(FlagsOf(f)) = f - (f % 16)
    BY FlagByteOf
  <2> QED
    BY <2>1, <2>2
<1>7. Alike(cpu, ref)'
  BY <1>2, <1>3, <1>5, <1>6, Zenon DEF Alike
<1>8. Derived(cpu)'
  BY <1>1, Zenon DEF Derived
<1> QED
  BY <1>1, <1>2, <1>3, <1>7, <1>8, Zenon DEF Sim

LEMMA AgreeSteps == ASSUME TesterSettings PROVE AgreeInv /\ [TestNext]_testVars => AgreeInv'
<1> SUFFICES ASSUME AgreeInv, [TestNext]_testVars
             PROVE  AgreeInv'
  OBVIOUS
<1>0. TesterInv'
  BY TesterSteps DEF AgreeInv
<1>1. CASE NextInput
  <2>1. PICK g \in Registers, a \in AValues, f \in FlagBytes :
          cpu' = SetState(g, a, f) /\ ref' = ResetRef(g, a, f)
    BY <1>1 DEF NextInput
  <2>2. accesses' = << >> /\ refAccesses' = << >> /\ phase' = "step"
    BY <1>1 DEF NextInput
  <2>3. /\ g \in [BC : Word, DE : Word, HL : Word, SP : Word, IME : BOOLEAN]
        /\ a \in Byte /\ f \in Byte /\ Nibble(f) = 0
    BY Zenon DEF TesterSettings
  <2>4. Sim(cpu, ref, 0)' /\ cpu'.PC = 0
    BY <2>1, <2>3, InputsPaired
  <2>5. memory' \in Programs
    BY <1>0 DEF TesterInv
  <2>6. (Programmed /\ ~shouldWriteToMemory /\ readByte(0) = memory[0])'
    <3>1. MEM_SIZE \in Nat /\ MEM_SIZE > 0 /\ memory' \in [0 .. MEM_SIZE - 1 -> Byte]
      BY <2>5 DEF TesterSettings
    <3>2. 0 \in DOMAIN memory' /\ ~(0 >= MEM_SIZE)
      BY <3>1
    <3> QED
      BY <3>1, <3>2 DEF TesterSettings, Programmed, readByte
  <2>7. Paired'
    BY <2>2, <2>4, <2>6 DEF Paired, Aligned, op
  <2> QED
    BY <1>0, <2>2, <2>7 DEF AgreeInv
<1>2. CASE run_state
  <2>1. phase = "step" /\ tick /\ Ref!rcpu_step /\ phase' = "compare"
    BY <1>2 DEF run_state
  <2>2. Agreed'
    BY <2>1, StepsAgree DEF AgreeInv
  <2> QED
    BY <1>0, <2>1, <2>2 DEF AgreeInv
<1>3. CASE NextTest
  BY <1>0, <1>3 DEF NextTest, AgreeInv
<1>4. CASE UNCHANGED testVars
  <2>1. /\ cpu' = cpu /\ ref' = ref /\ memory' = memory /\ accesses' = accesses
        /\ refAccesses' = refAccesses /\ phase' = phase
    BY <1>4 DEF testVars, cpuVars
  <2>2. Paired' <=> Paired
    BY <2>1 DEF Paired, Aligned, Programmed, Sim, Derived, Alike, op, readByte
  <2>3. Agreed' <=> Agreed
    BY <2>1 DEF Agreed, Matching, Alike, SameLogs, OneLog, TwoLog
  <2> QED
    BY <1>0, <2>1, <2>2, <2>3 DEF AgreeInv
<1> QED
  BY <1>1, <1>2, <1>3, <1>4 DEF TestNext

LEMMA MatchingObserved == Matching => Observed = ref
<1> SUFFICES ASSUME Matching
             PROVE  Observed = ref
  OBVIOUS
<1>1. ref \in GbState /\ Alike(cpu, ref) /\ ref.pc = cpu.PC
  BY DEF Matching
<1>2. ref = [BC |-> ref.BC, DE |-> ref.DE, HL |-> ref.HL, AF |-> ref.AF, sp |-> ref.sp,
             pc |-> ref.pc, halted |-> ref.halted,
             interrupts_master_enabled |-> ref.interrupts_master_enabled]
  BY <1>1 DEF GbState
<1> QED
  BY <1>1, <1>2 DEF Observed, Alike, HL

LEMMA AgreedMeans == ASSUME Agreed PROVE AgreesWithReference
<1>1. Observed = ref
  BY MatchingObserved DEF Agreed
<1>2. LogsAgree
  BY EmptyLogs, OneLogAgrees, TwoLogAgrees DEF Agreed, SameLogs
<1>3. states_eq <=> states_mem_accesses_eq(accesses, refAccesses)
  BY <1>1, Zenon DEF states_eq
<1> QED
  BY <1>1, <1>2, <1>3, Zenon DEF AgreesWithReference, LogsAgree

\* On every program and input of the tester every instruction leaves in both
\* processors the same registers, flags and pointers and stores the same bytes,
\* whatever their order, except at the divider; and run_state sees the
\* exception exactly when the divider is the lowest address stored to.
THEOREM ProcessorsAgree == ASSUME TesterSettings PROVE TestSpec => []AgreesWithReference
<1>1. TestInit => AgreeInv
  <2>1. TestInit => phase = "input"
    BY DEF TestInit
  <2> QED
    BY <2>1, TesterStarts DEF AgreeInv
<1>2. AgreeInv => AgreesWithReference
  <2>1. phase # "compare" => AgreesWithReference
    BY Zenon DEF AgreesWithReference
  <2> QED
    BY <2>1, AgreedMeans DEF AgreeInv
<1> QED
  BY <1>1, <1>2, AgreeSteps, PTL DEF TestSpec

-----------------------------------------------------------------------------
(* The cycles.                                                              *)

\* What an instruction takes that has no prefix and no condition.
Base(o) == IF o \in {3, 24, 126, 188, 190} THEN Ref!cycles_per_instruction(o) - 1
                                          ELSE Ref!cycles_per_instruction(o)

LEMMA TimeIs ==
  ASSUME NEW o \in Byte
  PROVE  Ref!cycles_per_instruction(o) \in Int /\ Base(o) \in Int
<1>1. Ref!cycles_per_instruction(o) \in Int
  BY ByteIs DEF Ref!cycles_per_instruction, Ref!cycles_0, Ref!cycles_3
<1> QED
  BY <1>1 DEF Base

LEMMA FirstTimes ==
  ASSUME NEW o \in 0 .. 63
  PROVE  /\ o \in {0, 3, 4, 5, 7, 12, 13, 15, 16, 20, 21, 23, 28, 29, 31, 36, 37, 39, 44, 45, 47, 55,
               60, 61, 63} => Base(o) = 1
         /\ o \in {2, 6, 9, 10, 11, 14, 18, 19, 22, 24, 25, 26, 27, 30, 32, 34, 35, 38, 40, 41, 42,
               43, 46, 48, 50, 51, 56, 57, 58, 59, 62} => Base(o) = 2
         /\ o \in {1, 17, 33, 49, 52, 53, 54} => Base(o) = 3
         /\ o \in {8} => Base(o) = 5
BY DEF Ref!cycles_0, Ref!cycles_per_instruction, Base

LEMMA LastTimes ==
  ASSUME NEW o \in 192 .. 255
  PROVE  /\ o \in {233, 243, 251} => Base(o) = 1
         /\ o \in {192, 198, 200, 206, 208, 214, 216, 222, 226, 230, 238, 242, 246, 249,
               254} => Base(o) = 2
         /\ o \in {193, 194, 196, 202, 204, 209, 210, 212, 218, 220, 224, 225, 240, 241,
               248} => Base(o) = 3
         /\ o \in {195, 197, 199, 201, 207, 213, 215, 217, 223, 229, 231, 232, 234, 239, 245, 247,
               250, 255} => Base(o) = 4
         /\ o \in {205} => Base(o) = 6
BY DEF Ref!cycles_3, Ref!cycles_per_instruction, Base

LEMMA MiddleTimes ==
  ASSUME NEW o \in 64 .. 191
  PROVE  Base(o) = IF o \in 112 .. 117 \cup {119} \/ (o % 8 = 6 /\ o \notin {118, 126, 190})
                   THEN 2 ELSE 1
<1>1. Ref!cycles_per_instruction(o)
        = IF o = 118 THEN 1
          ELSE IF o = 188 THEN 2
          ELSE IF o % 8 = 6 \/ o \in 112 .. 119 THEN 2 ELSE 1
  BY DEF Ref!cycles_per_instruction
<1> QED
  BY <1>1 DEF Base

LEMMA CaseTakes ==
  ASSUME cpu' \in CPUState, NEW c, NEW p, NEW n, Finish(c, p, n) \/ Goto(c, p, n)
  PROVE  cpu'.cycles = n
<1>1. "cycles" \in DOMAIN cpu'
  <2>1. cpu'.cycles \in 0 .. 6 /\ DOMAIN cpu' = DOMAIN cpu'
    BY DEF CPUState
  <2> QED
    BY Zenon DEF CPUState
<1>2. \A q : cpu' = [c EXCEPT !.PC = q, !.cycles = n] => cpu'.cycles = n
  <2> TAKE q
  <2> HAVE cpu' = [c EXCEPT !.PC = q, !.cycles = n]
  <2>1. DOMAIN cpu' = DOMAIN c
    OBVIOUS
  <2> QED
    BY <1>1, <2>1
<1>3. Goto(c, p, n) => cpu'.cycles = n
  BY <1>2, Zenon DEF Goto
<1>4. Finish(c, p, n) => cpu'.cycles = n
  BY <1>2 DEF Finish
<1> QED
  BY <1>3, <1>4

LEMMA CaseKeepsF ==
  ASSUME cpu' \in CPUState, NEW c, NEW p, NEW n, Finish(c, p, n) \/ Goto(c, p, n)
  PROVE  cpu'.F = c.F
<1>1. "F" \in DOMAIN cpu'
  <2>1. cpu'.cycles \in 0 .. 6 /\ DOMAIN cpu' = DOMAIN cpu'
    BY DEF CPUState
  <2> QED
    BY Zenon DEF CPUState
<1>2. \A q : cpu' = [c EXCEPT !.PC = q, !.cycles = n] => cpu'.F = c.F
  <2> TAKE q
  <2> HAVE cpu' = [c EXCEPT !.PC = q, !.cycles = n]
  <2>1. DOMAIN cpu' = DOMAIN c
    OBVIOUS
  <2> QED
    BY <1>1, <2>1
<1>3. Goto(c, p, n) => cpu'.F = c.F
  BY <1>2, Zenon DEF Goto
<1>4. Finish(c, p, n) => cpu'.F = c.F
  BY <1>2 DEF Finish
<1> QED
  BY <1>3, <1>4

\* The opcodes that do not say all about the time: prefix and conditions.
VariableOps == {203, 32, 40, 48, 56, 194, 202, 210, 218, 196, 204, 212, 220, 192, 200, 208, 216}

\* The instructions that always take the same time.
OpDigits == op \in Byte /\ op = 64 * (op \div 64) + 8 * y + z /\ y \in 0 .. 7 /\ z \in 0 .. 7

\* The loads of a register or (HL), but HALT, by their digits.
LEMMA LoadTimes ==
  ASSUME OpDigits, op \in LoadOps
  PROVE  /\ y # 6 /\ z # 6 => Base(op) = 1
         /\ y # 6 /\ y # 7 /\ z = 6 => Base(op) = 2
         /\ y = 6 /\ z # 6 => Base(op) = 2
         /\ op \notin VariableOps
<1>1. y \in 0 .. 7 /\ z \in 0 .. 7 /\ op \in 64 .. 127 /\ op = 64 + 8 * y + z
  <2>1. op \in 64 .. 127 /\ op = 64 * (op \div 64) + 8 * y + z
    BY DEF LoadOps, OpDigits
  <2>2. op \div 64 = 1
    BY <2>1
  <2> QED
    BY <2>1, <2>2 DEF OpDigits
<1> DEFINE m == op % 8
<1>3. Base(op) = IF op \in 112 .. 117 \cup {119} \/ (m = 6 /\ op \notin {118, 126, 190})
                   THEN 2 ELSE 1
  BY <1>1, MiddleTimes
<1> HIDE DEF m
<1>4. m = z
  BY DEF m, z
<1>5. /\ op \in 112 .. 119 <=> y = 6
      /\ op = 118 <=> (y = 6 /\ z = 6)
      /\ op = 126 <=> (y = 7 /\ z = 6)
  BY <1>1
<1> QED
  BY <1>1, <1>3, <1>4, <1>5 DEF VariableOps

LEMMA LoadsTake ==
  ASSUME OpDigits, cpu' \in CPUState, Loads, ~LD_a8_A_HandOver
  PROVE  cpu'.cycles = Base(op) /\ op \notin VariableOps
<1>1. CASE NOP
  <2>1. op = 0 /\ cpu'.cycles = 1
    BY <1>1, CaseTakes DEF NOP
  <2> QED
    BY <2>1, FirstTimes, MiddleTimes, LastTimes DEF VariableOps
<1>2. CASE HALT
  <2>1. op \in {16, 118}
    BY <1>2, PTL DEF HALT
  <2>2. Finish([cpu EXCEPT !.halted = TRUE], 1, 1)
    BY <1>2, PTL DEF HALT
  <2>3. cpu'.cycles = 1
    BY <2>2, CaseTakes
  <2> QED
    BY <2>1, <2>3, FirstTimes, MiddleTimes, LastTimes DEF VariableOps
<1>3. CASE LD_rr_d16
  <2>1. op \in {1, 17, 33, 49} /\ cpu'.cycles = 3
    BY <1>3, CaseTakes DEF LD_rr_d16
  <2> QED
    BY <2>1, FirstTimes, MiddleTimes, LastTimes DEF VariableOps
<1>4. CASE LD_rr_A
  <2>1. op \in {2, 18} /\ cpu'.cycles = 2
    BY <1>4, CaseTakes DEF LD_rr_A
  <2> QED
    BY <2>1, FirstTimes, MiddleTimes, LastTimes DEF VariableOps
<1>5. CASE LD_A_rr
  <2>1. op \in {10, 26} /\ cpu'.cycles = 2
    BY <1>5, CaseTakes DEF LD_A_rr
  <2> QED
    BY <2>1, FirstTimes, MiddleTimes, LastTimes DEF VariableOps
<1>6. CASE LD_HL_inc_A
  <2>1. op \in {34, 50} /\ cpu'.cycles = 2
    BY <1>6, CaseTakes DEF LD_HL_inc_A
  <2> QED
    BY <2>1, FirstTimes, MiddleTimes, LastTimes DEF VariableOps
<1>7. CASE LD_A_HL_inc
  <2>1. op \in {42, 58} /\ cpu'.cycles = 2
    BY <1>7, CaseTakes DEF LD_A_HL_inc
  <2> QED
    BY <2>1, FirstTimes, MiddleTimes, LastTimes DEF VariableOps
<1>8. CASE LD_a16_SP
  <2>1. op = 8 /\ cpu'.cycles = 5
    BY <1>8, CaseTakes DEF LD_a16_SP
  <2> QED
    BY <2>1, FirstTimes, MiddleTimes, LastTimes DEF VariableOps
<1>9. CASE LD_a16_A
  <2>1. op = 234 /\ cpu'.cycles = 4
    BY <1>9, CaseTakes DEF LD_a16_A
  <2> QED
    BY <2>1, FirstTimes, MiddleTimes, LastTimes DEF VariableOps
<1>10. CASE LD_A_a16
  <2>1. op = 250 /\ cpu'.cycles = 4
    BY <1>10, CaseTakes DEF LD_A_a16
  <2> QED
    BY <2>1, FirstTimes, MiddleTimes, LastTimes DEF VariableOps
<1>11. CASE LD_A_a8
  <2>1. op = 240 /\ cpu'.cycles = 3
    BY <1>11, CaseTakes DEF LD_A_a8
  <2> QED
    BY <2>1, FirstTimes, MiddleTimes, LastTimes DEF VariableOps
<1>12. CASE LD_mem_C_A
  <2>1. op = 226 /\ cpu'.cycles = 2
    BY <1>12, CaseTakes DEF LD_mem_C_A
  <2> QED
    BY <2>1, FirstTimes, MiddleTimes, LastTimes DEF VariableOps
<1>13. CASE LD_A_mem_C
  <2>1. op = 242 /\ cpu'.cycles = 2
    BY <1>13, CaseTakes DEF LD_A_mem_C
  <2> QED
    BY <2>1, FirstTimes, MiddleTimes, LastTimes DEF VariableOps
<1>14. CASE LD_a8_A
  <2>1. op = 224 /\ cpu'.cycles = 3
    BY <1>14, CaseTakes DEF LD_a8_A
  <2> QED
    BY <2>1, FirstTimes, MiddleTimes, LastTimes DEF VariableOps
<1>15. CASE LD_SP_HL
  <2>1. op = 249 /\ cpu'.cycles = 2
    BY <1>15, CaseTakes DEF LD_SP_HL
  <2> QED
    BY <2>1, FirstTimes, MiddleTimes, LastTimes DEF VariableOps
<1>16. CASE ADD_SP_s8
  <2>1. op = 232 /\ cpu'.cycles = 4
    BY <1>16, CaseTakes DEF ADD_SP_s8
  <2> QED
    BY <2>1, FirstTimes, MiddleTimes, LastTimes DEF VariableOps
<1>17. CASE LD_HL_SP_s8
  <2>1. op = 248 /\ cpu'.cycles = 3
    BY <1>17, CaseTakes DEF LD_HL_SP_s8
  <2> QED
    BY <2>1, FirstTimes, MiddleTimes, LastTimes DEF VariableOps
<1>18. CASE LD_A_r
  <2>1. op \in LoadOps /\ op # 118 /\ Reg8[y + 1] = "A" /\ cpu'.cycles = 1
    BY <1>18, CaseTakes DEF LD_A_r, Load
  <2>2. y = 7
    BY <2>1 DEF Reg8, OpDigits
  <2>3. op \in 120 .. 127
    BY <2>1, <2>2 DEF LoadOps, OpDigits
  <2> QED
    BY <2>1, <2>3, MiddleTimes DEF VariableOps
<1>19. CASE LD_B_r
  <2>1. op \in LoadOps /\ op # 118 /\ Reg8[y + 1] = "B" /\ z # 6 /\ cpu'.cycles = 1
    BY <1>19, CaseTakes DEF LD_B_r, Load
  <2>2. y # 6
    BY <2>1 DEF Reg8
  <2> QED
    BY <2>1, <2>2, LoadTimes
<1>20. CASE LD_C_r
  <2>1. op \in LoadOps /\ op # 118 /\ Reg8[y + 1] = "C" /\ z # 6 /\ cpu'.cycles = 1
    BY <1>20, CaseTakes DEF LD_C_r, Load
  <2>2. y # 6
    BY <2>1 DEF Reg8
  <2> QED
    BY <2>1, <2>2, LoadTimes
<1>21. CASE LD_D_r
  <2>1. op \in LoadOps /\ op # 118 /\ Reg8[y + 1] = "D" /\ z # 6 /\ cpu'.cycles = 1
    BY <1>21, CaseTakes DEF LD_D_r, Load
  <2>2. y # 6
    BY <2>1 DEF Reg8
  <2> QED
    BY <2>1, <2>2, LoadTimes
<1>22. CASE LD_E_r
  <2>1. op \in LoadOps /\ op # 118 /\ Reg8[y + 1] = "E" /\ z # 6 /\ cpu'.cycles = 1
    BY <1>22, CaseTakes DEF LD_E_r, Load
  <2>2. y # 6
    BY <2>1 DEF Reg8
  <2> QED
    BY <2>1, <2>2, LoadTimes
<1>23. CASE LD_H_r
  <2>1. op \in LoadOps /\ op # 118 /\ Reg8[y + 1] = "H" /\ z # 6 /\ cpu'.cycles = 1
    BY <1>23, CaseTakes DEF LD_H_r, Load
  <2>2. y # 6
    BY <2>1 DEF Reg8
  <2> QED
    BY <2>1, <2>2, LoadTimes
<1>24. CASE LD_L_r
  <2>1. op \in LoadOps /\ op # 118 /\ Reg8[y + 1] = "L" /\ z # 6 /\ cpu'.cycles = 1
    BY <1>24, CaseTakes DEF LD_L_r, Load
  <2>2. y # 6
    BY <2>1 DEF Reg8
  <2> QED
    BY <2>1, <2>2, LoadTimes
<1>25. CASE LD_r_HL
  <2>1. /\ op \in LoadOps /\ z = 6 /\ cpu'.cycles = 2
        /\ \E r \in {"B", "C", "D", "E", "H", "L"} : Reg8[y + 1] = r
    BY <1>25, CaseTakes DEF LD_r_HL, Load
  <2>2. y # 6 /\ y # 7
    BY <2>1 DEF Reg8
  <2> QED
    BY <2>1, <2>2, LoadTimes
<1>26. CASE LD_HL_r
  <2>1. op \in LoadOps /\ y = 6 /\ z # 6 /\ cpu'.cycles = 2
    BY <1>26, CaseTakes DEF LD_HL_r
  <2> QED
    BY <2>1, LoadTimes
<1>27. CASE LD_r_d8
  <2>1. op \in MiscOps /\ z = 6 /\ cpu'.cycles = IF y = 6 THEN 3 ELSE 2
    BY <1>27, CaseTakes DEF LD_r_d8
  <2>2. op = 8 * y + 6 /\ y \in 0 .. 7
    BY <2>1 DEF MiscOps, OpDigits
  <2>3. op \in {6, 14, 22, 30, 38, 46, 54, 62} /\ (op = 54 <=> y = 6)
    BY <2>2
  <2> QED
    BY <2>1, <2>3, FirstTimes DEF VariableOps
<1> QED
  BY <1>1, <1>2, <1>3, <1>4, <1>5, <1>6, <1>7, <1>8, <1>9, <1>10, <1>11, <1>12, <1>13, <1>14,
     <1>15, <1>16, <1>17, <1>18, <1>19, <1>20, <1>21, <1>22, <1>23, <1>24, <1>25, <1>26, <1>27,
     PTL  DEF Loads

LEMMA ArithmeticTimes ==
  ASSUME OpDigits, op \in ArithmeticOps
  PROVE  Base(op) = (IF z = 6 /\ y # 7 THEN 2 ELSE 1) /\ op \notin VariableOps
<1>1. y \in 0 .. 7 /\ z \in 0 .. 7 /\ op \in 128 .. 191 /\ op = 128 + 8 * y + z
  <2>1. op \in 128 .. 191 /\ op = 64 * (op \div 64) + 8 * y + z
    BY DEF ArithmeticOps, OpDigits
  <2>2. op \div 64 = 2
    BY <2>1
  <2> QED
    BY <2>1, <2>2 DEF OpDigits
<1> DEFINE m == op % 8
<1>2. Base(op) = IF op \in 112 .. 117 \cup {119} \/ (m = 6 /\ op \notin {118, 126, 190})
                   THEN 2 ELSE 1
  BY <1>1, MiddleTimes
<1> HIDE DEF m
<1>3. m = z
  BY DEF m, z
<1>4. op = 190 <=> y = 7 /\ z = 6
  BY <1>1
<1> QED
  BY <1>1, <1>2, <1>3, <1>4 DEF VariableOps

LEMMA ComputesTake ==
  ASSUME OpDigits, cpu' \in CPUState, Computes
  PROVE  cpu'.cycles = Base(op) /\ op \notin VariableOps
<1>1. CASE Arithmetic_A_r
  <2>1. PICK i, result, k : i \in 0 .. 7 /\ With_r(i, result, k) /\ k = (IF i = 7 THEN 1 ELSE 2)
    BY <1>1 DEF Arithmetic_A_r, ADD_A_r, ADC_A_r, SUB_r, SBC_A_r, AND_r, XOR_r, OR_r, CP_r
  <2>2. op \in ArithmeticOps /\ y = i /\ cpu'.cycles = IF z = 6 THEN k ELSE 1
    BY <2>1, CaseTakes DEF With_r
  <2> QED
    BY <2>1, <2>2, ArithmeticTimes
<1>2. CASE Arithmetic_A_d8
  <2>1. op \in ControlOps /\ z = 6 /\ cpu'.cycles = 2
    BY <1>2, CaseTakes DEF Arithmetic_A_d8
  <2>2. op = 64 * (op \div 64) + 8 * y + 6 /\ y \in 0 .. 7 /\ op \in 192 .. 255
    BY <2>1 DEF ControlOps, OpDigits
  <2>3. op \in {198, 206, 214, 222, 230, 238, 246, 254}
    BY <2>2
  <2> QED
    BY <2>1, <2>3, LastTimes DEF VariableOps
<1>3. CASE INC_DEC_r
  <2>1. op \in MiscOps /\ z \in {4, 5} /\ y # 6 /\ cpu'.cycles = 1
    BY <1>3, CaseTakes DEF INC_DEC_r
  <2>2. op = 8 * y + z /\ y \in 0 .. 7
    BY <2>1 DEF MiscOps, OpDigits
  <2>3. op \in {4, 5, 12, 13, 20, 21, 28, 29, 36, 37, 44, 45, 60, 61}
    BY <2>1, <2>2
  <2> QED
    BY <2>1, <2>3, FirstTimes DEF VariableOps
<1>4. CASE INC_DEC_mem_HL
  <2>1. op \in {52, 53}
    BY <1>4, PTL DEF INC_DEC_mem_HL
  <2>2. cpu'.cycles = 3
    BY <1>4, CaseTakes DEF INC_DEC_mem_HL
  <2> QED
    BY <2>1, <2>2, FirstTimes, LastTimes DEF VariableOps
<1>5. CASE INC_rr
  <2>1. op \in {3, 19, 35, 51}
    BY <1>5, PTL DEF INC_rr
  <2>2. cpu'.cycles = IF op = 3 THEN 1 ELSE 2
    BY <1>5, CaseTakes DEF INC_rr
  <2> QED
    BY <2>1, <2>2, FirstTimes, LastTimes DEF VariableOps
<1>6. CASE DEC_rr
  <2> DEFINE c == set16(cpu, rr_, (get16(cpu, rr_) - 1) % 65536)
  <2>1. op \in {11, 27, 43, 59} /\ Finish(c, 1, 2)
    BY <1>6, PTL DEF DEC_rr
  <2> HIDE DEF c
  <2>2. cpu'.cycles = 2
    BY <2>1, CaseTakes
  <2> QED
    BY <2>1, <2>2, FirstTimes, LastTimes DEF VariableOps
<1>7. CASE ADD_HL_rr
  <2>1. op \in {9, 25, 41, 57}
    BY <1>7, PTL DEF ADD_HL_rr
  <2>2. cpu'.cycles = 2
    BY <1>7, CaseTakes DEF ADD_HL_rr
  <2> QED
    BY <2>1, <2>2, FirstTimes, LastTimes DEF VariableOps
<1>8. CASE RotateA
  <2>1. op \in {7, 15, 23, 31}
    BY <1>8, PTL DEF RotateA
  <2>2. cpu'.cycles = 1
    BY <1>8, CaseTakes DEF RotateA
  <2> QED
    BY <2>1, <2>2, FirstTimes, LastTimes DEF VariableOps
<1>9. CASE DAA
  <2>1. op = 39
    BY <1>9, PTL DEF DAA
  <2>2. cpu'.cycles = 1
    BY <1>9, CaseTakes DEF DAA
  <2> QED
    BY <2>1, <2>2, FirstTimes, LastTimes DEF VariableOps
<1>10. CASE CPL
  <2>1. op = 47
    BY <1>10, PTL DEF CPL
  <2>2. cpu'.cycles = 1
    BY <1>10, CaseTakes DEF CPL
  <2> QED
    BY <2>1, <2>2, FirstTimes, LastTimes DEF VariableOps
<1>11. CASE SCF_CCF
  <2>1. op \in {55, 63}
    BY <1>11, PTL DEF SCF_CCF
  <2>2. cpu'.cycles = 1
    BY <1>11, CaseTakes DEF SCF_CCF
  <2> QED
    BY <2>1, <2>2, FirstTimes, LastTimes DEF VariableOps
<1> QED
  BY <1>1, <1>2, <1>3, <1>4, <1>5, <1>6, <1>7, <1>8, <1>9, <1>10, <1>11, Zenon DEF Computes

\* What is added for a condition: nothing, one cycle or three.
LEMMA NoExtra ==
  ASSUME memory' = memory, memory[0] = op,
         op \notin VariableOps \ {203}
  PROVE  Extra(memory[0])' = 0
BY DEF Extra, VariableOps

LEMMA ConditionExtra ==
  ASSUME memory' = memory, memory[0] = op, op \in Byte, cpu'.F = cpu.F
  PROVE  /\ op \in {32, 40, 48, 56, 194, 202, 210, 218} => Extra(memory[0])' = One(Taken)
         /\ op \in {196, 204, 212, 220, 192, 200, 208, 216} => Extra(memory[0])' = 3 * One(Taken)
<1>1. (op \div 8) % 4 = y % 4
  BY ByteIs DEF y
<1> DEFINE t == Condition(cpu.F, (op \div 8) % 4)
<1>2. t <=> Taken
  BY <1>1, Zenon DEF Taken
<1>3. Extra(memory[0])' = CASE op \in {32, 40, 48, 56, 194, 202, 210, 218} -> One(t)
                            [] op \in {196, 204, 212, 220, 192, 200, 208, 216} -> 3 * One(t)
                            [] OTHER -> 0
  BY Zenon DEF Extra
<1> HIDE DEF t
<1>4. One(t) = One(Taken)
  BY <1>2, Zenon DEF One
<1> QED
  BY <1>3, <1>4

LEMMA PlainCase ==
  ASSUME cpu \in CPUState, cpu' \in CPUState, NEW p, NEW n
  PROVE  /\ Finish(cpu, p, n) \/ Goto(cpu, p, n) => cpu'.cycles = n /\ cpu'.F = cpu.F
         /\ Goto(Pushed(cpu), p, n) => cpu'.cycles = n /\ cpu'.F = cpu.F
         /\ Goto(Popped(cpu), p, n) => cpu'.cycles = n /\ cpu'.F = cpu.F
<1>1. Pushed(cpu).F = cpu.F /\ Popped(cpu).F = cpu.F
  BY DEF Pushed, Popped, CPUState
<1> QED
  BY <1>1, CaseTakes, CaseKeepsF, Zenon

\* The conditional ones take longer when the condition is met.
LEMMA BranchesTake ==
  ASSUME OpDigits, cpu \in CPUState, cpu' \in CPUState, memory[0] = op, memory' = memory, Branches
  PROVE  cpu'.cycles = Base(op) + Extra(memory[0])' /\ op # 203
<1>1. CASE JR
  <2>1. op = 24
    BY <1>1, PTL DEF JR
  <2>2. cpu'.cycles = 2
    BY <1>1, CaseTakes DEF JR
  <2> QED
    BY <2>1, <2>2, FirstTimes, LastTimes, NoExtra DEF VariableOps
<1>2. CASE JP
  <2>1. op = 195
    BY <1>2, PTL DEF JP
  <2>2. cpu'.cycles = 4
    <3>1. Goto(cpu, d16, 4)
      BY <1>2, PTL DEF JP
    <3> QED
      BY <3>1, CaseTakes
  <2> QED
    BY <2>1, <2>2, FirstTimes, LastTimes, NoExtra DEF VariableOps
<1>3. CASE JP_HL
  <2>1. op = 233
    BY <1>3, PTL DEF JP_HL
  <2>2. cpu'.cycles = 1
    BY <1>3, CaseTakes DEF JP_HL
  <2> QED
    BY <2>1, <2>2, FirstTimes, LastTimes, NoExtra DEF VariableOps
<1>4. CASE CALL
  <2>1. op = 205
    BY <1>4, PTL DEF CALL
  <2>2. Goto(Pushed(cpu), d16, 6)
    BY <1>4, PTL DEF CALL, Call
  <2>3. cpu'.cycles = 6
    BY <2>2, CaseTakes
  <2> QED
    BY <2>1, <2>3, FirstTimes, LastTimes, NoExtra DEF VariableOps
<1>5. CASE RST
  <2>1. op \in ControlOps /\ z = 7
    BY <1>5, PTL DEF RST
  <2>2. op = 64 * (op \div 64) + 8 * y + 7 /\ y \in 0 .. 7 /\ op \in 192 .. 255
    BY <2>1 DEF ControlOps, OpDigits
  <2>3. op \in {199, 207, 215, 223, 231, 239, 247, 255}
    BY <2>2
  <2>4. cpu'.cycles = 4
    BY <1>5, CaseTakes DEF RST
  <2> QED
    BY <2>3, <2>4, LastTimes, NoExtra DEF VariableOps
<1>6. CASE RET
  <2>1. op = 201
    BY <1>6, PTL DEF RET
  <2>2. Goto(Popped(cpu), PopWord(cpu), 4)
    BY <1>6, PTL DEF RET
  <2>3. cpu'.cycles = 4
    BY <2>2, CaseTakes
  <2> QED
    BY <2>1, <2>3, FirstTimes, LastTimes, NoExtra DEF VariableOps
<1>7. CASE RETI
  <2>1. op = 217
    BY <1>7, PTL DEF RETI
  <2>2. Goto([Popped(cpu) EXCEPT !.IME = TRUE], PopWord(cpu), 4)
    BY <1>7, PTL DEF RETI
  <2>3. cpu'.cycles = 4
    BY <2>2, CaseTakes
  <2> QED
    BY <2>1, <2>3, FirstTimes, LastTimes, NoExtra DEF VariableOps
<1>8. CASE PUSH
  <2>1. op \in {197, 213, 229, 245}
    BY <1>8, PTL DEF PUSH
  <2>2. Finish(Pushed(cpu), 1, 4)
    BY <1>8, PTL DEF PUSH
  <2>3. cpu'.cycles = 4
    BY <2>2, CaseTakes
  <2> QED
    BY <2>1, <2>3, FirstTimes, LastTimes, NoExtra DEF VariableOps
<1>9. CASE POP
  <2>1. op \in {193, 209, 225, 241}
    BY <1>9, PTL DEF POP
  <2>2. Finish(setStack(Popped(cpu), rr_, PopWord(cpu)), 1, 3)
    BY <1>9, PTL DEF POP
  <2>3. cpu'.cycles = 3
    BY <2>2, CaseTakes
  <2> QED
    BY <2>1, <2>3, FirstTimes, LastTimes, NoExtra DEF VariableOps
<1>10. CASE DI_EI
  <2>1. op \in {243, 251}
    BY <1>10, PTL DEF DI_EI
  <2> DEFINE c == [cpu EXCEPT !.IME = (op = 251)]
  <2>2. Finish(c, 1, 1)
    BY <1>10, PTL DEF DI_EI
  <2> HIDE DEF c
  <2>3. cpu'.cycles = 1
    BY <2>2, CaseTakes
  <2> QED
    BY <2>1, <2>3, FirstTimes, LastTimes, NoExtra DEF VariableOps
<1>11. CASE JR_cc
  <2>1. op \in {32, 40, 48, 56}
    BY <1>11, PTL DEF JR_cc
  <2>2. /\ cpu'.F = cpu.F
        /\ (Taken /\ cpu'.cycles = 3) \/ (~Taken /\ cpu'.cycles = 2)
    <3>1. CASE Taken
      <4>1. Goto(cpu, Relative(cpu.PC), 3)
        BY <1>11, <3>1, Zenon DEF JR_cc
      <4> QED
        BY <3>1, <4>1, PlainCase, Zenon
    <3>2. CASE ~Taken
      <4>1. Finish(cpu, 2, 2)
        BY <1>11, <3>2, Zenon DEF JR_cc
      <4> QED
        BY <3>2, <4>1, PlainCase, Zenon
    <3> QED
      BY <3>1, <3>2
  <2>3. (Taken => One(Taken) = 1) /\ (~Taken => One(Taken) = 0)
    BY Zenon DEF One
  <2> QED
    BY <2>1, <2>2, <2>3, FirstTimes, LastTimes, ConditionExtra DEF OpDigits
<1>12. CASE JP_cc
  <2>1. op \in {194, 202, 210, 218}
    BY <1>12, PTL DEF JP_cc
  <2>2. /\ cpu'.F = cpu.F
        /\ (Taken /\ cpu'.cycles = 4) \/ (~Taken /\ cpu'.cycles = 3)
    <3>1. CASE Taken
      <4>1. Goto(cpu, d16, 4)
        BY <1>12, <3>1, Zenon DEF JP_cc
      <4> QED
        BY <3>1, <4>1, PlainCase, Zenon
    <3>2. CASE ~Taken
      <4>1. Finish(cpu, 3, 3)
        BY <1>12, <3>2, Zenon DEF JP_cc
      <4> QED
        BY <3>2, <4>1, PlainCase, Zenon
    <3> QED
      BY <3>1, <3>2
  <2>3. (Taken => One(Taken) = 1) /\ (~Taken => One(Taken) = 0)
    BY Zenon DEF One
  <2> QED
    BY <2>1, <2>2, <2>3, FirstTimes, LastTimes, ConditionExtra DEF OpDigits
<1>13. CASE CALL_cc
  <2>1. op \in {196, 204, 212, 220}
    BY <1>13, PTL DEF CALL_cc
  <2>2. /\ cpu'.F = cpu.F
        /\ (Taken /\ cpu'.cycles = 6) \/ (~Taken /\ cpu'.cycles = 3)
    <3>1. CASE Taken
      <4>1. Call
        BY <1>13, <3>1, Zenon DEF CALL_cc
      <4>2. Goto(Pushed(cpu), d16, 6)
        BY <4>1, PTL DEF Call
      <4> QED
        BY <3>1, <4>2, PlainCase, Zenon
    <3>2. CASE ~Taken
      <4>1. Finish(cpu, 3, 3)
        BY <1>13, <3>2, Zenon DEF CALL_cc
      <4> QED
        BY <3>2, <4>1, PlainCase, Zenon
    <3> QED
      BY <3>1, <3>2
  <2>3. (Taken => One(Taken) = 1) /\ (~Taken => One(Taken) = 0)
    BY Zenon DEF One
  <2> QED
    BY <2>1, <2>2, <2>3, FirstTimes, LastTimes, ConditionExtra DEF OpDigits
<1>14. CASE RET_cc
  <2>1. op \in {192, 200, 208, 216}
    BY <1>14, PTL DEF RET_cc
  <2>2. /\ cpu'.F = cpu.F
        /\ (Taken /\ cpu'.cycles = 5) \/ (~Taken /\ cpu'.cycles = 2)
    <3>1. CASE Taken
      <4>1. Goto(Popped(cpu), PopWord(cpu), 5)
        BY <1>14, <3>1, Zenon DEF RET_cc
      <4> QED
        BY <3>1, <4>1, PlainCase, Zenon
    <3>2. CASE ~Taken
      <4>1. Finish(cpu, 1, 2)
        BY <1>14, <3>2, Zenon DEF RET_cc
      <4> QED
        BY <3>2, <4>1, PlainCase, Zenon
    <3> QED
      BY <3>1, <3>2
  <2>3. (Taken => One(Taken) = 1) /\ (~Taken => One(Taken) = 0)
    BY Zenon DEF One
  <2> QED
    BY <2>1, <2>2, <2>3, FirstTimes, LastTimes, ConditionExtra DEF OpDigits
<1> QED
  BY <1>1, <1>2, <1>3, <1>4, <1>5, <1>6, <1>7, <1>8, <1>9, <1>10, <1>11, <1>12, <1>13, <1>14,
     Zenon  DEF Branches

LEMMA PrefixedTake ==
  ASSUME cpu' \in CPUState, Prefixed, d8 \in Byte
  PROVE  cpu'.cycles = Ref!cycles_per_instruction_cb(d8) /\ op = 203
<1>1. op = 203
  BY PTL DEF Prefixed, CB_RotateShift, CB_BIT, CB_RES, CB_SET
<1>2. Ref!cycles_per_instruction_cb(d8)
        = IF regOf # 6 THEN 2 ELSE IF d8 \in BitOps THEN 3 ELSE 4
  BY Zenon DEF Ref!cycles_per_instruction_cb, regOf, BitOps
<1>3. \A c, v : CB_Write(c, v) => cpu'.cycles = IF regOf = 6 THEN 4 ELSE 2
  BY CaseTakes, Zenon DEF CB_Write
<1>4. CASE CB_BIT
  <2>1. d8 \in BitOps /\ cpu'.cycles = IF regOf = 6 THEN 3 ELSE 2
    BY <1>4, CaseTakes DEF CB_BIT
  <2> QED
    BY <1>1, <1>2, <2>1
<1>5. CASE CB_RotateShift \/ CB_RES \/ CB_SET
  <2>1. d8 \in ShiftOps \cup ResOps \cup SetOps
    BY <1>5, Zenon DEF CB_RotateShift, CB_RES, CB_SET
  <2>2. d8 \notin BitOps
    BY <2>1 DEF ShiftOps, ResOps, SetOps, BitOps
  <2>3. cpu'.cycles = IF regOf = 6 THEN 4 ELSE 2
    <3>1. CB_RotateShift => \E c, v : CB_Write(c, v)
      BY DEF CB_RotateShift
    <3>2. CB_RES \/ CB_SET => \E c, v : CB_Write(c, v)
      BY Zenon DEF CB_RES, CB_SET
    <3> QED
      BY <1>3, <1>5, <3>1, <3>2, Zenon
  <2> QED
    BY <1>1, <1>2, <2>2, <2>3
<1> QED
  BY <1>4, <1>5, Zenon DEF Prefixed

\* After an instruction that starts at the first byte of the program.
LEMMA TickTakes ==
  ASSUME Paired, memory[1] = d8, tick, cpu' \in CPUState, memory' = memory
  PROVE  cpu'.cycles = Due'
<1>1. op \in Byte /\ d8 \in Byte /\ cpu \in CPUState /\ memory[0] = op
  BY AlignedParts, Reads DEF Paired, op, d8
<1>2. OpDigits
  BY <1>1, Octal, Zenon DEF OpDigits, y, z
<1>3. ~LD_a8_A_HandOver
  BY PTL DEF LD_a8_A_HandOver, Paired
<1>4. op # 203 => Due' = Base(op) + Extra(memory[0])'
  <2>1. Ref!cycles_per_instruction(op) \in Int
    BY <1>1, TimeIs
  <2>2. Extra(memory[0])' \in Int
    BY DEF Extra, One
  <2> QED
    BY <1>1, <2>1, <2>2 DEF Due, Tabled, Base
<1>5. op = 203 => Due' = Ref!cycles_per_instruction_cb(d8)
  BY <1>1 DEF Due, Tabled
<1>6. CASE Loads \/ Computes
  <2>1. cpu'.cycles = Base(op) /\ op \notin VariableOps
    BY <1>2, <1>3, <1>6, LoadsTake, ComputesTake, Zenon
  <2>2. Extra(memory[0])' = 0 /\ op # 203
    BY <1>1, <2>1, NoExtra DEF VariableOps
  <2>3. Base(op) \in Int
    BY <1>1, TimeIs
  <2> QED
    BY <1>4, <2>1, <2>2, <2>3
<1>7. CASE Branches
  BY <1>1, <1>2, <1>4, <1>7, BranchesTake
<1>8. CASE Prefixed
  BY <1>1, <1>5, <1>8, PrefixedTake
<1> QED
  BY <1>6, <1>7, <1>8, Zenon DEF tick

\* No instruction of the tester writes to the program.
LEMMA ProgramKept ==
  ASSUME TesterSettings, TesterInv, phase = "step", tick
  PROVE  memory' = memory
<1>1. Fetches /\ MemoryTyped /\ cpu \in CPUState
  BY TesterFetches DEF TesterInv
<1>2. ~LD_a8_A_HandOver
  BY DEF LD_a8_A_HandOver, TesterSettings
<1>3. Kept
  BY <1>1, <1>2, TickKeeps
<1>4. NoStore => memory' = memory
  BY DEF NoStore
<1>5. \A ws : Write(ws) => memory' = memory
  BY DEF Write, TesterSettings
<1> QED
  BY <1>3, <1>4, <1>5, Zenon DEF Kept, Recorded

\* The second byte of the program is the operand or the prefixed opcode.
CycleInv ==
  /\ AgreeInv
  /\ phase = "step" => memory[1] = d8
  /\ phase = "compare" => cpu.cycles = Due

LEMMA CycleSteps == ASSUME TesterSettings PROVE CycleInv /\ [TestNext]_testVars => CycleInv'
<1> SUFFICES ASSUME CycleInv, [TestNext]_testVars
             PROVE  CycleInv'
  OBVIOUS
<1>0. AgreeInv' /\ TesterInv' /\ TesterInv
  BY AgreeSteps DEF CycleInv, AgreeInv
<1>1. CASE NextInput
  <2>1. PICK g \in Registers, a \in AValues, f \in FlagBytes : cpu' = SetState(g, a, f)
    BY <1>1 DEF NextInput
  <2>2. cpu'.PC = 0
    BY <2>1, Zenon DEF SetState, ZeroState
  <2>3. phase' = "step"
    BY <1>1 DEF NextInput
  <2>4. MEM_SIZE \in Nat /\ MEM_SIZE > 2 /\ memory' \in [0 .. MEM_SIZE - 1 -> Byte]
    BY <1>0 DEF TesterInv, TesterSettings
  <2>5. d8' = memory'[1]
    BY <2>2, <2>4 DEF d8, Next16, readByte
  <2> QED
    BY <1>0, <2>3, <2>5 DEF CycleInv
<1>2. CASE run_state
  <2>1. phase = "step" /\ tick /\ phase' = "compare"
    BY <1>2 DEF run_state
  <2>2. memory' = memory
    BY <1>0, <2>1, ProgramKept
  <2>3. Paired /\ memory[1] = d8
    BY <2>1 DEF CycleInv, AgreeInv
  <2>4. cpu'.cycles = Due'
    BY <1>0, <2>1, <2>2, <2>3, TickTakes DEF TesterInv
  <2> QED
    BY <1>0, <2>1, <2>4 DEF CycleInv
<1>3. CASE NextTest
  BY <1>0, <1>3 DEF NextTest, CycleInv
<1>4. CASE UNCHANGED testVars
  <2>1. cpu' = cpu /\ memory' = memory /\ phase' = phase
    BY <1>4 DEF testVars, cpuVars
  <2>2. Due' = Due /\ d8' = d8
    BY <2>1 DEF Due, Tabled, Extra, d8, readByte
  <2> QED
    BY <1>0, <2>1, <2>2 DEF CycleInv
<1> QED
  BY <1>1, <1>2, <1>3, <1>4 DEF TestNext

\* Every case of executeInstruction adds the cycles of the table of the
\* reference but the five opcodes of CyclesAsTabled.
THEOREM CyclesFollowTable == ASSUME TesterSettings PROVE TestSpec => []CyclesAsTabled
<1>1. TestInit => CycleInv
  <2>1. TestInit => phase = "input"
    BY DEF TestInit
  <2> QED
    BY <2>1, TesterStarts DEF CycleInv, AgreeInv
<1>2. CycleInv => CyclesAsTabled
  BY Zenon DEF CycleInv, CyclesAsTabled
<1> QED
  BY <1>1, <1>2, CycleSteps, PTL DEF TestSpec
=============================================================================
