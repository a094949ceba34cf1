-------------------------- MODULE Interrupts_proofs --------------------------
(***************************************************************************)
(* Proofs about Interrupts, for every program of the shape described       *)
(* there, every length of its parts and any nesting of its handlers:       *)
(*  - the frames on the stack always match the handlers entered;           *)
(*  - without EI in the handlers, none is ever interrupted;                *)
(*  - handlers are transparent to the main loop: Interrupts implements     *)
(*    Program.                                                             *)
(* FramesMatch is the inductive invariant.  NoNesting and Transparent are  *)
(* not inductive without it: which frame a return pops depends on how the  *)
(* stack came about.                                                       *)
(***************************************************************************)
EXTENDS Interrupts, SequenceTheorems, TLAPS

-----------------------------------------------------------------------------
(* Sequences of numbers as stacks.                                          *)

LEMMA PushFacts ==
  ASSUME NEW s \in Seq(Nat), NEW e \in Nat
  PROVE  /\ Append(s, e) \in Seq(Nat) /\ Len(Append(s, e)) = Len(s) + 1
         /\ \A i \in 1 .. Len(s) : Append(s, e)[i] = s[i]
         /\ Append(s, e)[Len(s) + 1] = e
  OBVIOUS

LEMMA PopFacts ==
  ASSUME NEW s \in Seq(Nat), s # << >>
  PROVE  LET n == Len(s) - 1
             t == SubSeq(s, 1, n)
         IN  /\ n \in Nat /\ n + 1 = Len(s) /\ s[n + 1] \in Nat
             /\ t \in Seq(Nat) /\ Len(t) = n
             /\ \A i \in 1 .. n : t[i] = s[i]
<1> DEFINE n == Len(s) - 1
           t == SubSeq(s, 1, n)
<1>1. Len(s) \in Nat \ {0} BY EmptySeq
<1>2. n \in Nat /\ n + 1 = Len(s) /\ s[n + 1] \in Nat BY <1>1, ElementOfSeq
<1>3. \A i \in 1 .. n : s[i] \in Nat BY <1>1, ElementOfSeq
<1>4. /\ t \in Seq(Nat)
      /\ Len(t) = IF 1 <= n THEN n - 1 + 1 ELSE 0
      /\ \A i \in 1 .. n - 1 + 1 : t[i] = s[1 + i - 1]
  BY <1>2, <1>3, SubSeqProperties
<1>5. Len(t) = n BY <1>2, <1>4
<1>6. \A i \in 1 .. n : t[i] = s[i] BY <1>2, <1>4
<1> QED BY <1>2, <1>4, <1>5, <1>6

LEMMA PrefixEqual ==
  ASSUME NEW s \in Seq(Nat), NEW t \in Seq(Nat), NEW n \in Nat,
         n <= Len(s), n <= Len(t), \A i \in 1 .. n : s[i] = t[i]
  PROVE  SubSeq(s, 1, n) = SubSeq(t, 1, n)
<1>1. (\A i \in 1 .. n : s[i] \in Nat) /\ (\A i \in 1 .. n : t[i] \in Nat)
  BY ElementOfSeq
<1>2. /\ SubSeq(s, 1, n) \in Seq(Nat) /\ SubSeq(t, 1, n) \in Seq(Nat)
      /\ Len(SubSeq(s, 1, n)) = (IF 1 <= n THEN n - 1 + 1 ELSE 0)
      /\ Len(SubSeq(t, 1, n)) = (IF 1 <= n THEN n - 1 + 1 ELSE 0)
      /\ \A i \in 1 .. n - 1 + 1 : SubSeq(s, 1, n)[i] = s[1 + i - 1]
      /\ \A i \in 1 .. n - 1 + 1 : SubSeq(t, 1, n)[i] = t[1 + i - 1]
  BY <1>1, SubSeqProperties
<1>3. Len(SubSeq(s, 1, n)) = n /\ Len(SubSeq(t, 1, n)) = n BY <1>2
<1>4. \A i \in 1 .. n : SubSeq(s, 1, n)[i] = SubSeq(t, 1, n)[i] BY <1>2
<1> QED BY <1>2, <1>3, <1>4, SeqEqual

-----------------------------------------------------------------------------
(* Frames.                                                                  *)

\* Whether an address fits depends on the last frame and the top of the stack.
LEMMA BaseKept ==
  ASSUME NEW hs \in Seq(Nat), NEW hs2, NEW level \in Nat,
         level <= Len(hs),
         level >= 1 => hs2[level] = hs[level]
  PROVE  Base(hs2, level) = Base(hs, level) /\ Base(hs, level) \in Nat
<1>1. CASE level = 0 BY <1>1 DEF Base
<1>2. CASE level # 0
  <2>1. level \in 1 .. Len(hs) BY <1>2
  <2>2. PICK g \in Nat : g = hs[level] BY <2>1, ElementOfSeq
  <2>3. g + 1 \in Nat /\ hs2[level] = g BY <2>1, <2>2
  <2> QED BY <1>2, <2>2, <2>3 DEF Base
<1> QED BY <1>1, <1>2

LEMMA FitsKept ==
  ASSUME NEW hs \in Seq(Nat), NEW hs2, NEW st, NEW st2,
         NEW level \in Nat, NEW a, NEW n \in Nat,
         level <= Len(hs),
         level >= 1 => hs2[level] = hs[level],
         n >= 1 => st2[n] = st[n],
         Fits(hs, st, level, a, n)
  PROVE  Fits(hs2, st2, level, a, n)
<1>1. Base(hs2, level) = Base(hs, level) /\ Base(hs, level) \in Nat
  BY BaseKept
<1>2. CASE a \in CodeOf(level) /\ n = Base(hs, level)
  BY <1>2, <1>1 DEF Fits
<1>3. CASE a = SubStart /\ n = Base(hs, level) + 1 /\ st[n] \in CodeOf(level)
  <2>1. n >= 1 BY <1>3, <1>1
  <2> QED BY <1>3, <2>1, <1>1 DEF Fits
<1> QED BY <1>2, <1>3 DEF Fits

\* Frames depends on the part of the stack below its last frame only.
LEMMA FramesKept ==
  ASSUME NEW hs \in Seq(Nat), NEW hs2 \in Seq(Nat),
         NEW st \in Seq(Nat), NEW st2 \in Seq(Nat), NEW n \in Nat, NEW m \in Nat,
         n <= Len(hs), n <= Len(hs2), m <= Len(st), m <= Len(st2),
         \A j \in 1 .. n : hs2[j] = hs[j] /\ hs[j] < m,
         \A i \in 1 .. m : st2[i] = st[i],
         Frames(hs, st, n)
  PROVE  Frames(hs2, st2, n)
<1> SUFFICES ASSUME NEW j \in 1 .. n
             PROVE  /\ hs2[j] < Len(st2)
                    /\ Fits(hs2, st2, j - 1, st2[hs2[j] + 1], hs2[j])
                    /\ \A i \in 1 .. j - 1 : hs2[i] < hs2[j]
  BY DEF Frames
<1>0. j \in Nat /\ j >= 1 /\ j <= n /\ j \in 1 .. Len(hs)
  OBVIOUS
<1>1. hs[j] \in Nat BY <1>0, ElementOfSeq
<1>2. PICK h \in Nat : h = hs[j] BY <1>1
<1>3. hs2[j] = h /\ h < m BY <1>2
<1>4. h + 1 \in 1 .. m BY <1>3
<1>5. st2[h + 1] = st[h + 1] BY <1>4
<1>6. h >= 1 => st2[h] = st[h]
  <2>1. h >= 1 => h \in 1 .. m BY <1>4
  <2> QED BY <2>1
<1>7. Fits(hs, st, j - 1, st[h + 1], h) BY <1>2 DEF Frames
<1>8. /\ j - 1 \in Nat /\ j - 1 <= Len(hs) /\ j - 1 <= Len(hs2)
      /\ j - 1 >= 1 => hs2[j - 1] = hs[j - 1]
  <2>1. j - 1 \in Nat /\ j - 1 <= Len(hs) /\ j - 1 <= Len(hs2) BY <1>0
  <2>2. j - 1 >= 1 => j - 1 \in 1 .. n BY <1>0
  <2> QED BY <2>1, <2>2
<1>9. Fits(hs2, st2, j - 1, st2[h + 1], h)
  <2> DEFINE k == j - 1
  <2>1. k \in Nat /\ k <= Len(hs) /\ k <= Len(hs2) /\ (k >= 1 => hs2[k] = hs[k])
    BY <1>8
  <2>2. Fits(hs, st, k, st2[h + 1], h) BY <1>5, <1>7
  <2> HIDE DEF k
  <2>3. Fits(hs2, st2, k, st2[h + 1], h)
    BY <1>6, <2>1, <2>2, FitsKept, Zenon
  <2> QED BY <2>3 DEF k
<1>10. ASSUME NEW i \in 1 .. j - 1 PROVE hs2[i] < hs2[j]
  <2>1. i \in 1 .. n BY <1>0
  <2>2. hs2[i] = hs[i] BY <2>1
  <2>3. hs[i] < hs[j] BY DEF Frames
  <2> QED BY <2>2, <2>3, <1>2, <1>3
<1>11. hs2[j] < Len(st2) BY <1>3
<1> QED BY <1>2, <1>3, <1>9, <1>10, <1>11

-----------------------------------------------------------------------------
(* Addresses.                                                               *)

LEMMA VectorRange == \A s \in Sources : Vector(s) \in 64 .. 96
  BY DEF Sources, Vector, Rank

\* The main loop, the handlers and the subroutine do not overlap.
LEMMA CodeApart ==
  /\ Main \subseteq Nat /\ Handlers \subseteq Nat /\ SubStart \in Nat
  /\ \A a \in Handlers : a \notin Main /\ a # SubStart
  /\ SubStart \notin Main
<1>1. ASSUME NEW a \in Handlers PROVE a \in 64 .. 103
  <2>1. PICK s \in Sources, k \in 0 .. HandlerLen : a = Vector(s) + k
    BY DEF Handlers
  <2>2. HandlerLen <= 7 /\ HandlerLen \in Nat BY InterruptsAssumption
  <2>3. PICK v \in 64 .. 96 : v = Vector(s) BY VectorRange
  <2> QED BY <2>1, <2>2, <2>3
<1> QED BY <1>1, InterruptsAssumption DEF Main

\* An instruction that is not a return is followed by one of the same level.
LEMMA AfterFits ==
  ASSUME NEW op, TypeOK, FramesMatch, Has(op)
  PROVE  LET n == Len(interrupted)
         IN  /\ PC \in CodeOf(n) /\ Len(stack) = Base(interrupted, n)
             /\ AfterPC \in CodeOf(n) /\ AfterPC \in Nat
             /\ PC \in Main => AfterPC = (IF PC = MainStart + MainLen - 1
                                           THEN MainStart ELSE PC + 1)
             /\ n = 0 <=> PC \in Main
<1> DEFINE n == Len(interrupted)
<1>0. n \in Nat BY DEF TypeOK
<1>1. PC \in Main \/ PC \in Handlers
  <2>1. CASE InMain BY <2>1 DEF InMain
  <2>2. CASE \E k \in 0 .. HandlerLen - 1 : InHandler(k)
    BY <2>2, InterruptsAssumption DEF InHandler, Handlers
  <2> QED BY <2>1, <2>2 DEF Has
<1>2. PC # SubStart BY <1>1, CodeApart
<1>3. PC \in CodeOf(n) /\ Len(stack) = Base(interrupted, n)
  BY <1>2 DEF FramesMatch, Fits
<1>4. n = 0 <=> PC \in Main
  BY <1>0, <1>3, CodeApart DEF CodeOf
<1>5. CASE PC \in Main
  <2>1. AfterPC \in Main
    BY <1>5, InterruptsAssumption DEF AfterPC, Main
  <2> QED BY <1>3, <1>4, <1>5, <2>1, CodeApart DEF CodeOf, AfterPC
<1>6. CASE PC \notin Main
  <2>1. \E k \in 0 .. HandlerLen - 1 : InHandler(k)
    BY <1>6 DEF Has, InMain
  <2>2. PICK s \in Sources, k \in 0 .. HandlerLen - 1 : PC = Vector(s) + k
    BY <2>1 DEF InHandler
  <2>3. PICK v \in 64 .. 96 : v = Vector(s) BY VectorRange
  <2>4. AfterPC = v + (k + 1) /\ k + 1 \in 0 .. HandlerLen
    <3>1. PC = v + k /\ PC < 104 BY <2>2, <2>3, InterruptsAssumption
    <3>2. PC # MainStart + MainLen - 1 BY <3>1, InterruptsAssumption
    <3>3. AfterPC = PC + 1 BY <3>2 DEF AfterPC
    <3> QED BY <3>1, <3>3, InterruptsAssumption
  <2>5. AfterPC \in Handlers BY <2>3, <2>4 DEF Handlers
  <2> QED BY <1>3, <1>4, <1>6, <2>5, CodeApart DEF CodeOf
<1> QED BY <1>5, <1>6

-----------------------------------------------------------------------------
(* Each kind of step preserves FramesMatch.                                 *)

\* Facts about the state all of them use.
LEMMA StateFacts ==
  ASSUME TypeOK, FramesMatch
  PROVE  LET n == Len(interrupted)
         IN  /\ n \in Nat /\ Len(stack) \in Nat
             /\ interrupted \in Seq(Nat) /\ stack \in Seq(Nat) /\ PC \in Nat
             /\ Base(interrupted, n) \in Nat
             /\ \A j \in 1 .. n : interrupted[j] \in Nat /\ interrupted[j] < Len(stack)
             /\ \A j \in 1 .. n : j < n => interrupted[j] < interrupted[n]
<1> DEFINE n == Len(interrupted)
<1>1. n \in Nat /\ Len(stack) \in Nat /\ interrupted \in Seq(Nat) /\ stack \in Seq(Nat)
      /\ PC \in Nat
  BY DEF TypeOK
<1>2. \A j \in 1 .. n : interrupted[j] \in Nat BY <1>1, ElementOfSeq
<1>3. \A j \in 1 .. n : interrupted[j] < Len(stack)
  BY DEF FramesMatch, Frames
<1>4. ASSUME NEW j \in 1 .. n, j < n PROVE interrupted[j] < interrupted[n]
  <2>1. n \in 1 .. n /\ j \in 1 .. n - 1 BY <1>1, <1>4
  <2> QED BY <2>1 DEF FramesMatch, Frames
<1>5. Base(interrupted, n) \in Nat
  BY <1>1, BaseKept
<1> QED BY <1>1, <1>2, <1>3, <1>4, <1>5

LEMMA JumpInv ==
  ASSUME TypeOK, FramesMatch, UNCHANGED <<stack, interrupted>>,
         Len(stack) = Base(interrupted, Len(interrupted)),
         PC' \in CodeOf(Len(interrupted))
  PROVE  FramesMatch'
  BY DEF FramesMatch, Fits

LEMMA CallInv ==
  ASSUME TypeOK, FramesMatch, CALL
  PROVE  FramesMatch' /\ stack' \in Seq(Nat) /\ PC' \in Nat
<1> DEFINE n == Len(interrupted)
           l == Len(stack)
<1>1. /\ Len(stack) = Base(interrupted, n) /\ AfterPC \in CodeOf(n) /\ AfterPC \in Nat
      /\ stack' = Append(stack, AfterPC) /\ PC' = SubStart /\ interrupted' = interrupted
  BY AfterFits DEF CALL, Push
<1>2. /\ stack' \in Seq(Nat) /\ Len(stack') = l + 1
      /\ \A i \in 1 .. l : stack'[i] = stack[i]
      /\ stack'[l + 1] = AfterPC
  BY <1>1, PushFacts, StateFacts
<1>3. l \in Nat /\ n \in Nat /\ \A j \in 1 .. n : interrupted[j] < l
  BY StateFacts
<1>4. Frames(interrupted, stack', n)
  <2>1. Frames(interrupted, stack, n) BY DEF FramesMatch
  <2>2. l <= Len(stack') BY <1>2, <1>3
  <2>3. /\ interrupted \in Seq(Nat) /\ stack \in Seq(Nat)
        /\ n <= Len(interrupted) /\ l <= Len(stack)
        /\ \A j \in 1 .. n : interrupted[j] = interrupted[j] /\ interrupted[j] < l
    BY <1>3, StateFacts
  <2> HIDE DEF l, n
  <2> QED BY <1>2, <1>3, <2>1, <2>2, <2>3, FramesKept, Zenon
<1>5. Fits(interrupted, stack', n, SubStart, l + 1)
  BY <1>1, <1>2 DEF Fits
<1> QED BY <1>1, <1>2, <1>4, <1>5, CodeApart DEF FramesMatch

LEMMA EnterHandlerInv ==
  ASSUME TypeOK, FramesMatch, NEW s \in Sources, EnterHandler(s)
  PROVE  FramesMatch' /\ stack' \in Seq(Nat) /\ interrupted' \in Seq(Nat) /\ PC' \in Nat
<1> DEFINE n == Len(interrupted)
           l == Len(stack)
<1>1. /\ stack' = Append(stack, PC) /\ PC' = Vector(s)
      /\ interrupted' = Append(interrupted, l)
  BY DEF EnterHandler, Push
<1>2. /\ stack' \in Seq(Nat) /\ Len(stack') = l + 1
      /\ \A i \in 1 .. l : stack'[i] = stack[i]
      /\ stack'[l + 1] = PC
  BY <1>1, PushFacts, StateFacts
<1>3. /\ interrupted' \in Seq(Nat) /\ Len(interrupted') = n + 1
      /\ \A i \in 1 .. n : interrupted'[i] = interrupted[i]
      /\ interrupted'[n + 1] = l
  BY <1>1, PushFacts, StateFacts
<1>4. l \in Nat /\ n \in Nat /\ \A j \in 1 .. n : interrupted[j] < l
  BY StateFacts
<1>5. Frames(interrupted', stack', n)
  <2>1. Frames(interrupted, stack, n) BY DEF FramesMatch
  <2>2. l <= Len(stack') /\ n <= Len(interrupted') BY <1>2, <1>3, <1>4
  <2>3. /\ interrupted \in Seq(Nat) /\ stack \in Seq(Nat)
        /\ n <= Len(interrupted) /\ l <= Len(stack)
        /\ \A j \in 1 .. n : interrupted'[j] = interrupted[j] /\ interrupted[j] < l
    BY <1>3, <1>4, StateFacts
  <2> HIDE DEF l, n
  <2>4. interrupted' \in Seq(Nat) /\ stack' \in Seq(Nat) /\ n \in Nat /\ l \in Nat
        /\ \A i \in 1 .. l : stack'[i] = stack[i]
    BY <1>2, <1>3, <1>4
  <2> QED BY <2>1, <2>2, <2>3, <2>4, FramesKept, Zenon
<1>6. Fits(interrupted', stack', n, PC, l)
  <2>1. Fits(interrupted, stack, n, PC, l) BY DEF FramesMatch
  <2>2. (n >= 1 => interrupted'[n] = interrupted[n]) /\ (l >= 1 => stack'[l] = stack[l])
        /\ n <= Len(interrupted')
    BY <1>2, <1>3, <1>4
  <2>3. interrupted \in Seq(Nat) /\ n <= Len(interrupted) BY <1>4, StateFacts
  <2> HIDE DEF l, n
  <2> QED BY <1>3, <1>4, <2>1, <2>2, <2>3, FitsKept, Zenon
<1>7. Frames(interrupted', stack', n + 1)
  <2>1. ASSUME NEW j \in 1 .. n + 1
        PROVE  /\ interrupted'[j] < Len(stack')
               /\ Fits(interrupted', stack', j - 1, stack'[interrupted'[j] + 1], interrupted'[j])
               /\ \A i \in 1 .. j - 1 : interrupted'[i] < interrupted'[j]
    <3>1. CASE j = n + 1
      <4>1. j - 1 = n /\ interrupted'[j] = l BY <3>1, <1>3, <1>4
      <4>2. l < Len(stack') BY <1>2, <1>4
      <4>3. \A i \in 1 .. n : interrupted'[i] < l BY <1>3, <1>4
      <4> QED BY <4>1, <4>2, <4>3, <1>2, <1>6
    <3>2. CASE j # n + 1
      <4>1. j \in 1 .. n BY <3>2, <1>4
      <4> QED BY <4>1, <1>5 DEF Frames
    <3> QED BY <3>1, <3>2
  <2> QED BY <2>1 DEF Frames
<1>8. Fits(interrupted', stack', n + 1, Vector(s), l + 1)
  <2>1. Base(interrupted', n + 1) = l + 1 BY <1>3, <1>4 DEF Base
  <2>2. Vector(s) \in CodeOf(n + 1)
    <3>1. PICK v \in 64 .. 96 : v = Vector(s) BY VectorRange
    <3>2. Vector(s) = Vector(s) + 0 /\ 0 \in 0 .. HandlerLen
      BY <3>1, InterruptsAssumption
    <3>3. Vector(s) \in Handlers BY <3>2 DEF Handlers
    <3> QED BY <3>3, <1>4 DEF CodeOf
  <2> QED BY <2>1, <2>2 DEF Fits
<1>9. PC' \in Nat
  <2>1. PICK v \in 64 .. 96 : v = Vector(s) BY VectorRange
  <2>2. PC' = v BY <1>1, <2>1
  <2>3. v \in Nat OBVIOUS
  <2> QED BY <2>2, <2>3
<1> QED BY <1>1, <1>2, <1>3, <1>7, <1>8, <1>9 DEF FramesMatch

\* Which frame a return pops: that of the call, from the subroutine, and that
\* of the last handler, from a handler.
LEMMA ReturnCases ==
  ASSUME TypeOK, FramesMatch, PopPC, NEW op, AtReturn(op)
  PROVE  LET n == Len(interrupted)
             height == Len(stack) - 1
         IN  /\ height \in Nat /\ stack' = SubSeq(stack, 1, height)
             /\ PC' = stack[height + 1] /\ PC' \in Nat
             /\ \/ /\ PC = SubStart /\ height = Base(interrupted, n)
                   /\ PC' \in CodeOf(n)
                   /\ interrupted' = interrupted
                   /\ \A j \in 1 .. n : interrupted[j] < height
                \/ /\ n >= 1 /\ height = interrupted[n]
                   /\ interrupted' = SubSeq(interrupted, 1, n - 1)
                   /\ PC \in Handlers
<1> DEFINE n == Len(interrupted)
           height == Len(stack) - 1
<1>1. /\ n \in Nat /\ height \in Nat /\ Len(stack) = height + 1
      /\ stack' = SubSeq(stack, 1, height) /\ PC' = stack[height + 1] /\ PC' \in Nat
      /\ interrupted' = IF interrupted # << >> /\ interrupted[n] = height
                         THEN SubSeq(interrupted, 1, n - 1) ELSE interrupted
  BY StateFacts, PopFacts DEF PopPC
<1>2. interrupted = << >> <=> n = 0
  BY StateFacts, EmptySeq
<1>3. CASE PC = SubStart
  <2>1. PC \notin CodeOf(n)
    BY <1>3, CodeApart DEF CodeOf
  <2>2. Len(stack) = Base(interrupted, n) + 1 /\ stack[Len(stack)] \in CodeOf(n)
    BY <2>1 DEF FramesMatch, Fits
  <2>3. height = Base(interrupted, n) /\ PC' \in CodeOf(n)
    BY <1>1, <2>2, StateFacts
  <2>4. n >= 1 => interrupted[n] + 1 = height /\ interrupted[n] \in Nat
    <3>1. ASSUME n >= 1 PROVE interrupted[n] + 1 = height /\ interrupted[n] \in Nat
      <4>1. n \in 1 .. n /\ n # 0 BY <1>1, <3>1
      <4>2. interrupted[n] \in Nat BY <4>1, StateFacts
      <4> QED BY <4>1, <4>2, <2>3 DEF Base
    <3> QED BY <3>1
  <2>5. interrupted' = interrupted
    <3>1. n >= 1 => interrupted[n] # height BY <2>4
    <3> QED BY <1>1, <1>2, <3>1
  <2>6. ASSUME NEW j \in 1 .. n PROVE interrupted[j] < height
    <3>1. n >= 1 /\ interrupted[j] \in Nat BY <1>1, <2>6, StateFacts
    <3>2. j = n \/ j < n BY <1>1
    <3>3. j < n => interrupted[j] < interrupted[n] BY StateFacts
    <3> QED BY <2>4, <3>1, <3>2, <3>3, <1>1
  <2> QED BY <1>1, <1>3, <2>3, <2>5, <2>6
<1>4. CASE PC # SubStart
  <2>1. PC \in Handlers
    <3>1. InHandler(HandlerLen) BY <1>4 DEF AtReturn
    <3> QED BY <3>1, InterruptsAssumption DEF InHandler, Handlers
  <2>2. n # 0
    BY <1>4, <2>1, CodeApart DEF FramesMatch, Fits, CodeOf
  <2>3. Len(stack) = interrupted[n] + 1
    BY <1>4, <2>2 DEF FramesMatch, Fits, Base
  <2>4. n >= 1 /\ interrupted[n] \in Nat
    <3>1. n >= 1 /\ n \in 1 .. n BY <1>1, <2>2
    <3> QED BY <3>1, StateFacts
  <2>5. height = interrupted[n] BY <1>1, <2>3, <2>4
  <2> QED BY <1>1, <1>2, <2>1, <2>2, <2>4, <2>5
<1> QED BY <1>3, <1>4

LEMMA ReturnInv ==
  ASSUME TypeOK, FramesMatch, PopPC, NEW op, AtReturn(op)
  PROVE  FramesMatch' /\ stack' \in Seq(Nat) /\ interrupted' \in Seq(Nat) /\ PC' \in Nat
<1> DEFINE n == Len(interrupted)
           height == Len(stack) - 1
<1>1. /\ n \in Nat /\ interrupted \in Seq(Nat) /\ stack \in Seq(Nat)
      /\ \A j \in 1 .. n : j < n => interrupted[j] < interrupted[n]
  BY StateFacts
<1>2. /\ height \in Nat /\ height <= Len(stack)
      /\ stack' \in Seq(Nat) /\ Len(stack') = height
      /\ \A i \in 1 .. height : stack'[i] = stack[i]
      /\ PC' = stack[height + 1] /\ PC' \in Nat
  BY StateFacts, ReturnCases, PopFacts DEF PopPC
<1>3. Frames(interrupted, stack, n) BY DEF FramesMatch
<1>4. CASE /\ PC = SubStart /\ height = Base(interrupted, n) /\ PC' \in CodeOf(n)
           /\ interrupted' = interrupted
           /\ \A j \in 1 .. n : interrupted[j] < height
  <2>1. /\ n <= Len(interrupted) /\ height <= Len(stack')
        /\ \A j \in 1 .. n : interrupted[j] = interrupted[j] /\ interrupted[j] < height
    BY <1>1, <1>2, <1>4
  <2>2. Frames(interrupted, stack', n)
    <3> HIDE DEF n, height
    <3> QED BY <1>1, <1>2, <1>3, <2>1, FramesKept, Zenon
  <2>3. Fits(interrupted, stack', n, PC', Len(stack'))
    BY <1>2, <1>4 DEF Fits
  <2> QED BY <1>1, <1>2, <1>4, <2>2, <2>3 DEF FramesMatch
<1>5. CASE /\ n >= 1 /\ height = interrupted[n] /\ PC \in Handlers
           /\ interrupted' = SubSeq(interrupted, 1, n - 1)
  <2> DEFINE m == n - 1
  <2>1. /\ m \in Nat /\ interrupted' \in Seq(Nat) /\ Len(interrupted') = m
        /\ \A j \in 1 .. m : interrupted'[j] = interrupted[j]
    <3>1. interrupted # << >> BY <1>1, <1>5, EmptySeq
    <3> QED BY <1>1, <1>5, <3>1, PopFacts
  <2>2. /\ m <= Len(interrupted) /\ m <= Len(interrupted') /\ height <= Len(stack')
        /\ \A j \in 1 .. m : interrupted'[j] = interrupted[j] /\ interrupted[j] < height
    <3>1. m <= n /\ m <= m /\ height <= height BY <1>1, <1>2
    <3>2. ASSUME NEW j \in 1 .. m PROVE interrupted[j] < height
      <4>1. j \in 1 .. n /\ j < n BY <1>1
      <4> QED BY <4>1, <1>1, <1>5
    <3> QED BY <3>1, <3>2, <1>2, <2>1
  <2>3. Frames(interrupted, stack, m)
    BY <1>1, <1>3, <1>5 DEF Frames
  <2>4. Frames(interrupted', stack', m)
    <3> HIDE DEF n, height, m
    <3> QED BY <1>1, <1>2, <2>1, <2>2, <2>3, FramesKept, Zenon
  <2>5. Fits(interrupted, stack, m, PC', height)
    <3>1. n \in 1 .. n BY <1>1, <1>5
    <3>2. Fits(interrupted, stack, n - 1, stack[interrupted[n] + 1], interrupted[n])
      BY <1>3, <3>1 DEF Frames
    <3> QED BY <3>2, <1>2, <1>5
  <2>6. Fits(interrupted', stack', m, PC', height)
    <3>1. /\ m >= 1 => interrupted'[m] = interrupted[m]
          /\ height >= 1 => stack'[height] = stack[height]
      <4>1. m >= 1 => m \in 1 .. m BY <2>1
      <4>2. height >= 1 => height \in 1 .. height BY <1>2
      <4> QED BY <4>1, <4>2, <1>2, <2>1
    <3>2. interrupted \in Seq(Nat) /\ m \in Nat /\ height \in Nat /\ m <= Len(interrupted)
      BY <1>1, <1>2, <2>1, <2>2
    <3> HIDE DEF n, height, m
    <3> QED BY <2>5, <3>1, <3>2, FitsKept, Zenon
  <2> QED BY <1>2, <2>1, <2>4, <2>6 DEF FramesMatch
<1> QED BY <1>4, <1>5, ReturnCases

-----------------------------------------------------------------------------
(* The invariant.                                                           *)

IInv == TypeOK /\ FramesMatch

\* An instruction neither a call nor a return.
LEMMA PlainInv ==
  ASSUME IInv, NEW op, Has(op), PC' = AfterPC, UNCHANGED <<stack, interrupted>>
  PROVE  FramesMatch' /\ PC' \in Nat
  BY AfterFits, JumpInv DEF IInv

LEMMA InstructionInv ==
  ASSUME IInv, Instruction
  PROVE  /\ FramesMatch'
         /\ IME' \in BOOLEAN /\ IE' \subseteq Sources /\ irq' \subseteq Sources
         /\ PC' \in Nat /\ stack' \in Seq(Nat) /\ interrupted' \in Seq(Nat)
<1> USE DEF IInv
<1>1. CASE Nop BY <1>1, PlainInv DEF Nop, TypeOK
<1>2. CASE EI BY <1>2, PlainInv DEF EI, TypeOK
<1>3. CASE DI BY <1>3, PlainInv DEF DI, TypeOK
<1>4. CASE LD_IE BY <1>4, PlainInv, InterruptsAssumption DEF LD_IE, TypeOK
<1>5. CASE LD_IF BY <1>5, PlainInv, InterruptsAssumption DEF LD_IF, TypeOK
<1>6. CASE CALL BY <1>6, CallInv DEF CALL, TypeOK
<1>7. CASE RET BY <1>7, ReturnInv DEF RET, TypeOK
<1>8. CASE RETI BY <1>8, ReturnInv DEF RETI, TypeOK
<1> QED BY <1>1, <1>2, <1>3, <1>4, <1>5, <1>6, <1>7, <1>8 DEF Instruction

LEMMA InitInv == Init => IInv
<1> SUFFICES ASSUME Init PROVE IInv OBVIOUS
<1>1. TypeOK
  BY InterruptsAssumption DEF Init, TypeOK
<1>2. Len(interrupted) = 0 /\ Len(stack) = 0 BY DEF Init
<1>3. Frames(interrupted, stack, 0) BY DEF Frames
<1>4. PC \in Main BY InterruptsAssumption DEF Init, Main
<1> QED BY <1>1, <1>2, <1>3, <1>4 DEF IInv, FramesMatch, Fits, CodeOf, Base

LEMMA NextInv == IInv /\ [Next]_vars => IInv'
<1> SUFFICES ASSUME IInv, [Next]_vars PROVE IInv' OBVIOUS
<1> USE DEF IInv
<1>1. CASE CpuPhase
  <2>1. clock' \in 0 .. 3 /\ phase' = "ppu" BY <1>1 DEF CpuPhase, NextClock, TypeOK
  <2>2. CASE Instruction BY <2>1, <2>2, InstructionInv DEF TypeOK
  <2>3. CASE UNCHANGED <<irq, cpuVars>>
    BY <2>1, <2>3 DEF TypeOK, FramesMatch, cpuVars
  <2> QED BY <1>1, <2>2, <2>3 DEF CpuPhase
<1>2. CASE PpuPhase
  BY <1>2 DEF PpuPhase, TypeOK, FramesMatch, cpuVars, PpuSources, Sources
<1>3. CASE HandleInterrupts
  <2>1. clock' = clock /\ phase' = "cpu" BY <1>3 DEF HandleInterrupts
  <2>2. CASE \E s \in fired : irq' = Cleared(s) /\ EnterHandler(s)
    <3>1. PICK s \in fired : irq' = Cleared(s) /\ EnterHandler(s) BY <2>2
    <3>2. s \in Sources BY DEF fired, TypeOK
    <3>3. irq' \subseteq Sources BY <3>1 DEF Cleared, TypeOK
    <3>4. IME' \in BOOLEAN /\ IE' = IE BY <3>1 DEF EnterHandler
    <3>5. FramesMatch' /\ stack' \in Seq(Nat) /\ interrupted' \in Seq(Nat) /\ PC' \in Nat
      BY <3>1, <3>2, EnterHandlerInv
    <3> QED BY <2>1, <3>3, <3>4, <3>5 DEF TypeOK
  <2>3. CASE UNCHANGED <<irq, cpuVars>>
    BY <2>1, <2>3 DEF TypeOK, FramesMatch, cpuVars
  <2> QED BY <1>3, <2>2, <2>3 DEF HandleInterrupts
<1>4. CASE UNCHANGED vars
  BY <1>4 DEF vars, cpuVars, TypeOK, FramesMatch
<1> QED BY <1>1, <1>2, <1>3, <1>4 DEF Next

LEMMA Invariance == Spec => []IInv
  BY InitInv, NextInv, PTL DEF Spec

\* Every variable keeps its type: the clock wraps, and no return pops an empty
\* stack or leaves the code.
THEOREM TypeCorrect == Spec => []TypeOK
<1>1. IInv => TypeOK BY DEF IInv
<1> QED BY <1>1, Invariance, PTL

\* The frames on the stack always match the handlers that have not returned:
\* the return address that handleInterrupts pushed is popped by the return of
\* the handler it was pushed for, however deep they nest.
THEOREM FramesAlwaysMatch == Spec => []FramesMatch
<1>1. IInv => FramesMatch BY DEF IInv
<1> QED BY <1>1, Invariance, PTL

-----------------------------------------------------------------------------
(* The order of service.                                                    *)

\* A pending request leaves IF only by being served, in the order of the tests
\* in handleInterrupts, and the address it returns to is pushed.
THEOREM RequestsServedInOrder == Spec => ServedInOrder
<1> DEFINE Orderly(s) == /\ IME /\ s \in IE /\ PC' = Vector(s)
                         /\ \A t \in irq' \cap IE : Rank[s] < Rank[t]
                         /\ stack' = Append(stack, PC)
<1>1. ASSUME IInv, Next, phase = "interrupts", NEW s \in irq \ irq'
      PROVE  Orderly(s)
  <2>1. HandleInterrupts
    BY <1>1 DEF Next, CpuPhase, PpuPhase
  <2>2. IME /\ fired # {}
    BY <1>1, <2>1 DEF HandleInterrupts
  <2>3. PICK u \in fired : Served(u) /\ irq' = Cleared(u) /\ EnterHandler(u)
    BY <2>1, <2>2 DEF HandleInterrupts
  <2>4. u = s
    BY <1>1, <2>3 DEF Cleared
  <2>5. s \in Sources /\ fired \subseteq Sources
    BY <1>1, <2>3, <2>4 DEF IInv, TypeOK, fired
  <2>6. ASSUME NEW t \in irq' \cap IE PROVE Rank[s] < Rank[t]
    <3>1. t \in fired /\ t # s
      BY <2>3, <2>4, <2>6 DEF Cleared, fired
    <3>2. Rank[s] <= Rank[t]
      BY <2>3, <2>4, <3>1 DEF Served
    <3>3. s \in Sources /\ t \in Sources
      BY <2>5, <3>1
    <3> QED BY <3>1, <3>2, <3>3 DEF Rank, Sources
  <2> QED
    BY <2>2, <2>3, <2>4, <2>6 DEF EnterHandler, Push, fired
<1>2. ASSUME IInv, [Next]_vars
      PROVE  [phase = "interrupts" => \A s \in irq \ irq' : Orderly(s)]_vars
  BY <1>1, <1>2
<1> QED
  BY <1>2, Invariance, PTL DEF Spec, ServedInOrder

-----------------------------------------------------------------------------
(* Handlers without EI.                                                     *)

LEMMA NoNestingInit == Init => NoNesting
  BY DEF Init, NoNesting

LEMMA NoNestingNext ==
  ASSUME "EI" \notin HandlerOps, IInv, NoNesting, [Next]_vars
  PROVE  NoNesting'
<1> DEFINE n == Len(interrupted)
<1>0. /\ n \in Nat /\ interrupted \in Seq(Nat) /\ (interrupted = << >> <=> n = 0)
      /\ IME \in BOOLEAN
  BY StateFacts, EmptySeq DEF IInv, TypeOK
<1>a. n <= 1 BY Zenon DEF NoNesting
<1>1. CASE interrupted' = interrupted /\ (IME' => IME)
  BY <1>1, Zenon DEF NoNesting
<1>2. CASE EI
  <2>1. InMain BY <1>2 DEF EI, Has
  <2>2. n = 0 BY <1>2, <2>1, AfterFits DEF EI, IInv, InMain
  <2> QED BY <1>0, <1>2, <2>2 DEF EI, NoNesting
<1>3. ASSUME NEW op, AtReturn(op), PopPC,
             op = "RETI" \/ (IME' => IME)
      PROVE NoNesting'
  <2>1. CASE PC = SubStart /\ interrupted' = interrupted
    <3>1. PC \notin Handlers BY <2>1, CodeApart
    <3>2. ~InHandler(HandlerLen)
      BY <3>1, InterruptsAssumption DEF InHandler, Handlers
    <3>3. op = "RET" BY <1>3, <3>2 DEF AtReturn
    <3>4. op # "RETI" BY <3>3
    <3> QED BY <1>1, <1>3, <2>1, <3>4, Zenon
  <2>2. CASE n >= 1 /\ interrupted' = SubSeq(interrupted, 1, n - 1)
    <3>1. n = 1
      <4>1. n \in Nat /\ n <= 1 /\ n >= 1 BY <1>0, <1>a, <2>2, Zenon
      <4> HIDE DEF n
      <4> QED BY <4>1
    <3>2. Len(interrupted') = 0 /\ interrupted' \in Seq(Nat)
      BY <1>0, <2>2, <3>1, PopFacts
    <3>3. interrupted' = << >> BY <3>2, EmptySeq
    <3> QED BY <3>2, <3>3 DEF NoNesting
  <2> QED BY <2>1, <2>2, <1>3, ReturnCases DEF IInv
<1>4. CASE RET BY <1>4, <1>3, Zenon DEF RET
<1>5. CASE RETI BY <1>5, <1>3, Zenon DEF RETI
<1>6. ASSUME NEW s, IME, EnterHandler(s) PROVE NoNesting'
  <2>1. interrupted = << >> BY <1>6 DEF NoNesting
  <2>2. interrupted' = << Len(stack) >> /\ ~IME'
    BY <1>6, <2>1 DEF EnterHandler
  <2> QED BY <2>2 DEF NoNesting
<1>7. CASE CpuPhase
  BY <1>7, <1>1, <1>2, <1>4, <1>5
  DEF CpuPhase, Instruction, Nop, DI, LD_IE, LD_IF, CALL, cpuVars
<1>8. CASE PpuPhase BY <1>8, <1>1 DEF PpuPhase, cpuVars
<1>9. CASE HandleInterrupts BY <1>9, <1>1, <1>6 DEF HandleInterrupts, cpuVars
<1>10. CASE UNCHANGED vars BY <1>10, <1>1 DEF vars, cpuVars
<1> QED BY <1>7, <1>8, <1>9, <1>10 DEF Next

\* As long as no handler executes EI, no handler is interrupted: handlers do not
\* nest, and IME is off until the last one has returned.
THEOREM NeverNested == ASSUME "EI" \notin HandlerOps PROVE Spec => []NoNesting
<1>1. IInv /\ NoNesting /\ [Next]_vars => NoNesting' BY NoNestingNext
<1> QED BY <1>1, NoNestingInit, Invariance, PTL DEF Spec

-----------------------------------------------------------------------------
(* Transparency.                                                            *)

LEMMA ViewOf ==
  /\ interrupted = << >> => View.pc = PC /\ View.stack = stack
  /\ interrupted # << >> => /\ View.pc = stack[interrupted[1] + 1]
                           /\ View.stack = SubSeq(stack, 1, interrupted[1])
  BY DEF View

\* Inside a handler, what the interrupted program sees is kept by all that
\* keeps the first handler's frame and what lies below it.
LEMMA ViewKept ==
  ASSUME IInv, interrupted # << >>, interrupted' # << >>,
         stack' \in Seq(Nat), interrupted'[1] = interrupted[1],
         interrupted[1] < Len(stack'),
         \A i \in 1 .. Len(stack') : i <= Len(stack) /\ i <= interrupted[1] + 1
                                       => stack'[i] = stack[i]
  PROVE  UNCHANGED <<View.pc, View.stack>>
<1>1. interrupted[1] \in Nat /\ interrupted[1] < Len(stack) /\ stack \in Seq(Nat)
      /\ Len(stack) \in Nat /\ Len(stack') \in Nat
  <2>1. Len(interrupted) \in Nat /\ Len(interrupted) # 0
    BY StateFacts, EmptySeq DEF IInv
  <2>2. 1 \in 1 .. Len(interrupted) BY <2>1
  <2> QED BY <2>2, StateFacts DEF IInv
<1>2. PICK h \in Nat : h = interrupted[1] BY <1>1
<1>3. h + 1 \in 1 .. Len(stack') /\ h + 1 <= Len(stack) BY <1>1, <1>2
<1>4. stack'[h + 1] = stack[h + 1] BY <1>2, <1>3
<1>5. h <= Len(stack) /\ h <= Len(stack') BY <1>1, <1>3
<1>6. ASSUME NEW i \in 1 .. h PROVE stack'[i] = stack[i]
  <2>1. i \in 1 .. Len(stack') /\ i <= Len(stack) /\ i <= h + 1 BY <1>1, <1>3
  <2> QED BY <2>1, <1>2
<1>7. SubSeq(stack', 1, h) = SubSeq(stack, 1, h)
  BY <1>1, <1>5, <1>6, PrefixEqual
<1> QED BY <1>2, <1>4, <1>7, ViewOf DEF View

LEMMA ViewInit == Init => Uninterrupted!Init
  BY ViewOf DEF Init, Uninterrupted!Init

\* An instruction of a handler, or of a subroutine it called.
LEMMA HandlerStep ==
  ASSUME IInv, interrupted # << >>, UNCHANGED interrupted,
         \/ UNCHANGED stack
         \/ \E a \in Nat : stack' = Append(stack, a)
         \/ /\ stack # << >> /\ stack' = SubSeq(stack, 1, Len(stack) - 1)
            /\ interrupted[1] < Len(stack) - 1
  PROVE  UNCHANGED <<View.pc, View.stack>>
<1>1. Len(interrupted) \in Nat /\ Len(interrupted) # 0
  BY StateFacts, EmptySeq DEF IInv
<1>2. 1 \in 1 .. Len(interrupted) BY <1>1
<1>3. /\ interrupted[1] \in Nat /\ interrupted[1] < Len(stack)
      /\ stack \in Seq(Nat) /\ Len(stack) \in Nat
  BY <1>2, StateFacts DEF IInv
<1>4. CASE UNCHANGED stack BY <1>3, <1>4, ViewKept
<1>5. CASE \E a \in Nat : stack' = Append(stack, a)
  <2>1. PICK a \in Nat : stack' = Append(stack, a) BY <1>5
  <2>2. /\ stack' \in Seq(Nat) /\ Len(stack') = Len(stack) + 1
        /\ \A i \in 1 .. Len(stack) : stack'[i] = stack[i]
    BY <2>1, <1>3, PushFacts
  <2>3. interrupted[1] < Len(stack') BY <1>3, <2>2
  <2>4. ASSUME NEW i \in 1 .. Len(stack'), i <= Len(stack) PROVE stack'[i] = stack[i]
    <3>1. i \in 1 .. Len(stack) BY <2>4, <1>3, <2>2
    <3> QED BY <3>1, <2>2
  <2> QED BY <2>2, <2>3, <2>4, ViewKept
<1>6. CASE /\ stack # << >> /\ stack' = SubSeq(stack, 1, Len(stack) - 1)
           /\ interrupted[1] < Len(stack) - 1
  <2>1. /\ stack' \in Seq(Nat) /\ Len(stack') = Len(stack) - 1
        /\ \A i \in 1 .. Len(stack') : stack'[i] = stack[i]
    BY <1>3, <1>6, PopFacts
  <2> QED BY <1>6, <2>1, ViewKept
<1> QED BY <1>4, <1>5, <1>6

\* An instruction neither a call nor a return is one of the main loop, or the
\* main loop does not see it.
LEMMA PlainStep ==
  ASSUME IInv, NEW op, Has(op), PC' = AfterPC, UNCHANGED <<stack, interrupted>>
  PROVE  [Uninterrupted!Next]_<<View.pc, View.stack>>
<1>1. CASE interrupted = << >>
  <2>1. Len(interrupted) = 0 BY <1>1
  <2>2. PC \in Main BY <2>1, AfterFits DEF IInv
  <2>3. AfterPC = Uninterrupted!After(PC) BY DEF AfterPC, Uninterrupted!After
  <2>4. View.pc = PC /\ View.stack = stack BY <1>1, ViewOf
  <2>5. View.pc' = PC' /\ View.stack' = stack' BY <1>1 DEF View
  <2>6. Uninterrupted!Step
    BY <2>2, <2>3, <2>4, <2>5 DEF Uninterrupted!Step, Uninterrupted!Main, Main
  <2> QED BY <2>6 DEF Uninterrupted!Next
<1>2. CASE interrupted # << >> BY <1>2, HandlerStep
<1> QED BY <1>1, <1>2

LEMMA CallStep ==
  ASSUME IInv, CALL
  PROVE  [Uninterrupted!Next]_<<View.pc, View.stack>>
<1>1. CASE interrupted = << >>
  <2>1. Len(interrupted) = 0 BY <1>1
  <2>2. PC \in Main BY <2>1, AfterFits DEF IInv, CALL
  <2>3. AfterPC = Uninterrupted!After(PC) BY DEF AfterPC, Uninterrupted!After
  <2>4. View.pc = PC /\ View.stack = stack BY <1>1, ViewOf
  <2>5. View.pc' = PC' /\ View.stack' = stack' BY <1>1 DEF View, CALL
  <2>6. Uninterrupted!Call
    BY <2>2, <2>3, <2>4, <2>5 DEF CALL, Push, Uninterrupted!Call, Uninterrupted!Main, Main
  <2> QED BY <2>6 DEF Uninterrupted!Next
<1>2. CASE interrupted # << >>
  <2>1. AfterPC \in Nat BY AfterFits DEF IInv, CALL
  <2> QED BY <1>2, <2>1, HandlerStep DEF CALL, Push
<1> QED BY <1>1, <1>2

LEMMA ReturnStep ==
  ASSUME IInv, PopPC, NEW op, AtReturn(op)
  PROVE  [Uninterrupted!Next]_<<View.pc, View.stack>>
<1> DEFINE n == Len(interrupted)
           height == Len(stack) - 1
<1>1. /\ n \in Nat /\ (interrupted = << >> <=> n = 0)
      /\ interrupted \in Seq(Nat) /\ stack \in Seq(Nat) /\ stack # << >>
      /\ stack' = SubSeq(stack, 1, height) /\ PC' = stack[height + 1]
      /\ height \in Nat /\ height + 1 = Len(stack)
  BY StateFacts, EmptySeq, PopFacts DEF IInv, PopPC
<1>2. CASE /\ PC = SubStart /\ interrupted' = interrupted
           /\ \A j \in 1 .. n : interrupted[j] < height
  <2>1. CASE interrupted = << >>
    <3>1. View.pc = PC /\ View.stack = stack BY <2>1, ViewOf
    <3>2. View.pc' = PC' /\ View.stack' = stack' BY <1>2, <2>1 DEF View
    <3>3. Uninterrupted!Return
      BY <1>1, <1>2, <3>1, <3>2 DEF Uninterrupted!Return
    <3> QED BY <3>3 DEF Uninterrupted!Next
  <2>2. CASE interrupted # << >>
    <3>1. 1 \in 1 .. n BY <1>1, <2>2
    <3> QED BY <1>1, <1>2, <2>2, <3>1, HandlerStep
  <2> QED BY <2>1, <2>2
<1>3. CASE /\ n >= 1 /\ height = interrupted[n]
           /\ interrupted' = SubSeq(interrupted, 1, n - 1)
  <2>0. interrupted # << >> BY <1>1, <1>3
  <2>1. /\ interrupted' \in Seq(Nat) /\ Len(interrupted') = n - 1
        /\ \A j \in 1 .. n - 1 : interrupted'[j] = interrupted[j]
    <3>1. interrupted \in Seq(Nat) BY <1>1
    <3> QED BY <1>3, <2>0, <3>1, PopFacts
  <2>2. CASE n = 1
    <3>1. interrupted' = << >> BY <2>1, <2>2, EmptySeq
    <3>2. View.pc' = PC' /\ View.stack' = stack' BY <3>1 DEF View
    <3>3. View.pc = stack[height + 1] /\ View.stack = SubSeq(stack, 1, height)
      BY <1>3, <2>0, <2>2, ViewOf
    <3> QED BY <1>1, <3>2, <3>3
  <2>3. CASE n # 1
    <3>1. 1 \in 1 .. n - 1 /\ n - 1 # 0
      <4>1. n \in Nat /\ n >= 1 /\ n # 1 BY <1>1, <1>3, <2>3, Zenon
      <4> HIDE DEF n
      <4> QED BY <4>1
    <3>2. interrupted'[1] = interrupted[1] BY <2>1, <3>1
    <3>3. interrupted' # << >> BY <2>1, <3>1, EmptySeq
    <3>4. 1 \in 1 .. n /\ 1 < n BY <1>1, <3>1
    <3>5. interrupted[1] < height BY <1>3, <3>4, StateFacts DEF IInv
    <3>6. /\ stack' \in Seq(Nat) /\ Len(stack') = height
          /\ \A i \in 1 .. Len(stack') : stack'[i] = stack[i]
      BY <1>1, PopFacts
    <3>7. UNCHANGED <<View.pc, View.stack>>
      BY <2>0, <3>2, <3>3, <3>5, <3>6, ViewKept
    <3> QED BY <3>7
  <2> QED BY <2>2, <2>3
<1> QED BY <1>2, <1>3, ReturnCases DEF IInv

\* The dispatch of an interrupt changes nothing the interrupted program sees.
LEMMA DispatchStep ==
  ASSUME IInv, NEW s \in Sources, EnterHandler(s)
  PROVE  UNCHANGED <<View.pc, View.stack>>
<1> DEFINE n == Len(interrupted)
           l == Len(stack)
<1>1. /\ stack' = Append(stack, PC) /\ interrupted' = Append(interrupted, l)
      /\ n \in Nat /\ l \in Nat /\ PC \in Nat
      /\ interrupted \in Seq(Nat) /\ stack \in Seq(Nat)
      /\ (interrupted = << >> <=> n = 0)
  BY StateFacts, EmptySeq DEF IInv, EnterHandler, Push
<1>2. /\ stack' \in Seq(Nat) /\ Len(stack') = l + 1
      /\ \A i \in 1 .. l : stack'[i] = stack[i]
      /\ stack'[l + 1] = PC
  BY <1>1, PushFacts
<1>3. /\ interrupted' \in Seq(Nat) /\ Len(interrupted') = n + 1
      /\ \A i \in 1 .. n : interrupted'[i] = interrupted[i]
      /\ interrupted'[n + 1] = l
  BY <1>1, PushFacts
<1>4. interrupted' # << >>
  <2>1. Len(interrupted') # 0 BY <1>1, <1>3
  <2> QED BY <2>1, <1>3, EmptySeq
<1>5. CASE n = 0
  <2>1. View.pc = PC /\ View.stack = stack BY <1>1, <1>5, ViewOf
  <2>2. interrupted'[1] = l BY <1>3, <1>5
  <2>3. View.pc' = stack'[l + 1] /\ View.stack' = SubSeq(stack', 1, l)
    BY <1>4, <2>2 DEF View
  <2>4. SubSeq(stack', 1, l) = SubSeq(stack, 1, l)
    <3>1. l <= Len(stack') /\ l <= Len(stack) BY <1>1, <1>2
    <3> HIDE DEF l
    <3> QED BY <1>1, <1>2, <3>1, PrefixEqual, Zenon
  <2>5. SubSeq(stack, 1, l) = stack BY <1>1, SubSeqFull
  <2> QED BY <1>2, <2>1, <2>3, <2>4, <2>5
<1>6. CASE n # 0
  <2>1. 1 \in 1 .. n BY <1>1, <1>6
  <2>2. interrupted'[1] = interrupted[1] BY <1>3, <2>1
  <2>3. interrupted[1] \in Nat /\ interrupted[1] < l BY <2>1, StateFacts DEF IInv
  <2>4. interrupted[1] < Len(stack') BY <1>1, <1>2, <2>3
  <2>5. ASSUME NEW i \in 1 .. Len(stack'), i <= Len(stack) PROVE stack'[i] = stack[i]
    <3>1. i \in 1 .. l BY <1>1, <1>2, <2>5
    <3> QED BY <3>1, <1>2
  <2> QED BY <1>1, <1>2, <1>4, <1>6, <2>2, <2>4, <2>5, ViewKept
<1> QED BY <1>5, <1>6

LEMMA ViewNext ==
  ASSUME IInv, [Next]_vars
  PROVE  [Uninterrupted!Next]_<<View.pc, View.stack>>
<1>1. CASE UNCHANGED <<PC, stack, interrupted>> BY <1>1 DEF View
<1>2. CASE Instruction
  <2>1. CASE Nop BY <2>1, PlainStep DEF Nop
  <2>2. CASE EI BY <2>2, PlainStep DEF EI
  <2>3. CASE DI BY <2>3, PlainStep DEF DI
  <2>4. CASE LD_IE BY <2>4, PlainStep DEF LD_IE
  <2>5. CASE LD_IF BY <2>5, PlainStep DEF LD_IF
  <2>6. CASE CALL BY <2>6, CallStep
  <2>7. CASE RET BY <2>7, ReturnStep DEF RET
  <2>8. CASE RETI BY <2>8, ReturnStep DEF RETI
  <2> QED BY <1>2, <2>1, <2>2, <2>3, <2>4, <2>5, <2>6, <2>7, <2>8 DEF Instruction
<1>3. CASE CpuPhase BY <1>1, <1>2, <1>3 DEF CpuPhase, cpuVars
<1>4. CASE PpuPhase BY <1>1, <1>4 DEF PpuPhase, cpuVars
<1>5. CASE HandleInterrupts
  <2>1. CASE \E s \in fired : EnterHandler(s)
    <3>1. PICK s \in fired : EnterHandler(s) BY <2>1
    <3>2. s \in Sources BY DEF fired, IInv, TypeOK
    <3> QED BY <3>1, <3>2, DispatchStep
  <2> QED BY <1>1, <1>5, <2>1 DEF HandleInterrupts, cpuVars
<1>6. CASE UNCHANGED vars BY <1>1, <1>6 DEF vars, cpuVars
<1> QED BY <1>3, <1>4, <1>5, <1>6 DEF Next

\* Handlers are transparent: with any program of this shape, whatever requests
\* come and however its handlers nest, the main loop and its subroutine run as
\* Program, which is never interrupted.
THEOREM HandlersTransparent == Spec => Transparent
<1>1. IInv /\ [Next]_vars => [Uninterrupted!Next]_<<View.pc, View.stack>>
  BY ViewNext
<1> QED BY <1>1, ViewInit, Invariance, PTL DEF Spec, Transparent, Uninterrupted!Spec
=============================================================================
