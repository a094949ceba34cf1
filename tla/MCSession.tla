----------------------------- MODULE MCSession -----------------------------
(* Constants for model checking Session.                                    *)
EXTENDS Session

\* A game of 0x0100 zeros and the program behind them, ending in JR -2.
Zeros(n) == [i \in 1 .. n |-> 0]
Padded(bytes, filler) == Zeros(255) \o <<filler>> \o bytes \o <<24, 254>>

\* LD A,c  LDH (0x01),A  LD A,0x81  LDH (0x02),A
Sending(c) == <<62, c, 224, 1, 62, 129, 224, 2>>
Program(text) == FlattenSeq([i \in DOMAIN text |-> Sending(text[i])])

\* Every text of up to two of "P", "F", "a" and the newline, and longer ones
\* with two verdicts, with one on the second line, and with one split by it.
MCPassed == <<80, 97>>
MCFailed == <<70, 97>>
Letters  == {80, 70, 97, 10}
Texts ==
  UNION {[1 .. n -> Letters] : n \in 0 .. 2}
    \cup {<<80, 97, 10, 70, 97>>, <<70, 97, 10, 80, 97>>, <<80, 97, 97, 10, 70, 97>>, <<97, 10, 80, 97>>,
          <<80, 10, 97>>, <<97, 80, 97, 10, 70, 97>>}
Talking == {Padded(Program(t), 0) : t \in Texts}
MCText(g) == [i \in 1 .. (Len(g) - 258) \div 8 |-> g[250 + 8 * i]]

\* Silent games that differ in the byte at 0x00FF and in the instruction at
\* 0x0100: NOP, CP (HL), LD SP,d16 or INC A.
Silent == {Padded(<<e, 0, 0>>, b) : b \in {0, 71, 80, 240, 255}, e \in {0, 190, 49, 60}}

MCGameFiles == Talking \cup Silent

\* JP 0x00FC ... LD A,1  LDH (0x50),A
MCBootFile == <<195, 252, 0>> \o Zeros(249) \o <<62, 1, 224, 80>>

\* None, one before the first letter and one behind the first ones.
MCEndpoints == {0, 260, 272}
=============================================================================
