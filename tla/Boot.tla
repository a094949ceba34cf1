-------------------------------- MODULE Boot --------------------------------
(* GameBoy::loadRom and loadBootRom (src/src/gameboy.cpp): the boot ROM is  *)
(* loaded over the start of the game, runs, and hands over by storing to    *)
(* 0xFF50 (LD_a8_A in CPU).  Session runs what is loaded.                   *)
(* LoadBootRom_KeepPC is a faulty variant, used to test the properties.     *)
EXTENDS CPU

CONSTANTS
  GameFiles,   (* the bytes of the game file, at least 257                  *)
  BootFile     (* the 256 bytes of the boot ROM file                        *)

ASSUME BootAssumption ==
  /\ \A g \in GameFiles : g \in Seq(Byte) /\ Len(g) > 256
  /\ BootFile \in Seq(Byte) /\ Len(BootFile) = 256

VARIABLES
  game,        (* the file named on the command line                        *)
  stage        (* how far main() and run() have come                        *)

bootVars == <<cpuVars, game, stage>>

\* The loop of loadRom ends after get() has failed once: what it returned
\* then, -1, is written behind the last byte of the file.
Bytes(file) == Append(file, 255)

\* writeByte at each address PC comes to from 0x0000 on.  PC is a word: behind
\* 0xFFFF a long file goes on at 0x0000, and the last byte for a cell stays.
Loaded(file) ==
  LET bytes   == Bytes(file)
      cells   == 0 .. (IF Len(file) < 65536 THEN Len(file) ELSE 65535)
      last(a) == a + 65536 * ((Len(file) - a) \div 65536)
  IN [a \in DOMAIN memory \cup cells |->
        IF a \in cells THEN Stored(a, bytes[last(a) + 1]) ELSE memory[a]]

\* main: loadRom(argv[1], 0x0000, true), with setRomData.
LoadRom ==
  /\ stage = "loadRom" /\ stage' = "loadBootRom"
  /\ memory' = Loaded(game)
  /\ romData' = SubSeq(Bytes(game), 1, 257)
  /\ cpu' = [cpu EXCEPT !.PC = (Len(game) + 1) % 65536]
  /\ UNCHANGED <<accesses, events, game>>

\* run: loadBootRom.
LoadBootRom_KeepPC ==
  /\ stage = "loadBootRom" /\ stage' = "running"
  /\ memory' = Loaded(BootFile)
  /\ cpu' = [cpu EXCEPT !.PC = Len(BootFile) + 1]
  /\ UNCHANGED <<romData, accesses, events, game>>

LoadBootRom ==
  /\ stage = "loadBootRom" /\ stage' = "running"
  /\ memory' = Loaded(BootFile)
  /\ cpu' = [cpu EXCEPT !.PC = 0]
  /\ UNCHANGED <<romData, accesses, events, game>>

\* GameBoy's constructor leaves the registers and IME as they are: here all
\* bits of A, F and IME are zero, or all are one.
BootInit ==
  /\ cpu \in [A : {0, 255}, B : {0}, C : {0}, D : {0}, E : {0}, H : {0}, L : {0},
              F : {FlagsOf(0), FlagsOf(240)}, SP : {0}, PC : {0}, IME : BOOLEAN,
              halted : {FALSE}, inBootRom : {TRUE}, cycles : {0}]
  /\ cpu.F = FlagsOf(cpu.A) /\ (cpu.IME <=> cpu.A = 255)
  /\ memory = << >> /\ romData = << >> /\ accesses = << >> /\ events = << >>
  /\ game \in GameFiles
  /\ stage = "loadRom"

-----------------------------------------------------------------------------
(* Properties                                                               *)

\* The hand-over leaves the game's own bytes at 0x0000 .. 0x0100, also the
\* byte at 0x0100 that the end-of-file byte of the boot ROM overwrote, whatever
\* the boot ROM has stored and wherever it ran.  (The memory has no
\* read-only part: what a game stores there later it finds there.)
RomRestored ==
  [][cpu.inBootRom /\ ~cpu'.inBootRom =>
       \A a \in 0 .. 256 : memory'[a] = game[a + 1]]_bootVars
=============================================================================
