------------------------------ MODULE Session ------------------------------
(* GameBoy::run (src/src/gameboy.cpp) from the boot ROM to the loop's end,  *)
(* with the listener that runBlarggTests (src/src/test.h) puts on the       *)
(* memory: it collects what the game sends over the serial port and stops   *)
(* the loop at a verdict.  An iteration here is one that runs an            *)
(* instruction; the picture and the interrupts of the tick are in GameBoy.  *)
(* An operator F_Xyz is a faulty variant of F, used to test the properties. *)
EXTENDS Boot

CONSTANTS
  Text(_),         (* what the program in a game file sends, byte by byte   *)
  Passed, Failed,  (* the lines that are verdicts                           *)
  Endpoints        (* values of GameBoy::endpoint; zero is none             *)

SB == 65281                                                      \* 0xFF01
SC == 65282                                                      \* 0xFF02
NewLine == 10

\* The listener is there when the game is loaded.  Only a file that reaches to
\* SC and has 0x81 there would send it a letter, and lead to a verdict, before
\* the run; the others it hears without effect.
RingsWhenLoaded(file) ==
  \E k \in 0 .. Len(file) : k % 65536 = SC /\ Bytes(file)[k + 1] = 129

ASSUME SessionAssumption ==
  /\ \A g \in GameFiles : Text(g) \in Seq(Byte) /\ ~RingsWhenLoaded(g)
  /\ Passed \in Seq(Byte) /\ Failed \in Seq(Byte)
  /\ Endpoints \subseteq Word

VARIABLES
  isRunning,      (* GameBoy::isRunning                                     *)
  endpoint,       (* GameBoy::endpoint                                      *)
  quit,           (* an SDL_QUIT is in the queue when run() looks           *)
  listening,      (* main.cpp built with TEST: runBlarggTests               *)
  output, passed, done,  (* the listener's captures                         *)
  heard           (* history: the bytes that the listener has read          *)

flags == <<isRunning, endpoint, quit, listening>>
captures == <<output, passed, done, heard>>
sessionVars == <<bootVars, flags, captures>>

-----------------------------------------------------------------------------
(* The listener                                                             *)

\* The instruction has stored 0x81 in SC; SB still holds what it held before.
Rings == \E i \in DOMAIN events' : events'[i] = <<SC, 129>>

Line_SkipNewLine(line, c) == IF c = NewLine THEN line ELSE Append(line, c)
Line(line, c) == IF c = NewLine THEN << >> ELSE Append(line, c)

Hear_StopLate ==
  LET line == Line(output, readByte(SB))
  IN /\ output' = line /\ heard' = Append(heard, readByte(SB))
     /\ done' = (done \/ line \in {Passed, Failed})
     /\ passed' = (line = Passed \/ (passed /\ line # Failed))
     /\ isRunning' = (isRunning /\ ~done)
Hear ==
  LET line == Line(output, readByte(SB))
  IN /\ output' = line /\ heard' = Append(heard, readByte(SB))
     /\ done' = (done \/ line \in {Passed, Failed})
     /\ passed' = (line = Passed \/ (passed /\ line # Failed))
     /\ isRunning' = (isRunning /\ ~done')

Ignore ==
  /\ isRunning' = (isRunning /\ ~(listening /\ done /\ events' # << >>))
  /\ UNCHANGED captures

-----------------------------------------------------------------------------
(* run                                                                      *)

\* The window's events are looked at once, before the loop.
StartRun ==
  /\ LoadBootRom /\ isRunning' = ~quit
  /\ UNCHANGED <<endpoint, quit, listening, captures>>

AtEndpoint == endpoint # 0 /\ cpu.PC = endpoint

Iterate ==
  /\ stage = "running" /\ isRunning
  /\ tick
  /\ IF listening /\ Rings THEN Hear ELSE Ignore
  /\ UNCHANGED <<game, endpoint, quit, listening>>
  /\ stage' = (IF AtEndpoint' THEN "ended" ELSE "running")

\* runBlarggTests prints the verdict then.
Leave ==
  /\ stage = "running" /\ ~isRunning /\ stage' = "ended"
  /\ UNCHANGED <<cpuVars, game, flags, captures>>

Ended == stage = "ended" /\ UNCHANGED sessionVars

SessionInit ==
  /\ BootInit
  /\ isRunning = FALSE /\ endpoint \in Endpoints /\ quit \in BOOLEAN /\ listening \in BOOLEAN
  /\ output = << >> /\ passed = FALSE /\ done = FALSE /\ heard = << >>

\* No store rings and there is no verdict yet: the listener changes nothing.
LoadGame == LoadRom /\ UNCHANGED <<flags, captures>>
SessionNext == LoadGame \/ StartRun \/ Iterate \/ Leave \/ Ended
SessionSpec == SessionInit /\ [][SessionNext]_sessionVars /\ WF_sessionVars(SessionNext)

-----------------------------------------------------------------------------
(* Properties                                                               *)

\* The line that text's first i bytes end with, and the first i at which that
\* line is a verdict.
BeginsAt(text, i, k) ==
  /\ k = 0 \/ text[k] = NewLine
  /\ \A l \in k + 1 .. i : text[l] # NewLine
LineAt(text, i) == SubSeq(text, (CHOOSE k \in 0 .. i : BeginsAt(text, i, k)) + 1, i)
Verdicts(text) == {i \in 1 .. Len(text) : LineAt(text, i) \in {Passed, Failed}}
First(text)    == CHOOSE i \in Verdicts(text) : \A j \in Verdicts(text) : i <= j

\* The listener reports the first verdict that begins a line of what it has
\* heard, at once, and hears nothing behind it that could replace it.  Without
\* a verdict only a quit event or the endpoint ends the run.
VerdictIsTrue ==
  /\ ~done => Verdicts(heard) = {} /\ ~passed
  /\ done => /\ Verdicts(heard) = {Len(heard)}
             /\ passed <=> LineAt(heard, First(heard)) = Passed
  /\ stage = "ended" /\ ~quit /\ endpoint = 0 => done

\* After a verdict, at the endpoint and after a quit event no instruction of
\* the game runs.
StopsWhenAsked ==
  [][(done \/ AtEndpoint \/ quit) /\ stage \in {"running", "ended"} =>
       UNCHANGED <<cpu, memory>>]_sessionVars

\* What a run without an endpoint hears of a text.
Told(text) == IF Verdicts(text) = {} THEN text ELSE SubSeq(text, 1, First(text))

\* A run that a quit event forestalls ends, and every other one reaches the game
\* at 0x0100.  A listener hears what the game sends, up to its first verdict, and
\* then the run ends.
RunsToTheVerdict ==
  <>(/\ IF quit THEN stage = "ended" ELSE cpu.PC = 256 /\ ~cpu.inBootRom
     /\ <>[](listening => /\ Verdicts(Text(game)) # {} => stage = "ended"
                          /\ ~quit /\ endpoint = 0 => heard = Told(Text(game))))
=============================================================================
