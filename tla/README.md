# gemboy: models, checks and proofs

TLA+ models of the emulator in `src/`, model-checked with TLC, with theorems
checked by TLAPS. `PROJECT.json` lists every run, property, mutant, theorem,
hazard and the source lines each definition stands for. To repeat a result:

    tlc -workers 2 -config ppu_lines.cfg MCPPU
    tlapm PPU_proofs.tla

## The system

gemboy is a Game Boy emulator of one thread. `GameBoy::run` (gameboy.cpp) calls
`GameBoy::tick` for as long as it runs, at the pace of the host's clock. A tick
calls, in this order, the CPU (every fourth tick), the PPU (while LCDC bit 7 is
set) and the dispatch of interrupts. The three share `Memory`, in which the
hardware registers are plain bytes. Nothing blocks and nothing runs in parallel;
what is hard is that three sequential machines interleave at clock granularity
over shared registers, and that each relies on counters and positions that
nobody checks.

| component | state | operations | interacts through |
|---|---|---|---|
| PPU (`ppu.cpp`) | scanline ticks, state, x; LY in memory | `tick` | reads LCDC, SCY, LYC, LY; raises VBLANK and STAT in IF; drives fetcher and display |
| PixelFetcher, PixelFIFO (`ppu.cpp`, `ppu.h`) | fetch state, half-rate tick counter, tile index, row addresses, queue of pixels | `start`, `tick`, `push`, `pop` | reads tile map and tile data |
| Display (`display.cpp`) | write position in the pixel buffer | `write`, `hBlank`, `vBlank` | called by the PPU |
| GameBoy (`gameboy.cpp`) | tick counter | `tick`, `handleInterrupts`, five handlers, `run`, `loadRom`, `loadBootRom` | pushes PC on the program's stack; clears IF and IME |
| CPU (`cpu.cpp`, `cpu.h`, `registers.*`) | registers, PC, SP, IME | `tick` = fetch, decode, execute | reads and writes Memory |
| Memory (`mem.cpp`) | 64 KiB, listeners, recording mode | `readByte`, `writeByte`, words | a write to DIV stores 0; listeners run before the store |
| Timer (`timer.cpp`) | DIV, TIMA, TMA, TAC in memory | `run` | raises TIMER in IF; its only call is commented out |
| boot loader | boot ROM in memory, copy of the cartridge's first bytes | `loadBootRom`, `setRomData`, the copy made by a store to 0xFF50 | overwrites 0x0000-0x0100 |
| instruction tester (`lib/`, `main.cpp`) | two tables of rows, input state, two CPUs, two logs of memory accesses, counters, coverage | `tester_run`, `test_instruction`, `next_state`, `run_state`, comparison | drives the CPU through `mycpu_*`; its result is the exit code |
| test harness (`src/test.h`) | text received, verdict | a listener of `MEM_WRITE_BYTE` | called by `Memory` in the middle of an instruction; clears `GameBoy::isRunning` |
| debug windows (`gameboy.cpp`, `utils.cpp`) | two pixel buffers | `renderTilesetDisplay`, `renderTilemapDisplay` | read `Memory` |
| disassembler (`lib/disassembler.c`) | - | `disassemble` | prints an instruction for the tester; its table repeats the decoder's and the tester's |
| printing, SDL, build | - | - | input and output only |

What makes each correct, and what is hard about it:

- **PPU, fetcher, display.** Counters compared for equality (40, 456) must hit
  those values; the FIFO must neither run dry nor keep pixels of an earlier line;
  the unchecked write position must agree with LY at every tick; the LCD may be
  switched off and on between any two ticks; a frame must be complete when VBLANK
  is requested.
- **Interrupts.** Requests raised by the PPU, by the program and cleared by the
  dispatch share one byte; handlers run on the stack of the program they interrupt
  and may nest; STAT is raised in every tick of a line and may starve the program.
- **CPU.** 500 opcodes, each with flags, register pairs, 16-bit wrap-around.
- **Timer.** DIV is handled as a word that overlaps TIMA; a loop ends only by
  subtraction on an unsigned byte.
- **Boot handover, tester.** Off-by-one copies; a comparison that must look at
  every recorded access; flags and counters of two functions that outlast a row
  or a table; four lists of the same opcodes in four files.
- **Test harness.** A callback reads memory as it was before the store it is told
  of, and ends the loop that is running the store.

## The modules

| module | models | remarks |
|---|---|---|
| `FrameScan` | abstract: what a PPU promises | each pixel once, row by row, VBLANK at the end of the frame |
| `PPU` | `PPU::tick`, `PixelFetcher`, `PixelFIFO`, `Display` | one step of `Tick` is one call; the environment writes LCDC, SCY, LYC and acknowledges requests between ticks |
| `PPU_proofs` | theorems about `PPU` | |
| `Program` | abstract: a program that is never interrupted | |
| `Interrupts` | `GameBoy::tick`, `handleInterrupts`, the handlers, the instructions that touch IME, IE, IF, the stack and PC | a tick is three steps (CPU, PPU, dispatch); the PPU may raise any of its requests in its step |
| `Interrupts_proofs` | theorems about `Interrupts` | |
| `GameBoy` | composition of `PPU` and `Interrupts` under `GameBoy::tick` | shares IF; the program stores to LCD registers between instructions |
| `GameBoy_proofs` | theorems about `GameBoy` and `Windows` | instantiates the proofs of its two parts |
| `Bytes` | the integer types of the program | |
| `ALU` | `add`, `adc`, `sbc`, `daa`, ...: result and flags of one operation | one operator per function of cpu.cpp |
| `InstructionSet` | `Instruction::Type` and the switch of `Instruction`'s constructor | which bytes are opcodes |
| `CPU` | `CPU::tick` with every opcode, `Memory` with its listeners of `MEM_WRITE_BYTE` | an action per group of cases that differ in registers only |
| `RefCPU` | the reference CPU of `lib/ref_cpu.c` | register pairs, masks: written independently of `CPU`, as in the code |
| `CPUTest` | `run_state` and `states_eq` of `lib/tester.c` | composes `CPU` and `RefCPU` over one instruction memory |
| `Instructions` | `instructions[]` and `cb_instructions[]`, `assemble`, `is_valid_op`, the operands `disassemble` prints and the length it reads | tables, as functions and sets |
| `InputState` | `next_state` of `lib/inputstate.c` | an odometer, as operators of a row and an input |
| `Tester` | `tester_run` with the flags of `main.cpp`: `test_all_instructions`, `test_instructions`, `test_instruction`, the coverage and the exit code | whether a run of an instruction fails is a choice; `CPUTest` says when it does |
| `Tester_proofs` | theorems about `InputState`, `Tester` and the tables of `Instructions` | |
| `MultiByte` | two-byte additions and subtractions as programs write them | uses `ALU`; the program is external |
| `MultiByte_proofs` | theorems about `MultiByte` and the lemmas about `ALU` it needs | |
| `Boot` | `loadRom`, `loadBootRom`, the hand-over | on the memory of `CPU` |
| `Session` | `GameBoy::run` with its quit event, `isRunning` and endpoint, and the listener of `runBlarggTests` | composes `Boot` and `CPU` |
| `CPU_proofs` | theorems about the instructions, in the emulator (`Session`) and in the tester (`CPUTest`) | |
| `CPUTest_proofs` | the theorems that compare the two processors of `CPUTest` | |
| `Windows` | the two debug windows: buffer offsets and addresses | operators only; the theorems about them are in `GameBoy_proofs` |
| `Timer` | `Timer::run` and the program's writes to its registers | a round of its loop is a step |
| `Timer_proofs` | theorems about `Timer` | |
| `MC...` | constants for TLC | one for each checked module |

An operator named `F_Xyz` is a faulty variant of `F`; it is used nowhere, and
serves to test that the properties notice the fault.

**PPU.** Variables carry the names of the fields. A pixel is identified by where
it comes from, `<<tile, bit>>`; its colour is not modelled. Bytes fetched are
represented by their addresses (`plane0`, `plane1`), which is what can be wrong
about them. The geometry (40, 456, 160, 144, 153) is a set of constants. The
variable `offset` counts bytes of `pixelBuffer`. `Init` is the start from zeroed
storage; `InitIndeterminate` leaves `PPU::ticks` to chance, because no constructor
sets it. Programs are assumed not to write LY, which the code would let them do.

**Interrupts.** The stack is a sequence of the words pushed; `interrupted` is a
history variable with the heights of the stack at which handlers were entered.
The program is any program of a given shape - a main loop that may call a
subroutine, and a handler at each vector, both made of any of the instructions in
`MainOps` and `HandlerOps` - and programs are assumed to leave room for the stack
and not to use SP for anything else. Loads and arithmetic are `NOP`, and so is
HALT: the CPU sets `halted` and never reads it.

**GameBoy.** The two modules are instantiated over shared variables. The steps of
one are what the other leaves to its environment; `PpuContract` and
`InterruptsContract` say that these assumptions are met.

**CPU and its test.** Bits 3-5 and 0-2 of an opcode name the registers of an
instruction, so that the five hundred cases of the switch become about sixty
actions; the cycles each case adds are kept, also where cases of a group differ.
`memory` is a function over the cells written so far. `shouldWriteToMemory` and
`MEM_SIZE` are constants, FALSE and 4 in the tester, where stores are only
recorded and most addresses read as 0xAA. `RefCPU` follows the other program:
pairs, masks and an else-if chain; it is the abstract specification of the
instruction set, and `AgreesWithReference` compares the two after each
instruction. Stores to the divider are the exception it names: one byte becomes
zero, and the word of LD (0xFF04),SP as a whole. A test is three steps: the input,
`run_state`, which runs both processors, and the comparison (`phase`).

The cycles a case adds are returned to the tester by `mycpu_step`; `CyclesAsTabled`
compares them with the table that `lib/ref_cpu.c` and `src/cpu.h` both hold, with
the five opcodes that differ named in it. `events` are the addresses and values
that the listeners of `MEM_WRITE_BYTE` are told during an instruction.

**Tester.** Every enabled input of a row is a wheel that shows a list of values;
`Stops` is what `next_bool`, `next_flags`, `next_val8`, `next_val16` and
`next_oper` return. `table`, `row` and `pc` say which of the nested calls the
program is in; `reached` and `failed` are history variables. IME hands on when it
turns to one, not back: the walk then starts in the middle of a turn of the first
wheel, and IME with zero everywhere else is the only combination that it leaves
out (`Unreached`). The check that the CPU has not written to the instruction
(tester.c:218) is left out: in the recording mode nothing is written.

**Boot and Session.** The registers that no constructor sets hold all zeros or all ones,
and memory that was not written reads as zero. A file is loaded byte by byte at the
addresses that PC takes: one longer than the address space goes round it, and its
byte for the divider is stored as zero (`Loaded`). In the runs the game's file is a short
one, so that the seam at 0x0100 is in it; the theorems take a game of any length
above 256. The harness adds its listener before it loads the game (test.h:32, 53),
so that the listener hears every byte of the file. `SessionAssumption` excludes the
files that would send it a letter by that: those that reach to 0xFF02 and have 0x81
there (`RingsWhenLoaded`); of all others it changes nothing, and loading a file is one step.
`RomRestored` speaks of the step that hands over, since the memory has no
read-only part: what a game stores below 0x0100 later, it finds there. A step of `Session` is an iteration of the loop
that runs an instruction; picture and interrupts of the same iterations are in
`GameBoy`. A store happens after its listeners have run, so that the letter the
harness takes is the one an earlier instruction left at 0xFF01: `Hear` reads
`memory`, not `memory'`. `heard` is a history of the bytes that it took, which no
action reads and the properties about verdicts need. The queue of window events is read once, before the
loop; events that come later are not looked at.

**Timer.** `run` up to its loop, a round and the return are three actions; the
program's stores come between two calls. It is not composed with `GameBoy`:
the call in `GameBoy::run` is commented out (gameboy.cpp:140).

## The runs

| run | question | size |
|---|---|---|
| `ppu_lines` | timing, FIFO, pixel order, addresses and raster position, ticks of a frame and VBLANK, refinement of `FrameScan`, with every write of the program in between; do frames and LYC coincidences keep coming? | 123 648 states |
| `irq_nested` | handlers that nest, write IF, call and end with RET: frames match, main loop undisturbed, requests served in order | 73 434 states |
| `gameboy` | does the composed machine meet what each module assumes; is every request served, VBLANK before the next frame; does the main loop survive a storm of STAT; do quiet handlers not nest? | 378 053 states |
| `cpu_agrees` | does every opcode do what the reference does, to registers, flags and memory; what does the tester's comparison miss; are the cycles those of the table? | 328 320 states |
| `multibyte` | do carry, half carry and DAA chain over two bytes, binary and BCD? | about 695 000 states |
| `boot_handover` | is the game whole and running after the hand-over; does the harness report the first verdict it hears, at once, and is that the game's first; does the run stop there, at the endpoint, after a quit event, and not before? | 8 548 states |
| `tester_inputs` | is every input reached, none twice; are coverage and summaries true, whatever fails; does a tester that is to stop at a failure stop there, with a non-zero exit code; do the tables agree with the decoder and the disassembler? | 186 208 states |
| `timer_run` | does the loop of `Timer::run` end, each round of it lowering the counter? | 2 944 530 states |
| `ppu_vblank_lines`, `ppu_uninitialised`, `timer_overflow`, `tester_exit` | where the code disagrees with its comments (see Findings) | violations |

Bounds. In `ppu_lines` a line has twelve pixels, so that it needs a second tile
and leaves four pixels of it in the FIFO when it ends, and a frame has three
visible lines, one of them first, one last, one neither, and two of V_BLANK; SCY
takes values on both sides of the wrap of SCY + LY, with different remainders
modulo 8. `LineTicks` is the smallest length for which the line is long enough.
The real numbers (40, 456, 160) satisfy the
assumption of the theorems, which lift all of these. In `irq_nested` a main loop of
two instructions (one that wraps, one that does not), a handler of one
instruction and its return, and three nested handlers let every pair of
instruction and dispatch meet; the theorems lift the numbers. In `gameboy` a frame
is two visible lines of four pixels and a V_BLANK of one line, the program may
move LYC to any line and switch the LCD off and on, and its handlers execute
neither EI nor a store to IF, which would drop requests.

In `cpu_agrees` the values are those of the tester's own lists that sit at a
carry, borrow, sign or wrap-around boundary, in five sets of registers, some
with the divider's address in HL, BC or SP, and operands with addresses at the
divider; opcodes without a case are left out.
`multibyte` takes fourteen bytes at decimal and binary carries, every pair with
every pair. The silent games of `boot_handover` differ in the two bytes at the
seam, where the off-by-one copy and the end-of-file byte meet; the others send
every text of up to two of four letters, and six longer ones with two verdicts,
one on a second line or one split by a newline. A verdict there has two letters
instead of six, which the listener does not tell apart. The endpoint is none or
an address on either side of the first letter. `tester_inputs` has nine rows of
the table alone, together with every kind of input, and a suite of three rows and
two rows of the prefixed table, whose wheels BC, DE and HL are taken out (with
them each has 204 120 inputs); any two opcodes fail (`MaxFailures`). All 78 rows
of the tables are in `TablesAgree`. The theorems take any tables.
`timer_run` has the three faster clocks running and one stopped, modulos and
counters at the edges of the two short periods; a modulo of exactly the period
minus one (15 or 63) keeps the loop running for ever and is left out of it, which
`LoopProgress` names. `timer_overflow` has the two slow clocks, running.

Fairness. `FairSpec` of `PPU` and `Spec` of `GameBoy` assume weak fairness of the
tick only: `GameBoy::run` calls `tick` in every iteration in which 188 ns have
passed since the last one, and has no other way to wait. Nothing is assumed of
the program: liveness is conditional on what it does (LCD on, source enabled,
interrupts on again and again, LYC left alone). `SessionSpec` assumes that the
loader and the loop go on, `Spec` of `Timer` that a call of `run` that has begun
does: both are plain sequential code. The program need not call the timer.

## The proofs

**PPU** (`PPU_proofs`), from `PPUAssumption`: any width up to 240 pixels, any
height, any tick counts with `OamTicks + Width + 7 < LineTicks`, any tile map.
The inductive invariant is the conjunction of `TypeOK`, `LineTiming`, `Pace`,
`Raster`, `PixelOrder` and `FetchesInVram`. None is inductive alone: whether x
reaches the width before the line is over (`LineTiming`, `Raster`) depends on the
FIFO never being empty, which depends on how many cycles the fetcher has worked,
which is tied to the line's ticks up to the one tick that `start` leaves in the
fetcher's counter. `Cycles` measures that work and is the link between all of
them. `PPUImplementsFrameScan` follows step by step from it, and so does
`FramesAlwaysInStep`: a frame has `FrameTicks` ticks, and VBLANK is requested by the
one that completes its last line, by no other, with all lines in the buffer.
`Position` is the place in the frame; `TickOn` and `LineOn` say how a tick moves it
within a line and at the end of one, from the bounds of `LineTiming` and `Raster`.
It is the safety half of `FramesKeepComing`, for the real 153 * 456 ticks.

**Interrupts** (`Interrupts_proofs`), from `InterruptsAssumption`: any main loop,
handlers of up to seven instructions before the return (they must not overlap),
any nesting. The inductive invariant is `TypeOK /\ FramesMatch`: which frame a
return pops is decided by where in the code the program is, and that the two fit
depends on every frame below. With it, `NeverNested` needs only IME, and
`HandlersTransparent` shows step by step that what the outermost interrupted code
sees is either unchanged or changes as in `Program`.

**Timer** (`Timer_proofs`), from `TimerAssumption`: whatever the program stores in
TIMA, TMA and TAC. `TypeOK` is inductive; `RoundLowers` is the lemma `LoopTerminates`
rests on: a round is entered only under one of the two short periods, and then
lowers TIMA (the variant of the loop) unless TMA is one less than the period.

**The composed machine** (`GameBoy_proofs`), from `GameBoyAssumption`: the
assumptions of both parts, and programs that store nothing to IF but zero
(`IfValues` has no other member: a store could drop a request that the PPU has
just made). `PpuContractMet` and `InterruptsContractMet` show that every step of the
machine is, for each part, a step of that part or of its environment as the part
assumes it. What is proved of `PPU` and `Interrupts` alone then holds in the
machine; the theorems are instantiated, not proved again: `NoHandlerInterrupted`,
`RasterInMachine`, `MachineScansFrames`, `MachineFramesInStep`, `MainLoopUndisturbed`. One result needs
both parts. `VBlankAlwaysServedInTime` says that a program whose main loop leaves
interrupts on, and whose handlers end with RETI before V_BLANK is over
(`LeavesInterruptsOn`), serves every VBLANK before the next one. Its invariant
`TimeInv` weighs the ticks V_BLANK has had against the ticks that the handler
which is running still needs: as long as VBLANK waits, the former are few enough.

**Multi-byte arithmetic** (`MultiByte_proofs`), for all operands. The lemmas say
of `add`, `adc`, `cp`, `sub`, `sbc` and `daa` what result, carry and half carry
are as numbers; `DaaAfterAdd` and `DaaAfterSub` do so for DAA behind an addition or
subtraction of two BCD digits. The inductive invariant `IInv` ties the value of
what was stored so far and the carry to the operands' bytes so far;
`ResultAlwaysCorrect` is its last instance.

**The instructions** (`CPU_proofs`). `TickKeeps` is the lemma that the others rest
on: whatever bytes are in memory, an instruction leaves every register within
its width and stores at most two bytes at addresses of 16 bits, with one step
per case, one lemma per operation of the arithmetic unit, and one for each way
a case ends. `HandsOver` is its counterpart for the store to 0xFF50, which copies
257 bytes first. From them:

- `MachineAlwaysTyped`, for every game file, boot ROM and text: along
  `SessionSpec` registers keep their widths (`CPUState`), the addresses that were
  stored to are words (`AddressesTyped`) and memory holds bytes (`MemoryTyped`). A
  file longer than the address space is loaded at words because PC wraps
  (`LoadedTyped`).
- `RomAlwaysRestored`, for the same: the step that leaves the boot ROM puts the
  game's bytes at 0x0000-0x0100, whatever the boot ROM stored and wherever it
  ran. The invariant it needs, `SessionInv`, adds that `romData` holds the game's
  first 257 bytes since `loadRom`.
- `StopsOnRequest`, for every game, text and endpoint. It rests on `StopInv`: while
  the loop runs, whoever has asked for its end - listener, endpoint or quit event -
  has also cleared `isRunning` or left the loop. That the listener's clearing
  survives until the loop looks needs the disjunct of `Ignore` that clears it again.
- `VerdictAlwaysTrue`, for the same and any two verdicts. `HeardInv` says that
  `output` is the line that the bytes heard so far end with, and that none of
  their beginnings but the whole ends with a verdict. `LineGoesOn` says what one
  byte more does to the lines of a text: the recursion over the text is in the
  steps of the system, and needs no induction of its own. That nothing is heard
  behind a verdict takes `StopInv`; that a run which ends without one was ended by
  a quit event or at the endpoint takes `EndInv`.
- `TestAlwaysTyped`, for every program, input and memory size of the tester
  (`TesterSettings`, which TLC evaluates for the inputs of `cpu_agrees`): both
  processors keep their widths, and no instruction fills more than two of the
  sixteen places of `mem_accesses`. `ReferenceKeeps` does for the reference what
  `TickKeeps` does for the CPU. `TesterInv` adds that the logs are empty before
  each instruction, without which they would grow.

**The processor and the reference** (`CPUTest_proofs`), from `TesterSettings`: any
program in a memory of at least three bytes that is not written to, any input of
the registers, F with the low half that `next_flags` leaves zero.

- `ProcessorsAgree` is `AgreesWithReference` for all of them. `Alike` says when the
  states of the two match, pair by pair, `SameLogs` when their logs hold the same
  stores up to the order of the two bytes of a word. `Octal` reads an opcode as
  three digits; `RefGuards` and `OpGuards` say which digits select a case of the
  reference's masks and of the processor's switch, and `Pairs` that the two always
  select cases for the same instruction. For each such pair a lemma `Same...` shows that both
  do the same, down to the half carry, which one takes from the operands' low
  nibbles and the other from an exclusive or. `AgreeInv` carries the result from
  `run_state` to the comparison; `OneLogAgrees` and `TwoLogAgrees` say what the
  tester's comparison makes of logs of one and two stores.
- `CyclesFollowTable` is `CyclesAsTabled`: the cycles the last step of every case
  adds are looked up in the table of its opcode, one case of the switch at a time.

**Tester** (`Tester_proofs`), from `SuitesAssumption`: any two tables of any
length, whose rows have operands with bits of their own in the opcode (`Fits`) and
have no opcode in common; any flags and any failures. `TablesMakeASuite` shows that
the program's own two tables, of 67 and 11 rows, are such tables.

- The lemmas about `InputState` say what the odometer computes. A wheel's place is a
  digit, and a turn of the wheels from the i-th on is the next number or, when all
  turn back, zero (`Carries`). It is shown for the thirteen wheels one after the
  other, from the last to the first. IME is first and hands on at the wrong end,
  so that the numbers come in the order of `Rank` instead: 0, 3, 2, 5, 4, ...
  (`NextNumber`), which leaves 1 out.
- `AllInputsReached` and `NoInputRepeated` follow from `WalkInv`: the numbers that the
  walk through a row has come to are those up to the rank of the one that the
  wheels show.
- `CoverageAlwaysTrue` needs more than that, because an opcode is counted as a
  success or a failure once for each of its inputs. An opcode that has failed must
  not come again behind another opcode, or a later success would count it: the
  inputs that the last opcode's failure leaves out have to be all that are left of
  it. `FailuresPast` says so, with the number that the operands' wheels show. They
  are the last ones to turn, so that this number only grows, and it tells the
  opcode and is told by it (`SameOpcode`).
- `SummaryAlwaysTrue` ties the counters to the rows without a failure. The rows that
  are done keep their verdict because no later row has an opcode of theirs.
- `FailureStopsTester` rests on an invariant that ties the three flags of a failure to
  the place in the nested loops: between two rows of a tester that stops at the first
  failure, nothing has failed (`ExitInv`), and what has failed is the opcode the tester
  stands at (`FailedHere`).
- `TablesAlwaysAgree` takes the tables row by row and opcode by opcode: an opcode has
  exactly one row, and `disassemble` reads what that row assembles. An opcode's three
  octal digits tell its row (`RowBase`), which is also what the masks of
  `disassemble` go by (`DigitsTell`), so that rows and masks meet in the digits
  instead of in 512 cases. `OneOperand` and `TwoOperands` say which opcodes the
  weights of a row's operands reach.
- `TypeCorrect` is the type invariant.

**Windows** (in `GameBoy_proofs`). Every pixel of every tile has four bytes of its own in the window's
buffer, inside it, and is read from inside the memory. `renderTilemapDisplay` takes the
entries of the map for the data of tiles and reads on to 0xDBFF, which is still
inside it.

Only model-checked:

- liveness (`FramesKeepComing`, `RequestsServed`, `ProgramProceeds`,
  `RunsToTheVerdict` and the like): TLAPS proves nothing here that needs fairness or
  ENABLED;
- that what the harness hears is the text of the game's program (`Text`), which
  `RunsToTheVerdict` states: it takes running the program, which TLC does for the
  games of `boot_handover`. `VerdictIsTrue` is about what was heard.

## Findings

- `ppu_vblank_lines`: V_BLANK ends when LY reaches 153, so that it lasts nine
  lines (ppu.cpp:179); the comment says ten (ppu.cpp:174).
- `ppu_uninitialised`: `PPU::ticks` is not initialised (ppu.h:73); a scan that
  starts above 40 never ends, where the comment says it always takes 40 ticks
  (ppu.cpp:112).
- `timer_overflow`: the only place that looks for an overflow is in a loop that runs while
  the counter, a byte, is at least the period (timer.cpp:25), 1024 or 256 under the
  clocks of 4096 and 16384 Hz; there the counter passes 255 in timer.cpp:14-21, in the
  trace by the divider's carry, and requests nothing. timer.h:33-34 says that each
  overflow requests the interrupt, and timer.h:26-30 lists the four clocks.
- `tester_exit`: `tester_run` "returns a non-zero value if one or more instructions did
  not test successfully, and zero on success" (tester.h:22-24); with `--keep-going` it
  returns zero whatever failed (tester.c:353).

Disagreements met while modelling that no run states; each is in the model as the
code has it:

- The second bit plane is read from 0x8000 whatever TILE_SEL is (ppu.cpp:68,
  `ReadTileData1`), against the table in the comment (ppu.cpp:34-38).
- The divider is handled as a word whose high byte is the counter (timer.cpp:14-18,
  `AddCycles`), so that a stopped timer's counter changes; timer.h:25 says that bit 2
  stops it.
- The tester compares only the access with the lowest address, over and over
  (tester.c:93-95), so that the second store of a pair is never checked.
  `AgreesWithReference` compares the whole logs, and says which difference
  `states_eq` notices.
- The column F, "whether the status flags (ZNHC) have an impact on this
  instruction" (instructions.h:21), is 0 for ADC imm8 and SBC imm8.
- A word stored by LD (a16),SP is told to the listeners of `MEM_WRITE_WORD` only
  (mem.cpp:60-66): the harness does not hear a letter sent that way.
- A game that sends no verdict is never ended, and a closed window does not end
  the loop: its events are read before the loop only (gameboy.cpp:111).
- `disassemble` prints a byte that is not an opcode as "DB" and the byte behind it
  (disassembler.c:94).
- The debug windows take the first plane of a tile as the high bit of the palette
  index (gameboy.cpp:170, 199), the PPU as the low one (ppu.cpp:60, 73): light and
  dark gray are swapped in the windows.
- A word stored at 0xFF04 becomes zero as a whole (mem.cpp:58), so that LD
  (a16),SP loses the upper byte of SP, which cpu.cpp:1534 stores.
- INC BC adds one cycle (cpu.cpp:254), its siblings two, as the table in cpu.h:706
  says; JR, LD A,(HL) and CP (HL) are one short as well. For CP H the table is
  wrong, eight where all its siblings have four (cpu.h:717).
- The hand-over reads its operand again after the copy (cpu.cpp:274) and stores A
  at an address that the game's byte at 0x00FF names.

Not findings, because nothing in the repository says otherwise: HALT does not
wait; `Timer::run` does not end from TMA 15 or 63; IME with all zeros is never
tested; ADD-like cases from (HL) add two cycles, CP (HL) and LD A,(HL) one.

## Not modelled

Colours and palettes, sprites (the code has none), SDL and the host's clock, the
text that the disassembler, `TypeRepr` and the tester print, the options that
change nothing but it, a run without a ROM or with a missing file, and what the
three kinds of listeners hear that nobody adds. `readTileLine` is never called,
and `GameBoy::updateTimer` has no body.
