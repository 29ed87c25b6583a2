# A TLA+ verification of the PPCU_VLSI pixel readout SoC

The repository holds a small RISC-V system on chip that drives a matrix of
photon-counting pixels: an Ibex core, two buses, a boot ROM and a code and a data RAM,
GPIO, SPI, UART and a timer, and a pixel matrix controller (PMC) with a coprocessor
(PMCC) of its own that toggles the control lines of the matrix. The software (`src/sw`)
is a bootloader, a library of drivers and an application.

This directory models the parts of it whose correctness depends on what happens
*between* things: registers that change a cycle after they were read, a program
overwritten while it runs, two buses at one memory port, a peer whose clock is not ours,
interrupts between a load and the store that belongs to it, a reset in the middle of a
boot, a user who types while the software prints. TLC checks the models on small
instances; nearly all also have theorems, proved with TLAPS for every value of their
parameters.

Run things here with

    tlc -workers 2 -config MCPmc.cfg MCPmc.tla      # any module of a run and its .cfg
    tlapm PmccProofs.tla                            # all obligations are proved

`PROJECT.json` lists the runs, the source lines each definition stands for, the hazards
of the code with the properties aimed at them, and, for each property, a mistake in the
code (a definition marked *slip* in the modules) that breaks it.

## 1. The system

| Part | Source | State it keeps | Operations |
| --- | --- | --- | --- |
| PMCC, the coprocessor | `rtl/soc/pmc/coprocessor/` | program counter, active loop, loop LIFO and its read port, matrix control lines | one instruction a cycle: STORE, STOREB (store and branch back), LOOP, JUMP, WAITT |
| PMC, its controller | `rtl/soc/pmc/pmc.sv`, `pmc_offset_decoder.sv`, `pmc/memories/` | CR (en, rst, trg), SR (wtt), DIN, DOUT, CTRL, code RAM, analog and digital configuration | register accesses; the dual-port code RAM feeds the coprocessor |
| PMC and PMCC drivers, `Pixel_matrix` | `sw/libs/drivers/src/pmc.cpp`, `pmcc.cpp`, `sw/libs/misc/src/pixel_matrix.cpp` | none but the registers | `load_application`, `trigger`, `load_pixels_configs`, `read_counters`, `calibrate` |
| Serial clock generator, edge detector | `rtl/soc/misc/` | divider, counter, level; three samples | give the edges SPI and UART work on |
| SPI | `rtl/soc/spi/` | CR, SR, TDR, RDR, CDR; shift registers and state machine | master transfers of a byte |
| SPI flash | `rtl/misc/spi_flash_memory/` | shift registers, byte and word address | slave: streams its contents |
| UART | `rtl/soc/uart/` | the same registers; transmitter, receiver | frames of start, 8 bits, stop |
| Timer | `rtl/soc/timer/` | CR, SR, CNTR, CMPR; counter, state | trigger, halt, single shot, match interrupt |
| GPIO | `rtl/soc/gpio/` | ODR, IDR, interrupt enable/status/edges, three samples | outputs, inputs, edge interrupts |
| Buses | `rtl/soc/data_bus_arbiter.sv`, `instr_bus_arbiter.sv`, slave multiplexers and memories | the slave asked, the slaves answering, read ports | decode, grant, answer a cycle later |
| Drivers of the above | `sw/libs/drivers/` | handler pointers | `read`, `write`, `set_pin`, `clear_matched`, `enable_interrupts`, ... |
| Bootloader | `sw/bootloader/` | trap vector, finished pin | chooses the source, copies the code from the flash or from the UART to the code RAM, jumps |
| Start-up code | `crt0.S` | the sections of the RAM | clears `.bss`, copies `.data`, calls the constructors |
| Command interpreter, Ui | `sw/libs/command_interpreter/`, `sw/libs/misc/src/ui.cpp` | line buffer | prompts, reads a line, parses it, calls the drivers, answers |
| Strings, debug output | `sw/libs/misc/src/string.cpp`, `debug.cpp` | buffers on the stack | conversions, named words on a line |
| Core, delays | `sw/libs/drivers/src/core.cpp`, `sw/libs/misc/src/delay.cpp` | performance counter, handler pointers | reads the counter in halves, enables interrupts, counts down |
| Application | `sw/app/` | none | plays Morse code on an LED |
| Ibex, top level, wrapper | `deps/`, `rtl/soc/mtm_riscv_soc*.sv` | - | third party; wires |

Everything in hardware shares one clock, and the software acts on it through loads and
stores only; so a step of nearly every model is **one clock edge**, in which every block
takes its registers to their next values together, with or without an access of the
processor in that cycle.

What is hard:

- **The PMCC is reprogrammed while it runs.** `load_application()` stores its words over
  the running program and resets the coprocessor only afterwards. No lock, no handshake:
  the next call may begin before the program has come to its end.
- **Nested loops in hardware.** The innermost loop lives in a register, the others in a
  LIFO with a registered read port, so for one cycle after a pop the innermost loop is
  in neither place one would look first.
- **Lagging status.** `sr.wtt`, `txact`, `rxne`, `dout` are all one to three cycles
  behind what they report, and the drivers poll them.
- **Two clocks.** The flash and the UART peer sample lines in their own time.
- **Update in place.** Drivers change a bit field by a load and a store; interrupts and
  self-clearing bits come in between.
- **One port, two buses.** A data access takes the memory from a fetch.
- **One byte of buffer.** RDR holds one byte and nothing says when it is replaced; what
  is typed while the software prints, or was on its way when the chip was reset, is
  still there when the next read begins.
- **Resets keep the code RAM.** A load may be cut off, and be followed by one from the
  other source, or by none.
- **Two halves of a counter** are read by two instructions, and it counts on in between.
- **Uninitialised memory.** The offsets of `calibrate()` lie on the stack, uncleared.

What makes each part correct, and the property that says so:

| Part | Promise | Property |
| --- | --- | --- |
| PMCC | every clock edge executes the instruction at the program counter, loops nest as written | `ExecutesIsa`, `RefinesIsa`, `FetchCoherent`, `LifoConsistent`, `WritesUnrolledProgram`, `Completes` |
| PMC and driver | whatever is being overwritten, only what the software wrote is executed, no trigger is lost, every pixel is configured and read in its place, calls return | `ExecutesWrittenCode`, `TriggerTaken`, `ConfiguredOnReturn`, `LatchesWholeConfig`, `ReadsCounters`, `CountsWhenCalibrating`, `CallsReturn` |
| SPI | each call gets the answer to its own transfer, none is lost; the boot copies the flash | `ReadsOwnAnswer`, `TransfersArrive`, `BootCopiesFlash`, `CallsReturn` |
| UART | every frame is received once, whatever the phase of the peer, none overruns, lines are put together as sent; to the software it is a link of bytes | `LosesNothing`, `WriteDelivers`, `CallsReturn`, `RefinesByteLink` |
| Bootloader | whatever was loaded before the last reset, the code that is announced as loaded is whole; the boot ends | `CodeRamHoldsImages`, `LoadsStream`, `BootEnds` |
| Start-up code | `main()` finds its objects initialised | `ReadyForMain` |
| Command interpreter | the line read is the line typed, each is obeyed as the answer to its question, each is answered | `LineAsTyped`, `ObeysTypedLines`, `EveryLineAnswered` |
| Core, delays | the time printed is right although the readings may not be; a delay takes as long as asked | `ElapsedExact`, `DelaysAsAsked` |
| `calibrate()` | a pixel gets the first of its best offsets | `LoadsFirstBest` |
| Debug output | what is printed can be read back, no buffer overflows | `ReadsBack` |
| Timer, GPIO, interrupts | no match and no edge is lost for the software, updates survive interrupts | `MatchesAnswered`, `PinsObserved`, `OutputsAsWanted`, `HandlerInstalled`, `KeepsTicking` |
| Buses | each granted request, and no other, is answered in the next cycle by the right word | `DataAnswered`, `InstrAnswered`, `FetchGranted` |

## 2. The modules

    PmccIsa  <--refined by--  PmccLoops --extends--> Pmcc <--extends-- Pmc <-- PmcSystem
                                 ^     ^                                          |  |
                   MCPmccLoops --+     |                    PixelMatrix, Driver --+  +-- MCPmc,
                                       |                                                 PmcProofs
                                  PmccUnroll <-- PmccProofs

    SerialClock <- Spi, SpiFlash <- SpiBoot <- SpiProofs, MCSpiBoot     (with Driver)
    SerialClock <- Uart <- UartBoot <- UartProofs, MCUartBoot           (with Driver)
    Timer, Gpio <- Interrupts <- InterruptsProofs               (with Driver)

    ByteLink  <--refined by--  UartBoot (proved in UartProofs)
    ByteLink  <--used by--     Bootloader <- BootloaderProofs, MCBoot
    ByteLink  <--used by--     CommandInterpreter <- CommandProofs, MCCommand
    Strings <- Console <- CommandInterpreter

    Bus, Stopwatch, Delay, Calibration, StartUp, Debugger (with Strings)
                                             <- ComponentProofs, MCComponents

`DataBus` has the form of an access (which register, a store or not, its data); `Driver`
the processor's side of every register protocol: a call lays out the accesses it makes
(`todo`), and works them off one by one (`Retire`). Between two accesses at least
`AccessGap` cycles pass (`UpdateGap` between the load and the store of one bit-field
update), and as many more as TLC likes.

### Pmcc, PmccIsa, PmccLoops: the coprocessor

`Pmcc` has the registers of `pmcc.sv`, `pmcc_loop_controller.sv` and `pmcc_loop_lifo.sv`
(`pc_id`, `active_loop`, `loop_execution`, `lifo_readout`, `lifo_mem`,
`elements_counter`, `lifo_rdata`, `lifo_full`, `lifo_empty`, `matrix_ctrl`), one
operator per combinational signal (`PcIf`, `LifoPush`, `LifoPop`, `BranchExec`, ...) and
the edge: `PmccRun` or `PmccReset`. `IterMod` keeps the wrap of the 14-bit iteration
counter, `AddrMod` that of the program counter.

`PmccIsa` is what a programmer is told: a stack of loops, and an action for each
instruction (`WriteControl`, `EnterLoop`, `SkipLoop`, `Iterate`, `LeaveLoop`, `JumpTo`,
`Proceed`) and for `Reset`. `PmccLoops` runs the coprocessor on a fixed program of any
shape and relates the two by the refinement mapping `LoopStack`: the LIFO entries below
`elements_counter`, then the innermost loop, from the read port if it was just popped.

The two do **not** agree on every program. If a loop that was just popped is followed by
anything but a STOREB or a LOOP, the controller takes one iteration off it although it
has not come round, and one that had none left wraps to `2^14 - 1` (`ResumesShort`).
Nothing in the repository says such programs are meant to work, and no program in it has
that shape, so this is recorded as a limit and not as a defect: `ExecutesIsa` says it is
the *only* departure, and the well-formed programs of `PmccUnroll` never meet it. Two
further facts of the instruction set, which `PmccIsa` states as the code has them: LOOP
0 opens no loop, and the push onto a full LIFO is dropped.

### Pmc, PixelMatrix, PmcSystem: the controller, the matrix and the driver

`Pmc` adds the bus side: code RAM byte by byte, decoding of the three bytes at the
program counter (so an instruction may be put together from old and new ones), CR with
its self-clearing bits, SR, DIN_0 and DOUT_0. The chip's pixels are not in the
repository; `PixelMatrix` (external) is one column as the software and the names of the
control lines take it to be: a shift chain, configuration registers latched by a rising
`write_cfg`, and counters that take some new value when the gate closes or the strobe
rises outside shifting. `PmcSystem` has the driver calls, with the real three programs
of `pmcc.cpp` as bytes. A call has parts (`part`: write, latch, hit, read), one after the
other (`FollowingPart`); each begins by loading its program (`Begin`), and all but the
latch then go round a loop, once for each bit of the column or once for the hits
(`Rounds`, `NextRound`; `bit` counts). `todo` holds the accesses of the load, or of one
round, and `GoesOn` takes the place of `Retire`.

`ConfiguredOnReturn` holds although `load_pixels_configs()` does not wait for its latch
program, and the reason is subtle: the coprocessor is still enabled from the program
before, so the latch program starts when the reset bit clears itself, and is done by the
time `load_application()` has made its last two accesses, which enable the coprocessor
once more.

### SerialClock, Spi, SpiFlash, SpiBoot

`Spi` is `spi.sv` (`Registers`) and `spi_master.sv` (`Master`, one disjunct for each
state and serial edge); `SpiFlash` the slave behind a three-stage synchroniser and the
memory that feeds it; `SpiBoot` the bootloader's loop (`ReadsOn` and `StoresWord` take it
round, byte by byte and word by word) followed by any sequence of `read()` and
`write(byte)`.

### Uart, UartBoot

`Uart` has the transmitter and receiver, frame by frame and edge by edge. `UartBoot` adds
the other end of the cable (external) with its own clock: it begins a frame in any
cycle, and samples the answer in the middle of its own bits. The software in it is
`load_code_through_uart()`, then any number of lines read as the command interpreter
reads them: prompt, then bytes up to a newline or the end of the buffer.

### Timer, Gpio, Interrupts

`Timer` and `Gpio` are each register file and core. `Interrupts` puts them under a
processor with a main program and two handlers: `TakeInterrupt` comes between any two
steps of the main program, also inside an update, which is why it has two registers for
what was loaded (`main_loaded`, `handler_loaded`). The vectors and the enabling are the
code's (`core.cpp`, the applications' `crt0.S`); the set-up sequence and the handlers
are the shortest ones the drivers allow and are marked external. Once set up, the main
program sets any pin, or triggers the timer anew, whenever it likes (`Asks`): the
timer clears the bit itself, and takes no notice of it while it counts. What
the drivers allow and the model leaves out: `set_cmpr()` and `halt()` on a running timer,
and a handler that writes the output register, between whose load and store
`set_pin()` would be torn; no program of the repository does either. Nor is the compiler
in the model: accesses are made in the order of the source.

### ByteLink: what the software builds on

`ByteLink` is the receiving half of a UART as the software may think of it: bytes in
flight, RDR, `rxne`, and a byte that is lost if the next one comes first. `UartBoot`
implements it cycle by cycle (`RefinesByteLink`: the frames under way are the bytes in
flight; proved for every divider and number of edges in `UartProofs`), so the models of
the software above it need no clock: `Delivers` and `Takes` are its steps at the pace of
whole bytes.

### Bootloader

From reset to the jump: the two pins, the prompt, the load through either link, the trap
vector, the finished pin. `Reset` comes at any moment and as often as `MaxResets`
allows. It leaves the code RAM, and nothing else; the computer at the other end of the
cable either stops sending (`keeps` false) or does not notice and sends on into the next
load. The second is why the model has two promises: `CodeRamHoldsImages` and `BootEnds`
are for a computer that stops, `LoadsStream` says for any computer how much of what it
sent may be out of place: one byte, the one nothing takes out of RDR before the load.

### Console, CommandInterpreter

`Console` knows lines, questions and outputs and no characters: what a user is promised.
`CommandInterpreter` is the software over `ByteLink`, text by text and character by
character. Every text carries its NUL onto the line (`Uart::write(src)` sends it), so
the prompt can be read, and answered, before `read()` is called; `ObeysTypedLines` says
that each of its steps is one of the console's on the line as typed, or leaves the
console alone. `ahead` is chosen at the start: a peer that waits for each prompt, or one
that types at any time. For the second `LineAsTyped` says exactly what is lost: all but
the last character, which begins the next line. A line that fills the buffer has no NUL
and is read on behind it (`StackTails`), as the parser does.

### Stopwatch, Delay, Calibration, StartUp, Debugger, Strings

The parts of the software that share no state with the rest. `Stopwatch` reads `mcycle`
and `mcycleh` by two steps of a counter that never stops; `Delay` is the loop of
`execute_10_cycles_loop()` in both builds; `Calibration` the choice of the offsets, any
counts in any round, on a stack that holds anything; `StartUp` the three loops of
`crt0.S`, with sections of any size; `Debugger` every output, through the conversions of
`Strings`, with the sizes of its buffers. Their definitions are prefixed with the
module's name, because `MCComponents` extends all five, and `Bus`, and checks
them in one run; its variable `part` says which of them a behaviour is about.

### Bus

Requests, grants, answers of both arbiters, with the code RAM and boot ROM shared. The
processor is any machine that keeps a request up until it is granted; its data accesses
come from instructions it has fetched (at most two from each, the halves of a misaligned
one), which is what keeps the data bus from starving the fetches for ever.

## 3. The runs

| Run | Distinct states | What it shows |
| --- | --- | --- |
| `pmcc_programs` | 201 042 | Every program of up to five instructions, well formed or not, triggered and reset in any cycle: each edge is a step of the instruction set (or a resumption cut short). |
| `pmcc_unrolled` | 5 678 | Every well-formed loop program of up to six instructions writes the control lines as its loops written out would, and ends. |
| `pmc` | 27 777 | Any sequence of `Pixel_matrix` calls, at any pace, over the running coprocessor. |
| `pmc_latch_comment` | (violation) | See "Findings". |
| `spi_boot` | 64 886 | Booting from flash, then any driver calls. |
| `uart_boot` | 108 487 | Booting over the UART, then lines, the peer's edges anywhere in a bit. |
| `interrupts` | 192 302 | A periodic timer and a button that moves at will, between any two accesses of a main program that sets pins and triggers the timer again. |
| `command_line` | 162 846 | Lines right and wrong, of any length up to the buffer, from a peer that waits for its prompts and from one that does not. |
| `bootloader` | 6 628 | Booting from either source or none, with up to three resets, and a computer that stops at a reset or sends on. |
| `components` | 408 544 | Any fetches and data accesses on the buses, unmapped addresses included (22 375 of the states). The stopwatch over every phase of the counter, delays of every length, calibrations one after the other, every small layout of the sections, every print of words around each change of length. |
| `start_up_bss` | (violation) | See "Findings". |
| `calibration_stack` | (violation) | See "Findings". |

Bounds, and why they suffice:

- `pmcc_programs`: `LifoDepth = 2` with five instructions opens three loops and drops a
  push onto a full LIFO; `IterMod = 4` (2^14) lets a counter run down, wrap and be
  skipped as zero; `AddrMod = 16` lets a program run over the end of the memory. The
  theorems take over for all other sizes.
- `pmcc_unrolled`: `Counts = {1, 3}` (the smallest and largest number of iterations),
  loops nested to the depth of the LIFO, one after the other or inside each other. A program's expected writes are
  computed by a recursive definition (`Unrolled`), independent of `PmccIsa`.
- `pmc`: two pixels a column (`PixelBits = 2`; 512 bits in the chip) tell a missing bit,
  a swapped order and a chain shifted on from a correct one. `AccessGap = 4` is the
  shortest distance of two accesses in the compiled loops; with less than 4 the model
  reads `dout` before it has moved, and that is what the margin is.
- `spi_boot`: bytes of three bits, words of two bytes. The divider is the bootloader's
  own (3). With 2 the flash's synchroniser would be too slow and `ReadsOwnAnswer` fails;
  with the accesses closer than three cycles `txact` would be polled before it rises.
  Both margins are visible by changing the `.cfg`; `SpiProofs` has them as hypotheses and
  takes over for all other sizes.
- `uart_boot`: four edges a bit for sixteen, frames of two bits, and a peer whose bit is
  exactly ours but begins at any cycle. The peer may also be one cycle in eight slower;
  one cycle faster, in a stream without a pause, fails. `SlowestGap = 8` bounds how
  slowly the software takes bytes: up to 16 passes, 24 overruns (`NothingOverrun`), for
  the hardware has one register and no flow control. The constants satisfy the
  hypotheses of all three theorems of `UartProofs`, which take over for all others.
- `interrupts`: the period is the shortest one that two handlers of this length leave
  room for; a shorter one loses matches, which is the software's budget. The counter
  (`CounterMod = 16`) is larger than the period, as `set_cmpr()` before the trigger
  implies. The run needs no module of its own: the `.cfg` names the pins.
- `command_line`: five characters make every kind of line (command, prefix of a command,
  number, number too large for a `uint8_t`, neither), a buffer of three characters is
  filled by the longest. Command names share beginnings, as `read_` and
  `calibrate_matrix` do not but a parser that compares too little would need.
- `bootloader`: two words of two bytes tell a swapped or missing byte from a word out of
  place; three resets are a load cut off, one from the other source cut off too, and a
  third.
- `components`: the halves of the counter have five values, so that both wrap within a
  call; words of 16 values and products up to 75 make delays that fit a word and that do
  not; three rounds and counts up to 2 tell first, best and last; sections of 0 to 3
  words in a RAM of 9; the words printed are those around every power of ten and of
  sixteen below 2^31 (TLC's integers end there).
  On the buses, one peripheral with a mapped and an unmapped word and the three
  memories, two words and values each; two accesses outstanding are the most one
  instruction makes.

The symmetric parts are small enough that no symmetry sets are used, and all runs check
deadlock. The type invariants are not among the properties of the runs: `Pmcc`, `Bus`,
`Stopwatch`, `Delay`, `Calibration` and `Bootloader` have theirs proved, and the
`TypeOK` of the other modules documents the types (it holds on the same instances;
that of `SpiBoot` is proved as well).

**Fairness.** `WF_vars(Next)`: the clock does not stop. `WF_vars(CpuAccess)`: the
processor gets on with its program (the models let it be arbitrarily slow; Ibex retires
instructions as long as fetches are granted, which `FetchGranted` is about). In the UART
model, the peer sends what it was asked for; in `Interrupts` the idling of the processor
is bounded by `SlowestGap`, so only the clock needs fairness. In `Bootloader` the
software gets on (`WF_vars(Software)`) and a computer that was asked for an image sends
it (`WF_vars(ComputerSends)`); `BootEnds` is about runs whose resets come to an end, as
`MaxResets` makes all of them. In `CommandInterpreter` only the software is fair
(`Prints`, `Reads`): nobody has to type. `PmccUnroll` assumes the clock only, and
`Completes` speaks of executions in which reset is released for good. No fairness is
assumed of the coprocessor, the masters, the receivers or the timer beyond their clock.

## 4. The proofs

`PmccProofs` (assuming `PmccAssumption`, that is, at least two iteration values, one
address and one LIFO entry, and `ProgramsAssumption`, that programs are made of
instructions) proves for all sizes and all programs:

- `TypeCorrect`, `LifoStaysConsistent`, `FetchStaysCoherent`: the inductive invariant
  `IInv` is the conjunction of the three. None is inductive alone: types need the status
  bits to agree with the counter (a pop at zero or a push at full would leave the
  memory), the LIFO's consistency needs that a loop just popped has left a free entry,
  and both need that the instruction is one of the program's.
- `EdgesExecuteIsa`: under `IInv` every edge maps to a step of `PmccIsa` or a stutter,
  or resumes a loop short. One case for each instruction; lemmas `LoopStackFacts` and
  `LoopStackUnchanged` say how the mapped stack changes under a push, a pop and a
  read-out.
- `LoopsUnrollAsWritten` (`WritesUnrolledProgram`): a well-formed program, one whose loops
  are closed and fit the LIFO and of which a loop that ends inside another is followed by
  the STOREB or the LOOP that goes on, writes exactly the values of its unrolled loops.
  The reference is a recursive function over the program (`Blocks`: for each place, what
  is written from there to the end of its block, and where that is), and what it comes
  to for every program takes induction. The library's induction theorems have a predicate
  for a parameter; `SetInduction` is about a set of numbers instead, and proved by
  counting: were a number missing, the map `x - 1` would put the missing ones into fewer.
  The invariant `UnrollInv` says where in the unrolling the coprocessor is (`At`): each
  loop on its stack starts at a place of the program inside the loop around it and has a
  rest to be written (`Frames`), the instruction is in the innermost one (`Within`), and
  what is written and what is to be written make up the whole (`Accounts`).
- `WellFormedProgramsRefineIsa`: none of these programs resumes a loop short: after a loop
  that ends inside another comes the STOREB or the LOOP that goes on, and where the
  program is (`UnrollInv`) says so of the loop just popped. For them the coprocessor
  implements its instruction set, with no exception.
- `ProgramsRunOut`, what is safe in `Completes`: until the coprocessor waits behind the
  program, every edge writes one of the values that are left (`StoresLeft`) or opens a
  loop of those below the next of them (`BytesLeft`).

`ComponentProofs` has, side by side, the components that share no state with any other.
Of the buses (assuming `BusAssumption`) it proves `BusTypeCorrect`, `DataIsAnswered` and
`FetchesAreAnswered` for any peripherals, words, values and requests, from `BusInv ==
TypeOK /\ Answers`: an answer is due exactly when the slave remembered by the arbiter
raises its valid line, at most one slave does so on each bus, and then its read port
holds what the word held.

`FetchesWaitShortly` is what is safe in `FetchGranted`: a fetch waits only for data
accesses of the instructions before it, of which no more than `MaxAccesses` are left,
and every cycle in which it waits takes one of them.

The rest of `ComponentProofs` is about five programs that share no state:

- *Stopwatch* (assuming a half has at least two values): `StopwatchTypeCorrect` and
  `TimeIsExact`. A reading may be a whole round of the low half off; the invariant
  therefore speaks of the low halves only: since the first reading the low half has
  advanced by `passed`, modulo a half, and at the end the difference of the two low
  halves is `passed` (`StopwatchInv`). The upper halves do not enter: the cast to 32
  bits cuts them off, and with them the error.
- *Delay*: `DelayTypeCorrect` and `DelayIsAsAsked` for every width of the word, from
  `DelayInv`: what has run and what is left make up what was asked, where a register at
  zero has a whole word before it.
- *Calibration*: `CalibrationTypeCorrect` and `CalibrationFindsBest` for any matrix,
  number of rounds and counts. The invariant `BestSoFar`, pixel by pixel: what `counts`
  holds is a bound of what was read, and if it is not zero `offset` is the first round
  it was read in. It says nothing of a pixel that has not counted, and nothing can be
  said: that is the finding of `calibration_stack`.
- *StartUp* (assuming the RAM is larger than two sections): `StartUpReady`, from an
  invariant with a part for each of the three loops: how far it has come, what it has
  done up to there, and that the word written too far is the one at its pointer
  (`StartUpInv`). Of `.bss` it says that all of it is zero, but for the first
  word if there is initialised data.
- *Debugger* (assuming words below 2^32, names without newline or NUL that fit the line
  with the longest address and value, and buffers of at least 11 and 12 bytes):
  `PrintsReadBack`, for every word, in decimal and hexadecimal. The conversions are
  recursive functions over the digits, but over ten of them at most: they are unrolled
  place by place. Each digit is the remainder of a division, which the prover takes if
  the base is a number, so there is one lemma for each base.

`InterruptsProofs` proves `HandlerIsInstalled`, `PinsAreObserved` and
`OutputsAreAsWanted` for any pins, any period, and any pace of the processor: unlike
`MatchesAnswered` they are no question of timing. `InterruptsInv` has five parts.
`Scripts`: what the main program and the handler still have to do is a rest of their
calls. `Installing`: whatever is let in later is installed by then (`Ordered`, a
property of the rest of the set-up, which shrinks from its head; `SetUpInOrder` shows it
of the whole, put together from its calls by `PutTogether`). `Setting`: between the load
and the store of `set_pin()` the register loaded still is the output register, because
no handler writes it. `Enabling`: the three interrupt registers are right once the
set-up is over. `Seeing`, the heart of it: a pin without its status bit was last seen as
it was in one of the last three cycles (`Seen`), unless the handler has cleared the
status and not looked yet. An edge in the last two stages of the detector sets the bit
in the very cycle in which `Seen` would cease to hold (`SeenKept`).

The fourth theorem of `InterruptsProofs` is a question of timing. `MatchesAreAnswered`
says that no match is lost if the processor keeps up (`KeepsUp`): it makes a step in
every `SlowestGap` cycles, and five such steps fit the period. Five, because a match may
come just after the handler of the GPIO was entered: two steps to leave that, one to
take the timer's interrupt, and the load and the store of `clear_matched()`. The
invariant `TimelyInv` reads the time from the timer itself, whose counter starts again
with each match: while the match is unanswered the counter is below what the steps made
so far allow (`InTime`). `Answering` says what an unanswered match is in the registers,
and that a timer that runs was set up (`Armed`). `Preparing` knows that the set-up
triggers it last, and that a trigger the main program asks for later (`TriggerScript`)
finds it armed and leaves it so. The bound is exact: with `SlowestGap = 2` TLC finds a lost
match for `Period = 9`, and none for 10.

`TimerIsServed` adds the times (under `KeepsUp`): once set up, the timer counts for ever
and matches every `Period + 1` cycles, a match waits for its own handler, which begins
within three of the longest gaps and is through within five (`AnsweredSoon`): a run of
the handler in every period, which is `KeepsTicking` without the fairness of the clock.
TLC finds the first of the two bounds exact.

`BootloaderProofs` (assuming `BootAssumption`, that the code RAM and its words are not
empty, and `ImageAssumption`, that each image fills the code RAM, which the loader counts
on) proves `BootTypeCorrect`, `CodeRamIsLoaded` and `StreamIsLoaded` for any images and
any number of resets. `BootInv` has, next to the types, a part for each thing the loader
depends on. `Fetching`: the flash has handed out what is loaded. `Streaming`: what the
loader has taken is what was sent, but for at most one byte at the front, the one that
lay in RDR when the load began. `InStep`, for a computer that stops at a reset: there is
no such byte, and it has sent exactly what was received. `LoadsImage`, also for it: the
bytes of the word begun and the words stored are those of the image, and the words above
them were stored by earlier loads. `PinTells`: the finished pin is set only after the
last word and the trap vector. The lemmas under it place bytes in words (`WordsBefore`,
`NextWord`) and say what one more byte does to the stream.

`EveryStepCounts` is what is safe in `BootEnds`: between two resets every step of the
loader, and of a computer that answers, leaves fewer to make (`StepsLeft`: five, one for
each byte to be loaded and one for each to be sent), and the loader waits for a byte only
while one is to come (`NeverStarves`).

`UartProofs` takes the UART, its driver, the bootloader and the peer together, cycle by
cycle, for any divider, any number of edges to a bit, any bytes, and any pace of the
processor and of the peer within these limits, each a hypothesis of the theorems that
need it:

| Hypothesis | Says | Why |
| --- | --- | --- |
| `RatesAgree` | the peer's bit is not shorter than ours, and over a frame not more than `(Mid - 1) * Period + 1` cycles longer (`Period`: a serial clock, `Mid`: half the edges of a bit) | The receiver waits for the end of its own stop bit, so a faster peer that never pauses gains on it without limit; a slower one is sampled a bit too early at last. The bound is exact: TLC finds the refinement violated as soon as it is exceeded. |
| `PeerHears` | the peer's sample of the stop bit still falls into ours | The peer waits for no one either. Sufficient, not exact. |
| `PollsInTime` | three cycles between two accesses | `txact` rises two cycles after TDR was written. With two TLC finds it polled before. |
| `KeepsUp` | the processor makes an access in every `SlowestGap` cycles, and three such gaps are less than a frame | There are three accesses from the arrival of a byte to the next reading of RDR: the poll, the reading, the store of a full word. Exact for words of one byte; larger words leave more room. |

With the numbers of the chip (sixteen edges, divider 6) a bit is 224 cycles and a frame
2240: the peer's bit may be up to 11 cycles longer for `UartIsLink`, 10 for the others,
and the accesses up to 746 cycles apart. At the 50 MHz the driver's comment names, 230400
baud would be 217 cycles: such a peer is *faster* than the chip, and none of the theorems
is about it; in a stream without pauses it is misread sooner or later.

- `UartIsLink` (`RatesAgree`): `UartBoot` implements `ByteLink`. The invariant `LinkInv`
  has a part for each thing that keeps time. `ClockRuns`: the generator's counter is
  below its divider. `LineInv`, about the receiver and the peer: the registers have
  their types (`LineTypes`); counted in cycles from the start of the frame, the
  receiver's time and the peer's differ by no more than the rates have let them drift
  apart so far, and one `Period` for the phase at the start (`InStep`); the frame that
  is left on the line, and the bits already shifted in, are those of the byte in flight
  (`Carries`). From `InStep` follows that each sample falls into the bit it is meant for
  (`RightBit`, `StopBit`), by products and not by division, for the prover has none.
  `SoftwareTypes`, `StartsUp` and `Program`: what the software has still to do is a rest
  of one of its calls, and the receiver is enabled by the time the peer may send.
  `Counts`: the software has never taken more than came, and the peer sends only what
  was asked for. `LinkTurns` then maps each cycle to a step of the link or a stutter.
- `PromptsAreHeard` (also `PeerHears`, `PollsInTime`): what the software writes has been
  heard unchanged before it reads an answer (`WriteDelivers`). The invariant `Transmits`
  gives the stages of a write: TDR is written, the transmitter starts, the line falls,
  the peer listens, it has heard, the transmitter is idle (`HandsOver`, `Starts`,
  `Falls`, `Goes`, `Ends`, `Done`). While it listens, the time it has listened for and
  the transmitter's differ by less than two `Period`s.
- `NothingIsLost` (also `KeepsUp`): `LosesNothing`, that is, every byte that was sent is
  read once, in order, and lies in its place in the words or in the line. `Timely` tells
  the time from the receiver: `Since`, the cycles since the middle of the last stop bit,
  is bounded by the accesses made since, and so the byte is out of RDR when `Since`
  would reach a frame. `Ordered` counts: what was taken and what lies in RDR is what was
  received, and words, bytes and line are pieces of the stream.
- `UartTakesItsTime` (`RatesAgree`) and `ReadsWaitForThePeer` (all four) are what is safe in
  `CallsReturn`. After a write to TDR `txact` is down within a frame and two cycles
  (`TxLeft`), a byte whose frame has begun is in RDR two cycles after the middle of its
  stop bit (`RxLeft`), and every cycle is one less of both, whatever the software and the
  peer do in it. Every access of a call is one less of those it has to make
  (`AccessesToMake`: three to construct, two for the prompt, two for each byte and one for
  each word), except a poll made again; and `rxne` is polled again only if a byte is on
  its way or the peer has been asked for one and is to send it (`WaitsForByte`), so that
  neither waits for the other. The last needs that a line whose last byte was read goes
  on only if that was no newline (`Unended`).

`SpiProofs` (assuming `SpiBootAssumption` and those of the modules under it) takes the
master, the flash, the driver and the bootloader together, cycle by cycle, for any
divider, any bits to a byte, any memory and image, and any pace of the software within
these limits:

| Hypothesis | Says | Why |
| --- | --- | --- |
| `SlaveInTime` | the divider is at least 3, and a byte has fewer than 16 bits | The flash's synchroniser answers an edge of the clock line three cycles later, and the master samples half a period (`HalfPeriod`, the divider and one) after the edge: the bound is exact, with 2 TLC finds `ReadsOwnAnswer` violated. The flash counts its bits in four bits. |
| `SoftwarePaced` | at least three cycles between two accesses; half a period is not longer than two such gaps and two | `txact` rises only then. And `rxne` rises half a period before the master lets go of the slave, so the next store to TDR, two accesses after the poll, must not come earlier. What the proof rests on breaks beyond it: with gaps of 3, TLC finds the invariant violated for divider 8 and none of it for 7. |

The bootloader's divider is 3 and the accesses of the compiled loops lie four cycles and
more apart, so the chip satisfies both.

- `SpiCarries` (`TransfersArrive`): what `write()` was asked to send has been shifted
  into the flash when it returns. `SpiAnswers` (the action property `ReadsOwnAnswer`):
  a `read()` returns the flash's answer to the transfer it began, not that to the one
  before it. `SpiBoots` (`BootCopiesFlash`): the code RAM is loaded with the flash.
  `SpiTypeCorrect`: the bit counters stay within the byte and the addresses within the
  memories (`TypeOK`).
- `SpiTakesItsTime` is what is safe in `CallsReturn`: a transfer ends after the cycles its
  bits and the divider take (`TransferTime`), one less with every cycle whatever the
  software does, and the poll of `read()` or `write()` then finds what it waits for.
- The invariant `Inv` has, next to the types, a part for each thing that keeps pace.
  `Wave`: the clock line, the counters and flags of the master, and the three samples
  of the slave, state by state; everything is told from `Led`, the leading edges made,
  and `Since`, the cycles since the last edge. `Bits`: with `Led` edges made and
  `Fallen` seen by the slave, which bits of either shift register are already the other
  side's (`SendsOut`, `Hears`, `Answers`, `TakesIn`). `Stage`: where the software is in
  its call. After the store to TDR it polls; from the poll that finds the byte on, what
  is left of the transfer (`Remaining`) is bounded by the gaps still to come (`Over`).
  `Places`: the number of transfers is the flash's place. `Loading`: the bytes of the
  word begun are in their places.
- None is inductive without the others: the bits are right because no edge comes before
  the slave has answered the last one (`Wave`), no edge comes unasked because the
  software stores to TDR only when the master is idle (`Stage`), and that is known
  because the master's counters tell when it will be (`Wave` again). `BeatStep` is one
  cycle of the line, `PlaceMoves` the flash's address after a byte, and there is one
  lemma for each step of the software (`PollStep`, `TakeStep`, `KeepStep`, `SendStep`,
  `ConfigureStep`, `CallStep`, `IdleStep`).

`PmcProofs` (assuming `PmccAssumption`, `PixelBitsAssumption` and `GapAssumption`) takes
the driver, the controller, the coprocessor running the driver's three programs and the
column of pixels together, for a column of any length, any sequence of calls, and:

| Hypothesis | Says | Why |
| --- | --- | --- |
| `ProgramsFit` | the code RAM has at least nine bytes, and their number divides 8192 | The longest program has nine bytes. The JUMP at its end is `0x20 0x00`: a class and an address of 13 bits, of which only the address may count; with the chip's 1024 bytes it does. |
| `SoftwarePaced` | four cycles between two accesses by different pointers (`AccessGap`), any number from one between the load and the store of an update (`UpdateGap`) | `dout` shows a shift four cycles after the trigger. The bound is exact for `ReadsCounters`: with three, TLC finds it violated. The other five properties hold with three on the instance of the run; the invariant they share with it does not. |

- `PmcExecutes` (`ExecutesWrittenCode`), `PmcTakesTriggers` (`TriggerTaken`),
  `PmcConfigures` (`ConfiguredOnReturn`), `PmcReads` (`ReadsCounters`) and, of the action
  properties, `PmcLatches` (`LatchesWholeConfig`) and `PmcCounts`
  (`CountsWhenCalibrating`): all six from one invariant.
- `Inv` is `Always /\ Stage`. `Always` has the types, which part belongs to which call
  (`Parts`), what has been read (`ReadsCounters`), and that the coprocessor never enters
  a loop, for none of the programs has one. `Stage` is a disjunction: thirteen stages of
  a call, each told by what is left in `todo`, and each says four things that only hold
  together: which bytes are in the RAM (`HoldsShifter`, `HoldsLatcher`, `HoldsHits`, or,
  while a program is loaded over another, a word of one beside words of the other), the
  instruction the coprocessor is at, its control lines, and what the column holds.
- The time is told from `gap`, the cycles since the last access: in the first three
  after a trigger the coprocessor is at a known instruction, from the fourth on it rests
  at a WAITT or is jumping back to it (`Shifting`, `Hitting`, `Latching`). That is why
  overwriting is safe: a word is only stored over a program that is at rest, or about to
  be, and most words leave a WAITT where the coprocessor is. Two do not. The second word
  of the shifter puts its JUMP where the hits program rests, behind its end: the
  coprocessor goes to the WAITT at 0 (`LoadsShifter2`). And the first word of the latch
  program replaces the WAITT of the shifter: the coprocessor stores `0x0020`, latches,
  and goes on into the shifter's second word, `0x02c0`, before it rests
  (`LoadsLatcher1`). The latch is right because the column is complete by then
  (`Written`), and the stray lines have no effect on the pixels (`Calm`). The second
  latching, after the reset, stores the same column.
- The column is described by one shift that is pending or not (`Pending`): what the
  first bits hold of `target` (`Shifted`, `Written`), and what the last ones still hold
  of `counted` (`Moved`, `Moving`). `Kept` bridges the loading of the shifter between
  the hits and the first bit read.
- There is a lemma for each stage and kind of step (`InvInit`, `InvNext` put them
  together); `StageStands` draws from the stage what the coprocessor executes, and
  `ColumnTold` what an edge does to the column. TLC finds `Always` and
  `Stage` to hold for columns of two and three bits and gaps of four to six.
- `CallsMakeTheirAccesses` is what is safe in `CallsReturn`. No poll of the driver is ever
  made again: by the time of the access the coprocessor is waiting and the status
  register, which is late, shows it (`StatusTold`, from the stages). So the accesses of a
  call can be counted: 13 for `load_pixels_configs()`, 29 for a round of the calibration,
  7 for `read_counters()`, and for each bit of a pixel four more, eight in the
  calibration; each access made is one less (`AccessCounts`).

`CommandProofs` (assuming `LineAssumption`, that the line buffer is not empty) proves
`LineIsAsTyped` and the action property `TypedLinesAreObeyed` for any characters,
commands, buffer and number of columns. `CommandInv` rests on two facts. Whatever the
program has still to print ends in a NUL after a text (`Dialogue`, shown of every answer
to every question by `AnswerIsDialogue`), so there is a last character to be printed
after the prompt can be read, and no line is begun before it. And from then on what was
received is what was typed, after one stray character at most (`Catches`), which only a
peer that types ahead can have left.

`LinesAreAnswered` is what is safe in `EveryLineAnswered`: after a line of a peer that
waits, each step is the software's and leaves fewer to the next prompt, of which there
are never more than eleven and two for each column (`StepsToPrompt`), and it never waits
for a character meanwhile.

Only model-checked:

- The liveness properties (`Completes`, `CallsReturn` of the three drivers, `KeepsTicking`,
  `FetchGranted`, `BootEnds`, `EveryLineAnswered`): fairness is out of the prover's reach.
  What each of them rests on is proved: a number that is bounded, that every step of the
  system makes smaller, and that is zero only when what was promised has happened; what
  is left to fairness is that steps are made at all. For `CallsReturn` of the UART the
  peer, too, has to send what it was asked for.
- The three properties of the runs that expect a violation.
- The `TypeOK` of `CommandInterpreter`, `UartBoot`, `PmcSystem` and `Interrupts`, which no
  run checks as a property: the invariants of the proofs say of the types what the
  theorems need (the numbers of the command line come from a fold over its digits, which
  the prover cannot unfold for a line of any length).

## 5. Findings

- **The latch program does not store what its comment says** (`pmc_latch_comment`).
  `sw/libs/drivers/src/pmcc.cpp:16` announces `store 0x0023: set write_cfg`, that is
  with both shift lines up; the bytes beside it store `0x0020`. The code does the safe
  thing: 0x0023 would raise the shift clock, and shift the chain by one bit, at the very
  edge that latches it.

- **A pixel that counts in no round is configured with garbage** (`calibration_stack`).
  `Pixel_matrix::calibrate()` clears the counts of the array on its stack, not the
  offsets (`sw/libs/misc/src/pixel_matrix.cpp:67`); a round sets an offset only if the
  pixel counts more than before, so a pixel that counts in none keeps what the stack
  held, and is configured with it, while the command reports "offset calibration done".

- **The start-up code spoils the first word of `.bss`** (`start_up_bss`). The loops that
  clear `.bss` and copy `.data` test their pointer with `ble` (`sw/app/crt0.S:108` and
  `:122`) and go a word too far. `.bss` follows `.data` (`sw/app/link.ld:79-106`) and is
  cleared first, under the comment "BSS clearing" (`sw/app/crt0.S:100`), so in a program
  with initialised data its first word starts with whatever follows the initial values
  in the code memory. The programs of the repository have no initialised data and are
  not affected. `ReadyForMain` says exactly what every program can count on.

One more, seen while modelling and not stated as a violation, because it is about a
file of the simulation that nothing here models:

- **The expected LED wave is stale**: `sim/led_waves_correct.txt` is not what the
  application's `main()` plays now.

Learned on the way, and noted as hazards or limits rather than findings: the resumption cut
short (section 2), the eleventh nested loop, `txact` rising three cycles late, the
divider's lower limit, the silent overrun of RDR, unmapped accesses that stall the core
for good, and the flash's address, compared with a value it never takes.

## 6. What is not modelled, and why

- **Analog and digital configuration registers**, the upper 32 columns and the read-back
  of the control lines: nothing in the repository reads them back or interacts with
  them.
- **Hardware accelerator** (`pmc`): not listed in `soc.f` and incomplete.
- **Ibex, top level, pads**: third party, or wires. The bus and interrupt protocols of
  the core are the environment of the models.
- **An access nobody decodes**: the bus models stall on it as the code does, for good.
  Nothing says what should happen, so no property does.
- **The application's Morse tables**: a lookup and pauses, one after the other; its
  interrupts and outputs are in `Interrupts`, its pauses in `Delay`.
- **Framing errors and reading the flash past its end**: the drivers look at neither.
  `rxerr` never rises in `UartBoot`, whose peer sends whole frames (`ReceivesFrames`
  says so).
- **ASIC memory macros**: the models follow `memories/fpga/`; the `memories/asic/`
  wrappers have the same ports around vendor cells.
- **Simulation, synthesis scripts, tools, prebuilt images.**
- **GPIO's CR and SR**, which drive nothing, and `toggle_pin()`, `set_polarity()` and
  `strlen()`, which nothing calls.
- **The compiler.** The drivers' handler pointers are ordinary variables and the enabling
  of interrupts an `asm volatile` without a memory clobber (`drivers/src/core.cpp`);
  whether a compiler may exchange the two is not a question of these models, in which
  accesses are made in the order of the source.
- **A handler that writes the output register, and a timer given a new period or halted
  while it runs**: the drivers allow both, no program of the repository does either.
- **The reset of single peripherals**: there is none; `Bootloader` resets the chip.
- **Width of data**: payloads are short bit sequences or small numbers throughout, word
  granularity on the buses.
- **Metastability**: below a model of clock edges.

## 7. Plan

Done, in the order of importance: the coprocessor and its proofs; the PMC with its
driver; the boot paths; the interrupts; the buses; the byte link, and on it the
bootloader with its resets and the command interpreter; the software's counters, delays,
calibration, start-up and output; proofs of all of these that time does not decide, and
of those that it does for the timer (`MatchesAnswered`), the UART (the refinement of
`ByteLink`, `LosesNothing`, `WriteDelivers`), the SPI (`TransfersArrive`,
`ReadsOwnAnswer`, `BootCopiesFlash`) and the PMC (all its safety properties); the unrolled
loops of every well-formed program and the printed words; and of each liveness property
the bound it rests on.

Worth doing next:

1. `PmcSystem` with programs other than the driver's three: which shapes can be loaded
   over which.
2. `Pmc` with two column groups and its configuration registers.
3. Handlers of other shapes in `Interrupts`, one that writes outputs among them; a timer
   in single shot, or halted or given a new period while it runs.
4. Frames with a bad stop bit in `UartBoot`.
