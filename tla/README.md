# SPU32 in TLA+

SPU32 is a small RISC-V system on a chip: a CPU, its bus adapters, memories
shared with a video output, and simple devices, all in Verilog; on it run a
boot ROM, two boot stages, a BIOS with FatFS on an SD card, a shell, a file
server and some programs, in C and assembly. This directory holds TLA+ modules
of its core, the TLC configurations that check them and TLAPS proofs about the
CPU, its three memory paths, the timer and most of the software below the file
system.

Contents: [the system](#the-system), [modules](#modules), [runs](#runs),
[bounds](#bounds), [fairness](#fairness), [theorems](#theorems),
[what the checks found](#what-the-checks-found), [not modelled](#not-modelled),
[what is left](#what-is-left).

## The system

### Components

| component (`src/`) | state | operations | what makes it correct |
|---|---|---|---|
| CPU control (`cpu/cpu.v`, `decoder.v`, `registers.v`, `branch.v`) | state machine, pc, register file, trap CSRs | fetch, decode, execute, CSR access, trap, write-back in the next fetch | each instruction acts once and in order, interrupts leave no trace of the interrupted one |
| arithmetic unit (`cpu/alu.v`, `mul.v`, `div.v`, `shifter.v`, `muldsp.v`) | result and iteration registers | one operation per enable, busy while iterating | the RV32IM result, whatever ran before, in bounded time |
| bus unit (`cpu/bus.v`) | last operation | passes accesses on, extends loads | the value of a load is extended by its own operation |
| 32-bit bus and SPRAM (`bus/wishbone32.v`, `ram/ice40_spram_1mbit_wb32_vga.v`) | beat and acknowledge counters, assembled word | one or two pipelined beats per access, stalls | an atomic byte memory |
| 8-bit bus and SRAM (`bus/wishbone8.v`, `ram/sram256kx16_wb8_vga_ice40.v`) | the same, per byte | one to four beats | an atomic byte memory |
| direct SRAM path (`bus/memory16.v`, `ram/sram256kx16_membus_vga_ice40.v`) | word counter, half-word buffer | one to three words per access | an atomic byte memory |
| arbiter and boards (`boards/*/top.v`) | reset counter, address one clock ago | selects device, acknowledge and data by address | every access is answered by the device it addressed |
| timer (`timer/*.v`, `libspu32.c`) | count, target, armed, latched | read the time, request, acknowledge | consistent reads, one interrupt per request, on time |
| UART (`uart/uart_wb8.v`, `bios_uart.c`) | shift registers, clock and bit counters, flags | send, receive, poll | bytes arrive once, in order |
| SPI (`spi/*.v`, `bios_spi.c`) | shift registers, clock divider, transmission state | select, exchange a byte | both ends get the other's byte and stay in frame |
| SD card driver (`bios_sdcard.c`) | only locals | initialise, read and write a block, size | a block reported as written is; every call ends |
| FatFS and the file service (`bios_fatfs.c`, `bios/fatfs`) | window, free count, lock table, open files, search, current directory, handle table | mount, open, close, read, write, seek, size, unlink, mkdir, chdir, getcwd, rename, findfirst, findnext | a tree of files; no cluster lost or shared, also after a fault; no lock kept |
| BIOS entry (`bios.c`, `bios_calls.c`, `bios_shared.h`) | the request, the trap registers, the stream for output | set up a request, environment call, dispatch, return | each request served once, the interrupted program goes on where it was |
| text terminal (`bios_video.c`) | mode, cursor, colours, escape sequence, screen | set a mode, write a character | the screen shows the text; nothing is written beside it |
| shell (`shell.c`, `libtinyc.c`) | line, arguments, mode to restore | edit a line, run a program | the program gets the line as typed; the screen comes back |
| boot ROM and uploader (`asm/bootrom.s`, `serial-uploader/uploader.c`) | none that lasts | upload, call, bytes to the flash, load from the flash | what is started is whole, what is programmed is in the flash |
| boot stages (`boot-stage1`, `boot-stage2`, loading in `shell.c`) | memory | load the next stage, the shell, a program | nobody is overwritten, nothing runs half loaded |
| file transfer (`software/filesrv`, `apps/filesrv`) | two packet layers, two command loops | get, put | what is reported as transferred is |
| chain reaction (`apps/chainreaction`) | field, players | move, react, end of the game | a reaction ends, a turn has a move |
| video (`vga/*.v`) | beam position, fetch pipelines, palette | fetch from the RAM, update the palette | takes the RAM only briefly; shows the picture |
| infrared, sound, PRNG, LEDs | registers | write, read | local |

### Interaction

The CPU raises a request (`strobe`, operation, address, data) on the falling
edge of the clock and waits for `busy` to go away; bus adapters and devices act
on the rising edge. Behind the adapter the arbiter selects a device by address.
The video output reads the same RAM and always wins: the RAM then *stalls* the
adapter (32-bit and 8-bit bus) or simply does not answer (direct path). A reset
line returns the CPU to its vector but not every register of every part. The
timer interrupts the CPU through one line, sampled in DECODE.

A program asks the BIOS by an environment call with the address of a request;
the interrupt service routine runs the handler and returns behind the call.
The handlers talk to UART, SPI and timer by polling their registers, to the card
by commands over the SPI, to FatFS by calls; FatFS reaches the card by sectors,
through one window. Standard output is the UART or the terminal.

The host talks to the boot ROM and, later, to the file server over the serial
line: single bytes with a timeout in the ROM, packets with checksums and
one-byte answers without one in the server. There are no processes or threads:
concurrency is that of hardware with the program, of the two edges, of the video
with the CPU, of interrupts with the program, and of the two ends of a line; and
a card fails, or the power does, at any point.

### What is hard

* Two clock edges with a handshake between them, pipelined beats, acknowledges
  that arrive while the next beat is refused (bus adapters).
* Work repeated on every clock of a wait, write-back one state late, traps that
  interrupt half-done instructions (CPU control).
* Resets that clear some registers only (adapters, arithmetic unit, traps).
* Free-running counters read and compared while they run (timer, SPI, UART).
* Damaged bytes and failing files in a protocol without timeouts (file transfer).
* State kept in several places (window, table, directory entry, open file, lock
  table, free count), changed one sector at a time on a card that may fail
  (FatFS), answers that come late or not at all (SD card).
* A timeout in the middle of someone else's transaction (boot ROM).
* Memory that is loaded over what ran before (boot stages, shell).

`PROJECT.json` lists the hazards line by line, with the properties that would
catch each, or why none does.

## Modules

| module | models | composed with |
|---|---|---|
| `BusAccess` | a CPU access: operation, width, bytes touched, extension (`cpu/busdefs.vh`, `cpu/bus.v`) | |
| `ByteMemory` | **abstract**: a byte memory that serves one access at a time, cut short only by a reset | `BusAccess` |
| `CpuPort` | the CPU as a client of the bus: any sequence of accesses, waits, resets, the bus unit's extension of loads | `BusAccess` |
| `Wishbone32` | `wishbone32.v` with the SPRAM and the video's claims on it | `CpuPort`, implements `ByteMemory` |
| `Wishbone8` | `wishbone8.v` with the 16-bit SRAM accessed by bytes | `CpuPort`, implements `ByteMemory` |
| `Memory16` | `memory16.v` with the SRAM accessed by words | `CpuPort`, implements `ByteMemory` |
| `Rv32` | instructions, operands and word arithmetic | |
| `Isa` | **abstract**: what a program does, an instruction at a time, with traps and interrupts | `Rv32` |
| `CpuControl` | `cpu.v` with decoder, registers and branch unit, edge by edge; bus and arithmetic unit answer after any time | `Rv32`, implements `Isa` |
| `Arith` | reference definitions of the RV32IM operations on W-bit words | |
| `Alu` | `alu.v`, `mul.v`, `div.v`, `shifter.v` and their handshake with the CPU | `Arith` |
| `Timer` | both timers with the program of `libspu32.c` | |
| `Spi` | `spi_wb8.v`, `spicontroller.v`, `bios_spi.c` and a mode-0 device | |
| `Uart` | `uart_wb8.v` and `bios_uart.c` on two ends of a line | |
| `BlockDevice` | **abstract**: a device of blocks that may be pulled out | |
| `SdCard` | `bios_sdcard.c`, byte by byte, with a card that is slow, refuses, or is gone | implements `BlockDevice` |
| `FatVolume` | FatFS below its API: window, allocation table, directories, locks, mounting | |
| `FatFs` | the API of FatFS: paths, files, directories | `FatVolume` |
| `BiosFatFs` | the calls of `bios_fatfs.c`, faults of the card, power cuts | `FatFs` |
| `FileTree` | **abstract**: a tree of files, open files, one search | |
| `FatCheck` | a volume as a file system checker sees it, and the properties | `BiosFatFs`, implements `FileTree` |
| `Bios` | requests, environment call, interrupt service routine | |
| `Terminal` | `bios_video.c` | |
| `Console` | the shell's line, its programs' output and what is restored | `Terminal` |
| `BootRom` | the monitor of `bootrom.s`, `uploader.c`, a flash | |
| `Boot` | what is loaded where by the boot stages and the shell | |
| `ChainReaction` | the game | |
| `Packet` | `filesrv_shared.c`: packets over a line that damages bytes | |
| `BiosFiles` | handle table and file calls of `bios_fatfs.c` over whole files | |
| `FileSrv` | client and server of the file transfer | `Packet`, `BiosFiles` |
| `Wishbone32_proofs`, `Narrow_proofs`, `CpuControl_proofs`, `Peripherals_proofs`, `SdCard_proofs`, `Software_proofs`, `Terminal_proofs`, `FileSrv_proofs` | theorems, see [below](#theorems) | |
| `MC_*` | small instances | |

`MC_Narrow`, `MC_Peripherals` and `MC_Software` hold several parts that share
nothing: a behaviour is of one of them, chosen at the start, and the variables
of the others rest. Every property speaks of one part and holds as well while that
rests (terminal and shell rest as they start), and each part keeps its own fairness.

**Clocked modules.** In the bus, CPU and ALU modules a step is a clock *edge*
(`edge`), as both edges assign registers there; in `Timer`, `Spi` and `Uart` it is
a clock. A step is one nonblocking update: unprimed variables are the registers
before the edge, primed ones after. Wires are operators. Verilog that assigns a
register twice in a block is modelled by the last assignment that applies.
A register without an initial value may start with any in `Spi`; in `Uart` the
flags without one start low, as the iCE40 configures them, and in `Alu` and the
bus modules a reset comes first.

**Ghosts.** Variables marked as history say what happened and guard nothing:
what was requested, when a time was read, what was typed, which bytes are on
their way. `FileSrv`'s `derailed` records that a header or the acknowledge of READ
was damaged.

**How the CPU state machine corresponds.** `CpuControl` has an action for each
group of states of `cpu.v` (`Restart`, `Fetch`, `Decode`, `Exec`, `System`, `Csrrw`,
`Trap1`) on the falling edge and one for all parts on the rising edge. While a unit is busy
the code executes the same state again on every clock; so does the model.
`ImplementsIsa` maps the machine to `Isa` at the moment an instruction commits,
with the result still in flight counted as written.

**How the bus adapters correspond.** The memory an observer sees is the memory
of `ByteMemory` from the moment a store is complete; a store under way is mapped
ahead (it counts as performed when it is requested), a load counts as answered
when the bus unit hands it over. Resets drop accesses: the mapping's `Abort` is
possible only while the reset line is up, and may disturb only the bytes of the
store it interrupts.

**How FatFS corresponds.** A function of `ff.c` is an operator from a volume (the
record of everything FatFS keeps, and the card) to the set of the volumes it may
leave, with its result in each; one function after another is a union over what the
first leaves. A step of `BiosFatFs` is a call of the BIOS, all sector accesses
included. While a call may meet a fault, each access may be the one that fails: it
is refused, done but reported as failed, or the card is dead from there on. A power cut is a
call that goes on on a dead card and leaves only what is on it. A sector records as
what it was written (boot record, FSINFO, allocation table, entries); names
and bytes are values. The configuration is that of `ffconf.h`: no long names, one
window for everything (`FF_FS_TINY`), relative paths, locks. `Blankdisk` is a
volume as a formatting tool leaves it, the other starts are made by the calls.

**How the card driver corresponds.** A step of `SdCard` is a byte exchanged with
the card; the six bytes of a command are one, and so are bytes the driver sends
without looking at the answer. The card answers late, with an error, or not at
all. `disk_write` of `diskio_spu32.c` returns whatever the return register holds
when no block fails; `FatVolume` makes that a choice, as one more way to fail
(`unanswered`: done, but reported as failed).

**How the software parts correspond.** `Console` has a step for each character
printed or key read. `Bios` has a step for each instruction that matters: set-up, environment
call, interrupt, return, reading the result. `BootRom` has a step per byte on
the line (a number or an address is one item), and a pause of the host is the
monitor's timeout. `Boot` moves pages of memory; every request to the file
service may fail. In `ChainReaction` a step is a cell
visited.

**File transfer.** One action per `read`/`write` boundary of the packet layer on
either side. The line is a sequence of bytes per direction. Damage replaces a
byte as it is sent. The client's failures are those of its files, the server's those of
FatFS, both bounded by `MaxFailures`.

## Runs

| run | shows |
|---|---|
| `wishbone32` | any access after a load or a store, every alignment, video stalls and resets at every moment: acknowledges match beats, loads are right, the whole implements `ByteMemory`, every access is served |
| `wishbone32_banks` | **finding**: an unaligned load across the SPRAM's banks reads the wrong bank |
| `narrow` | the same questions for the byte-wide bus with its half-clock pulses at the SRAM, and for the direct path of 16 bits |
| `cpu_control` | any two instructions of every class and a trapping one, interrupts, waits and resets at any time: the machine implements `Isa`, and holds a waiting request |
| `cpu_live` | slow instructions: every one ends, an interrupt is served when enabled |
| `cpu_cause` | **finding**: an undefined opcode leaves the old trap cause |
| `peripherals` | the ALU (operands around the ends of the range, after operations that leave its registers full), both timers, the SPI port in any phase of its clock, the serial line with glitches and slipping clocks |
| `fatfs` | three calls of the file service, any of them, from four prepared volumes: they implement `FileTree`, the lock table and the clusters are accounted for |
| `fatfs_faults` | three calls, one with a failing access at any point, or the power cut there: chains stay sound, bystanders whole, and OK means done |
| `software` | the card driver, the shell at the terminal, requests with interrupts, uploads and flash programming of files that may break off, the boot stages, the game |
| `upload_pause` | **finding**: a pause inside a transfer to the flash makes the monitor start something else than the image |
| `filesrv` | three commands, each a get or a put, with up to two failing calls and a damaged byte: a transfer reported as complete is, unless both meet |

The properties, in short:

* `BeatsAccounted` / `AnswersMatch`: the acknowledges in flight are those of the
  beats sent and not yet counted, also after a reset.
* `StalledBeatHeld`: a refused beat stays on the bus unchanged.
* `LoadReturnsMemory`: what the CPU gets is in memory at the end of the wait.
* `ImplementsByteMemory`, `EveryAccessServed`: the adapter is a memory, and answers.
* `ImplementsIsa`: each step of the CPU is an instruction, a trap, an interrupt, a
  reset or nothing. `RequestHeld`: operation, address and data of a waiting access stay.
* `InstructionEnds`, `InterruptServed`: progress.
* `ResultCorrect`: the ALU's result when `busy` falls, within 2W+1 clocks.
* `TimeIsRight`, `InterruptMeansDue`: the time read is that of one moment, an
  interrupt asked for comes on time, and no other one (but see the byte-wide
  timer [below](#what-the-checks-found)).
* `BytesExchanged`, `NothingWaitsForever`: SPI and serial line, and that each of
  the three devices goes on.
* `ImplementsFileTree`: every call answers and changes the tree as `FileTree` says.
* `LocksHeld`: lock table and open objects agree. `NothingLeaks`: no cluster is
  lost by a call, and the free count stays exact.
* `ChainsSound`, `BystandersSafe`, `OkMeansDone`: after a fault or a power cut.
* `ImplementsBlockDevice`: a block read is the card's, one reported as written is on it.
* `CursorOnScreen`, `ScreenShowsInput`, `RunsWhatWasTyped`: terminal and shell.
* `ServedOnce`: requests between interrupts.
* `UploadKept`: what the monitor is told to call is whole, and what the uploader could read of a file is in
  the flash unless it reports a mismatch.
* `StartsWhole`: no stage is overwritten while it is needed, a program starts whole.
* `TurnPossible`: a turn begins at rest, with a move to make.
* `ItEnds`: calls of the card driver, the uploader and every reaction come to an end.
* `GetDelivers`, `PutDelivers`: a transfer reported as complete has the right
  content, with any failures or with a damaged byte. With both it need not: the refusal of OPENREAD can be
  damaged into a grant, and a handle that an earlier failed close left open then gives the rest of its file. `InStep`: unless derailed, the two sides agree on the command.
  `HandlesReturned`: no handle stays open after a command. `CommandsEnd`: unless
  derailed, every command returns.

For every property `PROJECT.json` names a mutant: a definition that replaces one of
the model with a plausible bug, under which the property fails.

## Bounds

* *Bus*: RAM of two words, five or six bytes: every alignment of every width, and
  accesses that overlap. Data: one store word with four different bytes, of both
  signs, different from the initial contents. Two accesses: the second finds
  all the states the first can leave; adapters keep nothing older. `MaxVgaRun`: the
  video holds the RAM for up to two clocks in a row, its longest claim. Resets
  last `ResetCycles`, three or four clocks, at any moment; the boards hold theirs far longer.
* *CPU*: four-bit words, two registers and x0, instructions chosen so that each
  reads or writes what others write; `MaxInstr` instructions and then a jump to
  itself. Anything an instruction leaves for a later one (result in flight, trap
  registers) is picked up by the next or the one after.
* *ALU*: W = 4 with two shift levels; the algorithms are the same for each bit.
  Operands 0, 1, 7, 8 and 15; two operations in a row, the first one of three that
  leave different registers full.
* *Timer*: bits for bytes, so 16 times, with carries through all of four
  positions. The program reacts within `MaxGap` = 6 clocks; with 7 `TimeIsRight`
  fails: the target's millisecond is over before it is armed.
* *SPI*: two bits a byte. `Delay`: the device takes two clocks of the four of an
  SPI clock for its next bit; with three `BytesExchanged` fails.
* *UART*: three bits a byte and 24 clocks a bit; 22 clocks are too few for the
  slip of a clock in each of five bits together with the receiver's bit, which is
  a clock longer than the sender's. `UartAssumption` states the least rate for any
  number of bits, and for three it is 23 clocks. The board has 8 bits of 218 clocks. Glitches
  last up to three clocks, one less than a start bit needs.
* *FatFS*: sectors of two bytes or entries, clusters of two sectors, nine
  clusters of a table of three sectors in two copies; FAT32 and a fixed root of four
  entries (FAT16). Writes of one and of five bytes: a second cluster, partly used.
  Two handles and a search, with as many lock entries as these need. Three calls:
  the volumes they start from have a file half written during a search, a
  subdirectory as current directory with its file open, a full root, so that a
  third call finds what two have changed of it. With a fault, fewer
  arguments. A directory is not renamed into itself (see below).
* *SD card*: two blocks of two bytes, one of which looks like a token and like busy;
  one to three polls for the driver's 100 to 10000, and answers on either side of them.
* *Terminal and shell*: a screen of three by three, so that wrapping and
  scrolling meet; lines of three characters, four keys; programs that print
  text, clear the screen or leave a colour behind.
* *Boot ROM*: files of two and three bytes, readable up to any byte, one with bytes that look like commands; blocks
  and chunks of two bytes. *Boot*: the real page numbers, programs that just fit and just do not.
* *Game*: two by three cells, two players, each a person or the machine.
* *File transfer*: buffers of two bytes (fewer than 65536, as the length has 16 bits: `LengthAssumption`), files of none and three, two handles.

## Fairness

Safety needs none. Liveness assumes:

* the clock runs (`WF_vars(Next)` in the clocked modules), and the video gives the
  RAM back after `MaxVgaRun` clocks, a bound in the model's guard;
* in `CpuControl` the bus answers and the arithmetic unit finishes infinitely often
  when asked (`SF`), which `EveryAccessServed` and `ResultCorrect` establish for the parts;
* in `Timer` the program acts within `MaxGap` clocks: a guard;
* in `Spi` and `Uart` a program that polls goes on polling (weak fairness of each
  poll, read and write); the program that sends need not go on sending;
* in `SdCard` the driver goes on: the card need not, and a card may be pulled out at any
  time. A write waits for ever then, and `ItEnds` says so;
* in `BootRom` monitor and uploader go on; the timeout is not fair: `ItEnds` holds with and without it;
* in `ChainReaction` the reaction goes on; a player need not move;
* in `FileSrv` each side goes on when it does not wait for the line.

Runs with `CHECK_DEADLOCK FALSE`, because the system may really stop there: `filesrv` (the
client is done after `MaxCommands`, and after a damaged header both sides wait
for ever), `fatfs` and `fatfs_faults` (`MaxCalls`), `software` and
`upload_pause` (the uploader is done).

## Theorems

Proved by TLAPS for every value of the constants, under the named assumptions of
the modules. Each rests on an inductive invariant that TLC checked on the run's
instance first; what the invariant adds to the property is what makes the code right.
Where a module holds several parts, the invariant of each is one of the whole, as
a step of one part leaves the others alone.

* `Wishbone32_proofs`, under `SizeAssumption`, `BoundAssumption` and `NoneAssumption`:
  * `TypeCorrect`, `BeatsAreAccounted`: from `IInv == TypeOK /\ ResetInv /\ BeatInv`.
    `BeatsAccounted` alone is not inductive: it speaks of no reset, while right after one an
    acknowledge of the dropped access is still on its way. `ResetInv` says how the pipeline
    drains clock by clock while the reset lasts, `BeatInv` counts beats at both edges.
  * `StalledBeatIsHeld`: from `IInv` and `DirectionInv`, that the beat on the bus has the
    direction of the access.
  * `LoadsReturnMemory`, for a RAM of one bank (`NumWords <= BankWords`; with more it is
    false, run `wishbone32_banks`): from `LoadInv`, which says which bytes of the buffer
    are already those of the memory, and that the acknowledge in flight brings the word of the beat it
    answers. Address arithmetic is in `BytePosition` and `OneWordReach`.
  * `BusIsAMemory`, under the same condition: every step is one of `ByteMemory` or none. With
    `StoreInv`: which bytes of a store have landed, so that the memory with the rest
    counted as stored does not change when a beat is taken.
* `Narrow_proofs`, under `NarrowAssumption`, `NoneAssumption` and `BoundAssumption`:
  * `AnswersAreMatched`: for the byte-wide bus from `ByteInv`, as above for four beats and the
    half-clock pulses at the chip; for the 16-bit path from `PairInv`: how a reset
    drains, that an access is never stuck behind the code of an earlier one, and
    which word the acknowledge code on its way belongs to.
  * `NarrowBusIsAMemory`: `ByteStoreInv` and `PairStoreInv` say which bytes have been
    written, `ByteLoadInv` and `PairLoadInv` which are in the buffer. For an unaligned store on
    the 16-bit path three writes at the chip are one store to the CPU.
* `CpuControl_proofs`, under `WordAssumption`, `CauseAssumption` and `ProgramAssumption`:
  * `TypeCorrect`: the type invariant is inductive; one lemma per part, one step per
    state of the machine.
  * `RequestIsHeld`: from `RequestInv`, which ties the address on the bus to the state
    the machine repeats while it waits.
  * `CpuImplementsIsa`: the machine is the instruction set. `IsaInv` has two halves.
    Before a falling edge (`NegInv`) it says for each state what the parts hold: the
    fetched word and its decoded fields, the operands read, the result of a unit that is
    not busy. Before a rising edge (`PosInv`) it says what the control logic has told them
    to do. Both are needed because a state is repeated while a unit is busy, the result of an
    instruction reaches the register file only during the next fetch, and a reset
    is seen an edge after it comes. Two facts are easily missed: LUI reads
    x0, so its register must be zero although it is written; and JAL's link waits in the branch
    unit from the decode until the next fetch writes it, while its target goes through the ALU.
* `Peripherals_proofs`, under `TimerAssumption`, `SpiAssumption` and `UartAssumption`, for every
  clock rate, word size and offset of the timer and every length of a byte on the lines:
  * `AlarmsComeInTime`: `TimerInv` says how many clocks ago the time was read
    (`ElapsedInv`), how many the program may have used (`PaceInv`) and which bytes of
    the word it reads or writes are there (`CopyInv`). The assumption that the
    program arms the timer within `Offset` milliseconds is needed: the target is compared for
    equality, and a later one waits for a whole round of the counter.
  * `AlarmsAreDue`: `LatchInv`, that the target in the registers is the one last asked for
    whenever the timer is armed. The exception is stated in the property (`HalfWritten`): a program that
    asks again before the last interrupt has come overwrites the target of the byte-wide timer byte by
    byte, with the old arming in force. A program that waits for its interrupt never meets it, nor
    does one on the 32-bit timer, whatever it does.
  * `BytesAreExchanged`, of the SPI from `SpiInv`: the registers of the divided clock follow
    from its counter once the first clocks have set them (`DividerInv`), who waits for whom
    (`HandshakeInv`), and how much of each byte is on either side of the line (`ShiftInv`,
    `DeviceInv`); the device may be late by half a period (`Delay`). Of the serial line from
    `UInv`: `PhaseInv` bounds how far the receiver is behind (`Drift`), by the clocks it took to
    see the start bit, one for each bit of its own (`Cell`) and one for each slip; so it
    takes a bit while the sender holds it, and is done with the stop bit before the next
    byte can begin. `ListenInv` says that an idle line with glitches is not yet
    a start bit, `PendingInv` where each byte written and not read is, `SendInv` and `CollectInv`
    which bits of it have passed, `UrgentInv` that the flag is down when the next byte completes.
* `SdCard_proofs`, under `CardAssumption`, for blocks of any size, any number of polls and any delay
  of the card:
  * `DriverKeepsPromise`: the driver implements `BlockDevice`. `CardInv` says at every
    place of the driver what the card has yet to send: the answer to the last
    command and its token (`Answered`, `Announced`), the bytes of a block (`Delivered`), the verdict on one
    (`Verdict`), how much of a block is filled (`Filling`). The point is that a poll consumes the byte it
    finds: an answer byte is below 128, so the poll that looks for it cannot eat the token
    behind it. A card may be pulled out at each byte.
* `Software_proofs`, under the assumptions named in `MC_Software`:
  * `RequestsServedOnce` (`BiosAssumption`): `BiosInv`, what was interrupted and where the trap returns to.
  * `CodeStaysWhole` (`LayoutAssumption`): `BootInv`, whoever runs is whole, the shell fits the
    pages below what it loads, a program fits below its stack. `CopiedFromFlash`, `HighPagesKept` and
    `ProgramLoaded` are about the copies.
  * `TurnsPossible` (`FieldAssumption`), for any field: `GameInv` of moves (`MoveInv`), reactions
    (`ReactInv`) and the end (`OverInv`). The loops of the code visit every cell
    (`DivisionUnique`, `EveryCellVisited`); that a player with a cell has a positive count is proved by the
    least prefix of the field where it fails.
  * `UploadIsKept` (`UploadAssumption`), for any file that can be read to any point, any sizes of blocks, parts
    and pages, a flash busy for any time that takes any byte wrong. A file that breaks off while it is uploaded is
    never called; if the very first read fails the call is sent nevertheless, and the theorem promises
    nothing of what runs then. For the flash it promises what could be read. From `RomInv`, whose core is where each item still on the line
    belongs. For an upload `Marked` names that of every item (command, address, length, byte `i` of the file, call) and
    `InOrder` that each follows the one before, so no byte is taken for a command and none
    is stored twice or left out. For the flash `Under` says how far the message of the
    uploader has got through line, monitor and chip, `AnswerInv` what has come back, `BlocksKept` which blocks
    are untouched, and `Verified` that what was compared is in the flash still: pages are
    written upwards only, and a byte behind the position is neither erased nor programmed again. A load after a
    pause (`Lost`) ends both; the page it copies is then the flash's own (`LoadFromSpi` while no command is open).
* `Terminal_proofs`, under `TerminalAssumption`, for a screen of any size:
  * `TermTyped`, `CursorStays`: `CursorOnScreen` is not inductive in the code's own steps,
    as a character may leave the cursor behind the line or below the screen until
    the check that follows. `WrittenLoose` says how far (`Loose`: never both), `CheckPlaces`
    that wrapping and scrolling bring it back (`Placed`). `TermInv` adds the types of the
    screen and of the colours, since the cell under the cursor is read and written
    back at each step; `CellInArea` is the arithmetic of rows and columns.
  * `LineIsShown`, under `ConsoleAssumption` (assumed by `MC_Software` of its values): characters that can be
    seen, programs that finish their escape sequences, and a screen that holds the prompt, a full line and
    a row (66 and 127 characters in the code, on 30 rows of 80). It proves `ScreenShowsInput` with the
    types of `Console` and `ModeRestored`. The property holds only where nothing is left to print; `LineInv` says what holds
    between any two characters: what is left is the end of the line and the rest is
    on the screen (`ToShow`), or it is one of the three places inside a step back, a space and a step
    back (`Rubbing`). `CharacterShown` is the case split of wrap and scroll, `BackspaceSteps` that of the
    step over the start of a row. `EscapeInv` says that nothing printed leaves a sequence open, by
    the states it goes through (`Completes`); for the shell's own messages that is
    `ArgumentPlain`, that a word of the line can be seen.
* `FileSrv_proofs`, under `BufferAssumption`, `HandleAssumption` and `SetupAssumption`, for files of any content,
  any number of commands and failures, and bytes damaged anywhere but in the header of READ
  and its acknowledge:
  * `Synchronised`, that each side asks for what the other sends, and `HandlesNotLost`, that
    the handles open in the BIOS are those of the command under way. `InStep` alone is not
    inductive: whether the next byte answers this request depends on all that is under way.
    `Phase` says where the one request is (on the line, taken, answered, a packet
    received or refused), `Owes` counts the acknowledges and packets it still costs,
    `Opened` says which handle the command holds at each place of client and
    server. The checksum enters as a byte that may or may not fit: what is proved holds
    whether a damaged packet is noticed or not. After the damage excepted the two are out of step
    for ever (`derailed`), and the invariant says nothing.

Only model-checked: all liveness (`EveryAccessServed`, `InstructionEnds`, `InterruptServed`,
`NothingWaitsForever`, `ItEnds`, `CommandsEnd`), which together with `ENABLED` is outside of what
the prover does here; `ResultCorrect`, whose words are powers of two and whose
algorithms are loops over bits, an induction over data; FatFS with `FatCheck`
and `FileTree`, written with recursive operators; `RunsWhatWasTyped`,
whose line and words are folds over all keys, an induction over data; `TypeOK`, `GetDelivers` and `PutDelivers` of the file transfer,
which also speak of a transfer out of step and of damage the checksum misses.

## What the checks found

* `ram/ice40_spram_1mbit_wb32_vga.v:29` selects the bank half a clock after the
  address has moved on (run `wishbone32_banks`). The test bench expects unaligned reads
  to work (`bus/tests/wishbone32_tb.v`), within one bank.
* `cpu/cpu.v:376` sends an undefined opcode into the trap without a cause;
  `src/README.md:98` documents one (run `cpu_cause`).
* `software/asm/bootrom.s:164` selects the flash to load from it without deselecting
  it first; after a pause inside a transfer to the flash it is still selected, and what is
  loaded is not "from SPI-Flash" as line 183 has it (run `upload_pause`).

Seen while reading or modelling, with no line of the repository that says otherwise:

* `disk_write` returns nothing on success (`diskio_spu32.c:93`); `OkMeansDone` shows that a
  call can then fail after doing its work, not the other way round.
* The wait for a card's data response and for the end of busy has no bound
  (`bios_sdcard.c:147`): with the card pulled out a write never returns.
* `f_rename` lets a directory be moved into itself, which cuts it off the tree
  (`ff.c:5161`), and `f_unlink` removes a directory a search is still open on (`ff.c:4948`):
  `FileTree` says what the code does in the second case, the runs leave out the first.
* `!buf[0] == 0x01` in `bios_sd_init` is true only for zero.
* `bios_video_getcols` and `bios_video_getrows` have a label `VIDEOMODE_TEXT_80:` without its `case`, so that
  they always return 0; nothing calls them.
* An unfinished escape sequence swallows output up to the next `m`, `J` or `H`; the shell
  hands a program at most 15 characters of its own name.
* A write to the SPI data register during a transmission is dropped (no program does it).
* The byte-wide timer is not disarmed by the first byte of a new target (`timer_wb8.v:47`): asked
  again before the last interrupt has come, it can fire on a target of which some bytes are new and
  some are old. `InterruptMeansDue` leaves out just that, and holds of everything else.
* The uploader does not look at the result of its first `read` (`uploader.c:82`): if it fails, address 0
  is called with nothing uploaded. An error of `fread` (`uploader.c:356`) is taken for the
  end of the file: the flash then holds the first part of it, and nothing is reported.

## Not modelled

The table of components in `PROJECT.json` gives the reason for each. In short:

* the video's own pipelines: an environment that claims the RAM for at most `MaxVgaRun` clocks;
  a frame is hundreds of thousands of clocks, out of TLC's reach, and its product is a picture;
* the selection of a device by address on the boards (one slave behind each adapter here);
* variants of memories already modelled, devices that are single registers,
  example programs without state that lasts, test benches;
* in FatFS: name conversion and patterns as text (`create_name`, `pattern_matching`), FAT12's packing, dates,
  and entry points nothing calls;
* in the terminal: fonts, palette, pictures of the graphics modes; a program that
  keeps the text mode but moves the video's base address;
* the uploader's terminal console and test mode, and a port or file that cannot be opened; the file client's command line.

Flash, SD card, host files and user programs are external. The card answers late, wrongly or not at all;
the flash is busy for a while and may take bytes wrong; the uploader's file can be read up to any point,
the file client's fails at any call. In `Uart` the receiving program reads a
byte before the stop bit of the next: a slower one loses bytes by design. In
`FileSrv` bytes are damaged but not lost, and the server's terminal output does not share
the line.

## What is left

In order of what it would add:

1. Device selection: several slaves behind one adapter, and the FASTMEM board's two paths behind one CPU
   port; still a `ByteMemory` unless an access spans devices.
2. The pipelines' claims on the RAM (discharging `MaxVgaRun`) line by line, and the palette handshake.
3. `IrDecoder`; `libtinyc` as functions against reference definitions.
