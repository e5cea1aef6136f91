# A verification of the Tang Nano 20K RISC-V system

The repository is a small computer on an FPGA: an RV32I core, a unified cache in
front of burst SDRAM, a serial port, an SD card port, the bus that joins them, an
emulator of the same computer in C++ and an "operating system" (a text adventure)
that runs on both. This directory specifies its parts in TLA+, checks small
instances with TLC and proves the main results with TLAPS for all sizes. Paths
are relative to the repository's root.

## 1. Inventory

| part | code | state it keeps | operations | status |
|---|---|---|---|---|
| cache | `src/cache.sv`, `src/bram.sv` | tag and column memories, `state`, `counter`, `refresh_cycle_counter`, burst registers, command wires | hit, store hit, evict, fill, refresh | modelled, except a reset in mid-operation |
| SDRAM controller | `src/ip/sdram_controller_hs` (encrypted vendor IP) | the SDRAM, open row, command in work | activate, read, write, refresh | external: modelled from its use in `cache.sv` |
| core | `src/core.sv`, `src/registers.sv` | `state`, `pc`, `ir`, registers, delayed register write, request port, `led` | CpuFetch, CpuExecute, CpuStore, CpuLoad | modelled |
| boot | `src/core.sv`, `src/emulators/flash.sv` | counters, shift registers of both ends, request port | read the flash, write the memory, start the CPU, reset | modelled |
| bus | `src/ramio.sv` | UART and SD card registers | byte lanes, sign extension, I/O registers | modelled, except the LED register |
| UART | `src/uarttx.sv`, `src/uartrx.sv` | state, bit and time counters, byte | send, receive | modelled |
| SD card | `src/sdcard.sv`, `src/ip/regymm/sd_controller.v` | sector buffer, index, `rd`, `wr`, state of the wire protocol | initialise, read and write a sector, reset | modelled, except a reset while a block is written |
| emulator | `emulator/src/rv32i.hpp`, `main.cpp` | `pc_`, `regs_`, RAM | `tick`, `bus` | modelled as the specification of the core |
| emulated devices | `emulator/src/main.cpp`, `sdcard.hpp` | image file, sector buffer, index | `bus` for the I/O addresses, read and write a sector | modelled, except the terminal of the host and the loading of the firmware |
| OS: platform | `os/src/os.cpp` | none | `uart_send_char`, `uart_read_char`, SD card loops | these modelled; start code and `memcpy` not |
| OS: adventure | `os/src/os_common.hpp`, `lib/list.hpp` | locations, entities, objects, lists | take, drop, give, go, print_location | modelled |
| OS: line editor | `os/src/os_common.hpp`, `lib/cursor_buffer.hpp`, `lib/span.hpp` | line, cursor, escape sequence | insert, delete, move, enter; words and numbers | modelled |
| OS: SD card commands | `os/src/os_common.hpp`, `console_application.cpp` | the card of the console build | `sdr`, `sdw`, load the card | modelled |
| top level, configuration | `src/top.sv`, `src/configuration.sv` | none | wiring | its constants are the models' constants |
| SDRAM models, scripts, test benches, tests | `src/emulators/etron`, `micron`, `scripts`, `qa`, `emulator/qa` | | | not modelled: test equipment |

How they interact. Everything but the SDRAM itself runs on one clock; there are no
interrupts. The core holds a request (`enable`, address, data, types) on the port of
`ramio.sv`; `ramio.sv` answers from the UART and SD card registers or passes the
request, turned into lanes of a word, to `cache.sv`; the cache answers in the same
cycle on a hit, else raises `busy`, evicts and fills a line over the command wires
of the controller, whose acknowledgements come after a delay it does not know. The
UART halves share a byte register and a two-phase handshake (`go`, `busy` /
`data_ready`) with `ramio.sv`; the program sees -1 when a register is empty. The
other end of the wire has a clock of its own. `sdcard.sv` keeps one sector for the
program and moves it to and from `sd_controller.v`, which runs on a pulse of a
divided clock and talks to the card bit by bit. The boot states of the core use four
wires to the flash and the same port as the CPU. The reset button reaches all of these but the card, which
is always selected: `top.sv:123` leaves `sd_cs_n` unused and ties the pin (DAT3) low.

What is hard about it. Several state machines step in the same clock cycle and see each
other's registers one cycle late; bursts are counted blind and must line up to
the cycle; acknowledgements come late or, for a READ, when nobody looks; the core
writes a register one cycle after the instruction, into a fetch that overlaps it; counters
are exactly as wide as the largest value they hold; the receiver samples a line it
has no clock of; a byte that is not read in time is replaced by the next; one byte
of a sector too many or too few shifts all that follow; a reset comes in the middle
of all of this and clears only some of the registers; the program waits for the card
without a timeout; a full list refuses an element when it has already left another
list, or not; one key may cause an echo that is longer than the time to the next; and
the core and the emulator, written apart, are meant to run the same programs.

What makes each part correct:

* cache: it cannot be told from a memory; the SDRAM's protocol is kept; every
  request is answered; refreshes come, and at a bounded distance;
* core: it executes as the emulator does; it holds its request while the memory
  is busy; no instruction hangs it;
* boot: when the CPU starts the program is in the memory, and nothing else was
  written, however often reset was pressed; the CPU does start;
* UART: what is written is read, once, unchanged and in order, when the reader is
  fast enough and the clocks close enough; the bounds for both; the sender never waits
  for ever;
* SD card, and the emulated one: a sector read is the sector last written; every
  call of the program returns;
* adventure: an object, and an entity, is in one place; every change is a move the
  game allows; what is shown can be used;
* line editor: the terminal shows what the buffer holds; the buffer is a text that
  is edited one letter at a time; while a line is edited no character is lost when the keys are far enough apart.

`PROJECT.json` lists the hazards with their lines, and the properties that
would catch each one.

## 2. Modules

| module | what it is |
|---|---|
| `CacheInterface` | addresses, requests, the wires between cache and controller |
| `Cache` | `cache.sv`: an action per state of the machine and cycle kind |
| `SdramController` | the controller and the SDRAM (external) |
| `CacheSystem` | the two on one clock, with the request port; the properties and the inductive invariant |
| `Memory` | abstract: a memory of words with byte masks |
| `CacheRefresh` | `CacheSystem` with a history variable: the time since the last refresh |
| `CacheProofs` | proofs: the invariant, the refinement of `Memory`, the time without a refresh |
| `Instructions` | what core and emulator share: words, fields, branches; arithmetic and decoding as parameters |
| `Alu` | the arithmetic of both, for TLC |
| `Core` | `core.sv` from CpuFetch on, `registers.sv` and the RAM half of `ramio.sv` |
| `CoreSystem` | the core on a memory that answers when it likes; the properties and the inductive invariant |
| `Rv32i` | abstract: `tick` of the emulator and its bus |
| `CoreProofs` | proofs: the invariant and the refinement of `Rv32i` |
| `Boot` | `core.sv` from reset to CpuFetch, `flash.sv`, a memory that answers when it likes |
| `BootProofs` | proofs: the program is in the memory when the CPU starts; it is copied in order |
| `UartTx`, `UartRx` | `uarttx.sv`, `uartrx.sv`: an action per state |
| `RamioUart` | the UART registers of `ramio.sv` and their handshakes |
| `UartLink` | the sending half of one board wired to the receiving half of another, with their programs; the inductive invariant |
| `UartEcho` | a terminal with a clock of its own (external) and the program that echoes what is typed |
| `Channel` | abstract: a queue of bytes |
| `UartProofs` | proofs: the invariant and the refinement of `Channel` |
| `SectorBuffer` | the size of a sector, bytes as shift registers see them |
| `SdController` | `sd_controller.v`: an action per state |
| `SdInterface` | `sdcard.sv`: an action per state |
| `SdCardModel` | the card, bit by bit (external) |
| `SdProgram` | the blocking calls of `os.cpp`, an action per access of the bus |
| `SdSystem` | the four on their clocks, reset included; the properties and the constants of the runs |
| `SdProofs` | proofs: the invariant of the wires and of the buffer, the refinement of `SectorStore` |
| `EmulatorIo` | `sdcard.hpp` and the I/O addresses of `bus` in `main.cpp` under the same calls |
| `EmulatorIoProofs` | proofs: the invariant of the emulated card and the refinement of `SectorStore` |
| `SectorStore` | abstract: what both cards promise, a store of sectors |
| `Words` | `string_next_word`, `string_equals_cstr`, `string_to_uint32` and the operations of `span.hpp` they use |
| `Adventure` | `list.hpp`, the tables, `run`, `print_location` and the commands |
| `Whereabouts` | abstract: who has what and is where, and the moves of the game |
| `AdventureProofs` | proofs: everything is in one place; the refinement of `Whereabouts`; words; what is told works |
| `CursorBuffer` | `cursor_buffer.hpp` |
| `LineEditor` | `input()` and the terminal that shows what it sends |
| `Typing` | `LineEditor` behind the serial port, with a keyboard |
| `EditedLine` | abstract: a text, a place in it, one edit at a time |
| `TypingProofs` | proofs: the terminal shows the line, the refinement of `EditedLine`, no character is lost |
| `SectorCommands` | `sdr`, `sdw` and the card of `console_application.cpp` |
| `MC*` | constants for TLC, and what is said of an instance |

A step of every model of the hardware is one rising edge of the clock; combinational wires are
operators on the registers. In an action the old values are the right-hand sides of
the non-blocking assignments and the primed values what they leave; where two
assignments of an `always_ff` block meet, the later wins, as in the code. A step of a
model of the software is one access of the bus (`SdProgram`, `EmulatorIo`), one frame time of
the line (`Typing`), or one command (`Adventure`, `SectorCommands`). Names are the
code's: `state`, `counter`, `tag`, `column`, `burst_is_reading`, `ir`,
`rd_write_enable`, `ramio_address`, `flash_current_byte_num`, `uarttx_data_sending`,
`buffer_index`, `action_take`, `cmd_buf` ...

Abstractions, by part:

* cache: an address is the record of tag, line and column instead of the bits
  the code cuts out; a word is a function from byte lanes to values; the command
  wires that are constant (`I_sdrc_precharge_ctrl`, `I_sdrc_dqm`, ...) are left out, as is
  `burst_is_writing`, which is never set. The tag memory and the columns are the
  `bram.sv` instances with their registered write ports.
* controller: it is never told to power down or self-refresh after the start. Bursts
  move one column per cycle from `ReadLatency` on; all other delays vary from step
  to step up to `MaxAckDelay`. The acknowledgement of a WRITE comes after its data, as in simulation and
  as `Write3` needs it; `ManualWriteBurst` is the one of the manual, which `cache.sv:375` says is another.
  Initialisation is over before the first step:
  `top.sv:143` keeps everything in reset until `O_sdrc_init_done`.
* core: decoding and arithmetic are constant operators of both `Core` and
  `Rv32i`, so the proof is about control, order, addresses and lanes, for every encoding. What
  is left to the decoder is that a word's fields are the same in `core.sv` and
  `rv32i.hpp`. `Alu` gives TLC the real arithmetic at eight bits. The I/O
  addresses, all of them above the RAM, count as outside here: a program that uses them is
  not compared further.
* emulator: once it has exited (a word that is not an instruction, an unknown
  `funct3`, an access outside of RAM and I/O) nothing is promised about the core,
  which goes on.
* boot: registers that reset does not clear hold either of two values after it. The
  flash is one of `Flashes` and does not change (`chip`): `flash.sv` with offset 0 (`EmulatedFlash`), which may take
  either value of `flash_mosi` at the edge at which the core changes it, or one that takes its bits at the rising
  edge, as the chip of the board does (`BoardFlash`, external). `pc` and `led` are constant until CpuFetch and left
  out. From CpuFetch on the module leaves the machine to `CoreSystem`, whose first states are the ones
  `ProgramIsLoaded` describes; the program may leave anything in the memory before the next reset.
* UART: the line is the combinational `tx`. A board reads its register
  `UartIn` as a word, as `os.cpp` does; byte and half-word reads of it are left out.
  A reset leaves the transmitter's counters as they are, so any value is initial.
* SD card: a byte has three bits, a sector two bytes, and a command is a start bit, its
  number and a sector. The card takes its time before and between answers, asks
  again to be initialised, and is busy after a write; it does not fail. It is always selected, so a reset that cuts a command or
  an answer off leaves it in the middle of that: it takes the pulses that follow for the rest of the command, and goes on with the
  answer until the next command. `ResetsIn` says in which states of `sdcard.sv` the button is pressed; not while a block is written,
  as the card would take all that follows for the rest of the block. The check sums are
  bits that are sent and not looked at, as in the code.
* emulated card: a transfer of the image file moves all of a sector, or fails after
  any number of bytes (`FileFails`); accesses of the other registers come in between, also those the bus refuses.
* adventure: names are short sequences; a list keeps its array, with what is left behind
  in it. `print_location` is reduced to what it tells, `told`.
* line editor: what a key does to the buffer and the characters that it sends are one
  action; the characters then leave one per frame time. What a command prints is
  not modelled, only that the program does not read until the next prompt (`Prompt`), however late that comes; keys are
  typed all the same, and `run` takes what is left of them for the start of the next line. The screen is one line, with the cursor and an
  escape parser for what is sent.
* numbers: `UintModulus` stands for 2^32, and products wrap.

### How they fit together

`CoreSystem` assumes a memory that answers in the end and keeps a word where a store
put it; it guarantees `HoldsRequest`. `CacheSystem` assumes that a request is held
while `busy` (action `Hold`); it guarantees `IsMemory` and `EveryRequestServed`. The
assumption of each is a checked property of the other. `Boot` needs the same of the memory
and ends where `CoreSystem` begins. `SdSystem` and `EmulatorIo` run the same program,
`SdProgram`, and are shown to implement the same `SectorStore`. `Typing`
takes the serial port at its promise (`Channel`) and adds when characters come.

## 3. What is checked

| run | question | instance | states |
|---|---|---|---|
| `cache` | is it a memory; protocol, clean lines, invariant; the longest time without a refresh; is every request answered | 1 line, 2 tags, 2 columns, 3 of the 4 addresses, 1 lane, acknowledgements 0 or 1 late, read latency 2, refresh every 3 Idle cycles | 320 000 |
| `core` | does the core execute as the emulator; invariant, request held, never hangs | all programs of 2 out of 27 instructions, memory that waits at will | 450 000 |
| `cache_manual_ack` | is every request answered with the acknowledgement of the manual? No | 4 columns, acknowledgements of a WRITE two cycles after it | |
| `boot` | is the program in the memory when the CPU starts; what is written on the way; does it start | 3 words, reset at any edge, `flash.sv` and a flash as on the board | 24 000 |
| `uart_link` | two boards are a channel; the byte is steady; sending ends | bit time 3, reads every 32 cycles at the latest | 24 000 |
| `uart_echo` | what is typed is echoed by a terminal whose clock is off | bit time 20 against 19 and 21, accesses every 3 cycles, 17 cycles between frames | 1.5 million |
| `sd_system` | is the card under the calls of the program a store; do calls return; is nothing sent to a card that is not ready | 2 sectors, two texts, delays of up to 1 and one repetition, reset during the initialisation | 440 000 |
| `emulator_card` | the same for the emulator, with failures of the file and its inductive invariant; does a call end, or stop the emulator | an image of two and a half sectors, 4 sectors asked for | 26 000 |
| `adventure` | is everything in one place; is every change a move; can what is shown be used | the world of `os_common.hpp` with one exit more, lists with room for 2 | 18 000 |
| `typing` | does the screen show the line; is the line edited as a text; is a character lost | a line of 3 letters, gap of 6 frames, keys at any time | 1.7 million |
| `sector_commands` | what do `sdr` and `sdw` do; words and numbers | 3 sectors and a byte, lines of up to 4 characters and all forms of the commands, texts of up to 3 characters | 24 000 |
| `words_digits` | is the number read the one typed? No | the same with a 0 | |

Every run but `words_digits` and `cache_manual_ack` ends without an error, and every property of these
is violated when a line of code it depends on is changed (the mutants in `PROJECT.json`).

Bounds, and why they are enough:

* Cache. Two tags that compete for one line make every miss an eviction or not; two
  columns make the first and the last word of a burst different, which is where a burst
  slips. A third of either, a second line and more lanes add no new case for the machine, which
  treats them alike, and the theorems do without the bounds. The counters have the
  width the code computes (`CounterModulus`, `RefreshCounterModulus`), so a wrap would
  be seen. The SDRAM starts with any contents.
* Core. A byte has 4 values, a word 8 bits, 3 registers, 5 words of RAM. The
  instructions are chosen so that each opcode occurs with the operands
  that matter: `x0` as a destination, odd half words, a store into the
  program, a jump backwards, unknown `funct3`s, an ill-formed word, a sum
  that wraps.
* Boot. The widths of bytes, command and address are the code's. Three words: the first follows the
  address, the second a word, the last ends the boot. `FLASH_TRANSFER_FROM_ADDRESS` is the one of
  the configuration; `flash.sv` has 16 bytes, the other flash 20, so that its end lies among the bytes read (7340032 is 12
  modulo 20) and its size is no power of two; no two bytes of either are alike. The wait at the start is 3 cycles instead of a million.
* UART. Bit time 3 is the smallest at which the receiver's half bit and a
  whole bit are different and not zero; the bytes 1 and 170 differ in their first, their last and most of
  their bits, and 170 changes the level on every bit. Drift needs a longer bit: at 20 cycles
  one cycle is the most that is tolerated; 18 and 22 fail. The bounds are the exact ones: reading
  every `10 * BIT_TIME + 2` cycles is in time and one more is not, and in `uart_echo` a gap of 16
  cycles loses a byte.
  In the configuration (60 MHz, 115200 baud) a bit is 520 cycles long and the loop of `uart_read_char` some
  ten instructions, so reading is in time unless the program does something
  else, such as redrawing a line: that is `Typing`.
* SD card. A sector of two bytes has a first and a last one, three bits keep the start
  token apart from data that looks like it, and two sectors show a wrong address. One delay of each kind is
  enough to separate every wait from what follows it. `ClockDivider` is 0, as `ramio.sv` has it.
  TLC presses reset in any cycle of the initialisation, the first one and those that follow a reset: a command is
  cut off after each of its bits. In the other states but the writing of a block reset is a matter of the proof, which has no such bound.
  All sectors and the buffer begin with the same text; programs write both.
* Emulated card. The image ends in the middle of a sector; sector 2 is that one and sector 4 one
  whose offset wraps at `OffsetModulus`.
* Adventure. Entities, locations and links are the game's, with one exit more, from location 1 to itself. Lists of 3 are
  full with 2 elements: with the objects, the game's three, each list of objects can refuse, and with both entities in location 1 that exit
  asks a full list of entities; the objects have names of which one begins another. The `VIEW` leaves
  out what lies in an array behind the end of its list: no operator of `Adventure` reads it, so
  states that differ in it alone have the same future.
* Typing. A buffer of 4 places holds 3 letters: empty, full and in between. With a gap of 6 frames every echo is over
  before the next one begins; with 5 one may not be (`EchoSettles` fails), with 4 a character is lost while a line is edited.
  Keys come at the prompt and while a command prints; what is then lost or is left of a key begins the next line.
  The keyboard sends no lone ESC; after one, an arrow key would insert its characters in the middle of a line and
  may lose one.
* Sector commands. Blanks before, between and after words, a missing word, a number past the card, and a text
  that is empty, shorter than a sector, as long, and one character longer (`os_common.hpp:473`).

Fairness. `WF(Next)` says that the clock does not stop, nothing else. Delays
of the controller are bounded by `MaxAckDelay` in the model's guards, those of the SD card by `MaxDelay`
and `MaxPolls`. `CoreSystem` and `Boot` also have
`WF(Next /\ hit')`: a request is answered in the end, which is
`EveryRequestServed` of the cache; `StartsUp` asks that reset stays released. In `UartLink` and `UartEcho` the program polls
within `PollLimit` cycles, a guard again; it has no obligation to send. `SdSystem` has `WF(Access)`
for the program in its loop and `EmulatorIo` the same while the emulator runs: a program is never interrupted. `Typing` has
weak fairness for the program and the line, and for the command that ends and prompts again, none for the keyboard.

### Findings

`words_digits`: `string_to_uint32` ends a number at the digits 0 and 9
(`os/src/os_common.hpp:583`), so `sdr 10` reads sector 1 and `sdr 9` sector 0. `NumberIsDecimal`
says what it does compute, for every line.

`cache_manual_ack`: `cache.sv:375` notes that "in the manual ACK arrives 2 cycles after command issued" and "in simulation ACK
arrives 3 cycles after data has been written", and goes with the simulation. With the controller of the manual the
acknowledgement of a WRITE comes in `Write2`, where nobody looks, unless the line has three columns or fewer (the board
has eight), and `Write3` waits for ever (`ServedWithTheManual`). The hazard is one of replacing the controller; all other
results about the cache are for the acknowledgement of the simulation.

### Observations

Met while modelling; no run fails because of them.

* `cache.sv:289` counts towards a refresh in state Idle only, so cycles of misses are not counted, while the parameter is
  documented as "number of cycles before issuing an auto refresh to SDRAM" (`cache.sv:36`). `RefreshBound` states
  how late that makes a refresh: half the period times the length of a miss.
* `sdcard.sv:178` says that `buffer_index` has rolled over to 0 after a write. It is one ahead, as
  `ready_for_next_byte` is up once before the data as well. Both ends use the buffer as a ring, so no byte
  is wrong: `ImplementsStore`.
* `sdcard.sv:135` raises `rd` or `wr` for one cycle. With a `ClockDivider` other than 0, its default is 4, `sd_controller.v` need
  not see it. `ramio.sv` passes 0.
* `os_common.hpp:458` prints a buffer that nobody has written when `sdr` of the console build is given a sector
  past the end (`console_application.cpp:123`).
* `flash.sv:100-104` reads the first byte before the last bit of the address is in: at half the address. With the
  address 0x700000 and up to 18 bits of address in the emulated flash that is the same byte. `qa/1` has 23 bits and
  an offset: there the first byte comes from 0x380000. Its program begins with a `nop`, which hides it.
  `BootAssumption` states what `flash.sv` needs; the address 0 of `qa/6` and `qa/7` satisfies it for every size, and the
  flash of the board, whose first byte is at the whole address, needs nothing.
* `sd_controller.v` raises `cs` from a reset to `INIT`, and `top.sv:123` does not pass it on: the card on the board is always
  selected. A reset in the middle of a block that is written leaves the card waiting for the rest of the block, and it takes the
  pulses and the commands of the next initialisation for it. Nothing in the repository says what the sector holds then.

## 4. What is proved

All theorems hold for every value of the constants that satisfies the assumptions of the
modules. `PROJECT.json` lists them. No recursive definition is used. Induction over the data is avoided; where a
least element is needed (the first position of an id in a list) it comes from the well-foundedness of the
naturals, lemma `Least` of `AdventureProofs`. The provers know of no string that it is in `STRING`, so the lemmas about
words are about sequences over any set, and the characters of a command are put into one (`Chars`).

**Cache** (`CacheProofs`): `CacheInvariantHolds`, `TypeCorrect`,
`CleanLines`, `ProtocolKept`, `CacheIsMemory` and `RefreshInTime`. The properties are not inductive: that a
clean line agrees with the SDRAM after a fill depends on which columns have been
written in the cycle before, on the word in `burst_data_in` and on the one on the
bus. `Inv` says in each state of the cache where the controller is
(`InStep`), what has moved so far (`SameUpTo`), that the burst registers are functions of
the state (`BurstRegisters`) and that a line moves only for a miss (`Flags`). The
refinement maps the abstract memory to `content`: the word in the cache if the line is
there and not being filled, else the one in the SDRAM. Evictions and fills leave it
unchanged, a store hit changes the bytes of its mask. Assumed: at least two columns;
counters as wide as the code computes them; the cache is configured for the latency
of the controller; the controller is done within three cycles of a read burst.

`RefreshInTime` bounds the cycles between two refreshes by
`(P + 1) + ((P + 2) div 2) * LongestMiss + AckWait`, where `P` is `AutoRefreshPeriodCycles`. Its
invariant `Punctual` adds to `Inv` how late the controller can be (`AgeBound`) and how long each state of the
machine can have lasted (`since_idle`). A miss is paid for by the two cycles in Idle that are counted for it, the one it
starts in and the one in which the request, now a hit, is answered: so in Idle it matters whether the request is a miss.

**Core** (`CoreProofs`): `CoreInvariantHolds`, `CoreTypeCorrect`,
`RequestHeld` and `CoreIsEmulator`. `Inv` says what is on the port in each state, that a
pending register write is over when an instruction executes (`Settled`) and that `ir`
is the word at the address it came from (`Fetched`), even if the instruction before
stored to it. The refinement maps the emulator's registers to the register file with
the pending write applied, its program counter to that of the access that is not over
yet, its RAM to the memory byte by byte. One tick is the CpuExecute cycle for most
instructions and the answered cycle of CpuStore or CpuLoad; all other cycles stutter.

**Boot** (`BootProofs`): `ProgramLoaded` and `CopiedInOrder`, for every length of the program, any content of the flash
and delay of the memory, with reset at any edge. Nothing in the properties speaks of the flash; `BootInv` says in each state
of the boot how many bits of command, address and data have gone out, and what is on either side of the wires:
that the rest of the address is at the top of the shift register (`RestOfAddress`), what the flash has made of the bits it
has taken (`InAddress`), which bit of which byte it has on its output after `s` falling edges (`Sends`) and what the core has
after `r` rising ones (`Reads`). The flash of the board has the first `n` bits of the address (`BoardInAddress`, `Sent`); of those
`flash.sv` takes the last ones are zero, whichever value of `flash_mosi` it sees (`EmulatedInAddress`). `Sends` and `Reads` are
functions of `flash_counter`, which is not cleared between words; the words copied so far are those of the program
(`Copied`). The arithmetic is that of shifts and remainders, for each of the eight bits of a byte. Assumed (`BootAssumption`): an
address of 24 bits, a memory that holds the program, and of `flash.sv` that its size is a power of two up to
2^22 and the address a multiple of four times that. Of a flash that takes its bits at the rising edge nothing is assumed: the
0x700000 and 2^20 bytes of `configuration.sv` are a case of it.

**UART** (`UartProofs`): `LinkTypeCorrect` and `LinkSteady` for any two bit times and a program that writes `UartOut`
only after it has read -1, as `uart_send_char` does; `LinkInvariant` and `ConnectionIsChannel` for a common one. `Inv`
says that the receiver is half a bit behind the transmitter (`InStep`; `elapsed` counts the cycles of the current
bit), that the bits sampled are those sent (`Sampled`), and that a byte in `ramio.sv` was read since it came
(`ReadBeforeNext`: `since_copied` is a lower bound of its age as a function of the transmitter's state). The
refinement maps the queue to the bytes in `ramio.sv`, in the receiver and in the transmitter; from the invariant the
last two are one place, with three cases for a cycle: a byte is sent, copied, or nothing happens, each with or without
a read. Assumed: `ReadsInTime`, that is the bound above, for `ConnectionIsChannel`.

**SD card** (`SdProofs`): `SdIdleWhenCardIs` and `SdImplementsStore`, for every number of sectors and bytes in a
sector, bytes of three to eight bits, numbers of pulses and delays of the card, with the button pressed in any cycle
in which `sdcard.sv` is in a state of `ResetsIn`, any but `WriteSector`, or never. Neither property speaks of what is
on its way: of a block of which the card has sent or taken a part, the rest is in shift registers, in the bits the
card still has to send and in a buffer whose index does not begin at 0. `Inv` is about two streams:

* the wires. `line(k)` is what the line from the card will be after `k` falls of the clock, so a fall moves the stream by one and
  nothing else changes it (`LineFalls`, `LineRests`). For each of the twenty states of `sd_controller.v` `Wires` says where its
  counters are in the stream: that the line is high (`Resting`), which part of a command the card has (`Sending`), that a
  response comes (`AnswerAfter`), that the rest of the block of the sector does and what `recv_data` has of the current
  byte (`ReceivingBlock`), which bits of the block the card has taken and what `data_sig` still holds
  (`SendingByte`), that the card has stored the block and is busy for a while (`BusyAfter`).
* the buffer. `ring(k)` is the byte `k` places after the index, so the stream moves by one with the index. `Ring`
  says that it holds the sector of the call from the byte after the one on the wires to the controller (`Taken`), or
  that the bytes of the block are the last ones written to it (`Behind`), one of which may be on its way (`Came`).
  That a write leaves the index one ahead makes no difference to either.

`InterfaceAt`, `Returns` and `InCall` tie the states of `sdcard.sv`, of `sd_controller.v` and of the program together:
with reset too, the controller is in a state of the initialisation, of a read or of a write only when `sdcard.sv` is
(`BelongsTo`). A reset may cut off a command, of which the card then has up to three parts (`CutOff`): the pulses of
`INIT`, during which `mosi` is high, complete it, whichever it is but the one that writes, before `CMD0` is sent; what
is left of an answer ends with the answer to `CMD0` at the latest. The proof has one lemma per state of the controller
for the wires (`WiresIdle`, `WiresSendCmd`, ...), one per state of `sdcard.sv` for the rest (`ReadKeeps`,
`WriteKeeps`, ...), and one for reset. In the refinement the contents of the card are the store; a write takes effect
with the last bit of the block, a call returns with the access that ends it, reset is the crash of `SectorStore` of a
call that has stored nothing, and all other cycles stutter. The arithmetic is that of shifts, for each place in a byte
(`WeightOf`), and of remainders of the size of the buffer (`OneRemainder`). Assumed (`SdSystemAssumption`):
`ClockDivider` is 0, as `ramio.sv` has it; no reset while a block is written; `INIT` counts at least twice the clocks
of a command (160 against 56 in the code); a byte has at most eight bits, as shifts by any number would need an
induction; the address of a sector that goes out on the wires is the one the card has it at.

**Emulated card** (`EmulatorIoProofs`): `EmulatedCardInvariant`, `EmulatedCardIsStore` and
`EmulatedCardKeepsOthers`. `Inv` says where the program is in its call (`InCall`), that the index of the card
is the one of the loop and how much of the two buffers is the same (`InStep`), and that, while the
emulator runs, the buffer is the sector of the image that is read or was written (`InImage`). That a transfer that
failed stops the emulator is what makes `InImage` inductive. The refinement maps the store to the sectors of the image;
a write takes effect with the access that starts it. The arithmetic is that sectors are apart (`OneSectorPerByte`) and in the
image (`SectorInImage`). Assumed: offsets as wide as the image, which 32 bits are.

**Adventure** (`AdventureProofs`): `AdventureInvariant`, `ObjectsInOnePlace`, `EntitiesWhereTheySay`, `ToldIsTrue`,
`AdventureIsWhereabouts`, `ToldThingsWork` and `WordsMakeUp`. The lemmas are about the lists of `list.hpp`: what `add`, `remove_at` and
`remove` leave, in terms of who occurs once (`once`) and who does not (`absent`), although the
arrays keep what was removed. Each command is then a move of one id from one list to another, or, with a full list, nothing.
The invariant is that of the runs; it is inductive. Assumed: two entities, numbered from 1, as `active_entity` of `os_common.hpp` has
it, and tables that are in order at the start (`WorldAssumption`); any rooms, links, objects, names and sizes of
lists.

`WordsMakeUp` says of every line, over any set of characters, that `string_next_word` loses nothing but the blanks
between a word and the rest. It comes from where the two `for_each_until_false` stop (`NextWordAt`): a first position
exists because the naturals are well-founded, so there is no induction over the line. With it `ToldThingsWork` is
proved from the characters of a command to the tables: the line is split into the words that were put together
(`FirstWord`, `OnlyWord`), `string_equals_cstr` is equality (`EqualsIs`), so a name stands for one object and one entity
(`OneHasTheName`), the one that was shown is found in its list (`NameFound`, `ExitFound`), and after the move it is
where the line says. `LinksTold` adds to the invariant that the exits shown are those of the location. Assumed for
`ToldThingsWork` only: the names are words, no two objects or entities have the same one, and a location has at most one
exit of a kind (`NamesAssumption`), as in the tables of `os_common.hpp:96-107`.

**Line editor** (`TypingProofs`): `ParameterIsOfOneSequence`, `TerminalShowsLine`, `BufferIsEditedLine` and
`NothingIsLost`, which is about the time a line is edited: what comes while a command prints may be lost, whatever the
gap. That the terminal shows the line when nothing is on its way is not inductive. `LineInv` says what the terminal
will have done with the characters that are on their way: they are letters and blanks that fill the rest of the line,
then a way back of the right length (`prints`, `Coming`), whatever part of it is already sent (`OnTheWay`). The
refinement maps the text to the letters of the buffer before its end. No character is lost (`Paced`) because an echo
has at most `2 * Size - 1` characters, a key is one of the strokes that a terminal sends and its rest is what the
editor is waiting for (`rests`), and the gap is longer than what is left of an echo when the last character of a key
is read (`InStep`). A line may begin in the middle of a key that was typed too early; what is left of one is read as
letters at the end of the line, whose echo has one character (`Behind`). Assumed for `NothingIsLost`: a line of more
than one character and `Gap >= 2 * (Size - 1)`, the gap of the run, where a
character is lost with two frames less; for all four,
that the letters are not control characters.

Only model-checked:

* liveness (`EveryRequestServed`, `KeepsExecuting`, `StartsUp`, `SendEnds`, `CallsReturn`, `EchoSettles`,
  `EveryCallEnds` and the fairness half of the channel): out of the prover's reach, as is `ENABLED`;
* receivers of another bit time (`EchoesAll`): the bound there is a matter of the numbers;
* the value of a number in decimal (`NumberIsDecimal`): recursive over the line;
* the values of the arithmetic; the commands `sdr` and `sdw`.

## 5. Not modelled, and the plan

1. `CacheReset`: a reset of the cache in the middle of a burst. It needs to be known what the vendor's
   controller does when its bursts are cut off; the flags of the lines are not cleared.
2. `Computer`: `Boot` and `Core` on `Cache`, the assumptions of each discharged by the other.
3. `Immediates`: the immediates of `core.sv:93-97` against `extract_bits` of
   `rv32i.hpp`, bit by bit.
4. The memory test of `os.cpp` and the LED register: they have no state that others depend on.

Not planned: the inside of the SDRAM controller (encrypted), the simulation models of the memory chip, what a card
makes of a block that reset cuts off, wiring and tooling, the tests of the emulator (single calls; what they check is
a part of `ImplementsStore`), the printing of text and of numbers in hex, and the terminal of the host the emulator
runs on.
