-------------------------------- MODULE Boot --------------------------------
(***************************************************************************)
(* core.sv from reset to the first fetch: the program is read from the     *)
(* flash bit by bit and written to the memory word by word.  With it a     *)
(* memory that answers when it likes and one of two flashes, with any      *)
(* contents: flash.sv, the circuit of the test benches, which samples its  *)
(* input at the edge at which the core drives it, or the P25Q32U of the    *)
(* board, which samples it half a cycle later and is not in the            *)
(* repository.  Both take any command for the one the core sends, 'read'.  *)
(* A step is an edge of the clock of the core; reset may come at any.      *)
(***************************************************************************)
EXTENDS Integers

CONSTANTS StartupWaitCycles, FlashTransferFromAddress, FlashTransferByteCount,
          RamWords,
          Flashes      \* what there may be at the wires, each with its content

VARIABLES rst_n,
          state, return_state,
          flash_counter, flash_clk, flash_mosi, flash_cs_n,
          flash_data_to_send, flash_num_bits_to_send,
          flash_current_byte_out, flash_current_byte_num, flash_data_out,
          request,             \* what core.sv asks of ramio.sv
          ramio_address_next,
          chip, flash,         \* the flash that is there, and its registers
          memory,
          hit                  \* the memory answers a request in this cycle

sendVars  == <<flash_data_to_send, flash_num_bits_to_send, return_state>>
readVars  == <<flash_current_byte_out, flash_current_byte_num, flash_data_out>>
portVars  == <<request, ramio_address_next>>
bootVars  == <<state, flash_counter, flash_clk, flash_mosi, flash_cs_n, sendVars, readVars, portVars>>
vars      == <<bootVars, flash, rst_n, chip, memory, hit>>

ByteValues == 0..255
Lanes      == 0..3
BootStates == {"BootInit", "BootLoadCommandToSend", "BootSend", "BootLoadAddressToSend",
               "BootReadData", "BootStartWrite", "BootWrite"}

bit(n, i)     == (n \div 2^i) % 2
shifted(n, b) == (2 * n + b) % 256
NoRequest     == [enable |-> FALSE, read |-> 0, write |-> 0, address |-> 0,
                  data_in |-> [b \in Lanes |-> 0]]

\* 'at_rise': it takes its bits at rising edges, as the flash of the board does.
IsFlash(f) ==
  /\ f.at_rise \in BOOLEAN /\ f.bytes \in Nat \ {0}
  /\ f.content \in [0..(f.bytes - 1) -> ByteValues]

\* what the flash holds 'index' bytes after the address that the boot reads from
stored(index) == chip.content[(FlashTransferFromAddress + index) % chip.bytes]

ImageWords == (FlashTransferByteCount + 3) \div 4
image(word) == [b \in Lanes |-> stored(4 * word + b)]

ASSUME BootAssumption ==
  /\ StartupWaitCycles \in Nat /\ FlashTransferByteCount \in Nat \ {0}
  /\ RamWords \in Nat /\ ImageWords <= RamWords
  /\ FlashTransferFromAddress \in 0..(2^24 - 1)
  /\ \A f \in Flashes :
       /\ IsFlash(f)
       \* The low bits of the address are 0: flash.sv reads the first byte at half
       \* of the address, and may see the bits of the address one clock late.
       /\ ~f.at_rise => /\ \E k \in 0 .. 22 : f.bytes = 2 ^ k
                        /\ FlashTransferFromAddress % (4 * f.bytes) = 0

busy == request.enable /\ ~hit

-----------------------------------------------------------------------------
\* mutant: the counter is not cleared when the wait is over
BootInit_keeps_counter ==
  /\ state = "BootInit"
  /\ flash_counter' = flash_counter + 1
  /\ state' = IF flash_counter >= StartupWaitCycles THEN "BootLoadCommandToSend" ELSE state
  /\ UNCHANGED <<flash_clk, flash_mosi, flash_cs_n, sendVars, readVars, portVars>>

BootInit ==
  /\ state = "BootInit"
  /\ IF flash_counter >= StartupWaitCycles
     THEN flash_counter' = 0 /\ state' = "BootLoadCommandToSend"
     ELSE flash_counter' = flash_counter + 1 /\ UNCHANGED state
  /\ UNCHANGED <<flash_clk, flash_mosi, flash_cs_n, sendVars, readVars, portVars>>

BootLoadCommandToSend ==
  /\ state = "BootLoadCommandToSend"
  /\ flash_cs_n' = 0
  /\ flash_data_to_send' = 3 * 2^16 + (flash_data_to_send % 2^16)
  /\ flash_num_bits_to_send' = 8
  /\ state' = "BootSend" /\ return_state' = "BootLoadAddressToSend"
  /\ UNCHANGED <<flash_counter, flash_clk, flash_mosi, readVars, portVars>>

\* mutant: after the address is sent it is loaded again
BootLoadAddressToSend_same_return ==
  /\ state = "BootLoadAddressToSend"
  /\ flash_data_to_send' = FlashTransferFromAddress
  /\ flash_num_bits_to_send' = 24
  /\ flash_current_byte_num' = 0
  /\ state' = "BootSend"
  /\ UNCHANGED <<return_state, flash_counter, flash_clk, flash_mosi, flash_cs_n,
                 flash_current_byte_out, flash_data_out, portVars>>

BootLoadAddressToSend ==
  /\ state = "BootLoadAddressToSend"
  /\ flash_data_to_send' = FlashTransferFromAddress
  /\ flash_num_bits_to_send' = 24
  /\ flash_current_byte_num' = 0
  /\ state' = "BootSend" /\ return_state' = "BootReadData"
  /\ UNCHANGED <<flash_counter, flash_clk, flash_mosi, flash_cs_n,
                 flash_current_byte_out, flash_data_out, portVars>>

BootSend ==
  /\ state = "BootSend"
  /\ IF flash_counter = 0
     THEN /\ flash_counter' = 1
          /\ flash_clk' = 0
          /\ flash_mosi' = bit(flash_data_to_send, 23)
          /\ flash_data_to_send' = (2 * flash_data_to_send) % 2^24
          /\ flash_num_bits_to_send' = (flash_num_bits_to_send - 1) % 32
          /\ UNCHANGED state
     ELSE /\ flash_counter' = 0
          /\ flash_clk' = 1
          /\ state' = IF flash_num_bits_to_send = 0 THEN return_state ELSE state
          /\ UNCHANGED <<flash_mosi, flash_data_to_send, flash_num_bits_to_send>>
  /\ UNCHANGED <<return_state, flash_cs_n, readVars, portVars>>

\* Eight bits are in flash_current_byte_out.
ByteIsRead ==
  /\ flash_data_out' = [flash_data_out EXCEPT ![flash_current_byte_num] = flash_current_byte_out]
  /\ flash_current_byte_num' = (flash_current_byte_num + 1) % 256
  /\ state' = IF flash_current_byte_num = 3 THEN "BootStartWrite" ELSE state

\* The counter runs on from word to word: the first bit of a word is on
\* flash_miso since the last byte of the word before was taken.
BootReadData ==
  /\ state = "BootReadData"
  /\ flash_counter' = flash_counter + 1
  /\ IF flash_counter % 2 = 0
     THEN /\ flash_clk' = 0
          /\ IF flash_counter % 16 = 0 /\ flash_counter > 0 THEN ByteIsRead
             ELSE UNCHANGED <<flash_data_out, flash_current_byte_num, state>>
          /\ UNCHANGED flash_current_byte_out
     ELSE /\ flash_clk' = 1
          /\ flash_current_byte_out' = shifted(flash_current_byte_out, flash.miso)
          /\ UNCHANGED <<flash_data_out, flash_current_byte_num, state>>
  /\ UNCHANGED <<flash_mosi, flash_cs_n, sendVars, portVars>>

BootStartWrite ==
  /\ state = "BootStartWrite"
  /\ IF busy THEN UNCHANGED <<state, portVars>>
     ELSE /\ request' = [enable |-> TRUE, read |-> 0, write |-> 4,
                         address |-> ramio_address_next, data_in |-> flash_data_out]
          /\ ramio_address_next' = ramio_address_next + 4
          /\ state' = "BootWrite"
  /\ UNCHANGED <<flash_counter, flash_clk, flash_mosi, flash_cs_n, sendVars, readVars>>

StartCpu == /\ flash_cs_n' = 1
            /\ request' = [enable |-> TRUE, read |-> 4, write |-> 0, address |-> 0,
                           data_in |-> request.data_in]
            /\ state' = "CpuFetch"

\* mutant: the number of bytes is compared as if it were the last address
BootWrite_one_more ==
  /\ state = "BootWrite"
  /\ IF busy THEN UNCHANGED <<state, request, flash_current_byte_num, flash_cs_n>>
     ELSE /\ flash_current_byte_num' = 0
          /\ IF ramio_address_next <= FlashTransferByteCount
             THEN /\ request' = [request EXCEPT !.enable = FALSE]
                  /\ state' = "BootReadData"
                  /\ UNCHANGED flash_cs_n
             ELSE StartCpu
  /\ UNCHANGED <<flash_counter, flash_clk, flash_mosi, sendVars,
                 flash_current_byte_out, flash_data_out, ramio_address_next>>

BootWrite ==
  /\ state = "BootWrite"
  /\ IF busy THEN UNCHANGED <<state, request, flash_current_byte_num, flash_cs_n>>
     ELSE /\ flash_current_byte_num' = 0
          /\ IF ramio_address_next < FlashTransferByteCount
             THEN /\ request' = [request EXCEPT !.enable = FALSE]
                  /\ state' = "BootReadData"
                  /\ UNCHANGED flash_cs_n
             ELSE StartCpu
  /\ UNCHANGED <<flash_counter, flash_clk, flash_mosi, sendVars,
                 flash_current_byte_out, flash_data_out, ramio_address_next>>

-----------------------------------------------------------------------------
\* flash.sv at a falling edge of its clock.  'counter' has gone below 0 when
\* what it counts is complete.
ReceiveCommand ==
  IF flash.counter >= 0 THEN [flash EXCEPT !.counter = @ - 1]
  ELSE [flash EXCEPT !.counter = 24 - 2, !.state = "ReceiveAddress"]

ReceiveAddress(mosi) ==
  IF flash.counter >= 0
  THEN [flash EXCEPT !.address = (2 * @ + mosi) % chip.bytes,
                     !.current_byte = chip.content[flash.address],
                     !.counter = @ - 1]
  ELSE [state |-> "SendData", counter |-> 7 - 2,
        miso |-> bit(flash.current_byte, 7), current_byte |-> shifted(flash.current_byte, 0),
        address |-> (flash.address + 1) % chip.bytes]

SendData ==
  IF flash.counter >= 0
  THEN [flash EXCEPT !.miso = bit(flash.current_byte, 7),
                     !.current_byte = shifted(flash.current_byte, 0),
                     !.counter = @ - 1]
  ELSE [state |-> "SendData", counter |-> 8 - 2,
        miso |-> bit(flash.current_byte, 7), current_byte |-> chip.content[flash.address],
        address |-> (flash.address + 1) % chip.bytes]

FlashClockFalls == flash_clk = 1 /\ flash_clk' = 0 /\ flash_cs_n = 0
FlashClockRises == flash_clk = 0 /\ flash_clk' = 1 /\ flash_cs_n = 0

\* flash_mosi changes at the edge at which flash.sv samples it: either value
EmulatedFlash ==
  IF FlashClockFalls
  THEN \E mosi \in {flash_mosi, flash_mosi'} :
         flash' = CASE flash.state = "ReceiveCommand" -> ReceiveCommand
                    [] flash.state = "ReceiveAddress" -> ReceiveAddress(mosi)
                    [] flash.state = "SendData"       -> SendData
  ELSE UNCHANGED flash

\* the flash of the board with the last bit of the address has the first byte ready
TakeAddress(mosi) ==
  LET here == (2 * flash.address + mosi) % chip.bytes
  IN  IF flash.counter >= 0 THEN [flash EXCEPT !.address = here, !.counter = @ - 1]
      ELSE [state |-> "SendData", counter |-> 8 - 2, miso |-> flash.miso,
            current_byte |-> chip.content[here], address |-> (here + 1) % chip.bytes]

\* It takes bits at rising edges and puts them out, as flash.sv does, at falling ones.
BoardFlash ==
  flash' = CASE FlashClockRises /\ flash.state = "ReceiveCommand" -> ReceiveCommand
             [] FlashClockRises /\ flash.state = "ReceiveAddress" -> TakeAddress(flash_mosi)
             [] FlashClockFalls /\ flash.state = "SendData"       -> SendData
             [] OTHER -> flash

Flash == IF chip.at_rise THEN BoardFlash ELSE EmulatedFlash

-----------------------------------------------------------------------------
\* what the memory holds when nothing is known of it
Leftovers == {[w \in 0..(RamWords - 1) |-> [b \in Lanes |-> n]] : n \in {0, 255}}

Store == memory' = IF request.enable /\ hit /\ request.write = 4
                   THEN [memory EXCEPT ![(request.address \div 4) % RamWords] = request.data_in]
                   ELSE memory

\* what the registers that reset leaves alone hold: anything, here one of two
Unknown ==
  {[data_to_send |-> 0, num_bits |-> 0, byte_num |-> 0, byte |-> 0],
   [data_to_send |-> 2^24 - 1, num_bits |-> 31, byte_num |-> 255, byte |-> 255]}

FlashAtReset == [state |-> "ReceiveCommand", counter |-> 8 - 2, address |-> 0,
                 current_byte |-> 0, miso |-> 0]

Init ==
  /\ rst_n \in BOOLEAN
  /\ state = "BootInit" /\ return_state = "BootInit"
  /\ flash_counter = 0
  /\ flash_clk = 0 /\ flash_mosi = 0 /\ flash_cs_n = 1
  /\ request = NoRequest /\ ramio_address_next = 0
  /\ \E unknown \in Unknown :
       /\ flash_data_to_send = unknown.data_to_send
       /\ flash_num_bits_to_send = unknown.num_bits
       /\ flash_current_byte_out = unknown.byte
       /\ flash_current_byte_num = unknown.byte_num
       /\ flash_data_out = [b \in Lanes |-> unknown.byte]
  /\ flash = FlashAtReset
  /\ chip \in Flashes
  /\ memory \in Leftovers
  /\ hit \in BOOLEAN

Inputs == hit' \in BOOLEAN /\ rst_n' \in BOOLEAN /\ UNCHANGED chip

\* The program that runs may leave anything in the memory.
Reset ==
  /\ ~rst_n
  /\ state' = "BootInit" /\ return_state' = "BootInit"
  /\ flash_counter' = 0
  /\ flash_clk' = 0 /\ flash_mosi' = 0 /\ flash_cs_n' = 1
  /\ request' = NoRequest /\ ramio_address_next' = 0
  /\ \E unknown \in Unknown :
       /\ flash_data_to_send' = unknown.data_to_send
       /\ flash_num_bits_to_send' = unknown.num_bits
       /\ flash_current_byte_out' = unknown.byte
       /\ flash_current_byte_num' = unknown.byte_num
       /\ flash_data_out' = [b \in Lanes |-> unknown.byte]
  /\ flash' = FlashAtReset
  /\ Store \/ (state = "CpuFetch" /\ memory' \in Leftovers)
  /\ Inputs

BootStep ==
  \/ BootInit \/ BootLoadCommandToSend \/ BootLoadAddressToSend \/ BootSend
  \/ BootReadData \/ BootStartWrite \/ BootWrite

Clock == rst_n /\ BootStep /\ Flash /\ Store /\ Inputs

\* from here on module CoreSystem
Booted == rst_n /\ state = "CpuFetch" /\ Inputs /\ UNCHANGED <<bootVars, flash, memory>>

Next == Reset \/ Clock \/ Booted

\* The clock does not stop and the memory answers in the end: the cache's
\* EveryRequestServed.
Spec == Init /\ [][Next]_vars /\ WF_vars(Next) /\ WF_vars(Clock /\ hit')

-----------------------------------------------------------------------------
\* The registers stay within their widths, and the index of flash_data_out
\* within its four bytes whenever it is used.
TypeOK ==
  /\ rst_n \in BOOLEAN /\ hit \in BOOLEAN
  /\ state \in BootStates \cup {"CpuFetch"} /\ return_state \in BootStates
  /\ flash_counter \in Nat
  /\ {flash_clk, flash_mosi, flash_cs_n} \subseteq {0, 1}
  /\ flash_data_to_send \in 0..(2^24 - 1) /\ flash_num_bits_to_send \in 0..31
  /\ flash_current_byte_out \in ByteValues
  /\ state = "BootReadData" => flash_current_byte_num \in Lanes
  /\ flash_data_out \in [Lanes -> ByteValues]
  /\ request.data_in \in [Lanes -> ByteValues]
  /\ flash.counter \in -1..22 /\ flash.address \in 0..(chip.bytes - 1)
  /\ memory \in [0..(RamWords - 1) -> [Lanes -> ByteValues]]

\* core.sv, BootWrite: the registers keep their widths, and when the CPU is
\* started the whole program is in the memory, whatever was there before and
\* however often the boot was cut short, the flash is deselected, and the port
\* asks for the first instruction.
ProgramIsLoaded ==
  /\ TypeOK
  /\ state = "CpuFetch" =>
       /\ \A w \in 0..(ImageWords - 1) : memory[w] = image(w)
       /\ flash_cs_n = 1
       /\ request.enable /\ request.read = 4 /\ request.write = 0 /\ request.address = 0

\* core.sv, BootStartWrite: the boot writes the words of the program in their
\* places, each after the ones before it, and no other word of the memory.
CopiesInOrder ==
  [][state # "CpuFetch" =>
       \A w \in 0..(RamWords - 1) :
         memory'[w] # memory[w] => /\ w < ImageWords
                                   /\ memory'[w] = image(w)
                                   /\ \A v \in 0..(w - 1) : memory[v] = image(v)]_vars

\* core.sv, the states of the boot: once reset stays released the CPU is started.
StartsUp == <>[]rst_n => <>[](state = "CpuFetch")

-----------------------------------------------------------------------------
\* the flashes of the run: flash.sv, and one whose end is among the bytes that are read
SmallFlash(at_rise, bytes, factor) ==
  [at_rise |-> at_rise, bytes |-> bytes,
   content |-> [address \in 0..(bytes - 1) |-> (factor * (address + 1)) % 256]]

SmallFlashes == {SmallFlash(FALSE, 16, 37), SmallFlash(TRUE, 20, 201)}
=============================================================================
