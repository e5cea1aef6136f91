------------------------------ MODULE SdProofs ------------------------------
(***************************************************************************)
(* Proofs about SdSystem.  The line from the card is seen as an endless    *)
(* stream that moves by one when the clock falls, and the buffer of a      *)
(* sector as an endless stream that moves by one when its index does; the  *)
(* invariant says, for every state of sd_controller.v, where both stand.   *)
(***************************************************************************)
EXTENDS SdSystem, TLAPS

\* what the line will be k falls of the clock from now
line(k) == IF k = 0 THEN card.miso ELSE IF k <= Len(card.answer) THEN card.answer[k] ELSE 1

\* the answer is over after m falls of the clock
EndsBy(m) == IF m = 0 THEN card.answer = <<>> /\ card.miso = 1 ELSE Len(card.answer) < m

Quiet == EndsBy(0)

\* a run of ones from m on, and a zero after it
ZeroAt(m, q) == m <= q /\ line(q) = 0 /\ \A k \in Nat : m <= k /\ k < q => line(k) = 1

\* the bits of a block, from the p-th on
bit_of(data, p) == bits_of(data[p \div BitsPerByte])[(p % BitsPerByte) + 1]
SectorBits      == SectorSize * BitsPerByte

BlockFrom(m, p) ==
  /\ \A j \in Nat : p + j < SectorBits => line(m + j) = bit_of(stored[card.sector], p + j)
  /\ EndsBy(m + SectorBits - p + 2 * BitsPerByte)

\* what is on the line m falls from now, after a response
BlockAfter(m) == \E q \in Nat : ZeroAt(m, q) /\ BlockFrom(q + 1, 0)
BusyAfter(m)  == \A k \in Nat : m <= k /\ line(k) = 1 => EndsBy(k)

Follows(m) == CASE sd.return_state = "READ_BLOCK_WAIT"  -> BlockAfter(m)
                [] sd.return_state = "WRITE_BLOCK_WAIT" -> BusyAfter(m)
                [] OTHER                                -> EndsBy(m)

bits_of_response == IF sd.response_type = 7 THEN 5 * BitsPerByte ELSE BitsPerByte

AnswerAfter(m) == \E n \in Nat : ZeroAt(m, n) /\ Follows(n + bits_of_response)

-----------------------------------------------------------------------------
(* The registers. *)

ControllerFields == {"state", "return_state", "cs", "sclk_sig", "cmd_out", "cmd_mode", "data_sig",
                     "response_type", "byte_counter", "bit_counter", "boot_counter", "recv_data",
                     "dout", "byte_available", "ready_for_next_byte"}
InterfaceFields  == {"state", "rd", "wr", "din", "address", "buffer", "buffer_index",
                     "waiting_ready_for_next_byte"}
CardFields       == {"expects", "got", "answer", "miso", "sector", "polls"}

Responses == {"CMD8", "CMD55", "CMD41", "POLL_CMD", "READ_BLOCK_WAIT", "WRITE_BLOCK_INIT"}

ControllerTypes ==
  /\ DOMAIN sd = ControllerFields
  /\ sd.sclk_sig \in {0, 1} /\ sd.cmd_mode \in BOOLEAN
  /\ sd.byte_available \in BOOLEAN /\ sd.ready_for_next_byte \in BOOLEAN
  /\ sd.bit_counter \in Nat /\ (sd.bit_counter <= InitPulses \/ sd.bit_counter <= 5 * BitsPerByte)
  /\ sd.byte_counter \in 0 .. WRITE_DATA_SIZE
  /\ sd.boot_counter \in Nat /\ (sd.boot_counter <= BootPulses \/ sd.boot_counter <= ResetPulses)
  /\ sd.recv_data \in ByteValues /\ sd.dout \in ByteValues /\ sd.data_sig \in ByteValues

InterfaceTypes ==
  /\ DOMAIN sdcard = InterfaceFields
  /\ sdcard.waiting_ready_for_next_byte \in BOOLEAN
  /\ sdcard.rd \in BOOLEAN /\ sdcard.wr \in BOOLEAN
  /\ sdcard.buffer \in [Indices -> ByteValues] /\ sdcard.buffer_index \in Indices
  /\ sdcard.din \in ByteValues /\ sdcard.address \in Int
  /\ counter = 0

CardTypes ==
  /\ DOMAIN card = CardFields
  /\ card.answer \in Seq({0, 1}) /\ card.miso \in {0, 1}
  /\ card.got \in Seq(Int) /\ card.polls \in Nat
  /\ stored \in [Sectors -> Contents]

Types == ControllerTypes /\ InterfaceTypes /\ CardTypes

-----------------------------------------------------------------------------
(* The program and its call. *)

InCall ==
  /\ i \in Indices /\ (doing \notin {"read_bytes", "write_bytes"} => i = 0)
  /\ buffer \in Contents /\ result \in Contents
  /\ \/ doing = "caller" /\ call = NoCall
     \/ /\ doing \in {"wait_to_read", "start_read", "wait_for_read", "read_bytes"}
        /\ call \in Calls /\ call.op = "read"
     \/ /\ doing \in {"wait_to_write", "write_bytes", "start_write", "wait_for_write"}
        /\ call \in Calls /\ call.op = "write" /\ buffer = call.data

InterfaceAt ==
  \/ /\ sdcard.state = "Init" /\ ~sdcard.rd /\ ~sdcard.wr
     /\ doing \in {"caller", "wait_to_read", "wait_to_write"}
  \/ /\ sdcard.state = "Idle" /\ ~sdcard.rd /\ ~sdcard.wr /\ sd.state = "IDLE"
  \/ /\ sdcard.state = "PreReadSector" /\ sdcard.rd /\ ~sdcard.wr /\ sd.state = "IDLE"
     /\ doing = "wait_for_read" /\ sdcard.address \div AddressUnit = call.sector
  \/ /\ sdcard.state = "ReadSector" /\ ~sdcard.rd /\ ~sdcard.wr
     /\ doing = "wait_for_read" /\ sdcard.address \div AddressUnit = call.sector
  \/ /\ sdcard.state = "PreWriteSector" /\ ~sdcard.rd /\ sdcard.wr /\ sd.state = "IDLE"
     /\ sdcard.waiting_ready_for_next_byte
     /\ doing = "wait_for_write" /\ sdcard.address \div AddressUnit = call.sector
  \/ /\ sdcard.state = "WriteSector" /\ ~sdcard.rd /\ ~sdcard.wr
     /\ doing = "wait_for_write" /\ sdcard.address \div AddressUnit = call.sector

\* the states of sd_controller.v that belong to one of sdcard.sv
InitStates  == {"RST", "INIT", "CMD0", "CMD8", "CMD55", "CMD41", "POLL_CMD"}
ReadStates  == {"READ_BLOCK", "READ_BLOCK_WAIT", "READ_BLOCK_DATA", "READ_BLOCK_CRC"}
WriteStates == {"WRITE_BLOCK_CMD", "WRITE_BLOCK_INIT", "WRITE_BLOCK_DATA", "WRITE_BLOCK_BYTE",
                "WRITE_BLOCK_WAIT"}

BelongsTo(state) ==
  CASE state \in InitStates  -> {"Init"}
    [] state \in ReadStates  -> {"ReadSector"}
    [] state \in WriteStates -> {"WriteSector"}
    [] state \in {"IDLE", "SEND_CMD", "RECEIVE_BYTE_WAIT", "RECEIVE_BYTE"}
         -> {"Init", "Idle", "PreReadSector", "ReadSector", "PreWriteSector", "WriteSector"}
    [] OTHER                 -> {}

\* what is done after a response or a byte
Returns ==
  /\ sd.state = "SEND_CMD" => sd.return_state \in Responses
  /\ sd.state = "RECEIVE_BYTE_WAIT" => sd.return_state \in Responses \cup {"WRITE_BLOCK_WAIT"}
  /\ sd.state = "RECEIVE_BYTE"
       => sd.return_state \in Responses \cup {"WRITE_BLOCK_WAIT", "READ_BLOCK_DATA",
                                              "READ_BLOCK_CRC", "IDLE"}
  /\ sd.state \in {"SEND_CMD", "RECEIVE_BYTE_WAIT", "RECEIVE_BYTE"}
       => sdcard.state \in IF sd.return_state = "IDLE" THEN {"ReadSector"}
                           ELSE BelongsTo(sd.return_state)
  /\ sdcard.state \in BelongsTo(sd.state)

-----------------------------------------------------------------------------
(* The wires, for every state of sd_controller.v. *)

\* the card waits for a command, the line is high
CardIdle == card.expects = "command" /\ card.got = <<>>
Resting  == sd.sclk_sig = 0 /\ CardIdle /\ Quiet

\* a reset may have cut a command off, the ones that follow complete it: none that writes
CutOff == /\ card.expects = "command" /\ Len(card.got) <= 3
          /\ Len(card.got) >= 2 => card.got[2] # 88

number_of == CASE sd.return_state = "CMD8"            -> 64
               [] sd.return_state = "CMD55"           -> 72
               [] sd.return_state = "CMD41"           -> 119
               [] sd.return_state = "POLL_CMD"        -> 105
               [] sd.return_state = "READ_BLOCK_WAIT" -> 81
               [] OTHER                               -> 88

\* after the command the card expects the block or the next command
Commanded == /\ card.expects = IF sd.return_state = "WRITE_BLOCK_INIT" THEN "token" ELSE "command"
             /\ card.got = <<>>
             /\ sd.return_state \in {"READ_BLOCK_WAIT", "WRITE_BLOCK_INIT"} => card.sector = call.sector

\* a command of which left clocks remain after this one
SendingCommand(left, argument) ==
  LET n    == number_of
      rest == CASE left = 4 -> <<1, 0, n, argument, 1>>
                [] left = 3 -> <<0, n, argument, 1, 1>>
                [] left = 2 -> <<n, argument, 1, 1, 1>>
                [] left = 1 -> <<argument, 1, 1, 1, 1>>
                [] OTHER    -> <<1, 1, 1, 1, 1>>
      come == 4 - left + sclk
      sent == CASE come <= 1 -> <<>>
                [] come = 2  -> <<0>>
                [] come = 3  -> <<0, n>>
                [] OTHER     -> <<0, n, argument>>
  IN /\ sd.cmd_out = rest
     /\ IF left = 0 /\ sclk = 1
          THEN Commanded /\ AnswerAfter(1)
          ELSE card.expects = "command" /\ card.got = sent /\ (n # 64 => Quiet)

Sending ==
  /\ sd.cmd_mode /\ sd.bit_counter \in 0 .. 4
  /\ sd.response_type = IF sd.return_state = "CMD55" THEN 7 ELSE 1
  /\ \E argument \in Int :
       /\ SendingCommand(sd.bit_counter, argument)
       /\ number_of \in {81, 88} => argument \div AddressUnit = call.sector

\* the card answers: nothing on mosi is a command
Answered == /\ sd.response_type = IF sd.return_state = "CMD55" THEN 7 ELSE 1
            /\ IF sd.return_state = "WRITE_BLOCK_WAIT" THEN CardIdle ELSE Commanded
            /\ mosi = 1

\* bits of the block that the controller has, and bytes of them
received_bits == (SectorSize - 1 - sd.byte_counter) * BitsPerByte
                 + IF sd.state = "RECEIVE_BYTE" THEN BitsPerByte - 1 - sd.bit_counter ELSE BitsPerByte

ReceivingBlock ==
  /\ CardIdle /\ sd.cmd_mode /\ card.sector = call.sector
  /\ sd.byte_counter \in 0 .. SectorSize - 1
  /\ sd.return_state = "READ_BLOCK_DATA"
  /\ BlockFrom(0, received_bits)
  /\ LET byte == stored[call.sector][SectorSize - 1 - sd.byte_counter]
     IN IF sd.state = "RECEIVE_BYTE"
          THEN /\ sd.bit_counter \in 0 .. BitsPerByte - 1
               /\ sd.recv_data % 2 ^ (BitsPerByte - 1 - sd.bit_counter)
                    = byte \div 2 ^ (sd.bit_counter + 1)
          ELSE sd.sclk_sig = 0 /\ sd.recv_data = byte

\* what is left in data_sig of a byte of which n bits were sent
rest_of(byte, n) == (byte * 2 ^ n + 2 ^ n - 1) % 2 ^ BitsPerByte

byte_sent == IF sd.byte_counter = SectorSize + 2 THEN start_token
             ELSE IF sd.byte_counter \in 2 .. SectorSize + 1
               THEN call.data[SectorSize + 1 - sd.byte_counter]
             ELSE all_ones

\* the card has n bits of the block
GotBits(n) ==
  /\ card.expects = "block" /\ Len(card.got) = n
  /\ \A p \in Nat : p < n /\ p < SectorBits => card.got[p + 1] = bit_of(call.data, p)

\* the card has the block and answers
Stored == /\ stored[call.sector] = call.data /\ sd.data_sig = all_ones /\ sd.response_type = 1
          /\ CardIdle

SendingByte ==
  /\ ~sd.cmd_mode /\ sd.bit_counter \in 0 .. BitsPerByte - 1
  /\ sd.byte_counter \in 0 .. SectorSize + 2 /\ card.sector = call.sector
  /\ sd.response_type = 1
  /\ sd.data_sig = rest_of(byte_sent, BitsPerByte - 1 - sd.bit_counter)
  /\ IF sd.byte_counter = SectorSize + 2
       THEN /\ Quiet /\ card.got = <<>>
            /\ card.expects = IF sd.bit_counter = 0 /\ sclk = 1 THEN "block" ELSE "token"
     ELSE IF sd.byte_counter = 0 /\ sd.bit_counter = 0 /\ sclk = 1
       THEN Stored /\ \E n \in Nat : ZeroAt(1, n) /\ BusyAfter(n + BitsPerByte)
     ELSE Quiet /\ GotBits((SectorSize + 1 - sd.byte_counter) * BitsPerByte
                           + BitsPerByte - 1 - sd.bit_counter + sd.sclk_sig)

BetweenBytes ==
  /\ ~sd.cmd_mode /\ sd.sclk_sig = 0 /\ sd.byte_counter \in 0 .. SectorSize + 3
  /\ card.sector = call.sector /\ sd.response_type = 1
  /\ IF sd.byte_counter = SectorSize + 3 THEN Quiet /\ card.got = <<>> /\ card.expects = "token"
     ELSE IF sd.byte_counter = 0
       THEN Stored /\ \E n \in Nat : ZeroAt(0, n) /\ BusyAfter(n + BitsPerByte)
     ELSE Quiet /\ GotBits((SectorSize + 2 - sd.byte_counter) * BitsPerByte)

\* no more is expected of the card than its last bits
LastBits == CardIdle /\ sd.cmd_mode

Wires ==
  /\ sd.state \notin {"SEND_CMD"} => sd.cmd_out = no_command
  /\ sd.state = "RST" => sd.cmd_mode /\ CutOff
  /\ sd.state = "INIT" => /\ sd.cmd_mode /\ CutOff /\ sd.sclk_sig = sd.bit_counter % 2
                          /\ card.got # <<>> => 8 - 2 * Len(card.got) <= sd.bit_counter
  /\ sd.state = "CMD0" => sd.cmd_mode /\ sd.sclk_sig = 0 /\ CardIdle
  /\ sd.state \in {"CMD8", "CMD55", "CMD41", "POLL_CMD", "IDLE", "READ_BLOCK",
                   "WRITE_BLOCK_CMD"} => Resting /\ sd.cmd_mode
  /\ sd.state = "SEND_CMD" => Sending
  /\ sd.state = "RECEIVE_BYTE_WAIT" => Answered /\ AnswerAfter(0)
  /\ sd.state \in {"RECEIVE_BYTE_WAIT", "RECEIVE_BYTE"} /\ sd.return_state = "WRITE_BLOCK_WAIT"
       => Stored /\ ~sd.cmd_mode
  /\ sd.state \in {"RECEIVE_BYTE_WAIT", "RECEIVE_BYTE"} /\ sd.return_state \in Responses
       => sd.cmd_mode
  /\ sd.state \in {"RECEIVE_BYTE"} /\ sd.return_state \in Responses \cup {"WRITE_BLOCK_WAIT"}
       => Answered /\ Follows(sd.bit_counter + 1)
  /\ sd.state = "READ_BLOCK_WAIT" => /\ CardIdle /\ sd.cmd_mode /\ BlockAfter(0)
                                     /\ card.sector = call.sector
  /\ sd.state = "RECEIVE_BYTE" /\ sd.return_state = "READ_BLOCK_DATA" => ReceivingBlock
  /\ sd.state = "READ_BLOCK_DATA" => ReceivingBlock
  /\ sd.state = "RECEIVE_BYTE" /\ sd.return_state = "READ_BLOCK_CRC"
       => LastBits /\ EndsBy(sd.bit_counter + 1 + BitsPerByte)
  /\ sd.state = "READ_BLOCK_CRC" => LastBits /\ EndsBy(BitsPerByte) /\ sd.sclk_sig = 0
  /\ sd.state = "RECEIVE_BYTE" /\ sd.return_state = "IDLE"
       => LastBits /\ EndsBy(sd.bit_counter + 1)
  /\ sd.state = "WRITE_BLOCK_INIT"
       => /\ sd.sclk_sig = 0 /\ card.expects = "token" /\ card.got = <<>> /\ Quiet
          /\ card.sector = call.sector /\ sd.response_type = 1
  /\ sd.state = "WRITE_BLOCK_DATA" => BetweenBytes
  /\ sd.state = "WRITE_BLOCK_BYTE" => SendingByte
  /\ sd.state = "WRITE_BLOCK_WAIT" => ~sd.cmd_mode /\ Stored /\ BusyAfter(0)

-----------------------------------------------------------------------------
(* The buffer of sdcard.sv. *)

ring(k) == sdcard.buffer[(sdcard.buffer_index + k) % SectorSize]

\* the buffer is f from its t-th byte on
Holds(f, t) == \A k \in Nat : ring(k) = f[(t + k) % SectorSize]

\* the last n bytes written are the first of f
Behind(f, n) == \A k \in Nat : k < n => ring(SectorSize - n + k) = f[k]

\* n bytes have come, the last may be on its way from sd_controller.v
Came(f, n) == IF sd.byte_available THEN n > 0 /\ sd.dout = f[n - 1] /\ Behind(f, n - 1)
                                   ELSE Behind(f, n)

\* t bytes were taken, the last is on the wires to sd_controller.v
Taken(t) == /\ Holds(call.data, t)
            /\ t > 0 => sdcard.din = call.data[(t - 1) % SectorSize]

Reading ==
  sdcard.state = "ReadSector" =>
    LET f == stored[call.sector] IN
    CASE sd.state \in {"READ_BLOCK", "SEND_CMD", "RECEIVE_BYTE_WAIT", "READ_BLOCK_WAIT"}
         \/ (sd.state = "RECEIVE_BYTE" /\ sd.return_state = "READ_BLOCK_WAIT")
           -> ~sd.byte_available
      [] sd.state = "READ_BLOCK_DATA"
         \/ (sd.state = "RECEIVE_BYTE" /\ sd.return_state = "READ_BLOCK_DATA")
           -> Came(f, SectorSize - 1 - sd.byte_counter)
      [] OTHER -> Came(f, SectorSize)

NoByteComes ==
  /\ sd.state \notin {"RST", "RECEIVE_BYTE"} => ~sd.byte_available
  /\ sd.state = "RECEIVE_BYTE" /\ sd.return_state \notin {"READ_BLOCK_DATA", "READ_BLOCK_CRC"}
       => ~sd.byte_available

Writing ==
  sdcard.state = "WriteSector" =>
    /\ sd.state = "WRITE_BLOCK_CMD"
         => ~sd.ready_for_next_byte /\ sdcard.waiting_ready_for_next_byte /\ Taken(0)
    /\ sd.state \in {"SEND_CMD", "RECEIVE_BYTE_WAIT", "RECEIVE_BYTE", "WRITE_BLOCK_INIT"}
         /\ (sd.state # "WRITE_BLOCK_INIT" => sd.return_state = "WRITE_BLOCK_INIT")
         => /\ sd.ready_for_next_byte
            /\ IF sdcard.waiting_ready_for_next_byte
                 THEN sd.state = "SEND_CMD" /\ sd.bit_counter = 4 /\ sclk = 0 /\ Taken(0)
                 ELSE Taken(1)
    /\ sd.state = "WRITE_BLOCK_DATA"
         => /\ ~sd.ready_for_next_byte
            /\ sd.byte_counter > 2 => Taken(IF sd.byte_counter = SectorSize + 3 THEN 1
                                            ELSE SectorSize + 3 - sd.byte_counter)
    /\ sd.state = "WRITE_BLOCK_BYTE"
         => /\ sd.ready_for_next_byte <=> sd.byte_counter \in 2 .. SectorSize + 1
            /\ sd.byte_counter = SectorSize + 2 => Taken(1)
            /\ sd.byte_counter \in 2 .. SectorSize + 1
                 => IF sdcard.waiting_ready_for_next_byte
                      THEN /\ sd.bit_counter = BitsPerByte - 1 /\ sclk = 0
                           /\ Taken(SectorSize + 2 - sd.byte_counter)
                      ELSE Taken(SectorSize + 3 - sd.byte_counter)
    /\ sd.state \in {"RECEIVE_BYTE_WAIT", "RECEIVE_BYTE"} /\ sd.return_state = "WRITE_BLOCK_WAIT"
         => ~sd.ready_for_next_byte
    /\ sd.state = "WRITE_BLOCK_WAIT" => ~sd.ready_for_next_byte
    /\ sd.state = "IDLE" => stored[call.sector] = call.data

NoByteIsAsked ==
  sd.ready_for_next_byte =>
    \/ sd.state = "RST"
    \/ sdcard.state = "WriteSector" /\ sd.state \notin {"IDLE", "WRITE_BLOCK_CMD"}

Waiting ==
  /\ sdcard.state = "PreWriteSector" => Taken(0)
  /\ sdcard.state = "Idle" =>
       /\ doing = "write_bytes" => Behind(call.data, i)
       /\ doing = "start_write" => Taken(0)
       /\ doing = "wait_for_read" => Holds(stored[call.sector], 0)
       /\ doing = "wait_for_write" => stored[call.sector] = call.data
       /\ doing = "read_bytes" => /\ Holds(stored[call.sector], i)
                                  /\ \A k \in Nat : k < i => buffer[k] = stored[call.sector][k]

Ring == Reading /\ NoByteComes /\ Writing /\ NoByteIsAsked /\ Waiting

Inv == Types /\ InCall /\ InterfaceAt /\ Returns /\ Wires /\ Ring

-----------------------------------------------------------------------------
(* Bytes and their bits: what is linear arithmetic once the size of a byte *)
(* and the weight of a bit are numerals.                                   *)

\* The sizes of a byte that the proofs go through.
LEMMA BitsPerByteIs == BitsPerByte \in {3, 4, 5, 6, 7, 8}
BY SectorBufferAssumption, SdSystemAssumption

\* The bytes are numbers, and those that the controller sends are among them.
LEMMA ByteRange ==
  /\ 2 ^ BitsPerByte \in Nat /\ 2 ^ BitsPerByte >= 8
  /\ 0 \in ByteValues /\ all_ones \in ByteValues /\ start_token \in ByteValues
  /\ ByteValues \subseteq Nat
<1>1. 2 ^ BitsPerByte \in Nat /\ 2 ^ BitsPerByte >= 8
  <2>3. CASE BitsPerByte = 3
    BY <2>3
  <2>4. CASE BitsPerByte = 4
    BY <2>4
  <2>5. CASE BitsPerByte = 5
    BY <2>5
  <2>6. CASE BitsPerByte = 6
    BY <2>6
  <2>7. CASE BitsPerByte = 7
    BY <2>7
  <2>8. CASE BitsPerByte = 8
    BY <2>8
  <2> QED
    BY <2>3, <2>4, <2>5, <2>6, <2>7, <2>8, BitsPerByteIs
<1> QED
  BY <1>1 DEF ByteValues, all_ones, start_token

\* recv_data stays a byte when a bit is shifted in.
LEMMA ShiftedIn ==
  ASSUME NEW byte \in ByteValues, NEW bit \in {0, 1}
  PROVE  shifted_in(byte, bit) \in ByteValues
<1>1. byte \in Nat /\ 2 ^ BitsPerByte \in Nat \ {0}
  BY ByteRange
<1>2. (2 * byte + bit) % 2 ^ BitsPerByte \in 0 .. 2 ^ BitsPerByte - 1
  BY <1>1
<1> QED
  BY <1>2 DEF ByteValues, shifted_in

\* A bit of weight w, of which r - 1 are above it once it is sent: what is left
\* in the register that sends, and what comes to the one that receives.
Sends(x, w, r) ==
  LET rest == (x * r + (r - 1)) % (2 * w * r)
  IN /\ rest \in 0 .. 2 * w * r - 1
     /\ rest \div (w * r) = (x \div w) % 2

Shifts(x, w, r) ==
  LET rest == (x * r + (r - 1)) % (2 * w * r)
  IN w > 1 => (2 * rest + 1) % (2 * w * r) = (x * (2 * r) + (2 * r - 1)) % (2 * w * r)

HasBit(x, w) ==
  (x \div w) % 2 \in {0, 1} /\ x \div w = 2 * (x \div (2 * w)) + ((x \div w) % 2)

Receives(x, y, w, r) ==
  y % r = x \div (2 * w) => ((2 * y + ((x \div w) % 2)) % (2 * w * r)) % (2 * r) = x \div w

\* the byte of ones, and the one before it, which is the start token
Ones(w, r, largest) ==
  /\ (largest * r + (r - 1)) % (2 * w * r) = largest
  /\ (largest \div w) % 2 = 1
  /\ ((largest - 1) \div w) % 2 = IF w = 1 THEN 0 ELSE 1

Weights(w, r, largest) ==
  /\ Ones(w, r, largest)
  /\ \A x \in 0 .. largest : Sends(x, w, r) /\ Shifts(x, w, r) /\ HasBit(x, w)
  /\ \A x, y \in 0 .. largest : Receives(x, y, w, r)

\* The bits of a byte of three bits.
LEMMA Weights4 ==
  /\ Weights(1, 4, 7) /\ Weights(2, 2, 7) /\ Weights(4, 1, 7)
BY DEF Weights, Ones, Sends, Shifts, HasBit, Receives

\* Of a byte of four.
LEMMA Weights8 ==
  /\ Weights(1, 8, 15) /\ Weights(2, 4, 15) /\ Weights(4, 2, 15) /\ Weights(8, 1, 15)
BY DEF Weights, Ones, Sends, Shifts, HasBit, Receives

\* Of a byte of five.
LEMMA Weights16 ==
  /\ Weights(1, 16, 31) /\ Weights(2, 8, 31) /\ Weights(4, 4, 31)
  /\ Weights(8, 2, 31) /\ Weights(16, 1, 31)
BY DEF Weights, Ones, Sends, Shifts, HasBit, Receives

\* Of a byte of six.
LEMMA Weights32 ==
  /\ Weights(1, 32, 63) /\ Weights(2, 16, 63) /\ Weights(4, 8, 63)
  /\ Weights(8, 4, 63) /\ Weights(16, 2, 63) /\ Weights(32, 1, 63)
BY DEF Weights, Ones, Sends, Shifts, HasBit, Receives

\* Of a byte of seven.
LEMMA Weights64 ==
  /\ Weights(1, 64, 127) /\ Weights(2, 32, 127) /\ Weights(4, 16, 127) /\ Weights(8, 8, 127)
  /\ Weights(16, 4, 127) /\ Weights(32, 2, 127) /\ Weights(64, 1, 127)
BY DEF Weights, Ones, Sends, Shifts, HasBit, Receives

\* Of a byte of eight, which is the one of the board.
LEMMA Weights128 ==
  /\ Weights(1, 128, 255) /\ Weights(2, 64, 255) /\ Weights(4, 32, 255) /\ Weights(8, 16, 255)
  /\ Weights(16, 8, 255) /\ Weights(32, 4, 255) /\ Weights(64, 2, 255) /\ Weights(128, 1, 255)
BY DEF Weights, Ones, Sends, Shifts, HasBit, Receives

\* Every bit of a byte is of one of these weights.
LEMMA WeightOf ==
  ASSUME NEW c \in 0 .. BitsPerByte - 1
  PROVE  /\ Weights(2 ^ c, 2 ^ (BitsPerByte - 1 - c), 2 ^ BitsPerByte - 1)
         /\ 2 * 2 ^ c * 2 ^ (BitsPerByte - 1 - c) = 2 ^ BitsPerByte
         /\ 2 ^ c * 2 ^ (BitsPerByte - 1 - c) = 2 ^ (BitsPerByte - 1)
         /\ 2 ^ (c + 1) = 2 * 2 ^ c
         /\ 2 ^ (BitsPerByte - c) = 2 * 2 ^ (BitsPerByte - 1 - c)
         /\ 2 ^ c \in Nat \ {0} /\ 2 ^ (BitsPerByte - 1 - c) \in Nat \ {0}
         /\ c > 0 => 2 ^ c > 1
<1> DEFINE Goal(b, n) ==
      /\ Weights(2 ^ n, 2 ^ (b - 1 - n), 2 ^ b - 1)
      /\ 2 * 2 ^ n * 2 ^ (b - 1 - n) = 2 ^ b
      /\ 2 ^ n * 2 ^ (b - 1 - n) = 2 ^ (b - 1)
      /\ 2 ^ (n + 1) = 2 * 2 ^ n
      /\ 2 ^ (b - n) = 2 * 2 ^ (b - 1 - n)
      /\ 2 ^ n \in Nat \ {0} /\ 2 ^ (b - 1 - n) \in Nat \ {0}
      /\ n > 0 => 2 ^ n > 1
<1>3. CASE BitsPerByte = 3
  <2>1. Goal(3, 0) /\ Goal(3, 1) /\ Goal(3, 2)
    BY Weights4
  <2>2. c \in {0, 1, 2}
    BY <1>3
  <2> HIDE DEF Goal
  <2>3. Goal(BitsPerByte, c)
    BY <1>3, <2>1, <2>2
  <2> QED
    BY <2>3 DEF Goal
<1>4. CASE BitsPerByte = 4
  <2>1. Goal(4, 0) /\ Goal(4, 1) /\ Goal(4, 2) /\ Goal(4, 3)
    BY Weights8
  <2>2. c \in {0, 1, 2, 3}
    BY <1>4
  <2> HIDE DEF Goal
  <2>3. Goal(BitsPerByte, c)
    BY <1>4, <2>1, <2>2
  <2> QED
    BY <2>3 DEF Goal
<1>5. CASE BitsPerByte = 5
  <2>1. Goal(5, 0) /\ Goal(5, 1) /\ Goal(5, 2) /\ Goal(5, 3) /\ Goal(5, 4)
    BY Weights16
  <2>2. c \in {0, 1, 2, 3, 4}
    BY <1>5
  <2> HIDE DEF Goal
  <2>3. Goal(BitsPerByte, c)
    BY <1>5, <2>1, <2>2
  <2> QED
    BY <2>3 DEF Goal
<1>6. CASE BitsPerByte = 6
  <2>1. Goal(6, 0) /\ Goal(6, 1) /\ Goal(6, 2) /\ Goal(6, 3) /\ Goal(6, 4) /\ Goal(6, 5)
    BY Weights32
  <2>2. c \in {0, 1, 2, 3, 4, 5}
    BY <1>6
  <2> HIDE DEF Goal
  <2>3. Goal(BitsPerByte, c)
    BY <1>6, <2>1, <2>2
  <2> QED
    BY <2>3 DEF Goal
<1>7. CASE BitsPerByte = 7
  <2>1. /\ Goal(7, 0) /\ Goal(7, 1) /\ Goal(7, 2) /\ Goal(7, 3) /\ Goal(7, 4)
        /\ Goal(7, 5) /\ Goal(7, 6)
    BY Weights64
  <2>2. c \in {0, 1, 2, 3, 4, 5, 6}
    BY <1>7
  <2> HIDE DEF Goal
  <2>3. Goal(BitsPerByte, c)
    BY <1>7, <2>1, <2>2
  <2> QED
    BY <2>3 DEF Goal
<1>8. CASE BitsPerByte = 8
  <2>1. /\ Goal(8, 0) /\ Goal(8, 1) /\ Goal(8, 2) /\ Goal(8, 3) /\ Goal(8, 4)
        /\ Goal(8, 5) /\ Goal(8, 6) /\ Goal(8, 7)
    BY Weights128
  <2>2. c \in {0, 1, 2, 3, 4, 5, 6, 7}
    BY <1>8
  <2> HIDE DEF Goal
  <2>3. Goal(BitsPerByte, c)
    BY <1>8, <2>1, <2>2
  <2> QED
    BY <2>3 DEF Goal
<1> QED
  BY <1>3, <1>4, <1>5, <1>6, <1>7, <1>8, BitsPerByteIs

\* A bit of a byte, by its weight.
LEMMA BitOf ==
  ASSUME NEW x \in ByteValues, NEW c \in 0 .. BitsPerByte - 1
  PROVE  /\ bits_of(x)[BitsPerByte - c] = (x \div 2 ^ c) % 2
         /\ bits_of(x)[BitsPerByte - c] \in {0, 1}
<1>1. BitsPerByte - c \in 1 .. BitsPerByte /\ BitsPerByte - (BitsPerByte - c) = c
  BY BitsPerByteIs
<1>2. bits_of(x)[BitsPerByte - c] = (x \div 2 ^ c) % 2
  BY <1>1 DEF bits_of
<1>3. (x \div 2 ^ c) % 2 \in {0, 1}
  BY WeightOf DEF Weights, HasBit, ByteValues
<1> QED
  BY <1>2, <1>3

\* Sending: the highest bit of what is left is the next bit of the byte.
LEMMA SendsBits ==
  ASSUME NEW x \in ByteValues, NEW c \in 0 .. BitsPerByte - 1
  PROVE  /\ rest_of(x, BitsPerByte - 1 - c) \in ByteValues
         /\ msb(rest_of(x, BitsPerByte - 1 - c)) = bits_of(x)[BitsPerByte - c]
         /\ c > 0 => shifted_in(rest_of(x, BitsPerByte - 1 - c), 1)
                       = rest_of(x, BitsPerByte - 1 - (c - 1))
<1> DEFINE w == 2 ^ c
           r == 2 ^ (BitsPerByte - 1 - c)
           M == 2 ^ BitsPerByte
           H == 2 ^ (BitsPerByte - 1)
<1>1. /\ Sends(x, w, r) /\ Shifts(x, w, r) /\ 2 * w * r = M /\ w * r = H
      /\ 2 ^ (BitsPerByte - c) = 2 * r /\ w \in Nat /\ r \in Nat
      /\ c > 0 => w > 1
  BY WeightOf DEF Weights, ByteValues
<1>2. x \in Int
  BY ByteRange
<1>3. BitsPerByte - 1 - (c - 1) = BitsPerByte - c
  BY BitsPerByteIs
<1>4. rest_of(x, BitsPerByte - 1 - c) = (x * r + r - 1) % M
  BY DEF rest_of
<1>5. rest_of(x, BitsPerByte - 1 - (c - 1)) = (x * (2 * r) + 2 * r - 1) % M
  BY <1>1, <1>3 DEF rest_of
<1>6. /\ x * r + (r - 1) = x * r + r - 1
      /\ x * (2 * r) + (2 * r - 1) = x * (2 * r) + 2 * r - 1
  <2> HIDE DEF r
  <2> QED
    BY <1>1, <1>2
<1> HIDE DEF w, r
<1>7. /\ rest_of(x, BitsPerByte - 1 - c) \in 0 .. M - 1
      /\ rest_of(x, BitsPerByte - 1 - c) \div H = (x \div w) % 2
      /\ c > 0 => (2 * rest_of(x, BitsPerByte - 1 - c) + 1) % M
                    = rest_of(x, BitsPerByte - 1 - (c - 1))
  BY <1>1, <1>4, <1>5, <1>6 DEF Sends, Shifts
<1> QED
  BY <1>7, BitOf DEF ByteValues, msb, shifted_in, w

\* Nothing is sent of a byte that was just loaded.
LEMMA WholeByte ==
  ASSUME NEW x \in ByteValues
  PROVE  rest_of(x, 0) = x
<1>1. x \in 0 .. 2 ^ BitsPerByte - 1 /\ 2 ^ BitsPerByte \in Nat
  BY ByteRange DEF ByteValues
<1>2. x * 2 ^ 0 + 2 ^ 0 - 1 = x
  BY <1>1
<1> HIDE DEF ByteValues
<1>3. x % 2 ^ BitsPerByte = x
  BY <1>1
<1> QED
  BY <1>2, <1>3 DEF rest_of

\* The byte of ones stays what it is, and all bits of the start token but the
\* last are ones.
LEMMA OnesStay ==
  ASSUME NEW c \in 0 .. BitsPerByte - 1
  PROVE  /\ rest_of(all_ones, BitsPerByte - 1 - c) = all_ones
         /\ bits_of(all_ones)[BitsPerByte - c] = 1
         /\ bits_of(start_token)[BitsPerByte - c] = IF c = 0 THEN 0 ELSE 1
<1> DEFINE w == 2 ^ c
           r == 2 ^ (BitsPerByte - 1 - c)
           M == 2 ^ BitsPerByte
<1>1. /\ Ones(w, r, M - 1) /\ 2 * w * r = M /\ w \in Nat /\ r \in Nat /\ M \in Nat
      /\ c > 0 => w > 1
  BY WeightOf, ByteRange DEF Weights
<1>5. c = 0 => w = 1
  <2>1. CASE c = 0
    BY <2>1
  <2> QED
    BY <2>1
<1>2. rest_of(all_ones, BitsPerByte - 1 - c) = ((M - 1) * r + r - 1) % M
  BY DEF rest_of, all_ones
<1>3. /\ bits_of(all_ones)[BitsPerByte - c] = ((M - 1) \div w) % 2
      /\ bits_of(start_token)[BitsPerByte - c] = ((M - 1 - 1) \div w) % 2
  BY BitOf, ByteRange DEF all_ones, start_token
<1> HIDE DEF w, r, M
<1>4. (M - 1) * r + (r - 1) = (M - 1) * r + r - 1
  BY <1>1
<1> QED
  BY <1>1, <1>2, <1>3, <1>4, <1>5 DEF Ones, all_ones, M

\* Receiving: the low bits of the register are the high bits of the byte.
LEMMA ReceivesBits ==
  ASSUME NEW x \in ByteValues, NEW y \in ByteValues, NEW c \in 0 .. BitsPerByte - 1,
         y % 2 ^ (BitsPerByte - 1 - c) = x \div 2 ^ (c + 1)
  PROVE  shifted_in(y, bits_of(x)[BitsPerByte - c]) % 2 ^ (BitsPerByte - c) = x \div 2 ^ c
<1> DEFINE w == 2 ^ c
           r == 2 ^ (BitsPerByte - 1 - c)
           M == 2 ^ BitsPerByte
<1>1. /\ Receives(x, y, w, r) /\ 2 * w * r = M
      /\ 2 ^ (BitsPerByte - c) = 2 * r /\ 2 ^ (c + 1) = 2 * w
  BY WeightOf DEF Weights, ByteValues
<1>2. bits_of(x)[BitsPerByte - c] = (x \div w) % 2
  BY BitOf
<1> HIDE DEF w, r
<1> QED
  BY <1>1, <1>2 DEF Receives, shifted_in, w, r

\* Any register has received no bit of a byte,
LEMMA NothingReceived ==
  ASSUME NEW x \in ByteValues, NEW y \in ByteValues
  PROVE  y % 2 ^ 0 = x \div 2 ^ BitsPerByte
<1>1. x \in 0 .. 2 ^ BitsPerByte - 1 /\ 2 ^ BitsPerByte \in Nat \ {0} /\ y \in Nat
  BY ByteRange DEF ByteValues
<1>2. x \div 2 ^ BitsPerByte = 0
  BY <1>1
<1>3. y % 2 ^ 0 = 0
  BY <1>1
<1> QED
  BY <1>2, <1>3

\* and one that has received all of them holds it.
LEMMA AllReceived ==
  ASSUME NEW x \in ByteValues, NEW y \in ByteValues,
         y % 2 ^ BitsPerByte = x \div 2 ^ 0
  PROVE  y = x
<1>1. x \in Nat /\ y \in 0 .. 2 ^ BitsPerByte - 1 /\ 2 ^ BitsPerByte \in Nat \ {0}
  BY ByteRange DEF ByteValues
<1>2. x \div 2 ^ 0 = x
  BY <1>1
<1>3. y % 2 ^ BitsPerByte = y
  BY <1>1
<1> QED
  BY <1>2, <1>3

\* A byte is its bits.
LEMMA ByteIsBits ==
  ASSUME NEW x \in ByteValues, NEW y \in ByteValues, bits_of(x) = bits_of(y)
  PROVE  x = y
<1> DEFINE Same(c) == c <= BitsPerByte => x \div 2 ^ c = y \div 2 ^ c
<1> HIDE DEF Same
<1>1. x \div 2 ^ BitsPerByte = 0 /\ y \div 2 ^ BitsPerByte = 0
  BY NothingReceived, ByteRange
<1>2. ASSUME NEW c \in Nat, c < 8, Same(c + 1)
      PROVE  Same(c)
  <2>1. CASE c < BitsPerByte
    <3>1. c \in 0 .. BitsPerByte - 1 /\ c + 1 <= BitsPerByte
      BY <2>1, BitsPerByteIs
    <3>2. HasBit(x, 2 ^ c) /\ HasBit(y, 2 ^ c) /\ 2 ^ (c + 1) = 2 * 2 ^ c
      BY <3>1, WeightOf DEF Weights, ByteValues
    <3>3. (x \div 2 ^ c) % 2 = (y \div 2 ^ c) % 2
      BY <3>1, BitOf
    <3> QED
      BY <1>2, <3>1, <3>2, <3>3 DEF HasBit, Same
  <2>2. CASE c >= BitsPerByte
    BY <1>1, <2>2, BitsPerByteIs DEF Same
  <2> QED
    BY <2>1, <2>2, BitsPerByteIs
<1>3. Same(8)
  <2>1. CASE BitsPerByte = 8
    <3>1. x \div 2 ^ 8 = 0 /\ y \div 2 ^ 8 = 0
      BY <1>1, <2>1
    <3> QED
      BY <3>1 DEF Same
  <2>2. CASE ~(8 <= BitsPerByte)
    BY <2>2 DEF Same
  <2> QED
    BY <2>1, <2>2, BitsPerByteIs
<1>4. Same(0)
  <2>1. Same(7)
    BY <1>2, <1>3
  <2>2. Same(6)
    BY <1>2, <2>1
  <2>3. Same(5)
    BY <1>2, <2>2
  <2>4. Same(4)
    BY <1>2, <2>3
  <2>5. Same(3)
    BY <1>2, <2>4
  <2>6. Same(2)
    BY <1>2, <2>5
  <2>7. Same(1)
    BY <1>2, <2>6
  <2> QED
    BY <1>2, <2>7
<1>5. x \div 2 ^ 0 = x /\ y \div 2 ^ 0 = y
  BY ByteRange
<1> QED
  BY <1>4, <1>5, BitsPerByteIs DEF Same

\* The card finds the bytes of a block in its bits.
LEMMA ByteFromBits ==
  ASSUME NEW x \in ByteValues, NEW got, NEW n \in Nat,
         \A k \in 1 .. BitsPerByte : got[n * BitsPerByte + k] = bits_of(x)[k]
  PROVE  byte_from(got, n) = x
<1>1. bits_of(x) = [k \in 1 .. BitsPerByte |-> got[n * BitsPerByte + k]]
  BY DEF bits_of
<1>2. \A byte \in ByteValues :
        bits_of(byte) = [k \in 1 .. BitsPerByte |-> got[n * BitsPerByte + k]] => byte = x
  BY <1>1, ByteIsBits
<1> QED
  BY <1>1, <1>2 DEF byte_from

-----------------------------------------------------------------------------
(* Positions in the buffer and in the bits of a sector. *)

\* A sector has a byte, and a bit.
LEMMA SizeIs == SectorSize \in Nat /\ SectorSize > 0 /\ SectorBits \in Nat /\ SectorBits > 0
<1>1. SectorSize \in Nat /\ SectorSize > 0
  BY SectorBufferAssumption
<1>2. /\ BitsPerByte = 3 \/ BitsPerByte = 4 \/ BitsPerByte = 5 \/ BitsPerByte = 6
         \/ BitsPerByte = 7 \/ BitsPerByte = 8
  BY BitsPerByteIs
<1> QED
  BY <1>1, <1>2 DEF SectorBits

\* The r-th bit of the n-th byte.
LEMMA BitPosition ==
  ASSUME NEW n \in Indices, NEW r \in 0 .. BitsPerByte - 1, NEW f
  PROVE  /\ n * BitsPerByte + r \in 0 .. SectorBits - 1
         /\ bit_of(f, n * BitsPerByte + r) = bits_of(f[n])[r + 1]
<1> DEFINE p == n * BitsPerByte + r
<1>1. SectorSize \in Nat /\ n \in Nat /\ n < SectorSize
  BY SizeIs DEF Indices
<1>2. p \in 0 .. SectorBits - 1 /\ p \div BitsPerByte = n /\ p % BitsPerByte = r
  <2>3. CASE BitsPerByte = 3
    BY <1>1, <2>3 DEF SectorBits
  <2>4. CASE BitsPerByte = 4
    BY <1>1, <2>4 DEF SectorBits
  <2>5. CASE BitsPerByte = 5
    BY <1>1, <2>5 DEF SectorBits
  <2>6. CASE BitsPerByte = 6
    BY <1>1, <2>6 DEF SectorBits
  <2>7. CASE BitsPerByte = 7
    BY <1>1, <2>7 DEF SectorBits
  <2>8. CASE BitsPerByte = 8
    BY <1>1, <2>8 DEF SectorBits
  <2> QED
    BY <2>3, <2>4, <2>5, <2>6, <2>7, <2>8, BitsPerByteIs
<1> HIDE DEF p
<1> QED
  BY <1>2 DEF bit_of, p

\* The byte of a bit of the sector, and its place in it.
LEMMA BitPlace ==
  ASSUME NEW p \in 0 .. SectorBits - 1
  PROVE  p \div BitsPerByte \in Indices /\ p % BitsPerByte \in 0 .. BitsPerByte - 1
<1>1. SectorSize \in Nat
  BY SizeIs
<1>3. CASE BitsPerByte = 3
  BY <1>1, <1>3 DEF SectorBits, Indices
<1>4. CASE BitsPerByte = 4
  BY <1>1, <1>4 DEF SectorBits, Indices
<1>5. CASE BitsPerByte = 5
  BY <1>1, <1>5 DEF SectorBits, Indices
<1>6. CASE BitsPerByte = 6
  BY <1>1, <1>6 DEF SectorBits, Indices
<1>7. CASE BitsPerByte = 7
  BY <1>1, <1>7 DEF SectorBits, Indices
<1>8. CASE BitsPerByte = 8
  BY <1>1, <1>8 DEF SectorBits, Indices
<1> QED
  BY <1>3, <1>4, <1>5, <1>6, <1>7, <1>8, BitsPerByteIs

\* What a sector holds are bytes.
LEMMA BytesAreBytes ==
  ASSUME NEW f \in Contents, NEW n \in Indices
  PROVE  f[n] \in ByteValues
BY SdSystemAssumption DEF Contents

\* What a sector holds comes as zeros and ones.
LEMMA BitIsBit ==
  ASSUME NEW f \in Contents, NEW p \in 0 .. SectorBits - 1
  PROVE  bit_of(f, p) \in {0, 1}
<1> DEFINE x == f[p \div BitsPerByte]
           c == BitsPerByte - 1 - (p % BitsPerByte)
<1>1. x \in ByteValues
  BY BitPlace, BytesAreBytes
<1>2. c \in 0 .. BitsPerByte - 1 /\ BitsPerByte - c = (p % BitsPerByte) + 1
  <2> DEFINE r == p % BitsPerByte
  <2>1. r \in 0 .. BitsPerByte - 1
    BY BitPlace
  <2> HIDE DEF r
  <2>2. BitsPerByte - 1 - r \in 0 .. BitsPerByte - 1 /\ BitsPerByte - (BitsPerByte - 1 - r) = r + 1
    BY <2>1, BitsPerByteIs
  <2> QED
    BY <2>2 DEF r
<1> HIDE DEF x, c
<1>3. bits_of(x)[BitsPerByte - c] \in {0, 1}
  BY <1>1, <1>2, BitOf
<1> QED
  BY <1>2, <1>3 DEF bit_of, x

-----------------------------------------------------------------------------
(* The line from the card. *)

\* The stream of the line moves by one when the clock falls; the card does nothing else.
LEMMA LineFalls ==
  ASSUME CardTypes, Fall
  PROVE  /\ \A k \in Nat : line(k)' = line(k + 1)
         /\ \A m \in Nat : EndsBy(m + 1) => EndsBy(m)'
         /\ Quiet => Quiet'
         /\ card'.expects = card.expects /\ card'.got = card.got /\ card'.sector = card.sector
         /\ stored' = stored /\ card'.polls = card.polls /\ DOMAIN card' = CardFields
         /\ card'.answer \in Seq({0, 1}) /\ card'.miso \in {0, 1}
<1>1. CASE card.answer = <<>>
  <2>1. /\ card'.miso = 1 /\ card'.answer = <<>> /\ Len(card.answer) = 0
        /\ card'.expects = card.expects /\ card'.got = card.got /\ card'.sector = card.sector
        /\ card'.polls = card.polls /\ DOMAIN card' = CardFields
    BY <1>1 DEF Fall, CardTypes, CardFields
  <2>2. <<>> \in Seq({0, 1}) /\ Len(<<>>) = 0
    OBVIOUS
  <2>3. \A k \in Nat : line(k)' = 1 /\ line(k + 1) = 1
    BY <1>1, <2>1, <2>2 DEF line
  <2>4. /\ \A m \in Nat : EndsBy(m)'
        /\ Quiet'
    BY <1>1, <2>1, <2>2 DEF EndsBy, Quiet
  <2>5. stored' = stored /\ card'.answer \in Seq({0, 1}) /\ card'.miso \in {0, 1}
    BY <2>1, <2>2 DEF Fall
  <2> QED
    BY <2>1, <2>3, <2>4, <2>5
<1>2. CASE card.answer # <<>>
  <2>1. /\ card'.miso = Head(card.answer) /\ card'.answer = Tail(card.answer)
        /\ card'.expects = card.expects /\ card'.got = card.got /\ card'.sector = card.sector
        /\ card'.polls = card.polls /\ DOMAIN card' = CardFields /\ stored' = stored
    BY <1>2 DEF Fall, CardTypes, CardFields
  <2>2. card.answer \in Seq({0, 1})
    BY DEF CardTypes
  <2>3. /\ Len(Tail(card.answer)) = Len(card.answer) - 1 /\ Len(card.answer) \in Nat
        /\ Len(card.answer) > 0
        /\ \A k \in Nat : k > 0 /\ k <= Len(card.answer) - 1 => Tail(card.answer)[k] = card.answer[k + 1]
        /\ Head(card.answer) = card.answer[1] /\ Tail(card.answer) \in Seq({0, 1})
        /\ Head(card.answer) \in {0, 1}
    BY <1>2, <2>2
  <2>4. ASSUME NEW k \in Nat
        PROVE  line(k)' = line(k + 1)
    BY <2>1, <2>3 DEF line
  <2>5. ASSUME NEW m \in Nat, EndsBy(m + 1)
        PROVE  EndsBy(m)'
    BY <2>1, <2>3, <2>5 DEF EndsBy
  <2>6. ~Quiet
    BY <1>2 DEF Quiet, EndsBy
  <2> QED
    BY <2>1, <2>3, <2>4, <2>5, <2>6
<1> QED
  BY <1>1, <1>2

\* The stream of the line rests while the card does not shift.
LEMMA LineRests ==
  ASSUME card'.answer = card.answer, card'.miso = card.miso
  PROVE  /\ \A k : line(k)' = line(k)
         /\ \A m : EndsBy(m)' = EndsBy(m)
         /\ Quiet' = Quiet
BY DEF line, EndsBy, Quiet

\* What is to come comes one clock earlier after a fall.
LEMMA BlockFalls ==
  ASSUME CardTypes, Fall
  PROVE  /\ \A m, q \in Nat : ZeroAt(m + 1, q + 1) => ZeroAt(m, q)'
         /\ \A m, q \in Nat : ZeroAt(m + 1, q) => q > 0 /\ q - 1 \in Nat /\ ZeroAt(m, q - 1)'
         /\ \A m \in Nat, p \in Nat : p <= SectorBits /\ BlockFrom(m + 1, p) => BlockFrom(m, p)'
         /\ \A m \in Nat : BlockAfter(m + 1) => BlockAfter(m)'
         /\ \A m \in Nat : BusyAfter(m + 1) => BusyAfter(m)'
<1>a. /\ \A k \in Nat : line(k)' = line(k + 1)
      /\ \A m \in Nat : EndsBy(m + 1) => EndsBy(m)'
      /\ card'.sector = card.sector /\ stored' = stored
  BY LineFalls
<1>b. SectorBits \in Nat /\ BitsPerByte \in Nat
  BY SizeIs, BitsPerByteIs
<1>1. ASSUME NEW m \in Nat, NEW q \in Nat, ZeroAt(m + 1, q)
      PROVE  q > 0 /\ q - 1 \in Nat /\ ZeroAt(m, q - 1)'
  <2>1. q > 0 /\ q - 1 \in Nat /\ m <= q - 1 /\ (q - 1) + 1 = q
    BY <1>1 DEF ZeroAt
  <2>2. line(q - 1)' = 0
    BY <1>1, <1>a, <2>1 DEF ZeroAt
  <2>3. ASSUME NEW k \in Nat, m <= k, k < q - 1
        PROVE  line(k)' = 1
    <3>1. k + 1 \in Nat /\ m + 1 <= k + 1 /\ k + 1 < q
      BY <2>1, <2>3
    <3> QED
      BY <1>1, <1>a, <3>1 DEF ZeroAt
  <2> QED
    BY <2>1, <2>2, <2>3 DEF ZeroAt
<1>2. ASSUME NEW m \in Nat, NEW q \in Nat, ZeroAt(m + 1, q + 1)
      PROVE  ZeroAt(m, q)'
  <2>1. q + 1 \in Nat /\ (q + 1) - 1 = q
    OBVIOUS
  <2> QED
    BY <1>1, <1>2, <2>1
<1>3. ASSUME NEW m \in Nat, NEW p \in Nat, p <= SectorBits, BlockFrom(m + 1, p)
      PROVE  BlockFrom(m, p)'
  <2>1. ASSUME NEW j \in Nat, p + j < SectorBits
        PROVE  line(m + j)' = bit_of(stored[card.sector], p + j)
    <3>1. m + j \in Nat /\ (m + j) + 1 = (m + 1) + j
      OBVIOUS
    <3> QED
      BY <1>3, <1>a, <2>1, <3>1 DEF BlockFrom
  <2>2. EndsBy(m + SectorBits - p + 2 * BitsPerByte)'
    <3>1. /\ m + SectorBits - p + 2 * BitsPerByte \in Nat
          /\ (m + 1) + SectorBits - p + 2 * BitsPerByte = (m + SectorBits - p + 2 * BitsPerByte) + 1
      BY <1>3, <1>b
    <3> QED
      BY <1>3, <1>a, <3>1 DEF BlockFrom
  <2>3. bit_of(stored[card.sector], p)' = bit_of(stored[card.sector], p)
    BY <1>a
  <2> QED
    BY <1>a, <2>1, <2>2 DEF BlockFrom
<1>4. ASSUME NEW m \in Nat, BlockAfter(m + 1)
      PROVE  BlockAfter(m)'
  <2>1. PICK q \in Nat : ZeroAt(m + 1, q) /\ BlockFrom(q + 1, 0)
    BY <1>4 DEF BlockAfter
  <2>2. q > 0 /\ q - 1 \in Nat /\ ZeroAt(m, q - 1)'
    BY <1>1, <2>1
  <2>3. BlockFrom((q - 1) + 1, 0)'
    <3>1. (q - 1) + 1 \in Nat /\ q + 1 = ((q - 1) + 1) + 1
      BY <2>2
    <3> QED
      BY <1>3, <1>b, <2>1, <3>1
  <2> QED
    BY <2>2, <2>3 DEF BlockAfter
<1>5. ASSUME NEW m \in Nat, BusyAfter(m + 1)
      PROVE  BusyAfter(m)'
  <2>1. ASSUME NEW k \in Nat, m <= k, line(k)' = 1
        PROVE  EndsBy(k)'
    <3>1. k + 1 \in Nat /\ m + 1 <= k + 1
      BY <2>1
    <3> QED
      BY <1>5, <1>a, <2>1, <3>1 DEF BusyAfter
  <2> QED
    BY <2>1 DEF BusyAfter
<1> QED
  BY <1>1, <1>2, <1>3, <1>4, <1>5

-----------------------------------------------------------------------------
(* The answers of the card. *)

\* A stream after a stream.
LEMMA Joined ==
  ASSUME NEW s \in Seq({0, 1}), NEW t \in Seq({0, 1})
  PROVE  /\ s \o t \in Seq({0, 1}) /\ Len(s \o t) = Len(s) + Len(t)
         /\ \A k \in Nat : 0 < k /\ k <= Len(s) => (s \o t)[k] = s[k]
         /\ \A k \in Nat : 0 < k /\ k <= Len(t) => (s \o t)[Len(s) + k] = t[k]
OBVIOUS

\* The same for the name of the joined stream.
LEMMA JoinedIs ==
  ASSUME NEW s \in Seq({0, 1}), NEW t \in Seq({0, 1}), NEW both, both = s \o t
  PROVE  /\ both \in Seq({0, 1}) /\ Len(both) = Len(s) + Len(t)
         /\ \A k \in Nat : 0 < k /\ k <= Len(s) => both[k] = s[k]
         /\ \A k \in Nat : 0 < k /\ k <= Len(t) => both[Len(s) + k] = t[k]
BY Joined

\* The padding that the card sends.
LEMMA BitsAre ==
  ASSUME NEW bit \in {0, 1}, NEW n \in Nat
  PROVE  /\ bits(bit, n) \in Seq({0, 1}) /\ Len(bits(bit, n)) = n
         /\ \A k \in Nat : 0 < k /\ k <= n => bits(bit, n)[k] = bit
BY DEF bits

\* A response begins with a zero and is over after so many bits.
LEMMA ResponsesAre ==
  /\ \A b \in {0, 1} : R1(b) \in Seq({0, 1}) /\ Len(R1(b)) = BitsPerByte /\ R1(b)[1] = 0
  /\ R7 \in Seq({0, 1}) /\ Len(R7) = 5 * BitsPerByte /\ R7[1] = 0
  /\ CRC \in Seq({0, 1}) /\ Len(CRC) = 2 * BitsPerByte
  /\ start \in Seq({0, 1}) /\ Len(start) = BitsPerByte /\ start[BitsPerByte] = 0
  /\ \A k \in Nat : 0 < k /\ k < BitsPerByte => start[k] = 1
<1>1. BitsPerByte \in Nat /\ BitsPerByte > 2 /\ BitsPerByte - 1 \in Nat
  BY BitsPerByteIs
<1>2. ASSUME NEW b \in {0, 1}
      PROVE  R1(b) \in Seq({0, 1}) /\ Len(R1(b)) = BitsPerByte /\ R1(b)[1] = 0
  <2>1. /\ bits(0, BitsPerByte - 1) \in Seq({0, 1}) /\ Len(bits(0, BitsPerByte - 1)) = BitsPerByte - 1
        /\ bits(0, BitsPerByte - 1)[1] = 0
    BY <1>1, BitsAre
  <2>2. <<b>> \in Seq({0, 1}) /\ Len(<<b>>) = 1
    OBVIOUS
  <2> HIDE DEF bits
  <2> QED
    BY <1>1, <2>1, <2>2, Joined DEF R1
<1>3. R7 \in Seq({0, 1}) /\ Len(R7) = 5 * BitsPerByte /\ R7[1] = 0
  <2> DEFINE more == [k \in 1 .. 4 * BitsPerByte |-> k % 2]
  <2>1. more \in Seq({0, 1}) /\ Len(more) = 4 * BitsPerByte
    BY <1>1
  <2> HIDE DEF more
  <2>2. R1(1) \in Seq({0, 1}) /\ Len(R1(1)) = BitsPerByte /\ R1(1)[1] = 0
    BY <1>2
  <2>3. R7 = R1(1) \o more
    BY DEF R7, more
  <2>4. /\ R1(1) \o more \in Seq({0, 1}) /\ Len(R1(1) \o more) = BitsPerByte + 4 * BitsPerByte
        /\ (R1(1) \o more)[1] = R1(1)[1]
    <3> HIDE DEF R1
    <3>1. /\ R1(1) \o more \in Seq({0, 1}) /\ Len(R1(1) \o more) = Len(R1(1)) + Len(more)
          /\ \A k \in Nat : 0 < k /\ k <= Len(R1(1)) => (R1(1) \o more)[k] = R1(1)[k]
      BY <2>1, <2>2, Joined
    <3>2. (R1(1) \o more)[1] = R1(1)[1]
      BY <1>1, <2>2, <3>1
    <3> QED
      BY <2>1, <2>2, <3>1, <3>2
  <2> QED
    BY <1>1, <2>2, <2>3, <2>4
<1>4. CRC \in Seq({0, 1}) /\ Len(CRC) = 2 * BitsPerByte
  BY <1>1 DEF CRC
<1>5. /\ start \in Seq({0, 1}) /\ Len(start) = BitsPerByte /\ start[BitsPerByte] = 0
      /\ \A k \in Nat : 0 < k /\ k < BitsPerByte => start[k] = 1
  <2> DEFINE ones == bits(1, BitsPerByte - 1)
  <2>1. /\ ones \in Seq({0, 1}) /\ Len(ones) = BitsPerByte - 1
        /\ \A k \in Nat : 0 < k /\ k <= BitsPerByte - 1 => ones[k] = 1
    BY <1>1, BitsAre
  <2>2. <<0>> \in Seq({0, 1}) /\ Len(<<0>>) = 1 /\ <<0>>[1] = 0
    OBVIOUS
  <2> HIDE DEF ones
  <2>3. start = ones \o <<0>>
    BY DEF start, ones
  <2> QED
    BY <1>1, <2>1, <2>2, <2>3, Joined
<1> QED
  BY <1>2, <1>3, <1>4, <1>5

\* The stream that the card sends of a sector.
LEMMA SectorBitsAre ==
  ASSUME CardTypes, NEW s \in Sectors
  PROVE  /\ bits_of_sector(s) \in Seq({0, 1}) /\ Len(bits_of_sector(s)) = SectorBits
         /\ \A j \in Nat : j < SectorBits => bits_of_sector(s)[j + 1] = bit_of(stored[s], j)
<1>1. SectorBits \in Nat /\ SectorSize * BitsPerByte = SectorBits
  BY SizeIs DEF SectorBits
<1>2. stored[s] \in Contents
  BY DEF CardTypes
<1>3. bits_of_sector(s) = [k \in 1 .. SectorBits |-> bit_of(stored[s], k - 1)]
  BY <1>1 DEF bits_of_sector, bit_of
<1>4. \A k \in 1 .. SectorBits : bit_of(stored[s], k - 1) \in {0, 1}
  BY <1>1, <1>2, BitIsBit
<1>5. bits_of_sector(s) \in Seq({0, 1}) /\ Len(bits_of_sector(s)) = SectorBits
  BY <1>1, <1>3, <1>4
<1>6. ASSUME NEW j \in Nat, j < SectorBits
      PROVE  bits_of_sector(s)[j + 1] = bit_of(stored[s], j)
  BY <1>1, <1>3, <1>6
<1> QED
  BY <1>5, <1>6

\* a command that the card answers with a block
AsksForBlock(number, argument) == number = 81 /\ argument \div AddressUnit \in Sectors

\* The card's answer to a command: a response, after a while, and for a read a
\* block after a while more.
LEMMA CommandAnswers ==
  ASSUME CardTypes, NEW number \in Int, NEW argument \in Int, Command(number, argument),
         stored' = stored
  PROVE  /\ DOMAIN card' = CardFields /\ card'.answer \in Seq({0, 1}) /\ card'.miso = card.miso
         /\ card'.polls \in Nat /\ card'.got = <<>> /\ card'.sector = argument \div AddressUnit
         /\ card'.expects = IF number = 88 THEN "token" ELSE "command"
         /\ ~AsksForBlock(number, argument) => \E n \in Nat : ZeroAt(1, n)'
                        /\ EndsBy(n + IF number = 72 THEN 5 * BitsPerByte ELSE BitsPerByte)'
         /\ AsksForBlock(number, argument) => \E n \in Nat : ZeroAt(1, n)' /\ BlockAfter(n + BitsPerByte)'
<1> DEFINE response == CASE number = 72 -> R7
                         [] number \in {81, 88} -> R1(0)
                         [] number = 105 /\ card.polls = 0 -> R1(0)
                         [] OTHER -> R1(1)
           size == IF number = 72 THEN 5 * BitsPerByte ELSE BitsPerByte
           sector == argument \div AddressUnit
<1>a. BitsPerByte \in Nat /\ BitsPerByte > 2 /\ MaxDelay \in Nat /\ MaxPolls \in Nat
  BY BitsPerByteIs, SdCardAssumption
<1>1. PICK before \in delays, pause \in delays, polls \in 0 .. MaxPolls :
        card' = [card EXCEPT
         !.got     = <<>>,
         !.sector  = sector,
         !.expects = IF number = 88 THEN "token" ELSE "command",
         !.polls   = IF number = 64 THEN polls ELSE IF number = 105 /\ @ # 0 THEN @ - 1 ELSE @,
         !.answer  = before \o response
                     \o IF number = 81 /\ sector \in Sectors
                          THEN pause \o start \o bits_of_sector(sector) \o CRC
                          ELSE <<>>]
  BY DEF Command
<1>2. PICK a \in Nat : before = bits(1, a)
  BY <1>a DEF delays
<1>3. PICK d \in Nat : pause = bits(1, d)
  BY <1>a DEF delays
<1>4. /\ response \in Seq({0, 1}) /\ Len(response) = size /\ response[1] = 0
      /\ size \in Nat /\ size > 0
  <2>1. CASE number = 72
    <3>1. response = R7 /\ size = 5 * BitsPerByte
      BY <2>1
    <3> HIDE DEF response, size
    <3> QED
      BY <1>a, <3>1, ResponsesAre
  <2>2. CASE number # 72
    <3>1. (response = R1(0) \/ response = R1(1)) /\ size = BitsPerByte
      BY <2>2
    <3> HIDE DEF response, size
    <3> QED
      BY <1>a, <3>1, ResponsesAre
  <2> QED
    BY <2>1, <2>2
<1>b. AsksForBlock(number, argument) <=> number = 81 /\ sector \in Sectors
  BY DEF AsksForBlock
<1> HIDE DEF response, size, sector
<1>5. /\ before \in Seq({0, 1}) /\ Len(before) = a
      /\ \A k \in Nat : 0 < k /\ k <= a => before[k] = 1
  BY <1>2, BitsAre
<1> DEFINE first == before \o response
           more  == IF number = 81 /\ sector \in Sectors THEN pause \o start \o bits_of_sector(sector) \o CRC ELSE <<>>
<1>6. /\ DOMAIN card' = CardFields /\ card'.answer = first \o more /\ card'.miso = card.miso
      /\ card'.got = <<>> /\ card'.sector = sector
      /\ card'.expects = IF number = 88 THEN "token" ELSE "command"
      /\ card'.polls \in Nat
  <2>1. card.polls \in Nat /\ DOMAIN card = CardFields
    BY DEF CardTypes
  <2>2. /\ DOMAIN card' = CardFields /\ card'.answer = first \o more /\ card'.miso = card.miso
        /\ card'.got = <<>> /\ card'.sector = sector
        /\ card'.expects = IF number = 88 THEN "token" ELSE "command"
        /\ card'.polls = IF number = 64 THEN polls
                         ELSE IF number = 105 /\ card.polls # 0 THEN card.polls - 1 ELSE card.polls
    <3> HIDE DEF first, more
    <3> QED
      BY <1>1, <2>1 DEF CardFields, first, more
  <2> QED
    BY <1>a, <2>1, <2>2
<1>7. /\ first \in Seq({0, 1}) /\ Len(first) = a + size
      /\ \A k \in Nat : 0 < k /\ k <= a => first[k] = 1
      /\ first[a + 1] = 0
  <2>1. /\ first \in Seq({0, 1}) /\ Len(first) = Len(before) + Len(response)
        /\ \A k \in Nat : 0 < k /\ k <= Len(before) => first[k] = before[k]
        /\ \A k \in Nat : 0 < k /\ k <= Len(response) => first[Len(before) + k] = response[k]
    BY <1>4, <1>5, Joined
  <2> HIDE DEF first
  <2> QED
    BY <1>4, <1>5, <2>1
<1> HIDE DEF first
<1>8. CASE ~AsksForBlock(number, argument)
  <2>1. first \o <<>> = first
    BY <1>7
  <2>2. card'.answer = first
    BY <1>6, <1>8, <1>b, <2>1
  <2>3. ZeroAt(1, a + 1)'
    <3>1. line(a + 1)' = 0
      BY <1>4, <1>7, <2>2 DEF line
    <3>2. ASSUME NEW k \in Nat, 1 <= k, k < a + 1
          PROVE  line(k)' = 1
      BY <1>4, <1>7, <2>2, <3>2 DEF line
    <3> QED
      BY <3>1, <3>2 DEF ZeroAt
  <2>4. EndsBy((a + 1) + size)'
    BY <1>4, <1>7, <2>2 DEF EndsBy
  <2>5. /\ DOMAIN card' = CardFields /\ card'.answer \in Seq({0, 1}) /\ card'.miso = card.miso
        /\ card'.polls \in Nat /\ card'.got = <<>> /\ card'.sector = argument \div AddressUnit
        /\ card'.expects = IF number = 88 THEN "token" ELSE "command"
    BY <1>6, <1>7, <2>2 DEF sector
  <2>6. \E n \in Nat : /\ ZeroAt(1, n)'
                        /\ EndsBy(n + IF number = 72 THEN 5 * BitsPerByte ELSE BitsPerByte)'
    <3>1. a + 1 \in Nat
      OBVIOUS
    <3> QED
      BY <2>3, <2>4, <3>1 DEF size
  <2> QED
    BY <1>8, <2>5, <2>6, ZenonT(30)
<1>9. CASE AsksForBlock(number, argument)
  <2> DEFINE block == bits_of_sector(sector)
             u == pause \o start
             v == u \o block
             w == v \o CRC
  <2>1. /\ block \in Seq({0, 1}) /\ Len(block) = SectorBits
        /\ \A j \in Nat : j < SectorBits => block[j + 1] = bit_of(stored[sector], j)
        /\ SectorBits \in Nat
    BY <1>9, <1>b, SectorBitsAre, SizeIs DEF CardTypes
  <2> HIDE DEF block
  <2>2. /\ u \in Seq({0, 1}) /\ Len(u) = d + BitsPerByte /\ u[d + BitsPerByte] = 0
        /\ \A k \in Nat : 0 < k /\ k < d + BitsPerByte => u[k] = 1
    <3>1. /\ pause \in Seq({0, 1}) /\ Len(pause) = d
          /\ \A k \in Nat : 0 < k /\ k <= d => pause[k] = 1
      BY <1>3, BitsAre
    <3>2. /\ start \in Seq({0, 1}) /\ Len(start) = BitsPerByte /\ start[BitsPerByte] = 0
          /\ \A k \in Nat : 0 < k /\ k < BitsPerByte => start[k] = 1
      BY ResponsesAre
    <3>0. u = pause \o start /\ pause \in Seq({0, 1}) /\ start \in Seq({0, 1})
      BY <3>1, <3>2
    <3> HIDE DEF u
    <3>3. /\ u \in Seq({0, 1}) /\ Len(u) = Len(pause) + Len(start)
          /\ \A k \in Nat : 0 < k /\ k <= Len(pause) => u[k] = pause[k]
          /\ \A k \in Nat : 0 < k /\ k <= Len(start) => u[Len(pause) + k] = start[k]
      BY <3>0, JoinedIs
    <3>4. ASSUME NEW k \in Nat, 0 < k, k < d + BitsPerByte
          PROVE  u[k] = 1
      <4>1. CASE k <= d
        BY <3>1, <3>3, <3>4, <4>1
      <4>2. CASE k > d
        <5>1. k - d \in Nat /\ 0 < k - d /\ k - d < BitsPerByte /\ k = d + (k - d)
          BY <1>a, <3>4, <4>2
        <5>2. start[k - d] = 1 /\ k - d <= Len(start)
          BY <3>2, <5>1
        <5>3. u[Len(pause) + (k - d)] = start[k - d]
          BY <3>2, <3>3, <5>1
        <5> QED
          BY <3>1, <5>1, <5>2, <5>3
      <4> QED
        BY <4>1, <4>2
    <3> QED
      BY <1>a, <3>1, <3>2, <3>3, <3>4
  <2> HIDE DEF u
  <2>3. /\ v \in Seq({0, 1}) /\ Len(v) = Len(u) + SectorBits
        /\ \A k \in Nat : 0 < k /\ k <= Len(u) => v[k] = u[k]
        /\ \A k \in Nat : 0 < k /\ k <= SectorBits => v[Len(u) + k] = block[k]
    <3>0. v = u \o block /\ u \in Seq({0, 1}) /\ block \in Seq({0, 1})
      BY <2>1, <2>2
    <3> HIDE DEF v
    <3>1. /\ v \in Seq({0, 1}) /\ Len(v) = Len(u) + Len(block)
          /\ \A k \in Nat : 0 < k /\ k <= Len(u) => v[k] = u[k]
          /\ \A k \in Nat : 0 < k /\ k <= Len(block) => v[Len(u) + k] = block[k]
      BY <3>0, JoinedIs
    <3>2. Len(block) = SectorBits
      BY <2>1
    <3> QED
      BY <3>1, <3>2
  <2> HIDE DEF v
  <2>4. /\ w \in Seq({0, 1}) /\ Len(w) = Len(v) + 2 * BitsPerByte
        /\ \A k \in Nat : 0 < k /\ k <= Len(v) => w[k] = v[k]
    <3>1. CRC \in Seq({0, 1}) /\ Len(CRC) = 2 * BitsPerByte
      BY ResponsesAre
    <3> QED
      BY <2>3, <3>1, Joined
  <2>5. card'.answer = first \o w
    BY <1>6, <1>9, <1>b DEF block, u, v
  <2> HIDE DEF w
  <2>6. /\ first \o w \in Seq({0, 1}) /\ Len(first \o w) = Len(first) + Len(w)
        /\ \A k \in Nat : 0 < k /\ k <= Len(first) => (first \o w)[k] = first[k]
        /\ \A k \in Nat : 0 < k /\ k <= Len(w) => (first \o w)[Len(first) + k] = w[k]
    BY <1>7, <2>4, Joined
  <2> DEFINE n == a + 1
             q == a + size + d + BitsPerByte
  <2>7. ZeroAt(1, n)'
    <3>0. ASSUME NEW k \in Nat, 0 < k, k <= a + size
          PROVE  line(k)' = first[k]
      <4>1. k <= Len(first \o w)
        BY <1>4, <1>7, <1>a, <2>1, <2>2, <2>3, <2>4, <2>6, <3>0
      <4>2. (first \o w)[k] = first[k]
        BY <1>7, <2>6, <3>0
      <4> QED
        BY <2>5, <3>0, <4>1, <4>2 DEF line
    <3>1. line(n)' = 0
      BY <1>4, <1>7, <3>0
    <3>2. ASSUME NEW k \in Nat, 1 <= k, k < n
          PROVE  line(k)' = 1
      BY <1>4, <1>7, <3>0, <3>2
    <3> QED
      BY <3>1, <3>2 DEF ZeroAt
  <2>8. /\ n + BitsPerByte \in Nat /\ q \in Nat /\ n + BitsPerByte <= q
        /\ size = BitsPerByte
    BY <1>4, <1>9, <1>b, <1>a DEF size
  <2>9. ZeroAt(n + BitsPerByte, q)'
    <3>0. ASSUME NEW k \in Nat, 0 < k, k <= d + BitsPerByte
          PROVE  line(a + size + k)' = u[k]
      <4>1. w[k] = u[k] /\ k <= Len(w)
        BY <1>a, <2>1, <2>2, <2>3, <2>4, <3>0
      <4>2. (first \o w)[Len(first) + k] = u[k]
        BY <2>6, <3>0, <4>1
      <4>3. Len(first) + k # 0 /\ Len(first) + k <= Len(first \o w) /\ Len(first) + k = a + size + k
        BY <1>4, <1>7, <2>4, <2>6, <3>0, <4>1
      <4> QED
        BY <2>5, <4>2, <4>3 DEF line
    <3>1. line(q)' = 0
      <4>1. d + BitsPerByte \in Nat /\ 0 < d + BitsPerByte /\ a + size + (d + BitsPerByte) = q
        BY <1>a, <2>8
      <4> QED
        BY <2>2, <3>0, <4>1
    <3>2. ASSUME NEW k \in Nat, n + BitsPerByte <= k, k < q
          PROVE  line(k)' = 1
      <4>1. /\ k - a - size \in Nat /\ 0 < k - a - size /\ k - a - size < d + BitsPerByte
            /\ a + size + (k - a - size) = k
        BY <1>a, <2>8, <3>2
      <4> QED
        BY <2>2, <3>0, <4>1
    <3> QED
      BY <2>8, <3>1, <3>2 DEF ZeroAt
  <2>10. BlockFrom(q + 1, 0)'
    <3>1. ASSUME NEW j \in Nat, 0 + j < SectorBits
          PROVE  line((q + 1) + j)' = bit_of(stored[card.sector], 0 + j)'
      <4>1. /\ v[Len(u) + (j + 1)] = block[j + 1] /\ w[Len(u) + (j + 1)] = v[Len(u) + (j + 1)]
            /\ Len(u) + (j + 1) <= Len(w) /\ Len(u) \in Nat
        BY <1>a, <2>1, <2>2, <2>3, <2>4, <3>1
      <4>2. card'.answer[Len(first) + (Len(u) + (j + 1))] = bit_of(stored[sector], j)
        BY <2>1, <2>5, <2>6, <3>1, <4>1
      <4>3. /\ Len(first) + (Len(u) + (j + 1)) = (q + 1) + j
            /\ Len(card'.answer) = Len(first) + Len(w)
            /\ (q + 1) + j # 0 /\ (q + 1) + j <= Len(first) + Len(w)
        <5>1. Len(first) = a + size /\ Len(u) = d + BitsPerByte /\ Len(w) \in Nat
          BY <1>7, <2>2, <2>4
        <5>2. Len(first) + (Len(u) + (j + 1)) = (q + 1) + j
          BY <1>4, <1>a, <5>1
        <5>3. Len(first) + (Len(u) + (j + 1)) <= Len(first) + Len(w)
          BY <1>4, <1>a, <4>1, <5>1
        <5> QED
          BY <2>5, <2>6, <2>8, <5>2, <5>3
      <4>4. line((q + 1) + j)' = bit_of(stored[sector], j)
        BY <4>2, <4>3 DEF line
      <4> QED
        BY <1>6, <3>1, <4>4
    <3>2. EndsBy((q + 1) + SectorBits - 0 + 2 * BitsPerByte)'
      BY <1>4, <1>7, <1>a, <2>1, <2>2, <2>3, <2>4, <2>5, <2>6, <2>8 DEF EndsBy
    <3> QED
      BY <3>1, <3>2 DEF BlockFrom
  <2>11. \E k \in Nat : ZeroAt(1, k)' /\ BlockAfter(k + BitsPerByte)'
    BY <2>7, <2>8, <2>9, <2>10 DEF BlockAfter
  <2>12. card'.answer \in Seq({0, 1})
    BY <2>5, <2>6
  <2> QED
    BY <1>6, <1>9, <2>11, <2>12 DEF sector
<1> QED
  BY <1>8, <1>9

\* The card's answer to a block: a zero and a one after a while, then zeros
\* while it programs the sector.
LEMMA BlockAnswers ==
  ASSUME CardTypes, Quiet, NEW got, NEW data \in Contents, card.sector \in Sectors, Block(got),
         \A p \in Nat : p < SectorBits => got[p + 1] = bit_of(data, p)
  PROVE  /\ DOMAIN card' = CardFields /\ card'.answer \in Seq({0, 1}) /\ card'.miso = 1
         /\ card'.polls = card.polls /\ card'.sector = card.sector
         /\ card'.expects = "command" /\ card'.got = <<>>
         /\ stored' = [stored EXCEPT ![card.sector] = data]
         /\ \E n \in Nat : ZeroAt(1, n)' /\ BusyAfter(n + BitsPerByte)'
<1>a. BitsPerByte \in Nat /\ BitsPerByte > 2 /\ MaxDelay \in Nat
  BY BitsPerByteIs, SdCardAssumption
<1>1. PICK before \in delays, z \in 1 .. BitsPerByte + MaxDelay :
        /\ card' = [card EXCEPT !.got = <<>>, !.expects = "command",
                                !.answer = before \o <<0, 1>> \o bits(0, z)]
        /\ stored' = [stored EXCEPT ![card.sector] = [k \in Indices |-> byte_from(got, k)]]
  BY DEF Block
<1>2. PICK a \in Nat : before = bits(1, a)
  BY <1>a DEF delays
<1>3. [k \in Indices |-> byte_from(got, k)] = data
  <2>1. ASSUME NEW n \in Indices
        PROVE  byte_from(got, n) = data[n]
    <3>1. data[n] \in ByteValues /\ n \in Nat
      BY BytesAreBytes, SizeIs DEF Indices
    <3>2. ASSUME NEW k \in 1 .. BitsPerByte
          PROVE  got[n * BitsPerByte + k] = bits_of(data[n])[k]
      <4>1. k - 1 \in 0 .. BitsPerByte - 1 /\ (k - 1) + 1 = k
        BY <1>a
      <4>2. /\ n * BitsPerByte + (k - 1) \in 0 .. SectorBits - 1
            /\ bit_of(data, n * BitsPerByte + (k - 1)) = bits_of(data[n])[k]
        BY <4>1, BitPosition
      <4>3. /\ n * BitsPerByte + (k - 1) \in Nat /\ n * BitsPerByte + (k - 1) < SectorBits
            /\ (n * BitsPerByte + (k - 1)) + 1 = n * BitsPerByte + k
        <5> DEFINE b == n * BitsPerByte
        <5>1. b \in Nat
          BY <1>a, <3>1
        <5>2. b + (k - 1) \in 0 .. SectorBits - 1
          BY <4>2
        <5> HIDE DEF b
        <5>3. b + (k - 1) \in Nat /\ b + (k - 1) < SectorBits /\ (b + (k - 1)) + 1 = b + k
          BY <1>a, <5>1, <5>2, SizeIs
        <5> QED
          BY <5>3 DEF b
      <4> QED
        BY <4>2, <4>3
    <3> QED
      BY <3>1, <3>2, ByteFromBits
  <2>2. data = [k \in Indices |-> data[k]]
    BY DEF Contents
  <2> QED
    BY <2>1, <2>2
<1>4. /\ before \in Seq({0, 1}) /\ Len(before) = a
      /\ \A k \in Nat : 0 < k /\ k <= a => before[k] = 1
  BY <1>2, BitsAre
<1> DEFINE token == <<0, 1>>
           zeros == bits(0, z)
           u == before \o token
           w == u \o zeros
<1>5. /\ token \in Seq({0, 1}) /\ Len(token) = 2 /\ token[1] = 0 /\ token[2] = 1
  OBVIOUS
<1>6. /\ zeros \in Seq({0, 1}) /\ Len(zeros) = z /\ z \in Nat /\ z > 0
      /\ \A k \in Nat : 0 < k /\ k <= z => zeros[k] = 0
  <2>1. z \in Nat /\ z > 0
    BY <1>a
  <2> QED
    BY <2>1, BitsAre
<1>7. u = before \o token /\ w = u \o zeros
  OBVIOUS
<1>8. /\ DOMAIN card' = CardFields /\ card'.answer = w /\ card'.miso = 1
      /\ card'.polls = card.polls /\ card'.sector = card.sector
      /\ card'.expects = "command" /\ card'.got = <<>>
  <2>1. card.miso = 1 /\ DOMAIN card = CardFields
    BY DEF Quiet, EndsBy, CardTypes
  <2> HIDE DEF u, token
  <2>2. before \o <<0, 1>> \o bits(0, z) = w
    BY DEF u, token
  <2> HIDE DEF w
  <2> QED
    BY <1>1, <2>1, <2>2 DEF CardFields
<1> HIDE DEF token, zeros, u, w
<1>9. before \in Seq({0, 1}) /\ token \in Seq({0, 1}) /\ zeros \in Seq({0, 1})
  BY <1>4, <1>5, <1>6
<1>10. /\ u \in Seq({0, 1}) /\ Len(u) = Len(before) + Len(token)
       /\ \A k \in Nat : 0 < k /\ k <= Len(before) => u[k] = before[k]
       /\ \A k \in Nat : 0 < k /\ k <= Len(token) => u[Len(before) + k] = token[k]
  BY <1>7, <1>9, JoinedIs
<1>11. u \in Seq({0, 1})
  BY <1>10
<1>12. /\ w \in Seq({0, 1}) /\ Len(w) = Len(u) + Len(zeros)
       /\ \A k \in Nat : 0 < k /\ k <= Len(u) => w[k] = u[k]
       /\ \A k \in Nat : 0 < k /\ k <= Len(zeros) => w[Len(u) + k] = zeros[k]
  BY <1>7, <1>9, <1>11, JoinedIs
<1>13. ASSUME NEW k \in Nat, 0 < k, k <= a + 2 + z
       PROVE  line(k)' = IF k <= a \/ k = a + 2 THEN 1 ELSE 0
  <2>1. line(k)' = w[k]
    BY <1>4, <1>5, <1>6, <1>8, <1>10, <1>12, <1>13 DEF line
  <2>2. CASE k <= a
    BY <1>4, <1>5, <1>10, <1>12, <2>1, <2>2, <1>13
  <2>3. CASE k = a + 1
    <3>1. u[Len(before) + 1] = token[1] /\ Len(before) + 1 = k
      BY <1>4, <1>5, <1>10, <2>3
    <3> QED
      BY <1>4, <1>5, <1>10, <1>12, <2>1, <2>3, <3>1
  <2>4. CASE k = a + 2
    <3>1. u[Len(before) + 2] = token[2] /\ Len(before) + 2 = k
      BY <1>4, <1>5, <1>10, <2>4
    <3> QED
      BY <1>4, <1>5, <1>10, <1>12, <2>1, <2>4, <3>1
  <2>5. CASE k > a + 2
    <3>1. k - (a + 2) \in Nat /\ 0 < k - (a + 2) /\ k - (a + 2) <= z /\ Len(u) + (k - (a + 2)) = k
      BY <1>4, <1>5, <1>6, <1>10, <1>13, <2>5
    <3>2. w[Len(u) + (k - (a + 2))] = zeros[k - (a + 2)] /\ zeros[k - (a + 2)] = 0
      BY <1>6, <1>12, <3>1
    <3> QED
      BY <2>1, <2>5, <3>1, <3>2
  <2> QED
    BY <2>2, <2>3, <2>4, <2>5
<1>14. ASSUME NEW k \in Nat, k >= a + 3 + z
       PROVE  EndsBy(k)'
  BY <1>4, <1>5, <1>6, <1>8, <1>10, <1>12, <1>14 DEF EndsBy
<1>15. ZeroAt(1, a + 1)'
  BY <1>6, <1>13 DEF ZeroAt
<1>16. BusyAfter((a + 1) + BitsPerByte)'
  <2>1. ASSUME NEW k \in Nat, (a + 1) + BitsPerByte <= k, line(k)' = 1
        PROVE  EndsBy(k)'
    <3>1. ~(k <= a + 2 + z)
      BY <1>a, <1>13, <2>1
    <3> QED
      BY <1>6, <1>14, <3>1
  <2> QED
    BY <2>1 DEF BusyAfter
<1>17. stored' = [stored EXCEPT ![card.sector] = data]
  BY <1>1, <1>3
<1> QED
  BY <1>8, <1>12, <1>15, <1>16, <1>17

-----------------------------------------------------------------------------
(* One pulse of sd_controller.v with what the card does, for every state.  *)

\* A cycle that begins in a state: the call does not change while it is served.
CycleIn(state) ==
  /\ Inv /\ sd.state = state
  /\ Pulse(sdcard.rd, sdcard.wr, sdcard.address, sdcard.din, card.miso)
  /\ CardStep(sclk, sd'.sclk_sig, mosi)
  /\ sdcard.state \in {"Init", "Idle"} \/ call' = call

WiresNext == ControllerTypes' /\ CardTypes' /\ Wires'

\* What of the invariant is there in a cycle of the controller.
LEMMA CycleTypes ==
  ASSUME NEW state, CycleIn(state)
  PROVE  /\ ControllerTypes /\ CardTypes /\ InterfaceTypes /\ Wires /\ Returns
         /\ DOMAIN sd = ControllerFields /\ sd.state = state
         /\ state # "SEND_CMD" => sd.cmd_out = no_command
BY DEF CycleIn, Inv, Types, ControllerTypes, Wires

\* The card does not see the clock, or sees it stand still.
LEMMA ClockRests ==
  ASSUME CardStep(sclk, sd'.sclk_sig, mosi), sd'.sclk_sig = sd.sclk_sig,
         sd.sclk_sig \in {0, 1}
  PROVE  UNCHANGED <<card, stored>>
BY DEF CardStep, sclk

\* sclk falls: the card shifts its answer.
LEMMA ClockFalls ==
  ASSUME CardStep(sclk, sd'.sclk_sig, mosi), sd.sclk_sig = 1, sd'.sclk_sig = 0
  PROVE  Fall
BY DEF CardStep, sclk

\* sclk rises: the card takes a bit.
LEMMA ClockRises ==
  ASSUME CardStep(sclk, sd'.sclk_sig, mosi), sd.sclk_sig = 0, sd'.sclk_sig = 1
  PROVE  Rise(mosi)
BY DEF CardStep, sclk

\* Of a command that a reset cut off the card takes another bit, or all that were missing.
LEMMA CutOffRises ==
  ASSUME CardTypes, CutOff, NEW bit \in Int, Rise(bit), Len(card.got) = 1 => bit # 88
  PROVE  /\ CardTypes' /\ CutOff' /\ stored' = stored
         /\ card'.got = <<>> \/ Len(card'.got) = Len(card.got) + 1
         /\ card.got = <<>> /\ bit = 1 => card'.got = <<>>
         /\ Len(card.got) = 3 => card'.got = <<>>
<1> DEFINE got == Append(card.got, bit)
<1>1. /\ DOMAIN card = CardFields /\ card.got \in Seq(Int) /\ card.expects = "command"
      /\ card.answer \in Seq({0, 1}) /\ card.miso \in {0, 1} /\ card.polls \in Nat
      /\ stored \in [Sectors -> Contents] /\ Len(card.got) \in Nat /\ Len(card.got) <= 3
      /\ Len(card.got) >= 2 => card.got[2] # 88
  BY DEF CardTypes, CutOff
<1>2. /\ got \in Seq(Int) /\ Len(got) = Len(card.got) + 1 /\ got[Len(card.got) + 1] = bit
      /\ \A k \in 1 .. Len(card.got) : got[k] = card.got[k]
  BY <1>1
<1>3. \/ card' = card /\ card.got = <<>> /\ stored' = stored
      \/ /\ card' = [card EXCEPT !.got = got] /\ stored' = stored
         /\ card.got = <<>> => bit = 0
         /\ Len(got) < 4
      \/ /\ Command(got[2], got[3]) /\ stored' = stored /\ card.got # <<>> /\ ~(Len(got) < 4)
  BY <1>1 DEF Rise
<1> HIDE DEF got
<1>4. CASE card' = card /\ card.got = <<>> /\ stored' = stored
  BY <1>1, <1>4 DEF CardTypes, CutOff
<1>5. CASE /\ card' = [card EXCEPT !.got = got] /\ stored' = stored
           /\ card.got = <<>> => bit = 0
           /\ Len(got) < 4
  <2>1. /\ DOMAIN card' = CardFields /\ card'.got = got /\ card'.expects = "command"
        /\ card'.answer = card.answer /\ card'.miso = card.miso /\ card'.polls = card.polls
    BY <1>1, <1>5 DEF CardFields
  <2>2. Len(got) >= 2 => got[2] # 88
    <3>1. CASE Len(card.got) = 1
      <4>1. got[2] = bit
        <5>1. Len(card.got) + 1 = 2
          BY <3>1
        <5> QED
          BY <1>2, <5>1
      <4> QED
        BY <3>1, <4>1
    <3>2. CASE Len(card.got) >= 2
      <4>1. got[2] = card.got[2]
        <5>1. 2 \in 1 .. Len(card.got)
          BY <1>1, <3>2
        <5> QED
          BY <1>2, <5>1
      <4> QED
        BY <1>1, <3>2, <4>1
    <3>3. Len(got) >= 2 => Len(card.got) = 1 \/ Len(card.got) >= 2
      <4>1. Len(got) = Len(card.got) + 1 /\ Len(card.got) \in Nat
        BY <1>1, <1>2
      <4>2. \A l \in Nat : l + 1 >= 2 => l = 1 \/ l >= 2
        OBVIOUS
      <4> QED
        BY <4>1, <4>2, Zenon
    <3> QED
      BY <3>1, <3>2, <3>3
  <2>3. CardTypes'
    BY <1>1, <1>2, <1>5, <2>1 DEF CardTypes
  <2>4. Len(got) <= 3 /\ Len(card.got) # 3
    <3>1. \A l \in Nat : l + 1 < 4 => l + 1 <= 3 /\ l # 3
      OBVIOUS
    <3> QED
      BY <1>1, <1>2, <1>5, <3>1
  <2>5. CutOff'
    BY <2>1, <2>2, <2>4 DEF CutOff
  <2>6. ~(card.got = <<>> /\ bit = 1)
    BY <1>5
  <2>7. Len(card'.got) = Len(card.got) + 1
    BY <1>2, <2>1
  <2> QED
    BY <1>5, <2>3, <2>4, <2>5, <2>6, <2>7
<1>6. CASE /\ Command(got[2], got[3]) /\ stored' = stored /\ card.got # <<>> /\ ~(Len(got) < 4)
  <2>1. got[2] \in Int /\ got[3] \in Int /\ got[2] # 88 /\ Len(got) = 4
    BY <1>1, <1>2, <1>6
  <2>2. PICK number \in Int, argument \in Int : /\ number = got[2] /\ argument = got[3]
                                                /\ Command(number, argument) /\ number # 88
    BY <1>6, <2>1
  <2>3. /\ DOMAIN card' = CardFields /\ card'.answer \in Seq({0, 1}) /\ card'.miso = card.miso
        /\ card'.polls \in Nat /\ card'.got = <<>> /\ card'.expects = "command"
    BY <1>6, <2>2, CommandAnswers
  <2>4. <<>> \in Seq(Int) /\ Len(<<>>) = 0
    OBVIOUS
  <2> QED
    BY <1>1, <1>6, <2>3, <2>4 DEF CardTypes, CutOff
<1> QED
  BY <1>3, <1>4, <1>5, <1>6

\* The same for any edge of the clock, or none.
LEMMA CutOffSteps ==
  ASSUME CardTypes, CutOff, NEW level \in {0, 1}, NEW bit \in Int, sd.sclk_sig \in {0, 1},
         CardStep(sclk, level, bit), Len(card.got) = 1 => bit # 88
  PROVE  /\ CardTypes' /\ CutOff' /\ stored' = stored
         /\ card'.got # <<>> => Len(card'.got) = IF sclk = 0 /\ level = 1 THEN Len(card.got) + 1
                                                                          ELSE Len(card.got)
         /\ card.got = <<>> /\ bit = 1 => card'.got = <<>>
         /\ sclk = 0 /\ level = 1 /\ Len(card.got) = 3 => card'.got = <<>>
<1>1. sclk \in {0, 1}
  BY DEF sclk
<1>2. CASE sclk = 0 /\ level = 1
  <2>1. Rise(bit)
    BY <1>2 DEF CardStep
  <2> QED
    BY <1>2, <2>1, CutOffRises
<1>3. CASE sclk = 1 /\ level = 0
  <2>1. Fall
    BY <1>3 DEF CardStep
  <2>2. /\ card'.expects = card.expects /\ card'.got = card.got /\ card'.polls = card.polls
        /\ stored' = stored /\ DOMAIN card' = CardFields
        /\ card'.answer \in Seq({0, 1}) /\ card'.miso \in {0, 1}
    BY <2>1, LineFalls
  <2> QED
    BY <1>3, <2>2 DEF CardTypes, CutOff
<1>4. CASE sclk = level
  <2>1. card' = card /\ stored' = stored
    BY <1>4 DEF CardStep
  <2> QED
    BY <1>4, <2>1 DEF CardTypes, CutOff
<1> QED
  BY <1>1, <1>2, <1>3, <1>4

\* cmd_out between commands: the line is high.
LEMMA NoCommand ==
  no_command = <<1, 1, 1, 1, 1>> /\ no_command[1] = 1
<1>1. clocks_of_command = 5
  BY DEF clocks_of_command
<1>2. no_command = [k \in 1 .. 5 |-> 1]
  BY <1>1 DEF no_command
<1>3. [k \in 1 .. 5 |-> 1] = <<1, 1, 1, 1, 1>>
  OBVIOUS
<1> QED
  BY <1>2, <1>3

\* Reset: a command that was cut off may be completed.
LEMMA WiresRst ==
  ASSUME CycleIn("RST")
  PROVE  WiresNext /\ stored' = stored
<1>0. ControllerTypes /\ DOMAIN sd = ControllerFields /\ sd.cmd_out = no_command /\ CardTypes
  BY CycleTypes
<1>1. RST /\ sd.cmd_mode /\ CutOff
  BY DEF CycleIn, Pulse, Inv, Wires
<1>a. mosi = 1 /\ sd.sclk_sig \in {0, 1}
  BY <1>0, <1>1, NoCommand DEF mosi, ControllerTypes
<1>b. sd'.sclk_sig \in {0, 1}
  BY <1>0, <1>1, <1>a DEF RST, ControllerFields, toggled
<1>2. CardTypes' /\ CutOff' /\ stored' = stored
  BY <1>0, <1>1, <1>a, <1>b, CutOffSteps DEF CycleIn
<1>3. CASE sd.boot_counter = 0
  <2>1. /\ sd'.sclk_sig = 0 /\ sd'.cmd_out = no_command /\ sd'.byte_counter = 0
        /\ sd'.byte_available = FALSE /\ sd'.ready_for_next_byte = FALSE /\ sd'.cmd_mode = TRUE
        /\ sd'.bit_counter = InitPulses /\ sd'.state = "INIT"
        /\ DOMAIN sd' = ControllerFields /\ sd'.boot_counter = sd.boot_counter
        /\ sd'.recv_data = sd.recv_data /\ sd'.dout = sd.dout /\ sd'.data_sig = sd.data_sig
    BY <1>0, <1>1, <1>3 DEF RST, ControllerFields
  <2>2. InitPulses \in Nat /\ InitPulses % 2 = 0
    BY SdControllerAssumption
  <2>3. 0 \in 0 .. WRITE_DATA_SIZE
    BY SizeIs DEF WRITE_DATA_SIZE
  <2>4. InitPulses <= InitPulses
    BY <2>2
  <2>5. ControllerTypes'
    BY <1>0, <2>1, <2>2, <2>3, <2>4 DEF ControllerTypes
  <2>6. card'.got # <<>> => 8 - 2 * Len(card'.got) <= InitPulses
    <3>1. InitPulses >= 10
      BY SdSystemAssumption DEF clocks_of_command
    <3>2. card'.got # <<>> => Len(card'.got) \in Nat /\ Len(card'.got) >= 1
      BY <1>2 DEF CardTypes
    <3> QED
      BY <2>2, <3>1, <3>2
  <2>7. sd'.sclk_sig = sd'.bit_counter % 2
    BY <2>1, <2>2
  <2>8. Wires'
    BY <1>2, <2>1, <2>6, <2>7 DEF Wires
  <2> QED
    BY <1>2, <2>5, <2>8 DEF WiresNext
<1>4. CASE sd.boot_counter # 0
  <2>1. /\ sd'.cmd_out = no_command /\ sd'.state = "RST"
        /\ DOMAIN sd' = ControllerFields /\ sd'.boot_counter = sd.boot_counter - 1
        /\ sd'.cmd_mode = sd.cmd_mode
        /\ sd'.recv_data = sd.recv_data /\ sd'.dout = sd.dout /\ sd'.data_sig = sd.data_sig
        /\ sd'.byte_available = sd.byte_available /\ sd'.bit_counter = sd.bit_counter
        /\ sd'.ready_for_next_byte = sd.ready_for_next_byte /\ sd'.byte_counter = sd.byte_counter
        /\ sd'.sclk_sig = IF (sd.boot_counter \div 4) % 2 = 1 THEN toggled ELSE sd.sclk_sig
    BY <1>0, <1>1, <1>4, CycleTypes DEF RST, ControllerFields
  <2>2. sd'.sclk_sig \in {0, 1}
    BY <1>0, <2>1 DEF ControllerTypes, toggled
  <2>3. /\ sd'.boot_counter \in Nat
        /\ sd'.boot_counter <= BootPulses \/ sd'.boot_counter <= ResetPulses
    BY <1>0, <1>4, <2>1, SdControllerAssumption DEF ControllerTypes
  <2>4. ControllerTypes'
    BY <1>0, <2>1, <2>2, <2>3 DEF ControllerTypes
  <2>5. Wires'
    BY <1>1, <1>2, <2>1 DEF Wires
  <2> QED
    BY <1>2, <2>4, <2>5 DEF WiresNext
<1> QED
  BY <1>3, <1>4

\* The pulses before the first command: there are enough of them to complete one that was cut off.
LEMMA WiresInit ==
  ASSUME CycleIn("INIT")
  PROVE  WiresNext /\ stored' = stored
<1>0. ControllerTypes /\ DOMAIN sd = ControllerFields /\ sd.cmd_out = no_command /\ CardTypes
  BY CycleTypes
<1>1. /\ INIT /\ sd.cmd_mode /\ CutOff /\ sd.sclk_sig = sd.bit_counter % 2
      /\ card.got # <<>> => 8 - 2 * Len(card.got) <= sd.bit_counter
  BY DEF CycleIn, Pulse, Inv, Wires
<1>3. /\ sd'.cmd_out = no_command /\ sd'.cmd_mode /\ DOMAIN sd' = ControllerFields
      /\ sd'.boot_counter = sd.boot_counter /\ sd'.byte_counter = sd.byte_counter
      /\ sd'.recv_data = sd.recv_data /\ sd'.dout = sd.dout /\ sd'.data_sig = sd.data_sig
      /\ sd'.byte_available = sd.byte_available /\ sd'.ready_for_next_byte = sd.ready_for_next_byte
      /\ sd.bit_counter = 0 => /\ sd'.state = "CMD0" /\ sd'.bit_counter = 0
                               /\ sd'.sclk_sig = sd.sclk_sig
      /\ sd.bit_counter # 0 => /\ sd'.state = "INIT"
                               /\ sd'.bit_counter = sd.bit_counter - 1
                               /\ sd'.sclk_sig = toggled
  BY <1>0, <1>1, CycleTypes DEF INIT, ControllerFields
<1>4. sd.bit_counter \in Nat /\ sd.sclk_sig \in {0, 1}
  BY <1>0 DEF ControllerTypes
<1>5. sd.bit_counter # 0 => 1 - (sd.bit_counter % 2) = (sd.bit_counter - 1) % 2
  BY <1>4
<1>6. sd'.sclk_sig = sd'.bit_counter % 2 /\ sd'.bit_counter \in Nat
  BY <1>1, <1>3, <1>4, <1>5 DEF toggled
<1>7. sd'.sclk_sig \in {0, 1} /\ sd'.bit_counter <= sd.bit_counter
  BY <1>3, <1>4 DEF toggled
<1>a. mosi = 1
  BY <1>0, <1>1, NoCommand DEF mosi
<1>2. /\ CardTypes' /\ CutOff' /\ stored' = stored
      /\ card'.got # <<>> => Len(card'.got) = IF sclk = 0 /\ sd'.sclk_sig = 1 THEN Len(card.got) + 1
                                                                             ELSE Len(card.got)
      /\ card.got = <<>> => card'.got = <<>>
      /\ sclk = 0 /\ sd'.sclk_sig = 1 /\ Len(card.got) = 3 => card'.got = <<>>
  BY <1>0, <1>1, <1>4, <1>7, <1>a, CutOffSteps DEF CycleIn
<1>b. card.got \in Seq(Int) /\ Len(card.got) \in Nat /\ Len(card.got) <= 3
  BY <1>0, <1>1 DEF CardTypes, CutOff
<1>8. sd'.bit_counter <= InitPulses \/ sd'.bit_counter <= 5 * BitsPerByte
  BY <1>0, <1>4, <1>6, <1>7, BitsPerByteIs, SdControllerAssumption DEF ControllerTypes
<1>9. ControllerTypes'
  BY <1>0, <1>3, <1>6, <1>7, <1>8 DEF ControllerTypes
<1>10. CASE sd.bit_counter = 0
  <2>1. sd'.state = "CMD0" /\ sd'.sclk_sig = 0 /\ sclk = 0
    BY <1>1, <1>3, <1>6, <1>10 DEF sclk
  <2>2. card'.got = <<>>
    <3>1. card.got = <<>>
      BY <1>1, <1>10, <1>b
    <3> QED
      BY <1>2, <3>1
  <2>3. CardIdle'
    BY <1>2, <2>2 DEF CardIdle, CutOff
  <2> QED
    BY <1>2, <1>3, <1>9, <2>1, <2>3 DEF Wires, WiresNext
<1>11. CASE sd.bit_counter # 0
  <2>1. sd'.state = "INIT" /\ sd'.bit_counter = sd.bit_counter - 1 /\ sd'.sclk_sig = 1 - sd.sclk_sig
    BY <1>3, <1>11 DEF toggled
  <2>2. card'.got # <<>> => 8 - 2 * Len(card'.got) <= sd'.bit_counter
    <3>1. CASE sd.sclk_sig = 0
      <4>1. card'.got # <<>> => card.got # <<>> /\ Len(card'.got) = Len(card.got) + 1
        BY <1>2, <2>1, <3>1 DEF sclk
      <4>2. ASSUME NEW n \in Nat, NEW b \in Nat, 8 - 2 * n <= b
            PROVE  8 - 2 * (n + 1) <= b - 1
        BY <4>2
      <4>3. card'.got # <<>> => 8 - 2 * (Len(card.got) + 1) <= sd.bit_counter - 1
        BY <1>1, <1>4, <1>b, <4>1, <4>2
      <4> QED
        BY <2>1, <4>1, <4>3
    <3>2. CASE sd.sclk_sig = 1
      <4>1. card'.got # <<>> => card.got # <<>> /\ Len(card'.got) = Len(card.got)
        BY <1>2, <2>1, <3>2 DEF sclk
      <4>2. ASSUME NEW n \in Nat, NEW b \in Nat, b % 2 = 1, 8 - 2 * n <= b
            PROVE  8 - 2 * n <= b - 1
        BY <4>2
      <4>3. sd.bit_counter % 2 = 1
        BY <1>1, <3>2
      <4>4. card'.got # <<>> => 8 - 2 * Len(card.got) <= sd.bit_counter - 1
        BY <1>1, <1>4, <1>b, <4>1, <4>2, <4>3
      <4> QED
        BY <2>1, <4>1, <4>4
    <3> QED
      BY <1>4, <3>1, <3>2
  <2> QED
    BY <1>2, <1>3, <1>6, <1>9, <2>1, <2>2 DEF Wires, WiresNext
<1> QED
  BY <1>10, <1>11

\* The states between commands leave the card alone.
LEMMA CardRests ==
  ASSUME NEW state, CycleIn(state), sd'.sclk_sig = sd.sclk_sig
  PROVE  /\ UNCHANGED <<card, stored>> /\ CardTypes'
         /\ (CardIdle => CardIdle') /\ (Quiet => Quiet')
<1>1. ControllerTypes /\ CardTypes
  BY CycleTypes
<1>2. UNCHANGED <<card, stored>>
  BY <1>1, ClockRests DEF CycleIn, ControllerTypes
<1> QED
  BY <1>1, <1>2 DEF CardTypes, CardIdle, Quiet, EndsBy

\* A command is put in cmd_out, none of it has been sent.
LEMMA CommandBegins ==
  ASSUME NEW state, CycleIn(state), sd.sclk_sig = 0, CardIdle, sd.cmd_mode,
         number_of' # 64 => Quiet,
         NEW argument \in Int, NEW then \in Responses,
         DOMAIN sd' = ControllerFields, sd'.state = "SEND_CMD", sd'.return_state = then,
         sd'.cmd_out = command(number_of', argument), sd'.bit_counter = 4,
         sd'.response_type = IF then = "CMD55" THEN 7 ELSE 1,
         sd'.sclk_sig = sd.sclk_sig, sd'.cmd_mode = sd.cmd_mode,
         sd'.data_sig = sd.data_sig, sd'.byte_counter = sd.byte_counter, sd'.dout = sd.dout,
         sd'.boot_counter = sd.boot_counter, sd'.recv_data = sd.recv_data,
         sd'.byte_available = sd.byte_available, sd'.ready_for_next_byte \in BOOLEAN,
         then \in {"READ_BLOCK_WAIT", "WRITE_BLOCK_INIT"} => argument \div AddressUnit = call'.sector
  PROVE  WiresNext /\ UNCHANGED <<card, stored>>
<1>0. ControllerTypes /\ CardTypes
  BY CycleTypes
<1>2. UNCHANGED <<card, stored>> /\ CardTypes' /\ CardIdle' /\ (number_of' # 64 => Quiet')
  BY CardRests
<1>3. ControllerTypes'
  <2>1. 4 \in Nat /\ 4 <= 5 * BitsPerByte
    BY BitsPerByteIs
  <2> QED
    BY <1>0, <2>1 DEF ControllerTypes
<1>4. SendingCommand(4, argument)'
  <2>1. sclk' = 0
    BY DEF sclk
  <2> QED
    BY <1>2, <2>1 DEF SendingCommand, command, CardIdle
<1>5. number_of' \in {81, 88} => then \in {"READ_BLOCK_WAIT", "WRITE_BLOCK_INIT"}
  BY DEF number_of, Responses
<1>6. Sending'
  <2>1. sd'.bit_counter \in 0 .. 4 /\ sd'.cmd_mode
    OBVIOUS
  <2> QED
    BY <1>4, <1>5, <2>1 DEF Sending
<1>7. Wires'
  BY <1>6 DEF Wires
<1> QED
  BY <1>2, <1>3, <1>7 DEF WiresNext

\* The states in which the card waits for a command.
LEMMA RestsIn ==
  ASSUME NEW state \in {"CMD0", "CMD8", "CMD55", "CMD41", "POLL_CMD", "IDLE", "READ_BLOCK",
                        "WRITE_BLOCK_CMD"}, CycleIn(state)
  PROVE  /\ sd.sclk_sig = 0 /\ CardIdle /\ sd.cmd_mode
         /\ state # "CMD0" => Resting /\ Quiet
BY DEF CycleIn, Inv, Wires, Resting

\* The commands of the initialization.
LEMMA WiresCommands ==
  ASSUME NEW state \in {"CMD0", "CMD8", "CMD55", "CMD41"}, CycleIn(state)
  PROVE  WiresNext /\ stored' = stored
<1>0. /\ ControllerTypes /\ DOMAIN sd = ControllerFields /\ sd.cmd_mode
      /\ sd.sclk_sig = 0 /\ CardIdle /\ (state # "CMD0" => Quiet)
      /\ sd.state = state
  BY CycleTypes, RestsIn
<1> DEFINE argument == IF state = "CMD8" THEN 426 ELSE 0
           then     == CASE state = "CMD0"  -> "CMD8"  [] state = "CMD8" -> "CMD55"
                         [] state = "CMD55" -> "CMD41" [] OTHER          -> "POLL_CMD"
           number   == CASE state = "CMD0"  -> 64      [] state = "CMD8" -> 72
                         [] state = "CMD55" -> 119     [] OTHER          -> 105
<1>1. sd' = [send(number, argument, then) EXCEPT !.response_type = IF then = "CMD55" THEN 7 ELSE 1]
  <2>1. /\ state = "CMD0"  => sd' = send(64, 0, "CMD8")
        /\ state = "CMD8"  => sd' = [send(72, 426, "CMD55") EXCEPT !.response_type = 7]
        /\ state = "CMD55" => sd' = send(119, 0, "CMD41")
        /\ state = "CMD41" => sd' = send(105, 0, "POLL_CMD")
    BY <1>0 DEF CycleIn, Pulse, CMD0, CMD8, CMD55, CMD41
  <2>2. \A n, a, t : send(n, a, t) = [send(n, a, t) EXCEPT !.response_type = 1]
    BY <1>0 DEF send, ControllerFields
  <2> QED
    BY <2>1, <2>2
<1>2. /\ DOMAIN sd' = ControllerFields /\ sd'.state = "SEND_CMD" /\ sd'.return_state = then
      /\ sd'.cmd_out = command(number, argument) /\ sd'.bit_counter = clocks_of_command - 1
      /\ sd'.response_type = (IF then = "CMD55" THEN 7 ELSE 1)
      /\ sd'.sclk_sig = sd.sclk_sig /\ sd'.cmd_mode = sd.cmd_mode
      /\ sd'.data_sig = sd.data_sig /\ sd'.byte_counter = sd.byte_counter /\ sd'.dout = sd.dout
      /\ sd'.boot_counter = sd.boot_counter /\ sd'.recv_data = sd.recv_data
      /\ sd'.byte_available = sd.byte_available
      /\ sd'.ready_for_next_byte = sd.ready_for_next_byte
  <2> HIDE DEF number, then, argument
  <2> QED
    BY <1>0, <1>1 DEF send, ControllerFields
<1>3. number_of' = number /\ then \in Responses /\ argument \in Int
      /\ then \notin {"READ_BLOCK_WAIT", "WRITE_BLOCK_INIT"} /\ (number # 64 => state # "CMD0")
  BY <1>2 DEF number_of, Responses
<1>4. clocks_of_command - 1 = 4 /\ sd.ready_for_next_byte \in BOOLEAN
  BY <1>0 DEF clocks_of_command, ControllerTypes
<1> HIDE DEF number, then, argument
<1> QED
  BY <1>0, <1>2, <1>3, <1>4, CommandBegins

\* The response to ACMD41: again, or done.
LEMMA WiresPollCmd ==
  ASSUME CycleIn("POLL_CMD")
  PROVE  WiresNext /\ stored' = stored
<1>0. ControllerTypes /\ DOMAIN sd = ControllerFields /\ Resting /\ sd.cmd_mode
      /\ sd.cmd_out = no_command /\ sd.state = "POLL_CMD"
  BY CycleTypes, RestsIn
<1>1. sd' = [sd EXCEPT !.state = IF sd.recv_data % 2 = 0 THEN "IDLE" ELSE "CMD55"]
  BY <1>0 DEF CycleIn, Pulse, POLL_CMD
<1>2. /\ DOMAIN sd' = ControllerFields /\ sd'.state \in {"IDLE", "CMD55"}
      /\ sd'.cmd_out = sd.cmd_out /\ sd'.bit_counter = sd.bit_counter
      /\ sd'.sclk_sig = sd.sclk_sig /\ sd'.cmd_mode = sd.cmd_mode
      /\ sd'.data_sig = sd.data_sig /\ sd'.byte_counter = sd.byte_counter /\ sd'.dout = sd.dout
      /\ sd'.boot_counter = sd.boot_counter /\ sd'.recv_data = sd.recv_data
      /\ sd'.byte_available = sd.byte_available
      /\ sd'.ready_for_next_byte = sd.ready_for_next_byte
  BY <1>0, <1>1 DEF ControllerFields
<1>3. sd.sclk_sig = 0 /\ CardIdle /\ Quiet
  BY <1>0 DEF Resting
<1>4. UNCHANGED <<card, stored>> /\ CardTypes' /\ CardIdle' /\ Quiet'
  BY <1>2, <1>3, CardRests
<1>5. ControllerTypes'
  BY <1>0, <1>2 DEF ControllerTypes
<1>6. Wires'
  BY <1>0, <1>2, <1>3, <1>4 DEF Wires, Resting
<1> QED
  BY <1>4, <1>5, <1>6 DEF WiresNext

\* No transfer, or the begin of one.
LEMMA WiresIdle ==
  ASSUME CycleIn("IDLE")
  PROVE  WiresNext /\ stored' = stored
<1>0. ControllerTypes /\ DOMAIN sd = ControllerFields /\ Resting /\ sd.cmd_mode
      /\ sd.cmd_out = no_command /\ sd.state = "IDLE"
  BY CycleTypes, RestsIn
<1>1. IDLE(sdcard.rd, sdcard.wr)
  BY <1>0 DEF CycleIn, Pulse
<1>2. /\ DOMAIN sd' = ControllerFields /\ sd'.state \in {"IDLE", "READ_BLOCK", "WRITE_BLOCK_CMD"}
      /\ sd'.cmd_out = sd.cmd_out /\ sd'.bit_counter = sd.bit_counter
      /\ sd'.sclk_sig = sd.sclk_sig /\ sd'.cmd_mode = sd.cmd_mode
      /\ sd'.data_sig = sd.data_sig /\ sd'.byte_counter = sd.byte_counter /\ sd'.dout = sd.dout
      /\ sd'.boot_counter = sd.boot_counter /\ sd'.recv_data = sd.recv_data
      /\ sd'.byte_available = sd.byte_available
      /\ sd'.ready_for_next_byte = sd.ready_for_next_byte
  BY <1>0, <1>1 DEF ControllerFields, IDLE
<1>3. sd.sclk_sig = 0 /\ CardIdle /\ Quiet
  BY <1>0 DEF Resting
<1>4. UNCHANGED <<card, stored>> /\ CardTypes' /\ CardIdle' /\ Quiet'
  BY <1>2, <1>3, CardRests
<1>5. ControllerTypes'
  BY <1>0, <1>2 DEF ControllerTypes
<1>6. Wires'
  BY <1>0, <1>2, <1>3, <1>4 DEF Wires, Resting
<1> QED
  BY <1>4, <1>5, <1>6 DEF WiresNext

\* The states of a transfer, with what sdcard.sv and the program are doing.
LEMMA Transfers ==
  ASSUME NEW state, CycleIn(state), state \in ReadStates \cup WriteStates
  PROVE  /\ sdcard.address \div AddressUnit = call.sector /\ call' = call
         /\ call \in Calls /\ call.sector \in Sectors
         /\ state \in ReadStates => sdcard.state = "ReadSector" /\ call.op = "read"
         /\ state \in WriteStates => /\ sdcard.state = "WriteSector"
                                     /\ call.op = "write" /\ call.data \in Contents
<1>1. /\ state \in ReadStates => sdcard.state = "ReadSector"
      /\ state \in WriteStates => sdcard.state = "WriteSector"
  BY DEF CycleIn, Inv, Returns, BelongsTo, ReadStates, WriteStates, InitStates
<1>2. /\ sdcard.address \div AddressUnit = call.sector /\ call' = call
      /\ sdcard.state = "ReadSector" => doing = "wait_for_read"
      /\ sdcard.state = "WriteSector" => doing = "wait_for_write"
  BY <1>1 DEF CycleIn, Inv, InterfaceAt
<1>3. /\ doing = "wait_for_read" => call \in Calls /\ call.op = "read"
      /\ doing = "wait_for_write" => call \in Calls /\ call.op = "write"
  BY DEF CycleIn, Inv, InCall
<1> QED
  BY <1>1, <1>2, <1>3 DEF Calls

\* The commands of a transfer carry the address of the sector of the call.
LEMMA WiresTransfers ==
  ASSUME NEW state \in {"READ_BLOCK", "WRITE_BLOCK_CMD"}, CycleIn(state)
  PROVE  WiresNext /\ stored' = stored
<1>0. /\ ControllerTypes /\ DOMAIN sd = ControllerFields /\ sd.cmd_mode
      /\ sd.sclk_sig = 0 /\ CardIdle /\ Quiet
      /\ sd.state = state
  BY CycleTypes, RestsIn
<1>a. sdcard.address \div AddressUnit = call.sector /\ call' = call /\ sdcard.address \in Int
  BY Transfers, CycleTypes DEF ReadStates, WriteStates, InterfaceTypes
<1> DEFINE then   == IF state = "READ_BLOCK" THEN "READ_BLOCK_WAIT" ELSE "WRITE_BLOCK_INIT"
           number == IF state = "READ_BLOCK" THEN 81 ELSE 88
           askes  == IF state = "READ_BLOCK" THEN sd.ready_for_next_byte ELSE TRUE
<1>4. clocks_of_command - 1 = 4 /\ askes \in BOOLEAN
  <2>1. sd.ready_for_next_byte \in BOOLEAN
    BY <1>0 DEF ControllerTypes
  <2>2. clocks_of_command - 1 = 4
    BY DEF clocks_of_command
  <2> QED
    BY <2>1, <2>2
<1>1. sd' = [send(number, sdcard.address, then) EXCEPT !.ready_for_next_byte = askes]
  <2>1. /\ state = "READ_BLOCK"      => sd' = send(81, sdcard.address, "READ_BLOCK_WAIT")
        /\ state = "WRITE_BLOCK_CMD" => sd' = [send(88, sdcard.address, "WRITE_BLOCK_INIT")
                                                 EXCEPT !.ready_for_next_byte = TRUE]
    BY <1>0 DEF CycleIn, Pulse, READ_BLOCK, WRITE_BLOCK_CMD
  <2>2. ASSUME NEW n, NEW a, NEW t
        PROVE  send(n, a, t) = [send(n, a, t) EXCEPT !.ready_for_next_byte = sd.ready_for_next_byte]
    <3> DEFINE s == [send(n, a, t) EXCEPT !.ready_for_next_byte = sd.ready_for_next_byte]
    <3>1. DOMAIN s = ControllerFields /\ DOMAIN send(n, a, t) = ControllerFields
      BY <1>0 DEF send
    <3>2. s.ready_for_next_byte = send(n, a, t).ready_for_next_byte
      BY <1>0 DEF send, ControllerFields
    <3>3. \A k \in ControllerFields : s[k] = send(n, a, t)[k]
      BY <3>1, <3>2
    <3> QED
      BY <3>1, <3>3 DEF send
  <2>3. CASE state = "READ_BLOCK"
    BY <2>1, <2>2, <2>3
  <2>4. CASE state = "WRITE_BLOCK_CMD"
    <3>1. number = 88 /\ then = "WRITE_BLOCK_INIT" /\ askes = TRUE
      BY <2>4
    <3> HIDE DEF number, then, askes
    <3> QED
      BY <2>1, <2>4, <3>1
  <2> QED
    BY <2>3, <2>4
<1>2. /\ DOMAIN sd' = ControllerFields /\ sd'.state = "SEND_CMD" /\ sd'.return_state = then
      /\ sd'.cmd_out = command(number, sdcard.address) /\ sd'.bit_counter = clocks_of_command - 1
      /\ sd'.response_type = 1
      /\ sd'.sclk_sig = sd.sclk_sig /\ sd'.cmd_mode = sd.cmd_mode
      /\ sd'.data_sig = sd.data_sig /\ sd'.byte_counter = sd.byte_counter /\ sd'.dout = sd.dout
      /\ sd'.boot_counter = sd.boot_counter /\ sd'.recv_data = sd.recv_data
      /\ sd'.byte_available = sd.byte_available
      /\ sd'.ready_for_next_byte = askes
  <2> HIDE DEF number, then, askes
  <2> QED
    BY <1>0, <1>1 DEF send, ControllerFields
<1>3. number_of' = number /\ then \in Responses /\ then # "CMD55"
  BY <1>2 DEF number_of, Responses
<1> HIDE DEF number, then, askes
<1> QED
  BY <1>0, <1>a, <1>2, <1>3, <1>4, CommandBegins

\* What is on the line comes one clock earlier after a fall.
LEMMA FollowsFalls ==
  ASSUME CardTypes, Fall, sd'.return_state = sd.return_state, NEW m \in Nat, Follows(m + 1)
  PROVE  Follows(m)'
<1>1. /\ EndsBy(m + 1) => EndsBy(m)'
      /\ BlockAfter(m + 1) => BlockAfter(m)'
      /\ BusyAfter(m + 1) => BusyAfter(m)'
  BY BlockFalls, LineFalls
<1>2. CASE sd.return_state = "READ_BLOCK_WAIT"
  BY <1>1, <1>2 DEF Follows
<1>3. CASE sd.return_state = "WRITE_BLOCK_WAIT"
  BY <1>1, <1>3 DEF Follows
<1>4. CASE sd.return_state \notin {"READ_BLOCK_WAIT", "WRITE_BLOCK_WAIT"}
  BY <1>1, <1>4 DEF Follows
<1> QED
  BY <1>2, <1>3, <1>4

\* The answer comes one bit nearer when the clock falls.
LEMMA AnswerFalls ==
  ASSUME CardTypes, Fall, sd'.return_state = sd.return_state, sd'.response_type = sd.response_type,
         NEW m \in Nat, AnswerAfter(m + 1)
  PROVE  AnswerAfter(m)'
<1>1. PICK n \in Nat : ZeroAt(m + 1, n) /\ Follows(n + bits_of_response)
  BY DEF AnswerAfter
<1>2. n > 0 /\ n - 1 \in Nat /\ ZeroAt(m, n - 1)'
  BY <1>1, BlockFalls
<1>3. bits_of_response \in Nat /\ bits_of_response' = bits_of_response
  BY BitsPerByteIs DEF bits_of_response
<1>4. /\ (n - 1) + bits_of_response \in Nat
      /\ ((n - 1) + bits_of_response) + 1 = n + bits_of_response
  BY <1>2, <1>3
<1>5. Follows((n - 1) + bits_of_response)'
  <2> DEFINE k == (n - 1) + bits_of_response
  <2>1. k \in Nat /\ Follows(k + 1) /\ k' = k
    BY <1>1, <1>3, <1>4
  <2> HIDE DEF k
  <2>2. Follows(k)'
    BY <2>1, FollowsFalls
  <2> QED
    BY <2>1, <2>2 DEF k
<1> QED
  BY <1>2, <1>3, <1>5 DEF AnswerAfter

\* What sdcard.sv serves is a call of the program, which does not change.
LEMMA Serving ==
  ASSUME NEW state, CycleIn(state)
  PROVE  /\ sdcard.state = "ReadSector" => call' = call /\ call.sector \in Sectors
         /\ sdcard.state = "WriteSector" => call' = call /\ call.sector \in Sectors
                                            /\ call.data \in Contents
<1>1. /\ sdcard.state = "ReadSector" => doing = "wait_for_read" /\ call' = call
      /\ sdcard.state = "WriteSector" => doing = "wait_for_write" /\ call' = call
  BY DEF CycleIn, Inv, InterfaceAt
<1>2. /\ doing = "wait_for_read" => call \in Calls /\ call.op = "read"
      /\ doing = "wait_for_write" => call \in Calls /\ call.op = "write"
  BY DEF CycleIn, Inv, InCall
<1> QED
  BY <1>1, <1>2 DEF Calls

\* A command on its way: the next clock begins.
LEMMA BitOfCommand ==
  ASSUME NEW left \in 0 .. 4, NEW argument \in Int, SendingCommand(left, argument),
         sd.sclk_sig = 0, Rise(sd.cmd_out[1]), CardTypes,
         sd'.sclk_sig = 1, sd'.cmd_out = sd.cmd_out, sd'.return_state = sd.return_state
  PROVE  /\ left > 0 => CardTypes' /\ SendingCommand(left, argument)' /\ stored' = stored
         /\ left = 0 => Command(number_of, argument) /\ stored' = stored
<1> DEFINE n == number_of
<1>1. n \in Int /\ n' = n
  BY DEF number_of
<1>2. sclk = 0 /\ sclk' = 1
  BY DEF sclk
<1>3. card.expects = "command" /\ (n # 64 => Quiet)
  BY <1>2 DEF SendingCommand
<1> HIDE DEF n
<1>4. ASSUME NEW got \in Seq(Int), card' = [card EXCEPT !.got = got] \/ (card' = card /\ got = card.got),
             stored' = stored
      PROVE  CardTypes' /\ (n # 64 => Quiet') /\ card'.expects = "command" /\ card'.got = got
  <2>1. /\ DOMAIN card' = CardFields /\ card'.got = got /\ card'.expects = "command"
        /\ card'.answer = card.answer /\ card'.miso = card.miso /\ card'.polls = card.polls
    BY <1>3, <1>4 DEF CardTypes, CardFields
  <2> QED
    BY <1>3, <1>4, <2>1 DEF CardTypes, Quiet, EndsBy
<1>5. CASE left = 4
  <2>1. card.got = <<>> /\ sd.cmd_out = <<1, 0, n, argument, 1>>
    BY <1>2, <1>5 DEF SendingCommand, n
  <2>2. card' = card /\ stored' = stored
    BY <1>3, <2>1 DEF Rise
  <2>3. CardTypes' /\ (n # 64 => Quiet') /\ card'.expects = "command" /\ card'.got = <<>>
    BY <1>4, <2>1, <2>2 DEF CardTypes
  <2> QED
    BY <1>1, <1>2, <1>5, <2>1, <2>2, <2>3 DEF SendingCommand, n
<1>6. CASE left = 3
  <2>1. card.got = <<>> /\ sd.cmd_out = <<0, n, argument, 1, 1>>
    BY <1>2, <1>6 DEF SendingCommand, n
  <2>2. card' = [card EXCEPT !.got = <<0>>] /\ stored' = stored
    BY <1>3, <2>1 DEF Rise
  <2>3. CardTypes' /\ (n # 64 => Quiet') /\ card'.expects = "command" /\ card'.got = <<0>>
    <3>1. <<0>> \in Seq(Int)
      BY <1>1
    <3> QED
      BY <1>4, <2>2, <3>1
  <2> QED
    BY <1>1, <1>2, <1>6, <2>1, <2>2, <2>3 DEF SendingCommand, n
<1>7. CASE left = 2
  <2>1. card.got = <<0>> /\ sd.cmd_out = <<n, argument, 1, 1, 1>>
    BY <1>2, <1>7 DEF SendingCommand, n
  <2>2. card' = [card EXCEPT !.got = <<0, n>>] /\ stored' = stored
    BY <1>1, <1>3, <2>1 DEF Rise
  <2>3. CardTypes' /\ (n # 64 => Quiet') /\ card'.expects = "command" /\ card'.got = <<0, n>>
    <3>1. <<0, n>> \in Seq(Int)
      BY <1>1
    <3> QED
      BY <1>4, <2>2, <3>1
  <2> QED
    BY <1>1, <1>2, <1>7, <2>1, <2>2, <2>3 DEF SendingCommand, n
<1>8. CASE left = 1
  <2>1. card.got = <<0, n>> /\ sd.cmd_out = <<argument, 1, 1, 1, 1>>
    BY <1>2, <1>8 DEF SendingCommand, n
  <2>2. card' = [card EXCEPT !.got = <<0, n, argument>>] /\ stored' = stored
    BY <1>1, <1>3, <2>1 DEF Rise
  <2>3. CardTypes' /\ (n # 64 => Quiet') /\ card'.expects = "command" /\ card'.got = <<0, n, argument>>
    <3>1. <<0, n, argument>> \in Seq(Int)
      BY <1>1
    <3> QED
      BY <1>4, <2>2, <3>1
  <2> QED
    BY <1>1, <1>2, <1>8, <2>1, <2>2, <2>3 DEF SendingCommand, n
<1>9. CASE left = 0
  <2>1. card.got = <<0, n, argument>> /\ sd.cmd_out = <<1, 1, 1, 1, 1>>
    BY <1>2, <1>9 DEF SendingCommand, n
  <2> DEFINE got == Append(card.got, sd.cmd_out[1])
  <2>2. got = Append(<<0, n, argument>>, 1) /\ card.got # <<>>
    BY <2>1
  <2>3. Len(got) = 4 /\ got[2] = n /\ got[3] = argument
    BY <1>1, <2>2
  <2>4. Command(n, argument) /\ stored' = stored
    <3>1. Command(got[2], got[3]) /\ stored' = stored
      BY <1>3, <2>2, <2>3 DEF Rise
    <3> HIDE DEF got
    <3> QED
      BY <2>3, <3>1
  <2> QED
    BY <1>9, <2>4 DEF n
<1> QED
  BY <1>5, <1>6, <1>7, <1>8, <1>9

\* The last clock of a command: the card answers.
LEMMA CommandArrives ==
  ASSUME CardTypes, NEW argument \in Int, Command(number_of, argument), stored' = stored,
         sd.return_state \in Responses, sd'.return_state = sd.return_state,
         sd.response_type = IF sd.return_state = "CMD55" THEN 7 ELSE 1,
         sd'.response_type = sd.response_type,
         number_of \in {81, 88} => /\ argument \div AddressUnit = call'.sector
                                   /\ call'.sector \in Sectors
  PROVE  CardTypes' /\ Commanded' /\ AnswerAfter(1)'
<1>0. PICK number \in Int : number = number_of
  BY DEF number_of
<1>1. /\ number \in Int
      /\ number = 81 <=> sd.return_state = "READ_BLOCK_WAIT"
      /\ number = 88 <=> sd.return_state = "WRITE_BLOCK_INIT"
      /\ number = 72 <=> sd.return_state = "CMD55"
  BY <1>0 DEF number_of, Responses
<1>2. number = 81 => argument \div AddressUnit \in Sectors
  BY <1>0
<1>3. Command(number, argument) /\ stored' = stored
  BY <1>0
<1>a. number \in {81, 88} => argument \div AddressUnit = call'.sector
  BY <1>0
<1>b. AsksForBlock(number, argument) <=> number = 81
  BY <1>2 DEF AsksForBlock
<1>4. /\ DOMAIN card' = CardFields /\ card'.answer \in Seq({0, 1}) /\ card'.miso = card.miso
      /\ card'.polls \in Nat /\ card'.got = <<>> /\ card'.sector = argument \div AddressUnit
      /\ card'.expects = IF number = 88 THEN "token" ELSE "command"
      /\ number # 81 => \E n \in Nat : ZeroAt(1, n)'
                          /\ EndsBy(n + IF number = 72 THEN 5 * BitsPerByte ELSE BitsPerByte)'
      /\ number = 81 => \E n \in Nat : ZeroAt(1, n)' /\ BlockAfter(n + BitsPerByte)'
  BY <1>1, <1>3, <1>b, CommandAnswers
<1>5. CardTypes'
  <2>1. card'.got \in Seq(Int)
    <3>1. <<>> \in Seq(Int)
      OBVIOUS
    <3> QED
      BY <1>4, <3>1
  <2> QED
    BY <1>4, <2>1 DEF CardTypes
<1>6. Commanded'
  BY <1>1, <1>4, <1>a DEF Commanded
<1>7. bits_of_response' = IF number = 72 THEN 5 * BitsPerByte ELSE BitsPerByte
  BY <1>1 DEF bits_of_response
<1>8. CASE number = 81
  <2>1. PICK n \in Nat : ZeroAt(1, n)' /\ BlockAfter(n + BitsPerByte)'
    BY <1>4, <1>8
  <2>2. Follows(n + bits_of_response)'
    BY <1>1, <1>7, <1>8, <2>1 DEF Follows
  <2> QED
    BY <1>5, <1>6, <2>1, <2>2 DEF AnswerAfter
<1>9. CASE number # 81
  <2>1. PICK n \in Nat : ZeroAt(1, n)'
                         /\ EndsBy(n + IF number = 72 THEN 5 * BitsPerByte ELSE BitsPerByte)'
    BY <1>4, <1>9
  <2>2. EndsBy(n + bits_of_response)'
    BY <1>7, <2>1
  <2>3. Follows(n + bits_of_response)'
    BY <1>1, <1>9, <2>2 DEF Follows, Responses
  <2> QED
    BY <1>5, <1>6, <2>1, <2>3 DEF AnswerAfter
<1> QED
  BY <1>8, <1>9

\* A register that shifts left.
LEMMA TailShifts ==
  ASSUME NEW S, NEW s \in Seq(S), s # <<>>, NEW x \in S
  PROVE  /\ Append(Tail(s), x) \in Seq(S) /\ Len(Append(Tail(s), x)) = Len(s)
         /\ Append(Tail(s), x)[Len(s)] = x
         /\ \A k \in Nat : k > 0 /\ k < Len(s) => Append(Tail(s), x)[k] = s[k + 1]
<1>1. /\ Tail(s) \in Seq(S) /\ Len(Tail(s)) = Len(s) - 1 /\ Len(s) \in Nat
      /\ \A k \in Nat : k > 0 /\ k < Len(s) => Tail(s)[k] = s[k + 1]
  OBVIOUS
<1> DEFINE t == Tail(s)
<1> HIDE DEF t
<1>2. t \in Seq(S)
  BY <1>1 DEF t
<1>3. /\ Append(t, x) \in Seq(S) /\ Len(Append(t, x)) = Len(t) + 1 /\ Append(t, x)[Len(t) + 1] = x
      /\ \A k \in Nat : k > 0 /\ k <= Len(t) => Append(t, x)[k] = t[k]
  BY <1>2
<1>4. Len(t) = Len(s) - 1 /\ \A k \in Nat : k > 0 /\ k < Len(s) => t[k] = s[k + 1]
  BY <1>1 DEF t
<1>5. /\ Append(t, x) \in Seq(S) /\ Len(Append(t, x)) = Len(s) /\ Append(t, x)[Len(s)] = x
      /\ \A k \in Nat : k > 0 /\ k < Len(s) => Append(t, x)[k] = s[k + 1]
  BY <1>1, <1>3, <1>4
<1> QED
  BY <1>5 DEF t

\* The five parts of a command.
LEMMA SameFive ==
  ASSUME NEW S, NEW s \in Seq(S), NEW t \in Seq(S), Len(s) = 5, Len(t) = 5,
         s[1] = t[1], s[2] = t[2], s[3] = t[3], s[4] = t[4], s[5] = t[5]
  PROVE  s = t
<1>1. ASSUME NEW k \in 1 .. Len(s)
      PROVE  s[k] = t[k]
  <2>1. k = 1 \/ k = 2 \/ k = 3 \/ k = 4 \/ k = 5
    OBVIOUS
  <2> QED
    BY <2>1
<1> QED
  BY <1>1

\* cmd_out after a part was sent.
LEMMA CommandShifts ==
  ASSUME NEW a \in Int, NEW b \in Int, NEW c \in Int, NEW d \in Int, NEW e \in Int
  PROVE  Append(Tail(<<a, b, c, d, e>>), 1) = <<b, c, d, e, 1>>
<1> DEFINE s == <<a, b, c, d, e>>
           t == <<b, c, d, e, 1>>
           u == Append(Tail(s), 1)
<1>1. s \in Seq(Int) /\ t \in Seq(Int) /\ 1 \in Int
  OBVIOUS
<1>2. /\ Len(s) = 5 /\ s[2] = b /\ s[3] = c /\ s[4] = d /\ s[5] = e
      /\ Len(t) = 5 /\ t[1] = b /\ t[2] = c /\ t[3] = d /\ t[4] = e /\ t[5] = 1
      /\ s # <<>>
  OBVIOUS
<1> HIDE DEF s, t
<1>3. /\ u \in Seq(Int) /\ Len(u) = Len(s) /\ u[Len(s)] = 1
      /\ \A k \in Nat : k > 0 /\ k < Len(s) => u[k] = s[k + 1]
  <2> DEFINE S == Int
             one == 1
  <2>1. s \in Seq(S) /\ one \in S /\ s # <<>>
    BY <1>1, <1>2
  <2> HIDE DEF S, one
  <2>2. /\ Append(Tail(s), one) \in Seq(S) /\ Len(Append(Tail(s), one)) = Len(s)
        /\ Append(Tail(s), one)[Len(s)] = one
        /\ \A k \in Nat : k > 0 /\ k < Len(s) => Append(Tail(s), one)[k] = s[k + 1]
    BY <2>1, TailShifts
  <2>3. S = Int /\ one = 1
    BY DEF S, one
  <2> QED
    BY <2>2, <2>3
<1> HIDE DEF u
<1>4. u[1] = s[2] /\ u[2] = s[3] /\ u[3] = s[4] /\ u[4] = s[5] /\ u[5] = 1 /\ Len(u) = 5
  BY <1>2, <1>3
<1>5. u = t
  <2>1. u[1] = t[1] /\ u[2] = t[2] /\ u[3] = t[3] /\ u[4] = t[4] /\ u[5] = t[5]
    BY <1>2, <1>4
  <2> QED
    BY <1>1, <1>2, <1>3, <1>4, <2>1, SameFive
<1> QED
  BY <1>5 DEF s, t, u

\* A command is sent part by part; the card has the ones that were sent, and answers the last.
LEMMA WiresSendCmd ==
  ASSUME CycleIn("SEND_CMD")
  PROVE  WiresNext /\ stored' = stored
<1>0. ControllerTypes /\ CardTypes /\ DOMAIN sd = ControllerFields /\ sd.state = "SEND_CMD"
  BY CycleTypes
<1>1. SEND_CMD /\ CardStep(sclk, sd'.sclk_sig, mosi)
  BY <1>0 DEF CycleIn, Pulse
<1>2. /\ sd.cmd_mode /\ sd.bit_counter \in 0 .. 4
      /\ sd.response_type = IF sd.return_state = "CMD55" THEN 7 ELSE 1
      /\ sd.return_state \in Responses
  BY DEF CycleIn, Inv, Wires, Sending, Returns
<1>3. PICK argument \in Int :
        /\ SendingCommand(sd.bit_counter, argument)
        /\ number_of \in {81, 88} => argument \div AddressUnit = call.sector
  BY DEF CycleIn, Inv, Wires, Sending
<1>4. number_of \in {81, 88} => /\ argument \div AddressUnit = call'.sector
                                /\ call'.sector \in Sectors /\ call' = call
  <2>1. number_of \in {81, 88} => sd.return_state \in {"READ_BLOCK_WAIT", "WRITE_BLOCK_INIT"}
    BY <1>2 DEF number_of, Responses
  <2>2. sd.return_state \in {"READ_BLOCK_WAIT", "WRITE_BLOCK_INIT"}
          => sdcard.state \in {"ReadSector", "WriteSector"}
    BY <1>0 DEF CycleIn, Inv, Returns, BelongsTo, InitStates, ReadStates, WriteStates
  <2> QED
    BY <1>3, <2>1, <2>2, Serving
<1>5. mosi = sd.cmd_out[1]
  BY <1>2 DEF mosi
<1>6. /\ DOMAIN sd' = ControllerFields /\ sd'.return_state = sd.return_state
      /\ sd'.cmd_mode = sd.cmd_mode /\ sd'.response_type = sd.response_type
      /\ sd'.data_sig = sd.data_sig /\ sd'.byte_counter = sd.byte_counter /\ sd'.dout = sd.dout
      /\ sd'.boot_counter = sd.boot_counter /\ sd'.recv_data = sd.recv_data
      /\ sd'.byte_available = sd.byte_available
      /\ sd'.ready_for_next_byte = sd.ready_for_next_byte
      /\ sd'.sclk_sig = toggled
      /\ sd'.state = IF sclk = 1 /\ sd.bit_counter = 0 THEN "RECEIVE_BYTE_WAIT" ELSE sd.state
      /\ sd'.bit_counter = IF sclk = 1 /\ sd.bit_counter # 0 THEN sd.bit_counter - 1
                                                             ELSE sd.bit_counter
      /\ sd'.cmd_out = IF sclk = 1 /\ sd.bit_counter # 0 THEN Append(Tail(sd.cmd_out), 1)
                                                         ELSE sd.cmd_out
  BY <1>0, <1>1 DEF SEND_CMD, ControllerFields
<1>7. ControllerTypes'
  <2>1. sd'.bit_counter \in Nat /\ sd'.bit_counter <= 5 * BitsPerByte /\ sd'.sclk_sig \in {0, 1}
    BY <1>0, <1>2, <1>6, BitsPerByteIs DEF ControllerTypes, toggled
  <2> QED
    BY <1>0, <1>6, <2>1 DEF ControllerTypes
<1>8. number_of' = number_of
  BY <1>6 DEF number_of
<1>9. sd.sclk_sig = 0 \/ sd.sclk_sig = 1
  BY <1>0 DEF ControllerTypes
<1>10. CASE sd.sclk_sig = 0
  <2>1. /\ sd'.sclk_sig = 1 /\ sd'.state = "SEND_CMD" /\ sd'.bit_counter = sd.bit_counter
        /\ sd'.cmd_out = sd.cmd_out
    BY <1>0, <1>6, <1>10 DEF toggled, sclk
  <2>2. Rise(sd.cmd_out[1])
    BY <1>1, <1>2, <1>5, <1>10, <2>1, ClockRises
  <2>3. CASE sd.bit_counter # 0
    <3>1. CardTypes' /\ SendingCommand(sd.bit_counter, argument)' /\ stored' = stored
      BY <1>0, <1>2, <1>3, <1>6, <1>10, <2>1, <2>2, <2>3, BitOfCommand
    <3>2. Sending'
      BY <1>2, <1>4, <1>6, <1>8, <2>1, <3>1 DEF Sending
    <3>3. Wires'
      BY <2>1, <3>2 DEF Wires
    <3> QED
      BY <1>7, <3>1, <3>3 DEF WiresNext
  <2>4. CASE sd.bit_counter = 0
    <3>1. Command(number_of, argument) /\ stored' = stored
      BY <1>0, <1>2, <1>3, <1>6, <1>10, <2>1, <2>2, <2>4, BitOfCommand
    <3>3. CardTypes' /\ Commanded' /\ AnswerAfter(1)'
      BY <1>0, <1>2, <1>4, <1>6, <3>1, CommandArrives
    <3>4. SendingCommand(sd.bit_counter, argument)'
      <4>1. sd.cmd_out = <<1, 1, 1, 1, 1>>
        BY <1>3, <2>4 DEF SendingCommand
      <4>2. sclk' = 1 /\ sd'.bit_counter = 0
        BY <2>1, <2>4 DEF sclk
      <4> QED
        BY <2>1, <3>3, <4>1, <4>2 DEF SendingCommand
    <3>5. Sending'
      BY <1>2, <1>4, <1>6, <1>8, <2>1, <3>4 DEF Sending
    <3>6. Wires'
      BY <2>1, <3>5 DEF Wires
    <3> QED
      BY <1>7, <3>1, <3>3, <3>6 DEF WiresNext
  <2> QED
    BY <2>3, <2>4
<1>11. CASE sd.sclk_sig = 1
  <2>1. sd'.sclk_sig = 0
    BY <1>6, <1>11 DEF toggled
  <2>2. Fall
    BY <1>1, <1>2, <1>11, <2>1, ClockFalls
  <2>3. /\ card'.expects = card.expects /\ card'.got = card.got /\ card'.sector = card.sector
        /\ stored' = stored /\ (Quiet => Quiet') /\ CardTypes'
    <3>1. /\ card'.expects = card.expects /\ card'.got = card.got /\ card'.sector = card.sector
          /\ stored' = stored /\ (Quiet => Quiet') /\ card'.polls = card.polls
          /\ DOMAIN card' = CardFields /\ card'.answer \in Seq({0, 1}) /\ card'.miso \in {0, 1}
      BY <1>0, <2>2, LineFalls
    <3> QED
      BY <1>0, <3>1 DEF CardTypes
  <2>4. CASE sd.bit_counter = 0
    <3>1. sd'.state = "RECEIVE_BYTE_WAIT" /\ sd'.cmd_out = sd.cmd_out
      BY <1>6, <1>11, <2>4 DEF sclk
    <3>2. Commanded /\ AnswerAfter(1) /\ sd.cmd_out = <<1, 1, 1, 1, 1>>
      BY <1>3, <1>11, <2>4 DEF SendingCommand, sclk
    <3>3. AnswerAfter(0)'
      <4>1. AnswerAfter(0 + 1)
        BY <3>2
      <4> QED
        BY <1>0, <1>6, <2>2, <4>1, AnswerFalls
    <3>4. sd'.cmd_out = no_command /\ mosi' = 1
      BY <1>2, <1>6, <3>1, <3>2, NoCommand DEF mosi
    <3>5. Commanded'
      <4>1. sd.return_state \in {"READ_BLOCK_WAIT", "WRITE_BLOCK_INIT"} => call' = call
        BY <1>4 DEF number_of
      <4> QED
        BY <1>6, <2>3, <3>2, <4>1 DEF Commanded
    <3>6. Answered' /\ sd'.return_state # "WRITE_BLOCK_WAIT"
      BY <1>2, <1>6, <3>4, <3>5 DEF Answered, Responses
    <3>7. Wires'
      BY <1>2, <1>6, <3>1, <3>3, <3>4, <3>6 DEF Wires
    <3> QED
      BY <1>7, <2>3, <3>7 DEF WiresNext
  <2>5. CASE sd.bit_counter # 0
    <3>1. /\ sd'.state = "SEND_CMD" /\ sd'.cmd_out = Append(Tail(sd.cmd_out), 1)
          /\ sd'.bit_counter = sd.bit_counter - 1 /\ sd'.bit_counter \in 0 .. 4
      BY <1>0, <1>2, <1>6, <1>11, <2>5 DEF sclk
    <3>2. SendingCommand(sd.bit_counter, argument)'
      <4> DEFINE n == number_of
      <4>1. sclk = 1 /\ sclk' = 0 /\ n' = n /\ n \in Int
        BY <1>8, <1>11, <2>1 DEF sclk, number_of
      <4>2. (n # 64 => Quiet') /\ card'.expects = "command" /\ card'.got = card.got
        BY <1>3, <2>3, <2>5 DEF SendingCommand
      <4> HIDE DEF n
      <4>3. CASE sd.bit_counter = 4
        <5>3. sd'.bit_counter = 3
          BY <3>1, <4>3
        <5>1. card.got = <<>> /\ sd.cmd_out = <<1, 0, n, argument, 1>>
          BY <1>3, <4>1, <4>3 DEF SendingCommand, n
        <5>2. sd'.cmd_out = <<0, n, argument, 1, 1>>
          BY <3>1, <4>1, <5>1, CommandShifts
        <5> QED
          BY <4>1, <4>2, <5>1, <5>2, <5>3 DEF SendingCommand, n
      <4>4. CASE sd.bit_counter = 3
        <5>3. sd'.bit_counter = 2
          BY <3>1, <4>4
        <5>1. card.got = <<0>> /\ sd.cmd_out = <<0, n, argument, 1, 1>>
          BY <1>3, <4>1, <4>4 DEF SendingCommand, n
        <5>2. sd'.cmd_out = <<n, argument, 1, 1, 1>>
          BY <3>1, <4>1, <5>1, CommandShifts
        <5> QED
          BY <4>1, <4>2, <5>1, <5>2, <5>3 DEF SendingCommand, n
      <4>5. CASE sd.bit_counter = 2
        <5>3. sd'.bit_counter = 1
          BY <3>1, <4>5
        <5>1. card.got = <<0, n>> /\ sd.cmd_out = <<n, argument, 1, 1, 1>>
          BY <1>3, <4>1, <4>5 DEF SendingCommand, n
        <5>2. sd'.cmd_out = <<argument, 1, 1, 1, 1>>
          BY <3>1, <4>1, <5>1, CommandShifts
        <5> QED
          BY <4>1, <4>2, <5>1, <5>2, <5>3 DEF SendingCommand, n
      <4>6. CASE sd.bit_counter = 1
        <5>3. sd'.bit_counter = 0
          BY <3>1, <4>6
        <5>1. card.got = <<0, n, argument>> /\ sd.cmd_out = <<argument, 1, 1, 1, 1>>
          BY <1>3, <4>1, <4>6 DEF SendingCommand, n
        <5>2. sd'.cmd_out = <<1, 1, 1, 1, 1>>
          BY <3>1, <4>1, <5>1, CommandShifts
        <5> QED
          BY <4>1, <4>2, <5>1, <5>2, <5>3 DEF SendingCommand, n
      <4> QED
        BY <1>2, <2>5, <4>3, <4>4, <4>5, <4>6
    <3>3. Sending'
      BY <1>2, <1>4, <1>6, <1>8, <3>1, <3>2 DEF Sending
    <3>4. Wires'
      BY <3>1, <3>3 DEF Wires
    <3> QED
      BY <1>7, <2>3, <3>4 DEF WiresNext
  <2> QED
    BY <2>4, <2>5
<1> QED
  BY <1>9, <1>10, <1>11

\* A card that waits does not see a line that is high.
LEMMA CardWaits ==
  ASSUME CardTypes, Rise(1), card.got = <<>>, card.expects \in {"command", "token"}
  PROVE  card' = card /\ stored' = stored
BY DEF Rise

\* While the card answers it takes nothing.
LEMMA AnsweredWaits ==
  ASSUME Answered
  PROVE  card.got = <<>> /\ card.expects \in {"command", "token"} /\ mosi = 1
BY DEF Answered, Commanded, CardIdle

\* The clock of a state that listens: it rises with nothing for the card, and
\* when it falls the line moves.
LEMMA Listening ==
  ASSUME CardTypes, sd.sclk_sig \in {0, 1}, CardStep(sclk, sd'.sclk_sig, mosi),
         sd'.sclk_sig = 1 - sd.sclk_sig, mosi = 1, card.got = <<>>,
         card.expects \in {"command", "token"}
  PROVE  /\ CardTypes' /\ stored' = stored /\ card'.expects = card.expects /\ card'.got = card.got
         /\ card'.sector = card.sector
         /\ sd.sclk_sig = 0 => card' = card /\ sd'.sclk_sig = 1
         /\ sd.sclk_sig = 1 => Fall /\ sd'.sclk_sig = 0
<1>1. CASE sd.sclk_sig = 0
  <2>1. card' = card /\ stored' = stored /\ sd'.sclk_sig = 1
    BY <1>1, ClockRises, CardWaits
  <2>2. CardTypes'
    BY <2>1 DEF CardTypes
  <2> QED
    BY <1>1, <2>1, <2>2
<1>2. CASE sd.sclk_sig = 1
  <2>1. Fall /\ sd'.sclk_sig = 0
    BY <1>2, ClockFalls
  <2>2. /\ card'.expects = card.expects /\ card'.got = card.got /\ card'.sector = card.sector
        /\ stored' = stored /\ card'.polls = card.polls /\ DOMAIN card' = CardFields
        /\ card'.answer \in Seq({0, 1}) /\ card'.miso \in {0, 1}
    BY <2>1, LineFalls
  <2> QED
    BY <1>2, <2>1, <2>2 DEF CardTypes
<1> QED
  BY <1>1, <1>2

\* What is to come stays what it is while the line does.
LEMMA AnswerRests ==
  ASSUME card' = card, stored' = stored, sd'.return_state = sd.return_state,
         sd'.response_type = sd.response_type
  PROVE  /\ \A m \in Nat : /\ EndsBy(m)' = EndsBy(m) /\ BlockAfter(m)' = BlockAfter(m)
                          /\ BusyAfter(m)' = BusyAfter(m) /\ Follows(m)' = Follows(m)
         /\ \A m, p \in Nat : BlockFrom(m, p)' = BlockFrom(m, p)
         /\ \A m \in Nat : AnswerAfter(m) => AnswerAfter(m)'
<1>1. /\ \A k : line(k)' = line(k)
      /\ \A m : EndsBy(m)' = EndsBy(m)
  BY DEF line, EndsBy
<1>2. ASSUME NEW m \in Nat, NEW q \in Nat
      PROVE  ZeroAt(m, q)' = ZeroAt(m, q)
  BY <1>1 DEF ZeroAt
<1>3. ASSUME NEW m \in Nat, NEW p \in Nat
      PROVE  BlockFrom(m, p)' = BlockFrom(m, p)
  BY <1>1 DEF BlockFrom, bit_of
<1>4. ASSUME NEW m \in Nat
      PROVE  BlockAfter(m)' = BlockAfter(m)
  <2>1. ASSUME NEW q \in Nat
        PROVE  BlockFrom(q + 1, 0)' = BlockFrom(q + 1, 0)
    <3>1. q + 1 \in Nat /\ 0 \in Nat
      OBVIOUS
    <3> QED
      BY <1>3, <3>1
  <2> QED
    BY <1>2, <2>1 DEF BlockAfter
<1>5. ASSUME NEW m \in Nat
      PROVE  BusyAfter(m)' = BusyAfter(m)
  BY <1>1 DEF BusyAfter
<1>6. ASSUME NEW m \in Nat
      PROVE  Follows(m)' = Follows(m)
  BY <1>1, <1>4, <1>5 DEF Follows
<1>7. ASSUME NEW m \in Nat, AnswerAfter(m)
      PROVE  AnswerAfter(m)'
  <2>1. PICK n \in Nat : ZeroAt(m, n) /\ Follows(n + bits_of_response)
    BY <1>7 DEF AnswerAfter
  <2>2. PICK k \in Nat : k = n + bits_of_response
    BY BitsPerByteIs DEF bits_of_response
  <2>3. (n + bits_of_response)' = k
    BY <2>2 DEF bits_of_response
  <2>4. Follows(k)'
    BY <1>6, <2>1, <2>2
  <2>5. Follows(n + bits_of_response)'
    BY <2>3, <2>4
  <2> QED
    BY <1>2, <2>1, <2>5 DEF AnswerAfter
<1> QED
  BY <1>1, <1>3, <1>4, <1>5, <1>6, <1>7

\* The stream begins with the line.
LEMMA LineNow == line(0) = card.miso
BY DEF line

\* The zero is now, or it is still to come.
LEMMA ZeroNow ==
  ASSUME NEW n \in Nat, ZeroAt(0, n), card.miso \in {0, 1}
  PROVE  /\ card.miso = 0 => n = 0
         /\ card.miso = 1 => n > 0 /\ ZeroAt(1, n)
<1>1. line(n) = 0 /\ \A k \in Nat : 0 <= k /\ k < n => line(k) = 1
  BY DEF ZeroAt
<1>2. CASE card.miso = 0
  <2>1. n # 0 => line(0) = 1
    BY <1>1
  <2> QED
    BY <1>2, <2>1, LineNow
<1>3. CASE card.miso = 1
  <2>1. n # 0
    BY <1>1, <1>3, LineNow
  <2> QED
    BY <1>1, <1>3, <2>1 DEF ZeroAt
<1> QED
  BY <1>2, <1>3

\* The controller waits for the first zero, which begins the response.
LEMMA WiresReceiveByteWait ==
  ASSUME CycleIn("RECEIVE_BYTE_WAIT")
  PROVE  WiresNext /\ stored' = stored
<1>0. /\ ControllerTypes /\ CardTypes /\ DOMAIN sd = ControllerFields
      /\ sd.state = "RECEIVE_BYTE_WAIT" /\ sd.cmd_out = no_command
  BY CycleTypes
<1>1. RECEIVE_BYTE_WAIT(card.miso) /\ CardStep(sclk, sd'.sclk_sig, mosi)
  BY <1>0 DEF CycleIn, Pulse
<1>2. /\ Answered /\ AnswerAfter(0)
      /\ sd.return_state = "WRITE_BLOCK_WAIT" => Stored /\ ~sd.cmd_mode
      /\ sd.return_state \in Responses => sd.cmd_mode
      /\ sd.return_state \in Responses \cup {"WRITE_BLOCK_WAIT"}
  BY DEF CycleIn, Inv, Wires, Returns
<1>3. /\ sd.return_state \in {"READ_BLOCK_WAIT", "WRITE_BLOCK_INIT", "WRITE_BLOCK_WAIT"}
           => call' = call
  <2>1. sd.return_state \in {"READ_BLOCK_WAIT", "WRITE_BLOCK_INIT", "WRITE_BLOCK_WAIT"}
          => sdcard.state \in {"ReadSector", "WriteSector"}
    BY <1>0 DEF CycleIn, Inv, Returns, BelongsTo, InitStates, ReadStates, WriteStates
  <2> QED
    BY <2>1, Serving
<1> DEFINE starts == sclk = 1 /\ card.miso = 0
<1>4. /\ DOMAIN sd' = ControllerFields /\ sd'.return_state = sd.return_state
      /\ sd'.cmd_mode = sd.cmd_mode /\ sd'.response_type = sd.response_type
      /\ sd'.data_sig = sd.data_sig /\ sd'.byte_counter = sd.byte_counter /\ sd'.dout = sd.dout
      /\ sd'.boot_counter = sd.boot_counter /\ sd'.cmd_out = sd.cmd_out
      /\ sd'.byte_available = sd.byte_available
      /\ sd'.ready_for_next_byte = sd.ready_for_next_byte
      /\ sd'.sclk_sig = 1 - sd.sclk_sig
      /\ sd'.recv_data = IF starts THEN 0 ELSE sd.recv_data
      /\ sd'.state = IF starts THEN "RECEIVE_BYTE" ELSE sd.state
      /\ sd'.bit_counter = IF starts THEN response_bits ELSE sd.bit_counter
  BY <1>0, <1>1 DEF RECEIVE_BYTE_WAIT, ControllerFields, toggled
<1>5. sd.sclk_sig \in {0, 1} /\ card.miso \in {0, 1}
  BY <1>0 DEF ControllerTypes, CardTypes
<1>6. ControllerTypes'
  <2>1. response_bits \in Nat /\ response_bits <= 5 * BitsPerByte
    BY BitsPerByteIs DEF response_bits
  <2>2. 0 \in ByteValues
    BY ByteRange
  <2> QED
    BY <1>0, <1>4, <1>5, <2>1, <2>2 DEF ControllerTypes
<1>7. /\ CardTypes' /\ stored' = stored /\ card'.expects = card.expects /\ card'.got = card.got
      /\ card'.sector = card.sector
      /\ sd.sclk_sig = 0 => card' = card /\ sd'.sclk_sig = 1
      /\ sd.sclk_sig = 1 => Fall /\ sd'.sclk_sig = 0
  BY <1>0, <1>1, <1>2, <1>4, <1>5, AnsweredWaits, Listening
<1>8. Answered' /\ (sd.return_state = "WRITE_BLOCK_WAIT" => Stored')
  <2>1. mosi' = mosi
    BY <1>4 DEF mosi
  <2>2. sd.return_state # "WRITE_BLOCK_WAIT" => (Commanded => Commanded')
    BY <1>3, <1>4, <1>7 DEF Commanded
  <2>3. sd.return_state = "WRITE_BLOCK_WAIT" => Stored'
    BY <1>2, <1>3, <1>4, <1>7 DEF Stored, CardIdle
  <2>4. CardIdle => CardIdle'
    BY <1>7 DEF CardIdle
  <2> QED
    BY <1>2, <1>4, <2>1, <2>2, <2>3, <2>4 DEF Answered
<1>9. CASE ~starts
  <2>1. AnswerAfter(0)'
    <3>1. CASE sd.sclk_sig = 0
      <4>1. card' = card
        BY <1>7, <3>1
      <4> QED
        BY <1>2, <1>4, <1>7, <4>1, AnswerRests
    <3>2. CASE sd.sclk_sig = 1
      <4>1. card.miso = 1 /\ Fall
        BY <1>5, <1>7, <1>9, <3>2 DEF sclk
      <4>2. AnswerAfter(0 + 1)
        BY <1>2, <4>1, ZeroNow DEF AnswerAfter
      <4> QED
        BY <1>0, <1>4, <4>1, <4>2, AnswerFalls
    <3> QED
      BY <1>5, <3>1, <3>2
  <2>2. sd'.state = "RECEIVE_BYTE_WAIT"
    BY <1>0, <1>4, <1>9
  <2>3. Wires'
    BY <1>0, <1>2, <1>4, <1>8, <2>1, <2>2 DEF Wires
  <2> QED
    BY <1>6, <1>7, <2>3 DEF WiresNext
<1>10. CASE starts
  <2>1. Fall /\ card.miso = 0
    BY <1>5, <1>7, <1>10 DEF sclk
  <2>2. Follows(bits_of_response)
    <3>1. PICK n \in Nat : ZeroAt(0, n) /\ Follows(n + bits_of_response)
      BY <1>2 DEF AnswerAfter
    <3>2. n = 0
      BY <1>5, <2>1, <3>1, ZeroNow
    <3>3. n + bits_of_response = bits_of_response
      BY <3>2, BitsPerByteIs DEF bits_of_response
    <3> QED
      BY <3>1, <3>3
  <2>3. PICK m \in Nat : m + 1 = bits_of_response /\ m = response_bits + 1
    <3>1. response_bits + 1 \in Nat /\ (response_bits + 1) + 1 = bits_of_response
      BY BitsPerByteIs DEF response_bits, bits_of_response
    <3> QED
      BY <3>1
  <2>4. Follows(m)'
    BY <1>0, <1>4, <2>1, <2>2, <2>3, FollowsFalls
  <2>5. sd'.state = "RECEIVE_BYTE" /\ sd'.bit_counter + 1 = m
    BY <1>4, <1>10, <2>3
  <2>6. Follows(sd.bit_counter + 1)'
    BY <2>4, <2>5
  <2>7. sd'.return_state \notin {"READ_BLOCK_DATA", "READ_BLOCK_CRC", "IDLE"}
    BY <1>2, <1>4 DEF Responses
  <2>8. Wires'
    BY <1>0, <1>2, <1>4, <1>8, <2>5, <2>6, <2>7 DEF Wires
  <2> QED
    BY <1>6, <1>7, <2>8 DEF WiresNext
<1> QED
  BY <1>9, <1>10

\* One pulse of RECEIVE_BYTE.
LEMMA ReceivesBit ==
  ASSUME CycleIn("RECEIVE_BYTE")
  PROVE  /\ DOMAIN sd' = ControllerFields /\ sd'.return_state = sd.return_state
         /\ sd'.cmd_mode = sd.cmd_mode /\ sd'.response_type = sd.response_type
         /\ sd'.data_sig = sd.data_sig /\ sd'.byte_counter = sd.byte_counter /\ sd'.dout = sd.dout
         /\ sd'.boot_counter = sd.boot_counter /\ sd'.cmd_out = no_command
         /\ sd'.byte_available = FALSE /\ sd.cmd_out = no_command
         /\ sd'.ready_for_next_byte = sd.ready_for_next_byte
         /\ ControllerTypes' /\ CardTypes' /\ stored' = stored /\ CardTypes /\ ControllerTypes
         /\ card'.expects = card.expects /\ card'.got = card.got /\ card'.sector = card.sector
         /\ sd.sclk_sig = 0 => /\ card' = card /\ sd'.sclk_sig = 1 /\ sd'.state = "RECEIVE_BYTE"
                               /\ sd'.recv_data = sd.recv_data /\ sd'.bit_counter = sd.bit_counter
         /\ sd.sclk_sig = 1 =>
              /\ Fall /\ sd'.sclk_sig = 0 /\ sd'.recv_data = shifted_in(sd.recv_data, card.miso)
              /\ sd.bit_counter = 0 => sd'.state = sd.return_state /\ sd'.bit_counter = 0
              /\ sd.bit_counter > 0 => /\ sd'.state = "RECEIVE_BYTE"
                                       /\ sd'.bit_counter = sd.bit_counter - 1
<1>0. /\ ControllerTypes /\ CardTypes /\ DOMAIN sd = ControllerFields
      /\ sd.state = "RECEIVE_BYTE" /\ sd.cmd_out = no_command
  BY CycleTypes
<1>1. RECEIVE_BYTE(card.miso) /\ CardStep(sclk, sd'.sclk_sig, mosi)
  BY <1>0 DEF CycleIn, Pulse
<1>2. mosi = 1 /\ card.got = <<>> /\ card.expects \in {"command", "token"}
  <2>1. CASE sd.return_state \in Responses \cup {"WRITE_BLOCK_WAIT"}
    <3>1. Answered
      BY <1>0, <2>1 DEF CycleIn, Inv, Wires
    <3> QED
      BY <3>1, AnsweredWaits
  <2>2. CASE sd.return_state \in {"READ_BLOCK_DATA", "READ_BLOCK_CRC", "IDLE"}
    <3>1. CardIdle /\ sd.cmd_mode
      BY <1>0, <2>2 DEF CycleIn, Inv, Wires, ReceivingBlock, LastBits
    <3> QED
      BY <1>0, <3>1, NoCommand DEF mosi, CardIdle
  <2> QED
    BY <1>0, <2>1, <2>2 DEF CycleIn, Inv, Returns
<1>3. /\ DOMAIN sd' = ControllerFields /\ sd'.return_state = sd.return_state
      /\ sd'.cmd_mode = sd.cmd_mode /\ sd'.response_type = sd.response_type
      /\ sd'.data_sig = sd.data_sig /\ sd'.byte_counter = sd.byte_counter /\ sd'.dout = sd.dout
      /\ sd'.boot_counter = sd.boot_counter /\ sd'.cmd_out = sd.cmd_out
      /\ sd'.byte_available = FALSE
      /\ sd'.ready_for_next_byte = sd.ready_for_next_byte
      /\ sd'.sclk_sig = 1 - sd.sclk_sig
      /\ sd'.recv_data = IF sclk = 1 THEN shifted_in(sd.recv_data, card.miso) ELSE sd.recv_data
      /\ sd'.state = IF sclk = 1 /\ sd.bit_counter = 0 THEN sd.return_state ELSE sd.state
      /\ sd'.bit_counter = IF sclk = 1 /\ sd.bit_counter # 0 THEN sd.bit_counter - 1
                                                             ELSE sd.bit_counter
  BY <1>0, <1>1 DEF RECEIVE_BYTE, ControllerFields, toggled
<1>4. /\ sd.sclk_sig \in {0, 1} /\ sd.bit_counter \in Nat /\ card.miso \in {0, 1}
      /\ sd.recv_data \in ByteValues
  BY <1>0 DEF ControllerTypes, CardTypes
<1>5. /\ CardTypes' /\ stored' = stored /\ card'.expects = card.expects /\ card'.got = card.got
      /\ card'.sector = card.sector
      /\ sd.sclk_sig = 0 => card' = card /\ sd'.sclk_sig = 1
      /\ sd.sclk_sig = 1 => Fall /\ sd'.sclk_sig = 0
  BY <1>0, <1>1, <1>2, <1>3, <1>4, Listening
<1>6. ControllerTypes'
  <2>1. sd'.recv_data \in ByteValues
    BY <1>3, <1>4, ShiftedIn
  <2>2. sd'.bit_counter \in Nat /\ sd'.bit_counter <= sd.bit_counter
    BY <1>3, <1>4
  <2>3. sd'.bit_counter <= InitPulses \/ sd'.bit_counter <= 5 * BitsPerByte
    BY <1>0, <1>4, <2>2, BitsPerByteIs, SdControllerAssumption DEF ControllerTypes
  <2>4. sd'.sclk_sig \in {0, 1}
    BY <1>3, <1>4
  <2> QED
    BY <1>0, <1>3, <2>1, <2>2, <2>3, <2>4 DEF ControllerTypes
<1>7. sd.sclk_sig = 0 => /\ sd'.state = "RECEIVE_BYTE"
                         /\ sd'.recv_data = sd.recv_data /\ sd'.bit_counter = sd.bit_counter
  BY <1>0, <1>3 DEF sclk
<1>8. sd.sclk_sig = 1 => /\ sd'.recv_data = shifted_in(sd.recv_data, card.miso)
                         /\ sd.bit_counter = 0 => sd'.state = sd.return_state /\ sd'.bit_counter = 0
                         /\ sd.bit_counter > 0 => /\ sd'.state = "RECEIVE_BYTE"
                                                  /\ sd'.bit_counter = sd.bit_counter - 1
  BY <1>0, <1>3, <1>4 DEF sclk
<1> QED
  BY <1>0, <1>3, <1>5, <1>6, <1>7, <1>8

\* The bits of a response, and of the answer to a block.
LEMMA WiresResponse ==
  ASSUME CycleIn("RECEIVE_BYTE"), sd.return_state \in Responses \cup {"WRITE_BLOCK_WAIT"}
  PROVE  WiresNext /\ stored' = stored
<1>1. /\ DOMAIN sd' = ControllerFields /\ sd'.return_state = sd.return_state
      /\ sd'.cmd_mode = sd.cmd_mode /\ sd'.response_type = sd.response_type
      /\ sd'.data_sig = sd.data_sig /\ sd'.cmd_out = no_command /\ sd.cmd_out = no_command
      /\ ControllerTypes' /\ CardTypes' /\ stored' = stored /\ CardTypes /\ ControllerTypes
      /\ card'.expects = card.expects /\ card'.got = card.got /\ card'.sector = card.sector
      /\ sd.sclk_sig = 0 => /\ card' = card /\ sd'.sclk_sig = 1 /\ sd'.state = "RECEIVE_BYTE"
                            /\ sd'.bit_counter = sd.bit_counter
      /\ sd.sclk_sig = 1 =>
           /\ Fall /\ sd'.sclk_sig = 0
           /\ sd.bit_counter = 0 => sd'.state = sd.return_state /\ sd'.bit_counter = 0
           /\ sd.bit_counter > 0 => /\ sd'.state = "RECEIVE_BYTE"
                                    /\ sd'.bit_counter = sd.bit_counter - 1
  BY ReceivesBit
<1>2. /\ Answered /\ Follows(sd.bit_counter + 1)
      /\ sd.return_state = "WRITE_BLOCK_WAIT" => Stored /\ ~sd.cmd_mode
      /\ sd.return_state \in Responses => sd.cmd_mode
      /\ sd.state = "RECEIVE_BYTE"
  BY DEF CycleIn, Inv, Wires
<1>3. sd.return_state \in {"READ_BLOCK_WAIT", "WRITE_BLOCK_INIT", "WRITE_BLOCK_WAIT"} => call' = call
  <2>1. sd.return_state \in {"READ_BLOCK_WAIT", "WRITE_BLOCK_INIT", "WRITE_BLOCK_WAIT"}
          => sdcard.state \in {"ReadSector", "WriteSector"}
    BY DEF CycleIn, Inv, Returns, BelongsTo, InitStates, ReadStates, WriteStates
  <2> QED
    BY <2>1, Serving
<1>4. /\ Answered' /\ (sd.return_state = "WRITE_BLOCK_WAIT" => Stored')
      /\ sd.return_state # "WRITE_BLOCK_WAIT" => Commanded'
  <2>1. mosi' = mosi
    BY <1>1 DEF mosi
  <2>2. sd.return_state # "WRITE_BLOCK_WAIT" => Commanded'
    BY <1>1, <1>2, <1>3 DEF Answered, Commanded
  <2>3. sd.return_state = "WRITE_BLOCK_WAIT" => Stored'
    BY <1>1, <1>2, <1>3 DEF Stored, CardIdle
  <2>4. sd.return_state = "WRITE_BLOCK_WAIT" => CardIdle'
    BY <1>1, <1>2 DEF CardIdle, Answered
  <2> QED
    BY <1>1, <1>2, <2>1, <2>2, <2>3, <2>4 DEF Answered
<1>5. sd.sclk_sig \in {0, 1} /\ sd.bit_counter \in Nat
  BY <1>1 DEF ControllerTypes
<1>6. sd'.return_state \notin {"READ_BLOCK_DATA", "READ_BLOCK_CRC", "IDLE"}
  BY <1>1 DEF Responses
<1>7. CASE sd'.state = "RECEIVE_BYTE"
  <2>1. Follows(sd.bit_counter + 1)'
    <3>1. CASE sd.sclk_sig = 0
      <4>1. PICK m \in Nat : m = sd.bit_counter + 1
        BY <1>5
      <4>2. Follows(m)'
        BY <1>1, <1>2, <3>1, <4>1, AnswerRests
      <4>3. sd'.bit_counter + 1 = m
        BY <1>1, <3>1, <4>1
      <4> QED
        BY <4>2, <4>3
    <3>2. CASE sd.sclk_sig = 1
      <4>1. sd.bit_counter > 0
        BY <1>1, <1>5, <1>6, <1>7, <3>2 DEF Responses
      <4>2. PICK m \in Nat : m = sd.bit_counter
        BY <1>5
      <4>3. Follows(m)'
        BY <1>1, <1>2, <3>2, <4>2, FollowsFalls
      <4>4. sd'.bit_counter + 1 = m
        BY <1>1, <1>5, <3>2, <4>1, <4>2
      <4> QED
        BY <4>3, <4>4
    <3> QED
      BY <1>5, <3>1, <3>2
  <2>2. Wires'
    BY <1>1, <1>2, <1>4, <1>6, <1>7, <2>1 DEF Wires
  <2> QED
    BY <1>1, <2>2 DEF WiresNext
<1>8. CASE sd'.state # "RECEIVE_BYTE"
  <2>1. sd.sclk_sig = 1 /\ sd.bit_counter = 0
    BY <1>1, <1>5, <1>8
  <2>2. Follows(0)' /\ sd'.state = sd.return_state /\ sd'.sclk_sig = 0
    <3>1. Follows(0 + 1)
      BY <1>2, <2>1
    <3> QED
      BY <1>1, <2>1, <3>1, FollowsFalls
  <2>3. CASE sd.return_state \in {"CMD8", "CMD55", "CMD41", "POLL_CMD"}
    <3>1. Quiet' /\ CardIdle'
      BY <1>1, <1>4, <2>2, <2>3 DEF Follows, Quiet, Commanded, CardIdle
    <3>2. Resting'
      BY <1>1, <1>2, <2>2, <3>1 DEF Resting, Answered
    <3>3. Wires'
      BY <1>1, <1>2, <2>2, <2>3, <3>2 DEF Wires, Responses
    <3> QED
      BY <1>1, <3>3 DEF WiresNext
  <2>4. CASE sd.return_state = "READ_BLOCK_WAIT"
    <3>1. BlockAfter(0)' /\ CardIdle' /\ card'.sector = call'.sector /\ sd'.cmd_mode
      BY <1>1, <1>2, <1>4, <2>2, <2>4 DEF Follows, Commanded, CardIdle, Responses, Answered
    <3>2. Wires'
      BY <1>1, <2>2, <2>4, <3>1 DEF Wires
    <3> QED
      BY <1>1, <3>2 DEF WiresNext
  <2>5. CASE sd.return_state = "WRITE_BLOCK_INIT"
    <3>1. /\ Quiet' /\ card'.expects = "token" /\ card'.got = <<>> /\ card'.sector = call'.sector
          /\ sd'.response_type = 1
      BY <1>1, <1>2, <1>4, <2>2, <2>5 DEF Follows, Commanded, Quiet, Answered
    <3>2. Wires'
      BY <1>1, <2>2, <2>5, <3>1 DEF Wires
    <3> QED
      BY <1>1, <3>2 DEF WiresNext
  <2>6. CASE sd.return_state = "WRITE_BLOCK_WAIT"
    <3>1. BusyAfter(0)' /\ Stored' /\ ~sd'.cmd_mode
      BY <1>1, <1>2, <1>4, <2>2, <2>6 DEF Follows, Answered
    <3>2. Wires'
      BY <1>1, <2>2, <2>6, <3>1 DEF Wires
    <3> QED
      BY <1>1, <3>2 DEF WiresNext
  <2> QED
    BY <2>3, <2>4, <2>5, <2>6 DEF Responses
<1> QED
  BY <1>7, <1>8

\* The bit of a block that is on the line, and the rest of it.
LEMMA BlockBit ==
  ASSUME NEW p \in Nat, p < SectorBits, BlockFrom(0, p)
  PROVE  card.miso = bit_of(stored[card.sector], p) /\ BlockFrom(1, p + 1)
<1>0. SectorBits \in Nat /\ BitsPerByte \in Nat
  BY SizeIs, BitsPerByteIs
<1>1. /\ \A j \in Nat : p + j < SectorBits => line(0 + j) = bit_of(stored[card.sector], p + j)
      /\ EndsBy(0 + SectorBits - p + 2 * BitsPerByte)
  BY DEF BlockFrom
<1>2. card.miso = bit_of(stored[card.sector], p)
  <2>1. p + 0 = p /\ 0 + 0 = 0 /\ 0 \in Nat
    OBVIOUS
  <2>2. line(0 + 0) = bit_of(stored[card.sector], p + 0)
    BY <1>1, <2>1
  <2> QED
    BY <2>1, <2>2, LineNow
<1>3. ASSUME NEW j \in Nat, (p + 1) + j < SectorBits
      PROVE  line(1 + j) = bit_of(stored[card.sector], (p + 1) + j)
  <2>1. 1 + j \in Nat /\ p + (1 + j) = (p + 1) + j /\ 0 + (1 + j) = 1 + j
    OBVIOUS
  <2>2. line(0 + (1 + j)) = bit_of(stored[card.sector], p + (1 + j))
    BY <1>0, <1>1, <1>3, <2>1
  <2> QED
    BY <2>1, <2>2
<1>4. EndsBy(1 + SectorBits - (p + 1) + 2 * BitsPerByte)
  <2>1. 1 + SectorBits - (p + 1) + 2 * BitsPerByte = 0 + SectorBits - p + 2 * BitsPerByte
    BY <1>0
  <2> QED
    BY <1>1, <2>1
<1> QED
  BY <1>2, <1>3, <1>4 DEF BlockFrom

\* What sd_controller.v reads is the sector of the call.
LEMMA ReadsTheSector ==
  ASSUME NEW state, CycleIn(state),
         \/ state \in ReadStates
         \/ /\ state = "RECEIVE_BYTE"
            /\ sd.return_state \in {"READ_BLOCK_DATA", "READ_BLOCK_CRC", "IDLE"}
  PROVE  /\ sdcard.state = "ReadSector" /\ call' = call /\ call.sector \in Sectors
         /\ stored[call.sector] \in Contents
<1>1. sd.state = state /\ CardTypes
  BY CycleTypes
<1>2. sdcard.state = "ReadSector"
  <2>1. CASE state \in ReadStates
    BY <1>1, <2>1 DEF CycleIn, Inv, Returns, BelongsTo, InitStates, ReadStates, WriteStates
  <2>2. CASE state = "RECEIVE_BYTE" /\ sd.return_state = "IDLE"
    BY <1>1, <2>2 DEF CycleIn, Inv, Returns
  <2>3. CASE state = "RECEIVE_BYTE" /\ sd.return_state \in {"READ_BLOCK_DATA", "READ_BLOCK_CRC"}
    BY <1>1, <2>3 DEF CycleIn, Inv, Returns, BelongsTo, InitStates, ReadStates, WriteStates
  <2> QED
    BY <2>1, <2>2, <2>3
<1>3. call' = call /\ call.sector \in Sectors
  BY <1>2, Serving
<1> QED
  BY <1>1, <1>2, <1>3 DEF CardTypes

\* Where the next bit of the block is in the sector.
LEMMA ReceivedBits ==
  ASSUME NEW b \in 0 .. SectorSize - 1, NEW c \in 0 .. BitsPerByte - 1
  PROVE  /\ SectorSize - 1 - b \in Indices /\ BitsPerByte - 1 - c \in 0 .. BitsPerByte - 1
         /\ (SectorSize - 1 - b) * BitsPerByte \in Nat
         /\ (SectorSize - 1 - b) * BitsPerByte + (BitsPerByte - 1 - c) \in 0 .. SectorBits - 1
         /\ \A f : bit_of(f, (SectorSize - 1 - b) * BitsPerByte + (BitsPerByte - 1 - c))
                     = bits_of(f[SectorSize - 1 - b])[BitsPerByte - c]
<1>1. SectorSize - 1 - b \in Indices /\ SectorSize - 1 - b \in Nat
  BY SizeIs DEF Indices
<1>2. BitsPerByte - 1 - c \in 0 .. BitsPerByte - 1 /\ (BitsPerByte - 1 - c) + 1 = BitsPerByte - c
  BY BitsPerByteIs
<1>3. (SectorSize - 1 - b) * BitsPerByte \in Nat
  BY <1>1, BitsPerByteIs
<1> DEFINE n == SectorSize - 1 - b
           r == BitsPerByte - 1 - c
<1>4. n \in Indices /\ r \in 0 .. BitsPerByte - 1
  BY <1>1, <1>2
<1> HIDE DEF n, r
<1>5. ASSUME NEW f
      PROVE  n * BitsPerByte + r \in 0 .. SectorBits - 1
             /\ bit_of(f, n * BitsPerByte + r) = bits_of(f[n])[r + 1]
  BY <1>4, BitPosition
<1> QED
  BY <1>1, <1>2, <1>3, <1>5 DEF n, r

\* A bit of a byte of the block is received.
LEMMA WiresByteOfBlock ==
  ASSUME CycleIn("RECEIVE_BYTE"), sd.return_state = "READ_BLOCK_DATA"
  PROVE  WiresNext /\ stored' = stored
<1>1. /\ DOMAIN sd' = ControllerFields /\ sd'.return_state = sd.return_state
      /\ sd'.cmd_mode = sd.cmd_mode /\ sd'.byte_counter = sd.byte_counter
      /\ sd'.cmd_out = no_command /\ sd'.response_type = sd.response_type
      /\ ControllerTypes' /\ CardTypes' /\ stored' = stored /\ CardTypes /\ ControllerTypes
      /\ card'.expects = card.expects /\ card'.got = card.got /\ card'.sector = card.sector
      /\ sd.sclk_sig = 0 => /\ card' = card /\ sd'.sclk_sig = 1 /\ sd'.state = "RECEIVE_BYTE"
                            /\ sd'.recv_data = sd.recv_data /\ sd'.bit_counter = sd.bit_counter
      /\ sd.sclk_sig = 1 =>
           /\ Fall /\ sd'.sclk_sig = 0 /\ sd'.recv_data = shifted_in(sd.recv_data, card.miso)
           /\ sd.bit_counter = 0 => sd'.state = sd.return_state /\ sd'.bit_counter = 0
           /\ sd.bit_counter > 0 => /\ sd'.state = "RECEIVE_BYTE"
                                    /\ sd'.bit_counter = sd.bit_counter - 1
  BY ReceivesBit
<1>2. ReceivingBlock /\ sd.state = "RECEIVE_BYTE"
  BY DEF CycleIn, Inv, Wires
<1>3. call' = call /\ call.sector \in Sectors /\ stored[call.sector] \in Contents
  BY ReadsTheSector
<1>4. PICK b \in 0 .. SectorSize - 1 : b = sd.byte_counter
  BY <1>2 DEF ReceivingBlock
<1>5. PICK c \in 0 .. BitsPerByte - 1 : c = sd.bit_counter
  BY <1>2 DEF ReceivingBlock
<1>6. PICK f \in Contents : f = stored[call.sector] /\ stored'[call'.sector] = f
  BY <1>1, <1>3
<1> DEFINE n == SectorSize - 1 - b
           p == n * BitsPerByte + (BitsPerByte - 1 - c)
           x == f[n]
<1>7. /\ n \in Indices /\ p \in Nat /\ p < SectorBits /\ n * BitsPerByte \in Nat
      /\ bit_of(f, p) = bits_of(x)[BitsPerByte - c]
  BY SizeIs, ReceivedBits
<1>8. x \in ByteValues
  BY <1>7, BytesAreBytes
<1>9. /\ CardIdle /\ sd.cmd_mode /\ card.sector = call.sector
      /\ BlockFrom(0, p) /\ sd.recv_data % 2 ^ (BitsPerByte - 1 - c) = x \div 2 ^ (c + 1)
  BY <1>2, <1>4, <1>5, <1>6 DEF ReceivingBlock, received_bits
<1>10. sd.sclk_sig \in {0, 1} /\ sd.recv_data \in ByteValues /\ c \in Nat /\ b \in Nat
  BY <1>1, BitsPerByteIs, SizeIs DEF ControllerTypes
<1>11. CASE sd.sclk_sig = 0
  <2>1. /\ BlockFrom(0, p)' /\ CardIdle'
    <3>1. PICK q \in Nat : q = p
      BY <1>7
    <3> HIDE DEF p
    <3>2. BlockFrom(0, q)'
      BY <1>1, <1>9, <1>11, <3>1, AnswerRests
    <3> QED
      BY <1>1, <1>9, <3>1, <3>2 DEF CardIdle
  <2>2. ReceivingBlock'
    <3>1. received_bits' = p
      BY <1>1, <1>4, <1>5, <1>11 DEF received_bits
    <3>2. BlockFrom(0, received_bits)'
      BY <2>1, <3>1
    <3> QED
      BY <1>1, <1>2, <1>3, <1>4, <1>5, <1>6, <1>9, <1>11, <2>1, <3>2 DEF ReceivingBlock
  <2>3. Wires'
    BY <1>1, <1>11, <2>2 DEF Wires, Responses
  <2> QED
    BY <1>1, <2>3 DEF WiresNext
<1>12. CASE sd.sclk_sig = 1
  <2>1. card.miso = bits_of(x)[BitsPerByte - c] /\ BlockFrom(1, p + 1)
    BY <1>6, <1>7, <1>9, BlockBit
  <2>2. BlockFrom(0, p + 1)' /\ CardIdle'
    <3>1. PICK q \in Nat : q = p + 1 /\ q <= SectorBits
      BY <1>7, SizeIs
    <3> HIDE DEF p
    <3>2. PICK m \in Nat : m = 0
      OBVIOUS
    <3>a. BlockFrom(m + 1, q) /\ q \in Nat
      BY <1>7, <2>1, <3>1, <3>2
    <3>b. BlockFrom(m, q)'
      BY <1>1, <1>12, <3>1, <3>a, BlockFalls
    <3>3. BlockFrom(0, q)'
      BY <3>2, <3>b
    <3>4. (p + 1)' = q
      BY <3>1 DEF p
    <3> QED
      BY <1>1, <1>9, <3>3, <3>4 DEF CardIdle
  <2>3. sd'.recv_data % 2 ^ (BitsPerByte - c) = x \div 2 ^ c /\ sd'.recv_data \in ByteValues
    <3> HIDE DEF x, p
    <3> QED
      BY <1>1, <1>8, <1>9, <1>10, <1>12, <2>1, ReceivesBits DEF ControllerTypes
  <2>4. CASE c = 0
    <3>1. sd'.state = "READ_BLOCK_DATA" /\ sd'.sclk_sig = 0
      BY <1>1, <1>5, <1>12, <2>4
    <3>2. sd'.recv_data = x
      <4>1. sd'.recv_data % 2 ^ BitsPerByte = x \div 2 ^ 0
        BY <2>3, <2>4, BitsPerByteIs
      <4> QED
        BY <1>8, <2>3, <4>1, AllReceived
    <3>3. received_bits' = p + 1
      BY <1>1, <1>4, <1>7, <2>4, <3>1, BitsPerByteIs DEF received_bits
    <3>4. BlockFrom(0, received_bits)'
      BY <2>2, <3>3
    <3>5. ReceivingBlock'
      BY <1>1, <1>2, <1>3, <1>4, <1>6, <1>9, <2>2, <3>1, <3>2, <3>4 DEF ReceivingBlock
    <3>6. Wires'
      BY <1>1, <3>1, <3>5 DEF Wires
    <3> QED
      BY <1>1, <3>6 DEF WiresNext
  <2>5. CASE c > 0
    <3>1. sd'.state = "RECEIVE_BYTE" /\ sd'.sclk_sig = 0 /\ sd'.bit_counter = c - 1
      BY <1>1, <1>5, <1>12, <2>5
    <3>2. c - 1 \in 0 .. BitsPerByte - 1 /\ BitsPerByte - 1 - (c - 1) = BitsPerByte - c /\ (c - 1) + 1 = c
      BY <1>10, <2>5, BitsPerByteIs
    <3>3. received_bits' = p + 1
      BY <1>1, <1>4, <1>7, <1>10, <3>1, BitsPerByteIs DEF received_bits
    <3>4. BlockFrom(0, received_bits)'
      BY <2>2, <3>3
    <3>5. sd'.recv_data % 2 ^ (BitsPerByte - 1 - sd'.bit_counter) = x \div 2 ^ (sd'.bit_counter + 1)
      BY <2>3, <3>1, <3>2
    <3>6. ReceivingBlock'
      BY <1>1, <1>2, <1>3, <1>4, <1>6, <1>9, <2>2, <3>1, <3>2, <3>4, <3>5 DEF ReceivingBlock
    <3>7. Wires'
      BY <1>1, <3>1, <3>6 DEF Wires, Responses
    <3> QED
      BY <1>1, <3>7 DEF WiresNext
  <2> QED
    BY <1>10, <2>4, <2>5
<1> QED
  BY <1>10, <1>11, <1>12

\* The two bytes after a block: only that the line is quiet after them matters.
LEMMA WiresCheckSum ==
  ASSUME CycleIn("RECEIVE_BYTE"), sd.return_state \in {"READ_BLOCK_CRC", "IDLE"}
  PROVE  WiresNext /\ stored' = stored
<1>1. /\ sd'.return_state = sd.return_state
      /\ sd'.cmd_mode = sd.cmd_mode /\ sd'.response_type = sd.response_type
      /\ sd'.cmd_out = no_command
      /\ ControllerTypes' /\ CardTypes' /\ stored' = stored /\ CardTypes /\ ControllerTypes
      /\ card'.expects = card.expects /\ card'.got = card.got
      /\ sd.sclk_sig = 0 => /\ card' = card /\ sd'.sclk_sig = 1 /\ sd'.state = "RECEIVE_BYTE"
                            /\ sd'.bit_counter = sd.bit_counter
      /\ sd.sclk_sig = 1 =>
           /\ Fall /\ sd'.sclk_sig = 0
           /\ sd.bit_counter = 0 => sd'.state = sd.return_state /\ sd'.bit_counter = 0
           /\ sd.bit_counter > 0 => /\ sd'.state = "RECEIVE_BYTE"
                                    /\ sd'.bit_counter = sd.bit_counter - 1
  BY ReceivesBit
<1>2. PICK tail \in {0, BitsPerByte} : tail = IF sd.return_state = "IDLE" THEN 0 ELSE BitsPerByte
  OBVIOUS
<1>3. /\ LastBits /\ sd.state = "RECEIVE_BYTE" /\ EndsBy(sd.bit_counter + 1 + tail)
  <2>1. CASE sd.return_state = "IDLE"
    <3>1. LastBits /\ sd.state = "RECEIVE_BYTE" /\ EndsBy(sd.bit_counter + 1)
      BY <2>1 DEF CycleIn, Inv, Wires
    <3>2. sd.bit_counter + 1 + tail = sd.bit_counter + 1
      BY <1>1, <1>2, <2>1 DEF ControllerTypes
    <3> QED
      BY <3>1, <3>2
  <2>2. CASE sd.return_state = "READ_BLOCK_CRC"
    BY <1>2, <2>2 DEF CycleIn, Inv, Wires
  <2> QED
    BY <2>1, <2>2
<1>4. tail \in Nat /\ sd.sclk_sig \in {0, 1} /\ sd.bit_counter \in Nat
  BY <1>1, BitsPerByteIs DEF ControllerTypes
<1>5. LastBits'
  BY <1>1, <1>3 DEF LastBits, CardIdle
<1>6. CASE sd.sclk_sig = 0
  <2>1. EndsBy(sd.bit_counter + 1 + tail)'
    <3>1. PICK m \in Nat : m = sd.bit_counter + 1 + tail
      BY <1>4
    <3>2. EndsBy(m)'
      BY <1>1, <1>3, <1>6, <3>1, AnswerRests
    <3>3. sd'.bit_counter + 1 + tail = m
      BY <1>1, <1>6, <3>1
    <3> QED
      BY <3>2, <3>3
  <2>2. EndsBy(sd.bit_counter + 1)' \/ sd'.return_state # "IDLE"
    <3>1. tail = 0 => sd'.bit_counter + 1 + tail = sd'.bit_counter + 1
      BY <1>1, <1>4, <1>6
    <3> QED
      BY <1>1, <1>2, <2>1, <3>1
  <2>3. EndsBy(sd.bit_counter + 1 + BitsPerByte)' \/ sd'.return_state # "READ_BLOCK_CRC"
    BY <1>1, <1>2, <2>1
  <2>4. Wires'
    BY <1>1, <1>5, <1>6, <2>2, <2>3 DEF Wires, Responses
  <2> QED
    BY <1>1, <2>4 DEF WiresNext
<1>7. CASE sd.sclk_sig = 1
  <2>1. PICK m \in Nat : m = sd.bit_counter + tail
    BY <1>4
  <2>2. EndsBy(m)'
    <3>1. m + 1 = sd.bit_counter + 1 + tail
      BY <1>4, <2>1
    <3> QED
      BY <1>1, <1>3, <1>7, <3>1, LineFalls
  <2>3. CASE sd.bit_counter = 0
    <3>1. sd'.state = sd.return_state /\ sd'.sclk_sig = 0 /\ m = tail
      BY <1>1, <1>4, <1>7, <2>1, <2>3
    <3>2. CASE sd.return_state = "IDLE"
      <4>1. Quiet'
        BY <1>2, <2>2, <3>1, <3>2 DEF Quiet
      <4>2. Resting' /\ sd'.cmd_mode
        BY <1>5, <3>1, <4>1 DEF Resting, LastBits
      <4>3. Wires'
        BY <1>1, <3>1, <3>2, <4>2 DEF Wires
      <4> QED
        BY <1>1, <4>3 DEF WiresNext
    <3>3. CASE sd.return_state = "READ_BLOCK_CRC"
      <4>1. EndsBy(BitsPerByte)'
        BY <1>2, <2>2, <3>1, <3>3
      <4>2. Wires'
        BY <1>1, <1>5, <3>1, <3>3, <4>1 DEF Wires
      <4> QED
        BY <1>1, <4>2 DEF WiresNext
    <3> QED
      BY <3>2, <3>3
  <2>4. CASE sd.bit_counter > 0
    <3>1. /\ sd'.state = "RECEIVE_BYTE" /\ sd'.sclk_sig = 0 /\ sd'.bit_counter + 1 + tail = m
          /\ tail = 0 => sd'.bit_counter + 1 = m
      BY <1>1, <1>4, <1>7, <2>1, <2>4
    <3>2. EndsBy(sd.bit_counter + 1)' \/ sd'.return_state # "IDLE"
      BY <1>1, <1>2, <2>2, <3>1
    <3>3. EndsBy(sd.bit_counter + 1 + BitsPerByte)' \/ sd'.return_state # "READ_BLOCK_CRC"
      BY <1>1, <1>2, <2>2, <3>1
    <3>4. Wires'
      BY <1>1, <1>5, <3>1, <3>2, <3>3 DEF Wires, Responses
    <3> QED
      BY <1>1, <3>4 DEF WiresNext
  <2> QED
    BY <1>4, <2>3, <2>4
<1> QED
  BY <1>4, <1>6, <1>7

\* A bit of a response, of a byte of the block or of the CRC is received.
LEMMA WiresReceiveByte ==
  ASSUME CycleIn("RECEIVE_BYTE")
  PROVE  WiresNext /\ stored' = stored
<1>1. sd.return_state \in Responses \cup {"WRITE_BLOCK_WAIT", "READ_BLOCK_DATA", "READ_BLOCK_CRC", "IDLE"}
  BY DEF CycleIn, Inv, Returns
<1> QED
  BY <1>1, WiresResponse, WiresByteOfBlock, WiresCheckSum

\* The controller waits for the first zero, which begins the block.
LEMMA WiresReadBlockWait ==
  ASSUME CycleIn("READ_BLOCK_WAIT")
  PROVE  WiresNext /\ stored' = stored
<1>0. /\ ControllerTypes /\ CardTypes /\ DOMAIN sd = ControllerFields
      /\ sd.state = "READ_BLOCK_WAIT" /\ sd.cmd_out = no_command
  BY CycleTypes
<1>1. READ_BLOCK_WAIT(card.miso) /\ CardStep(sclk, sd'.sclk_sig, mosi)
  BY <1>0 DEF CycleIn, Pulse
<1>2. CardIdle /\ sd.cmd_mode /\ BlockAfter(0) /\ card.sector = call.sector
  BY DEF CycleIn, Inv, Wires
<1>3. call' = call /\ call.sector \in Sectors /\ stored[call.sector] \in Contents
  BY ReadsTheSector DEF ReadStates
<1> DEFINE begins == sclk = 1 /\ card.miso = 0
<1>4. /\ DOMAIN sd' = ControllerFields
      /\ sd'.cmd_mode = sd.cmd_mode /\ sd'.response_type = sd.response_type
      /\ sd'.data_sig = sd.data_sig /\ sd'.dout = sd.dout /\ sd'.recv_data = sd.recv_data
      /\ sd'.boot_counter = sd.boot_counter /\ sd'.cmd_out = sd.cmd_out
      /\ sd'.byte_available = sd.byte_available
      /\ sd'.ready_for_next_byte = sd.ready_for_next_byte
      /\ sd'.sclk_sig = 1 - sd.sclk_sig
      /\ begins => /\ sd'.byte_counter = SectorSize - 1 /\ sd'.bit_counter = BitsPerByte - 1
                   /\ sd'.return_state = "READ_BLOCK_DATA" /\ sd'.state = "RECEIVE_BYTE"
      /\ ~begins => /\ sd'.byte_counter = sd.byte_counter /\ sd'.bit_counter = sd.bit_counter
                    /\ sd'.return_state = sd.return_state /\ sd'.state = sd.state
  BY <1>0, <1>1 DEF READ_BLOCK_WAIT, receive_byte, ControllerFields, toggled
<1>5. sd.sclk_sig \in {0, 1} /\ card.miso \in {0, 1} /\ mosi = 1 /\ card.got = <<>>
      /\ card.expects = "command"
  BY <1>0, <1>2, NoCommand DEF ControllerTypes, CardTypes, mosi, CardIdle
<1>6. ControllerTypes'
  <2>1. /\ BitsPerByte - 1 \in Nat /\ BitsPerByte - 1 <= 5 * BitsPerByte
        /\ SectorSize - 1 \in 0 .. WRITE_DATA_SIZE
    BY BitsPerByteIs, SizeIs DEF WRITE_DATA_SIZE
  <2>2. sd'.sclk_sig \in {0, 1}
    BY <1>4, <1>5
  <2>3. /\ sd'.bit_counter \in Nat /\ (sd'.bit_counter <= InitPulses \/ sd'.bit_counter <= 5 * BitsPerByte)
        /\ sd'.byte_counter \in 0 .. WRITE_DATA_SIZE
    BY <1>0, <1>4, <2>1 DEF ControllerTypes
  <2> QED
    BY <1>0, <1>4, <2>2, <2>3 DEF ControllerTypes
<1>7. /\ CardTypes' /\ stored' = stored /\ card'.expects = card.expects /\ card'.got = card.got
      /\ card'.sector = card.sector
      /\ sd.sclk_sig = 0 => card' = card /\ sd'.sclk_sig = 1
      /\ sd.sclk_sig = 1 => Fall /\ sd'.sclk_sig = 0
  BY <1>0, <1>1, <1>2, <1>4, <1>5, Listening
<1>8. CardIdle' /\ card'.sector = call'.sector
  BY <1>2, <1>3, <1>7 DEF CardIdle
<1>9. PICK q \in Nat : ZeroAt(0, q) /\ BlockFrom(q + 1, 0)
  BY <1>2 DEF BlockAfter
<1>10. CASE ~begins
  <2>1. BlockAfter(0)'
    <3>1. CASE sd.sclk_sig = 0
      <4>1. card' = card
        BY <1>7, <3>1
      <4>2. sd'.return_state = sd.return_state
        BY <1>4, <1>10
      <4> QED
        BY <1>2, <1>4, <1>7, <4>1, <4>2, AnswerRests
    <3>2. CASE sd.sclk_sig = 1
      <4>1. card.miso = 1 /\ Fall
        BY <1>5, <1>7, <1>10, <3>2 DEF sclk
      <4>2. BlockAfter(0 + 1)
        BY <1>9, <4>1, ZeroNow DEF BlockAfter
      <4> QED
        BY <1>0, <4>1, <4>2, BlockFalls
    <3> QED
      BY <1>5, <3>1, <3>2
  <2>2. sd'.state = "READ_BLOCK_WAIT"
    BY <1>0, <1>4, <1>10
  <2>3. Wires'
    BY <1>0, <1>2, <1>4, <1>8, <2>1, <2>2 DEF Wires
  <2> QED
    BY <1>6, <1>7, <2>3 DEF WiresNext
<1>11. CASE begins
  <2>1. Fall /\ card.miso = 0 /\ sd'.sclk_sig = 0
    BY <1>5, <1>7, <1>11 DEF sclk
  <2>2. BlockFrom(0, 0)'
    <3>1. PICK m \in Nat : m = 0
      OBVIOUS
    <3>2. q = 0
      BY <1>5, <1>9, <2>1, ZeroNow
    <3>3. BlockFrom(m + 1, 0)
      BY <1>9, <3>1, <3>2
    <3>4. BlockFrom(m, 0)'
      BY <1>0, <2>1, <3>3, SizeIs, BlockFalls
    <3> QED
      BY <3>1, <3>4
  <2>3. /\ sd'.state = "RECEIVE_BYTE" /\ sd'.return_state = "READ_BLOCK_DATA"
        /\ sd'.byte_counter = SectorSize - 1 /\ sd'.bit_counter = BitsPerByte - 1
    BY <1>4, <1>11
  <2>4. received_bits' = 0
    <3>1. SectorSize - 1 - (SectorSize - 1) = 0 /\ BitsPerByte - 1 - (BitsPerByte - 1) = 0
          /\ 0 * BitsPerByte = 0
      BY SizeIs, BitsPerByteIs
    <3> QED
      BY <2>3, <3>1 DEF received_bits
  <2>5. sd'.recv_data % 2 ^ (BitsPerByte - 1 - sd'.bit_counter)
          = stored'[call'.sector][SectorSize - 1 - sd'.byte_counter] \div 2 ^ (sd'.bit_counter + 1)
    <3>1. SectorSize - 1 - sd'.byte_counter \in Indices
      BY <2>3, SizeIs DEF Indices
    <3>2. PICK x \in ByteValues : x = stored'[call'.sector][SectorSize - 1 - sd'.byte_counter]
      BY <1>3, <1>7, <3>1, BytesAreBytes
    <3>3. BitsPerByte - 1 - sd'.bit_counter = 0 /\ sd'.bit_counter + 1 = BitsPerByte
      BY <2>3, BitsPerByteIs
    <3>4. sd'.recv_data \in ByteValues
      BY <1>6 DEF ControllerTypes
    <3>5. sd'.recv_data % 2 ^ 0 = x \div 2 ^ BitsPerByte
      BY <3>2, <3>4, NothingReceived
    <3> QED
      BY <3>2, <3>3, <3>5
  <2>6. ReceivingBlock'
    <3>1. sd'.byte_counter \in 0 .. SectorSize - 1 /\ sd'.bit_counter \in 0 .. BitsPerByte - 1
      BY <2>3, SizeIs, BitsPerByteIs
    <3>2. BlockFrom(0, received_bits)'
      BY <2>2, <2>4
    <3> QED
      BY <1>2, <1>4, <1>8, <2>3, <2>5, <3>1, <3>2 DEF ReceivingBlock
  <2>7. Wires'
    BY <1>0, <1>4, <2>3, <2>6 DEF Wires, Responses
  <2> QED
    BY <1>6, <1>7, <2>7 DEF WiresNext
<1> QED
  BY <1>10, <1>11

\* A byte of the block was received: it is the byte of the sector.
LEMMA WiresReadBlockData ==
  ASSUME CycleIn("READ_BLOCK_DATA")
  PROVE  WiresNext /\ stored' = stored
<1>0. /\ ControllerTypes /\ CardTypes /\ DOMAIN sd = ControllerFields
      /\ sd.state = "READ_BLOCK_DATA" /\ sd.cmd_out = no_command
  BY CycleTypes
<1>1. READ_BLOCK_DATA
  BY <1>0 DEF CycleIn, Pulse
<1>2. ReceivingBlock
  BY DEF CycleIn, Inv, Wires
<1>3. call' = call /\ call.sector \in Sectors /\ stored[call.sector] \in Contents
  BY ReadsTheSector DEF ReadStates
<1>4. PICK b \in 0 .. SectorSize - 1 : b = sd.byte_counter
  BY <1>2 DEF ReceivingBlock
<1>5. /\ DOMAIN sd' = ControllerFields
      /\ sd'.cmd_mode = sd.cmd_mode /\ sd'.response_type = sd.response_type
      /\ sd'.data_sig = sd.data_sig /\ sd'.dout = sd.recv_data /\ sd'.recv_data = sd.recv_data
      /\ sd'.boot_counter = sd.boot_counter /\ sd'.cmd_out = sd.cmd_out
      /\ sd'.byte_available = TRUE /\ sd'.bit_counter = BitsPerByte - 1
      /\ sd'.ready_for_next_byte = sd.ready_for_next_byte
      /\ sd'.sclk_sig = sd.sclk_sig /\ sd'.state = "RECEIVE_BYTE"
      /\ b = 0 => sd'.byte_counter = 0 /\ sd'.return_state = "READ_BLOCK_CRC"
      /\ b # 0 => sd'.byte_counter = b - 1 /\ sd'.return_state = "READ_BLOCK_DATA"
  BY <1>0, <1>1, <1>4 DEF READ_BLOCK_DATA, receive_byte, ControllerFields
<1>6. ControllerTypes'
  <2>1. /\ BitsPerByte - 1 \in Nat /\ BitsPerByte - 1 <= 5 * BitsPerByte
        /\ sd'.byte_counter \in 0 .. WRITE_DATA_SIZE
    BY <1>5, BitsPerByteIs, SizeIs DEF WRITE_DATA_SIZE
  <2> QED
    BY <1>0, <1>5, <2>1 DEF ControllerTypes
<1>7. /\ CardIdle /\ sd.cmd_mode /\ card.sector = call.sector
      /\ BlockFrom(0, (SectorSize - 1 - b) * BitsPerByte + BitsPerByte)
  BY <1>0, <1>2, <1>4 DEF ReceivingBlock, received_bits
<1>8. card' = card /\ stored' = stored /\ CardTypes' /\ CardIdle'
  BY <1>5, <1>7, CardRests
<1>9. PICK p \in Nat : p = (SectorSize - 1 - b) * BitsPerByte + BitsPerByte
  <2>1. (SectorSize - 1 - b) * BitsPerByte \in Nat
    <3>1. SectorSize - 1 - b \in Nat
      BY SizeIs
    <3> QED
      BY <3>1, BitsPerByteIs
  <2> QED
    BY <2>1, BitsPerByteIs
<1>10. BlockFrom(0, p)'
  <2>1. PICK m \in Nat : m = 0 /\ BlockFrom(m, p) /\ p <= SectorBits
    <3>1. (SectorSize - 1 - b) * BitsPerByte + BitsPerByte <= SectorSize * BitsPerByte
      <4>1. /\ (SectorSize - 1 - b) * BitsPerByte + BitsPerByte = (SectorSize - b) * BitsPerByte
            /\ SectorSize - b <= SectorSize /\ SectorSize - b \in Nat
        <5>1. CASE BitsPerByte = 3
          BY <5>1, SizeIs
        <5>2. CASE BitsPerByte = 4
          BY <5>2, SizeIs
        <5>3. CASE BitsPerByte = 5
          BY <5>3, SizeIs
        <5>4. CASE BitsPerByte = 6
          BY <5>4, SizeIs
        <5>5. CASE BitsPerByte = 7
          BY <5>5, SizeIs
        <5>6. CASE BitsPerByte = 8
          BY <5>6, SizeIs
        <5> QED
          BY <5>1, <5>2, <5>3, <5>4, <5>5, <5>6, BitsPerByteIs
      <4>2. (SectorSize - b) * BitsPerByte <= SectorSize * BitsPerByte
        <5>1. CASE BitsPerByte = 3
          BY <4>1, <5>1, SizeIs
        <5>2. CASE BitsPerByte = 4
          BY <4>1, <5>2, SizeIs
        <5>3. CASE BitsPerByte = 5
          BY <4>1, <5>3, SizeIs
        <5>4. CASE BitsPerByte = 6
          BY <4>1, <5>4, SizeIs
        <5>5. CASE BitsPerByte = 7
          BY <4>1, <5>5, SizeIs
        <5>6. CASE BitsPerByte = 8
          BY <4>1, <5>6, SizeIs
        <5> QED
          BY <5>1, <5>2, <5>3, <5>4, <5>5, <5>6, BitsPerByteIs
      <4> QED
        BY <4>1, <4>2
    <3> QED
      BY <1>7, <1>9, <3>1 DEF SectorBits
  <2>2. /\ \A k : line(k)' = line(k)
        /\ \A k : EndsBy(k)' = EndsBy(k)
    BY <1>8, LineRests
  <2>3. BlockFrom(m, p)'
    BY <1>8, <2>1, <2>2 DEF BlockFrom, bit_of
  <2> QED
    BY <2>1, <2>3
<1>11. CASE b = 0
  <2>1. EndsBy(2 * BitsPerByte)'
    <3>1. EndsBy(0 + SectorBits - p + 2 * BitsPerByte)'
      BY <1>10 DEF BlockFrom
    <3>2. p = SectorBits
      <4>1. CASE BitsPerByte = 3
        BY <1>9, <1>11, <4>1, SizeIs DEF SectorBits
      <4>2. CASE BitsPerByte = 4
        BY <1>9, <1>11, <4>2, SizeIs DEF SectorBits
      <4>3. CASE BitsPerByte = 5
        BY <1>9, <1>11, <4>3, SizeIs DEF SectorBits
      <4>4. CASE BitsPerByte = 6
        BY <1>9, <1>11, <4>4, SizeIs DEF SectorBits
      <4>5. CASE BitsPerByte = 7
        BY <1>9, <1>11, <4>5, SizeIs DEF SectorBits
      <4>6. CASE BitsPerByte = 8
        BY <1>9, <1>11, <4>6, SizeIs DEF SectorBits
      <4> QED
        BY <4>1, <4>2, <4>3, <4>4, <4>5, <4>6, BitsPerByteIs
    <3>3. 0 + SectorBits - p + 2 * BitsPerByte = 2 * BitsPerByte
      BY <3>2, SizeIs, BitsPerByteIs
    <3> QED
      BY <3>1, <3>3
  <2>2. sd'.bit_counter + 1 + BitsPerByte = 2 * BitsPerByte
    BY <1>5, BitsPerByteIs
  <2>3. EndsBy(sd.bit_counter + 1 + BitsPerByte)'
    BY <2>1, <2>2
  <2>4. LastBits'
    BY <1>5, <1>7, <1>8 DEF LastBits
  <2>5. Wires'
    BY <1>0, <1>5, <1>11, <2>3, <2>4 DEF Wires, Responses
  <2> QED
    BY <1>6, <1>8, <2>5 DEF WiresNext
<1>12. CASE b # 0
  <2>1. /\ sd'.byte_counter = b - 1 /\ sd'.return_state = "READ_BLOCK_DATA"
        /\ sd'.bit_counter = BitsPerByte - 1 /\ sd'.state = "RECEIVE_BYTE"
    BY <1>5, <1>12
  <2>2. received_bits' = p
    <3>1. SectorSize - 1 - (b - 1) = SectorSize - b /\ BitsPerByte - 1 - (BitsPerByte - 1) = 0
      BY SizeIs, BitsPerByteIs
    <3>2. received_bits' = (SectorSize - b) * BitsPerByte + 0
      BY <2>1, <3>1 DEF received_bits
    <3>3. (SectorSize - b) * BitsPerByte + 0 = (SectorSize - 1 - b) * BitsPerByte + BitsPerByte
      <4>1. CASE BitsPerByte = 3
        BY <4>1, SizeIs
      <4>2. CASE BitsPerByte = 4
        BY <4>2, SizeIs
      <4>3. CASE BitsPerByte = 5
        BY <4>3, SizeIs
      <4>4. CASE BitsPerByte = 6
        BY <4>4, SizeIs
      <4>5. CASE BitsPerByte = 7
        BY <4>5, SizeIs
      <4>6. CASE BitsPerByte = 8
        BY <4>6, SizeIs
      <4> QED
        BY <4>1, <4>2, <4>3, <4>4, <4>5, <4>6, BitsPerByteIs
    <3> QED
      BY <1>9, <3>2, <3>3
  <2>3. sd'.recv_data % 2 ^ (BitsPerByte - 1 - sd'.bit_counter)
          = stored'[call'.sector][SectorSize - 1 - sd'.byte_counter] \div 2 ^ (sd'.bit_counter + 1)
    <3>1. SectorSize - 1 - sd'.byte_counter \in Indices
      BY <1>12, <2>1, SizeIs DEF Indices
    <3>2. PICK x \in ByteValues : x = stored'[call'.sector][SectorSize - 1 - sd'.byte_counter]
      BY <1>3, <1>8, <3>1, BytesAreBytes
    <3>3. BitsPerByte - 1 - sd'.bit_counter = 0 /\ sd'.bit_counter + 1 = BitsPerByte
      BY <2>1, BitsPerByteIs
    <3>4. sd'.recv_data \in ByteValues
      BY <1>6 DEF ControllerTypes
    <3>5. sd'.recv_data % 2 ^ 0 = x \div 2 ^ BitsPerByte
      BY <3>2, <3>4, NothingReceived
    <3> QED
      BY <3>2, <3>3, <3>5
  <2>4. ReceivingBlock'
    <3>1. sd'.byte_counter \in 0 .. SectorSize - 1 /\ sd'.bit_counter \in 0 .. BitsPerByte - 1
      BY <1>12, <2>1, SizeIs, BitsPerByteIs
    <3>2. BlockFrom(0, received_bits)'
      BY <1>10, <2>2
    <3> QED
      BY <1>3, <1>5, <1>7, <1>8, <2>1, <2>3, <3>1, <3>2 DEF ReceivingBlock
  <2>5. Wires'
    BY <1>0, <1>5, <2>1, <2>4 DEF Wires, Responses
  <2> QED
    BY <1>6, <1>8, <2>5 DEF WiresNext
<1> QED
  BY <1>11, <1>12

\* The first half of the CRC was received.
LEMMA WiresReadBlockCrc ==
  ASSUME CycleIn("READ_BLOCK_CRC")
  PROVE  WiresNext /\ stored' = stored
<1>0. /\ ControllerTypes /\ CardTypes /\ DOMAIN sd = ControllerFields
      /\ sd.state = "READ_BLOCK_CRC" /\ sd.cmd_out = no_command
  BY CycleTypes
<1>1. READ_BLOCK_CRC
  BY <1>0 DEF CycleIn, Pulse
<1>2. LastBits /\ EndsBy(BitsPerByte)
  BY DEF CycleIn, Inv, Wires
<1>3. /\ DOMAIN sd' = ControllerFields
      /\ sd'.cmd_mode = sd.cmd_mode /\ sd'.response_type = sd.response_type
      /\ sd'.data_sig = sd.data_sig /\ sd'.dout = sd.dout /\ sd'.recv_data = sd.recv_data
      /\ sd'.boot_counter = sd.boot_counter /\ sd'.cmd_out = sd.cmd_out
      /\ sd'.byte_available = sd.byte_available /\ sd'.bit_counter = BitsPerByte - 1
      /\ sd'.ready_for_next_byte = sd.ready_for_next_byte
      /\ sd'.sclk_sig = sd.sclk_sig /\ sd'.state = "RECEIVE_BYTE"
      /\ sd'.byte_counter = sd.byte_counter /\ sd'.return_state = "IDLE"
  BY <1>0, <1>1 DEF READ_BLOCK_CRC, receive_byte, ControllerFields
<1>4. ControllerTypes'
  <2>1. /\ BitsPerByte - 1 \in Nat /\ BitsPerByte - 1 <= 5 * BitsPerByte
    BY BitsPerByteIs
  <2> QED
    BY <1>0, <1>3, <2>1 DEF ControllerTypes
<1>5. card' = card /\ stored' = stored /\ CardTypes'
  BY <1>2, <1>3, CardRests DEF LastBits
<1>6. LastBits'
  BY <1>2, <1>3, <1>5 DEF LastBits, CardIdle
<1>7. EndsBy(sd.bit_counter + 1)'
  <2>1. sd'.bit_counter + 1 = BitsPerByte
    BY <1>3, BitsPerByteIs
  <2>2. EndsBy(BitsPerByte)'
    BY <1>2, <1>5, LineRests
  <2> QED
    BY <2>1, <2>2
<1>8. Wires'
  BY <1>0, <1>3, <1>6, <1>7 DEF Wires, Responses
<1> QED
  BY <1>4, <1>5, <1>8 DEF WiresNext

\* The card is ready for the block.
LEMMA WiresWriteBlockInit ==
  ASSUME CycleIn("WRITE_BLOCK_INIT")
  PROVE  WiresNext /\ stored' = stored
<1>0. /\ ControllerTypes /\ CardTypes /\ DOMAIN sd = ControllerFields
      /\ sd.state = "WRITE_BLOCK_INIT" /\ sd.cmd_out = no_command
  BY CycleTypes
<1>1. WRITE_BLOCK_INIT
  BY <1>0 DEF CycleIn, Pulse
<1>2. /\ sd.sclk_sig = 0 /\ card.expects = "token" /\ card.got = <<>> /\ Quiet
      /\ card.sector = call.sector /\ sd.response_type = 1
  BY DEF CycleIn, Inv, Wires
<1>3. call' = call
  BY Transfers DEF WriteStates
<1>4. /\ DOMAIN sd' = ControllerFields
      /\ sd'.cmd_mode = FALSE /\ sd'.response_type = sd.response_type
      /\ sd'.data_sig = sd.data_sig /\ sd'.dout = sd.dout /\ sd'.recv_data = sd.recv_data
      /\ sd'.boot_counter = sd.boot_counter /\ sd'.cmd_out = sd.cmd_out
      /\ sd'.byte_available = sd.byte_available /\ sd'.bit_counter = sd.bit_counter
      /\ sd'.ready_for_next_byte = FALSE
      /\ sd'.sclk_sig = sd.sclk_sig /\ sd'.state = "WRITE_BLOCK_DATA"
      /\ sd'.byte_counter = WRITE_DATA_SIZE
  BY <1>0, <1>1 DEF WRITE_BLOCK_INIT, ControllerFields
<1>5. WRITE_DATA_SIZE = SectorSize + 3 /\ WRITE_DATA_SIZE \in 0 .. WRITE_DATA_SIZE
  BY SizeIs DEF WRITE_DATA_SIZE
<1>6. ControllerTypes'
  BY <1>0, <1>4, <1>5 DEF ControllerTypes
<1>7. card' = card /\ stored' = stored /\ CardTypes' /\ Quiet'
  BY <1>2, <1>4, CardRests
<1>8. BetweenBytes'
  BY <1>2, <1>3, <1>4, <1>5, <1>7 DEF BetweenBytes
<1>9. Wires'
  BY <1>0, <1>4, <1>8 DEF Wires
<1> QED
  BY <1>6, <1>7, <1>9 DEF WiresNext

\* The byte of ones sends a one.
LEMMA MsbOfOnes == msb(all_ones) = 1
<1>1. 0 \in 0 .. BitsPerByte - 1 /\ BitsPerByte - 1 \in 0 .. BitsPerByte - 1
      /\ BitsPerByte - 1 - (BitsPerByte - 1) = 0
  BY BitsPerByteIs
<1>2. /\ msb(rest_of(all_ones, 0)) = bits_of(all_ones)[BitsPerByte - (BitsPerByte - 1)]
      /\ bits_of(all_ones)[BitsPerByte - (BitsPerByte - 1)] = 1
  BY <1>1, ByteRange, SendsBits, OnesStay
<1>3. rest_of(all_ones, 0) = all_ones
  BY ByteRange, WholeByte
<1> QED
  BY <1>2, <1>3

\* The card is busy until the line is high.
LEMMA WiresWriteBlockWait ==
  ASSUME CycleIn("WRITE_BLOCK_WAIT")
  PROVE  WiresNext /\ stored' = stored
<1>0. /\ ControllerTypes /\ CardTypes /\ DOMAIN sd = ControllerFields
      /\ sd.state = "WRITE_BLOCK_WAIT" /\ sd.cmd_out = no_command
  BY CycleTypes
<1>1. WRITE_BLOCK_WAIT(card.miso) /\ CardStep(sclk, sd'.sclk_sig, mosi)
  BY <1>0 DEF CycleIn, Pulse
<1>2. ~sd.cmd_mode /\ Stored /\ BusyAfter(0)
  BY DEF CycleIn, Inv, Wires
<1>3. call' = call
  BY Transfers DEF WriteStates
<1> DEFINE over == sclk = 1 /\ card.miso = 1
<1>4. /\ DOMAIN sd' = ControllerFields
      /\ sd'.response_type = sd.response_type
      /\ sd'.data_sig = sd.data_sig /\ sd'.dout = sd.dout /\ sd'.recv_data = sd.recv_data
      /\ sd'.boot_counter = sd.boot_counter /\ sd'.cmd_out = sd.cmd_out
      /\ sd'.byte_available = sd.byte_available /\ sd'.bit_counter = sd.bit_counter
      /\ sd'.ready_for_next_byte = sd.ready_for_next_byte
      /\ sd'.sclk_sig = 1 - sd.sclk_sig /\ sd'.byte_counter = sd.byte_counter
      /\ over => sd'.state = "IDLE" /\ sd'.cmd_mode = TRUE
      /\ ~over => sd'.state = sd.state /\ sd'.cmd_mode = sd.cmd_mode
      /\ sd'.return_state = sd.return_state
  BY <1>0, <1>1 DEF WRITE_BLOCK_WAIT, ControllerFields, toggled
<1>5. /\ sd.sclk_sig \in {0, 1} /\ card.miso \in {0, 1} /\ mosi = 1 /\ card.got = <<>>
      /\ card.expects = "command"
  <2>1. msb(all_ones) = 1
    BY MsbOfOnes
  <2> QED
    BY <1>0, <1>2, <2>1 DEF ControllerTypes, CardTypes, mosi, CardIdle, Stored
<1>6. ControllerTypes'
  <2>1. sd'.sclk_sig \in {0, 1}
    BY <1>4, <1>5
  <2>2. sd'.cmd_mode = TRUE \/ sd'.cmd_mode = sd.cmd_mode
    BY <1>4
  <2>3. sd'.cmd_mode \in BOOLEAN
    BY <1>0, <2>2 DEF ControllerTypes
  <2> QED
    BY <1>0, <1>4, <2>1, <2>3 DEF ControllerTypes
<1>7. /\ CardTypes' /\ stored' = stored /\ card'.expects = card.expects /\ card'.got = card.got
      /\ card'.sector = card.sector
      /\ sd.sclk_sig = 0 => card' = card /\ sd'.sclk_sig = 1
      /\ sd.sclk_sig = 1 => Fall /\ sd'.sclk_sig = 0
  BY <1>0, <1>1, <1>2, <1>4, <1>5, Listening
<1>8. CardIdle' /\ Stored'
  BY <1>2, <1>3, <1>4, <1>7 DEF CardIdle, Stored
<1>9. CASE ~over
  <2>1. BusyAfter(0)'
    <3>1. CASE sd.sclk_sig = 0
      <4>1. card' = card
        BY <1>7, <3>1
      <4> QED
        BY <1>2, <1>4, <1>7, <4>1, AnswerRests
    <3>2. CASE sd.sclk_sig = 1
      <4>1. card.miso = 0 /\ Fall
        BY <1>5, <1>7, <1>9, <3>2 DEF sclk
      <4>2. BusyAfter(0 + 1)
        BY <1>2 DEF BusyAfter
      <4> QED
        BY <1>0, <4>1, <4>2, BlockFalls
    <3> QED
      BY <1>5, <3>1, <3>2
  <2>2. sd'.state = "WRITE_BLOCK_WAIT" /\ ~sd'.cmd_mode
    BY <1>0, <1>2, <1>4, <1>9
  <2>3. Wires'
    BY <1>0, <1>2, <1>4, <1>8, <2>1, <2>2 DEF Wires
  <2> QED
    BY <1>6, <1>7, <2>3 DEF WiresNext
<1>10. CASE over
  <2>1. Fall /\ card.miso = 1 /\ sd'.sclk_sig = 0
    BY <1>5, <1>7, <1>10 DEF sclk
  <2>2. Quiet'
    <3>1. EndsBy(0)
      BY <1>2, <2>1, LineNow DEF BusyAfter
    <3> QED
      BY <1>0, <2>1, <3>1, LineFalls DEF Quiet
  <2>3. Resting' /\ sd'.cmd_mode /\ sd'.state = "IDLE"
    BY <1>2, <1>4, <1>8, <1>10, <2>1, <2>2 DEF Resting
  <2>4. Wires'
    BY <1>0, <1>4, <2>3 DEF Wires
  <2> QED
    BY <1>6, <1>7, <2>4 DEF WiresNext
<1> QED
  BY <1>9, <1>10

\* How many bits of a block the card has.
LEMMA BlockCount ==
  ASSUME NEW b \in 0 .. SectorSize + 2, NEW c \in 0 .. BitsPerByte - 1
  PROVE  /\ b <= SectorSize + 1 => (SectorSize + 1 - b) * BitsPerByte \in Nat
         /\ (SectorSize + 2 - b) * BitsPerByte = (SectorSize + 1 - b) * BitsPerByte + BitsPerByte
         /\ b = 0 /\ c = 0 =>
              ((SectorSize + 1 - b) * BitsPerByte + (BitsPerByte - 1 - c)) + 1
                = (SectorSize + 2) * BitsPerByte
         /\ b <= SectorSize + 1 /\ ~(b = 0 /\ c = 0) =>
              ((SectorSize + 1 - b) * BitsPerByte + (BitsPerByte - 1 - c)) + 1
                < (SectorSize + 2) * BitsPerByte
         /\ b < 2 => (SectorSize + 1 - b) * BitsPerByte + (BitsPerByte - 1 - c) >= SectorBits
<1>0. b \in Nat /\ b <= SectorSize + 2 /\ c \in Nat /\ c <= BitsPerByte - 1
      /\ SectorSize \in Nat /\ SectorSize > 0
  BY SizeIs, BitsPerByteIs
<1>1. CASE BitsPerByte = 3
  BY <1>0, <1>1 DEF SectorBits
<1>2. CASE BitsPerByte = 4
  BY <1>0, <1>2 DEF SectorBits
<1>3. CASE BitsPerByte = 5
  BY <1>0, <1>3 DEF SectorBits
<1>4. CASE BitsPerByte = 6
  BY <1>0, <1>4 DEF SectorBits
<1>5. CASE BitsPerByte = 7
  BY <1>0, <1>5 DEF SectorBits
<1>6. CASE BitsPerByte = 8
  BY <1>0, <1>6 DEF SectorBits
<1> QED
  BY <1>1, <1>2, <1>3, <1>4, <1>5, <1>6, BitsPerByteIs

\* Where the next bit of the block is in the sector.
LEMMA BitSent ==
  ASSUME NEW b \in 2 .. SectorSize + 1, NEW c \in 0 .. BitsPerByte - 1
  PROVE  /\ SectorSize + 1 - b \in Indices
         /\ (SectorSize + 1 - b) * BitsPerByte + (BitsPerByte - 1 - c) \in 0 .. SectorBits - 1
         /\ \A f : bit_of(f, (SectorSize + 1 - b) * BitsPerByte + (BitsPerByte - 1 - c))
                     = bits_of(f[SectorSize + 1 - b])[BitsPerByte - c]
<1>1. PICK a \in 0 .. SectorSize - 1 : SectorSize - 1 - a = SectorSize + 1 - b
  <2>1. b - 2 \in 0 .. SectorSize - 1 /\ SectorSize - 1 - (b - 2) = SectorSize + 1 - b
    BY SizeIs
  <2> QED
    BY <2>1
<1>2. /\ SectorSize - 1 - a \in Indices
      /\ (SectorSize - 1 - a) * BitsPerByte + (BitsPerByte - 1 - c) \in 0 .. SectorBits - 1
      /\ \A f : bit_of(f, (SectorSize - 1 - a) * BitsPerByte + (BitsPerByte - 1 - c))
                  = bits_of(f[SectorSize - 1 - a])[BitsPerByte - c]
  BY ReceivedBits
<1> QED
  BY <1>1, <1>2

\* What sd_controller.v writes is the data of the call.
LEMMA WritesTheData ==
  ASSUME NEW state, CycleIn(state), state \in WriteStates
  PROVE  /\ sdcard.state = "WriteSector" /\ call' = call /\ call.sector \in Sectors
         /\ call.data \in Contents
BY Transfers

\* What is sent is a byte.
LEMMA ByteSent ==
  ASSUME call.data \in Contents, sd.byte_counter \in 0 .. SectorSize + 2
  PROVE  byte_sent \in ByteValues
<1>1. CASE sd.byte_counter \in 2 .. SectorSize + 1
  <2>1. SectorSize + 1 - sd.byte_counter \in Indices /\ sd.byte_counter # SectorSize + 2
    BY <1>1, SizeIs DEF Indices
  <2> QED
    BY <1>1, <2>1, BytesAreBytes DEF byte_sent
<1>2. CASE sd.byte_counter \notin 2 .. SectorSize + 1
  BY <1>2, ByteRange DEF byte_sent
<1> QED
  BY <1>1, <1>2

\* The next byte of the block is loaded: it is the byte of the call.
LEMMA WiresWriteBlockData ==
  ASSUME CycleIn("WRITE_BLOCK_DATA")
  PROVE  WiresNext /\ stored' = stored
<1>0. /\ ControllerTypes /\ CardTypes /\ DOMAIN sd = ControllerFields
      /\ sd.state = "WRITE_BLOCK_DATA" /\ sd.cmd_out = no_command
  BY CycleTypes
<1>1. WRITE_BLOCK_DATA(sdcard.din)
  BY <1>0 DEF CycleIn, Pulse
<1>2. BetweenBytes
  BY DEF CycleIn, Inv, Wires
<1>3. sdcard.state = "WriteSector" /\ call' = call /\ call.sector \in Sectors /\ call.data \in Contents
  BY WritesTheData DEF WriteStates
<1>4. PICK b \in 0 .. SectorSize + 3 : b = sd.byte_counter
  BY <1>2 DEF BetweenBytes
<1>5. /\ ~sd.cmd_mode /\ sd.sclk_sig = 0 /\ card.sector = call.sector
      /\ sd.response_type = 1 /\ b \in Nat /\ WRITE_DATA_SIZE = SectorSize + 3
  BY <1>2, SizeIs DEF BetweenBytes, WRITE_DATA_SIZE
<1>6. CASE b = 0
  <2>1. /\ DOMAIN sd' = ControllerFields
        /\ sd'.cmd_mode = sd.cmd_mode /\ sd'.response_type = sd.response_type
        /\ sd'.data_sig = sd.data_sig /\ sd'.dout = sd.dout /\ sd'.recv_data = sd.recv_data
        /\ sd'.boot_counter = sd.boot_counter /\ sd'.cmd_out = sd.cmd_out
        /\ sd'.byte_available = sd.byte_available /\ sd'.bit_counter = sd.bit_counter
        /\ sd'.ready_for_next_byte = sd.ready_for_next_byte
        /\ sd'.sclk_sig = sd.sclk_sig /\ sd'.byte_counter = sd.byte_counter
        /\ sd'.state = "RECEIVE_BYTE_WAIT" /\ sd'.return_state = "WRITE_BLOCK_WAIT"
    BY <1>0, <1>1, <1>4, <1>6 DEF WRITE_BLOCK_DATA, ControllerFields
  <2>2. ControllerTypes'
    BY <1>0, <2>1 DEF ControllerTypes
  <2>3. card' = card /\ stored' = stored /\ CardTypes'
    BY <1>5, <2>1, CardRests
  <2>4. PICK n \in Nat : Stored /\ ZeroAt(0, n) /\ BusyAfter(n + BitsPerByte)
    BY <1>4, <1>6, <1>2, SizeIs DEF BetweenBytes
  <2>5. Stored' /\ CardIdle'
    BY <1>3, <2>1, <2>3, <2>4 DEF Stored, CardIdle
  <2>6. AnswerAfter(0)'
    <3>1. ZeroAt(0, n)'
      BY <2>3, <2>4, LineRests DEF ZeroAt
    <3>2. BusyAfter(n + BitsPerByte)'
      <4>1. PICK m \in Nat : m = n + BitsPerByte
        BY BitsPerByteIs
      <4>2. BusyAfter(m)'
        BY <2>3, <2>4, <4>1, LineRests DEF BusyAfter
      <4> QED
        BY <4>1, <4>2
    <3>3. bits_of_response' = BitsPerByte
      BY <1>5, <2>1 DEF bits_of_response
    <3>4. Follows(n + bits_of_response)'
      <4>1. BusyAfter(n + bits_of_response)'
        BY <3>2, <3>3
      <4> QED
        BY <2>1, <4>1 DEF Follows
    <3> QED
      BY <3>1, <3>4 DEF AnswerAfter
  <2>7. Answered'
    <3>1. mosi' = 1
      <4>1. msb(all_ones) = 1
        BY MsbOfOnes
      <4> QED
        BY <1>5, <2>1, <2>4, <4>1 DEF mosi, Stored
    <3> QED
      BY <1>5, <2>1, <2>5, <3>1 DEF Answered
  <2>8. Wires'
    BY <1>0, <1>5, <2>1, <2>5, <2>6, <2>7 DEF Wires, Responses
  <2> QED
    BY <2>2, <2>3, <2>8 DEF WiresNext
<1>7. CASE b # 0
  <2> DEFINE byte == IF b \in {1, 2} THEN all_ones
                     ELSE IF b = SectorSize + 3 THEN start_token ELSE sdcard.din
             asks == IF b \in {1, 2} \/ b = SectorSize + 3 THEN sd.ready_for_next_byte ELSE TRUE
  <2>1. /\ DOMAIN sd' = ControllerFields
        /\ sd'.cmd_mode = sd.cmd_mode /\ sd'.response_type = sd.response_type
        /\ sd'.data_sig = byte /\ sd'.dout = sd.dout /\ sd'.recv_data = sd.recv_data
        /\ sd'.boot_counter = sd.boot_counter /\ sd'.cmd_out = sd.cmd_out
        /\ sd'.byte_available = sd.byte_available /\ sd'.bit_counter = BitsPerByte - 1
        /\ sd'.ready_for_next_byte = asks
        /\ sd'.sclk_sig = sd.sclk_sig /\ sd'.byte_counter = b - 1
        /\ sd'.state = "WRITE_BLOCK_BYTE" /\ sd'.return_state = sd.return_state
    BY <1>0, <1>1, <1>4, <1>5, <1>7 DEF WRITE_BLOCK_DATA, ControllerFields, is_check_sum
  <2>2. card' = card /\ stored' = stored /\ CardTypes' /\ (Quiet => Quiet')
    BY <1>5, <2>1, CardRests
  <2>3. byte_sent' = byte
    <3>1. CASE b \in {1, 2}
      <4>1. b - 1 # SectorSize + 2 /\ b - 1 \notin 2 .. SectorSize + 1
        BY <3>1, SizeIs
      <4> QED
        BY <2>1, <3>1, <4>1 DEF byte_sent
    <3>2. CASE b = SectorSize + 3
      <4>1. b - 1 = SectorSize + 2 /\ b \notin {1, 2}
        BY <3>2, SizeIs
      <4> QED
        BY <2>1, <3>2, <4>1 DEF byte_sent
    <3>3. CASE b \notin {1, 2} /\ b # SectorSize + 3
      <4>1. /\ b > 2 /\ b - 1 # SectorSize + 2 /\ b - 1 \in 2 .. SectorSize + 1
            /\ SectorSize + 3 - b > 0 /\ (SectorSize + 3 - b) - 1 = SectorSize + 2 - b
            /\ SectorSize + 1 - (b - 1) = SectorSize + 2 - b
            /\ (SectorSize + 2 - b) % SectorSize = SectorSize + 2 - b
        BY <1>5, <1>7, <3>3, SizeIs
      <4>2. Taken(SectorSize + 3 - b)
        BY <1>0, <1>3, <1>4, <3>3, <4>1 DEF CycleIn, Inv, Ring, Writing
      <4>3. sdcard.din = call.data[SectorSize + 2 - b]
        BY <4>1, <4>2 DEF Taken
      <4> QED
        BY <1>3, <2>1, <3>3, <4>1, <4>3 DEF byte_sent
    <3> QED
      BY <3>1, <3>2, <3>3
  <2>4. sd'.byte_counter \in 0 .. SectorSize + 2 /\ sd'.bit_counter \in 0 .. BitsPerByte - 1
    BY <1>5, <1>7, <2>1, SizeIs, BitsPerByteIs
  <2>5. byte \in ByteValues
    BY ByteRange, CycleTypes DEF InterfaceTypes
  <2>6. ControllerTypes'
    <3>1. /\ BitsPerByte - 1 \in Nat /\ BitsPerByte - 1 <= 5 * BitsPerByte
          /\ sd'.byte_counter \in 0 .. WRITE_DATA_SIZE
      BY <1>5, <2>4, BitsPerByteIs, SizeIs
    <3>2. asks = TRUE \/ asks = sd.ready_for_next_byte
      OBVIOUS
    <3> HIDE DEF asks, byte
    <3>3. asks \in BOOLEAN
      BY <1>0, <3>2 DEF ControllerTypes
    <3> QED
      BY <1>0, <2>1, <2>5, <3>1, <3>3 DEF ControllerTypes
  <2>7. sd'.data_sig = rest_of(byte_sent, BitsPerByte - 1 - sd.bit_counter)'
    <3> HIDE DEF byte
    <3>1. BitsPerByte - 1 - sd'.bit_counter = 0
      BY <2>1, BitsPerByteIs
    <3>2. rest_of(byte, 0) = byte
      BY <2>5, WholeByte
    <3> QED
      BY <2>1, <2>3, <3>1, <3>2 DEF rest_of
  <2>8. CASE b = SectorSize + 3
    <3>1. Quiet' /\ card'.got = <<>> /\ card'.expects = "token"
      BY <1>2, <1>4, <2>2, <2>8 DEF BetweenBytes
    <3>2. sd'.byte_counter = SectorSize + 2 /\ sclk' = 0
      BY <1>5, <2>1, <2>8, SizeIs DEF sclk
    <3>3. SendingByte'
      BY <1>3, <1>5, <2>1, <2>2, <2>4, <2>7, <3>1, <3>2 DEF SendingByte
    <3>4. Wires'
      BY <1>0, <2>1, <3>3 DEF Wires
    <3> QED
      BY <2>2, <2>6, <3>4 DEF WiresNext
  <2>9. CASE b # SectorSize + 3
    <3>1. Quiet' /\ GotBits((SectorSize + 2 - b) * BitsPerByte)
      BY <1>2, <1>4, <1>7, <2>2, <2>9 DEF BetweenBytes
    <3>2. sd'.byte_counter # SectorSize + 2 /\ sclk' = 0 /\ sd'.sclk_sig = 0
      BY <1>5, <2>1, <2>9, SizeIs DEF sclk
    <3>3. PICK m \in Int : m = (SectorSize + 2 - b) * BitsPerByte
      BY <1>5, SizeIs, BitsPerByteIs
    <3>4. GotBits(m)'
      BY <1>3, <2>2, <3>1, <3>3 DEF GotBits, bit_of
    <3>5. ((SectorSize + 1 - sd.byte_counter) * BitsPerByte
            + BitsPerByte - 1 - sd.bit_counter + sd.sclk_sig)' = m
      <4>1. SectorSize + 1 - (b - 1) = SectorSize + 2 - b
        BY <1>5, SizeIs
      <4>2. m + BitsPerByte - 1 - (BitsPerByte - 1) + 0 = m
        BY BitsPerByteIs
      <4> QED
        BY <2>1, <3>2, <3>3, <4>1, <4>2
    <3>6. GotBits((SectorSize + 1 - sd.byte_counter) * BitsPerByte
                  + BitsPerByte - 1 - sd.bit_counter + sd.sclk_sig)'
      BY <3>4, <3>5
    <3>7. SendingByte'
      BY <1>3, <1>5, <2>1, <2>2, <2>4, <2>7, <3>1, <3>2, <3>6 DEF SendingByte
    <3>8. Wires'
      BY <1>0, <2>1, <3>7 DEF Wires
    <3> QED
      BY <2>2, <2>6, <3>8 DEF WiresNext
  <2> QED
    BY <2>8, <2>9
<1> QED
  BY <1>6, <1>7

\* A bit of a block rises: the card has one more.
LEMMA BitRises ==
  ASSUME CardTypes, NEW data \in Contents, NEW n \in Nat, NEW bit \in {0, 1},
         card.expects = "block", Len(card.got) = n,
         \A p \in Nat : p < n /\ p < SectorBits => card.got[p + 1] = bit_of(data, p),
         n < SectorBits => bit = bit_of(data, n)
  PROVE  /\ Append(card.got, bit) \in Seq(Int) /\ Len(Append(card.got, bit)) = n + 1
         /\ \A p \in Nat : p < n + 1 /\ p < SectorBits => Append(card.got, bit)[p + 1] = bit_of(data, p)
<1> DEFINE s == card.got
<1>1. s \in Seq(Int) /\ bit \in Int
  BY DEF CardTypes
<1> HIDE DEF s
<1>2. /\ Append(s, bit) \in Seq(Int) /\ Len(Append(s, bit)) = Len(s) + 1
      /\ Append(s, bit)[Len(s) + 1] = bit
      /\ \A k \in Nat : k > 0 /\ k <= Len(s) => Append(s, bit)[k] = s[k]
  <2> DEFINE S == Int
  <2>1. s \in Seq(S) /\ bit \in S
    BY <1>1
  <2> HIDE DEF S
  <2>2. /\ Append(s, bit) \in Seq(S) /\ Len(Append(s, bit)) = Len(s) + 1
        /\ Append(s, bit)[Len(s) + 1] = bit
        /\ \A k \in Nat : k > 0 /\ k <= Len(s) => Append(s, bit)[k] = s[k]
    BY <2>1
  <2> QED
    BY <2>2 DEF S
<1>3. Len(s) = n /\ \A p \in Nat : p < n /\ p < SectorBits => s[p + 1] = bit_of(data, p)
  BY DEF s
<1> DEFINE t == Append(s, bit)
<1>4. t \in Seq(Int) /\ Len(t) = n + 1 /\ t[n + 1] = bit /\ \A k \in Nat : k > 0 /\ k <= n => t[k] = s[k]
  BY <1>2, <1>3
<1> HIDE DEF t
<1>5. ASSUME NEW p \in Nat, p < n + 1, p < SectorBits
      PROVE  t[p + 1] = bit_of(data, p)
  <2>1. CASE p = n
    BY <1>4, <1>5, <2>1
  <2>2. CASE p < n
    <3>1. p + 1 \in Nat /\ p + 1 > 0 /\ p + 1 <= n
      BY <2>2
    <3>2. t[p + 1] = s[p + 1]
      BY <1>4, <3>1
    <3> QED
      BY <1>3, <1>5, <2>2, <3>2
  <2> QED
    BY <1>5, <2>1, <2>2
<1> QED
  BY <1>4, <1>5 DEF s, t

\* A bit of the block is sent; with the last one the card has stored the sector of the call.
LEMMA WiresWriteBlockByte ==
  ASSUME CycleIn("WRITE_BLOCK_BYTE")
  PROVE  /\ WiresNext
         /\ stored' = stored \/ stored' = [stored EXCEPT ![call.sector] = call.data]
<1>0. /\ ControllerTypes /\ CardTypes /\ DOMAIN sd = ControllerFields
      /\ sd.state = "WRITE_BLOCK_BYTE" /\ sd.cmd_out = no_command
  BY CycleTypes
<1>1. WRITE_BLOCK_BYTE /\ CardStep(sclk, sd'.sclk_sig, mosi)
  BY <1>0 DEF CycleIn, Pulse
<1>2. SendingByte
  BY DEF CycleIn, Inv, Wires
<1>3. sdcard.state = "WriteSector" /\ call' = call /\ call.sector \in Sectors /\ call.data \in Contents
  BY WritesTheData DEF WriteStates
<1>4. PICK b \in 0 .. SectorSize + 2 : b = sd.byte_counter
  BY <1>2 DEF SendingByte
<1>5. PICK c \in 0 .. BitsPerByte - 1 : c = sd.bit_counter
  BY <1>2 DEF SendingByte
<1>6. /\ ~sd.cmd_mode /\ card.sector = call.sector /\ sd.response_type = 1
      /\ b \in Nat /\ c \in Nat
  BY <1>2, SizeIs, BitsPerByteIs DEF SendingByte
<1>7. PICK x \in ByteValues : x = byte_sent
  BY <1>2, <1>3, ByteSent DEF SendingByte
<1>8. /\ sd.data_sig = rest_of(x, BitsPerByte - 1 - c)
      /\ mosi = bits_of(x)[BitsPerByte - c] /\ mosi \in {0, 1}
      /\ c > 0 => shifted_in(sd.data_sig, 1) = rest_of(x, BitsPerByte - 1 - (c - 1))
  <2>1. sd.data_sig = rest_of(x, BitsPerByte - 1 - c)
    BY <1>2, <1>5, <1>7 DEF SendingByte
  <2>2. /\ msb(rest_of(x, BitsPerByte - 1 - c)) = bits_of(x)[BitsPerByte - c]
        /\ c > 0 => shifted_in(rest_of(x, BitsPerByte - 1 - c), 1) = rest_of(x, BitsPerByte - 1 - (c - 1))
        /\ bits_of(x)[BitsPerByte - c] \in {0, 1}
    BY SendsBits, BitOf
  <2>3. mosi = msb(sd.data_sig)
    BY <1>6 DEF mosi
  <2> QED
    BY <2>1, <2>2, <2>3
<1> DEFINE last == sclk = 1 /\ c = 0
<1>9. /\ DOMAIN sd' = ControllerFields
      /\ sd'.cmd_mode = sd.cmd_mode /\ sd'.response_type = sd.response_type
      /\ sd'.dout = sd.dout /\ sd'.recv_data = sd.recv_data
      /\ sd'.boot_counter = sd.boot_counter /\ sd'.cmd_out = sd.cmd_out
      /\ sd'.byte_available = sd.byte_available /\ sd'.byte_counter = b
      /\ sd'.sclk_sig = 1 - sd.sclk_sig /\ sd'.return_state = sd.return_state
      /\ sd'.state = IF last THEN "WRITE_BLOCK_DATA" ELSE sd.state
      /\ sd'.ready_for_next_byte = IF last THEN FALSE ELSE sd.ready_for_next_byte
      /\ sd'.data_sig = IF sclk = 1 /\ ~last THEN shifted_in(sd.data_sig, 1) ELSE sd.data_sig
      /\ sd'.bit_counter = IF sclk = 1 /\ ~last THEN c - 1 ELSE c
  BY <1>0, <1>1, <1>4, <1>5 DEF WRITE_BLOCK_BYTE, ControllerFields, toggled
<1>10. sd.sclk_sig \in {0, 1} /\ sd.data_sig \in ByteValues
  BY <1>0 DEF ControllerTypes
<1>11. ControllerTypes'
  <2>1. sd'.bit_counter \in Nat /\ sd'.bit_counter <= 5 * BitsPerByte
    BY <1>6, <1>9, BitsPerByteIs
  <2>2. sd'.data_sig \in ByteValues
    BY <1>9, <1>10, ShiftedIn
  <2>3. sd'.ready_for_next_byte \in BOOLEAN
    BY <1>0, <1>9 DEF ControllerTypes
  <2>4. sd'.sclk_sig \in {0, 1}
    BY <1>9, <1>10
  <2> QED
    BY <1>0, <1>4, <1>9, <2>1, <2>2, <2>3, <2>4 DEF ControllerTypes
<1>12. byte_sent' = x
  BY <1>3, <1>4, <1>7, <1>9 DEF byte_sent
<1> DEFINE M == (SectorSize + 1 - b) * BitsPerByte
<1>13. /\ b <= SectorSize + 1 => M \in Nat
       /\ (SectorSize + 2 - b) * BitsPerByte = M + BitsPerByte
       /\ b = 0 /\ c = 0 => (M + (BitsPerByte - 1 - c)) + 1 = (SectorSize + 2) * BitsPerByte
       /\ b <= SectorSize + 1 /\ ~(b = 0 /\ c = 0)
            => (M + (BitsPerByte - 1 - c)) + 1 < (SectorSize + 2) * BitsPerByte
       /\ b < 2 => M + (BitsPerByte - 1 - c) >= SectorBits
  BY BlockCount
<1>14. b # SectorSize + 2 => b <= SectorSize + 1
  BY <1>6, SizeIs
<1> HIDE DEF M
<1>15. CASE sd.sclk_sig = 0
  <2>1. /\ sd'.sclk_sig = 1 /\ sd'.state = "WRITE_BLOCK_BYTE" /\ sd'.data_sig = sd.data_sig
        /\ sd'.bit_counter = c /\ sclk = 0 /\ sclk' = 1
    BY <1>0, <1>9, <1>15 DEF sclk
  <2>2. Rise(mosi)
    BY <1>1, <1>6, <1>15, <2>1, ClockRises
  <2>3. sd'.data_sig = rest_of(byte_sent, BitsPerByte - 1 - sd.bit_counter)'
    BY <1>8, <1>12, <2>1 DEF rest_of
  <2>4. CASE b = SectorSize + 2
    <3>1. Quiet /\ card.got = <<>> /\ card.expects = "token" /\ x = start_token
      BY <1>2, <1>4, <1>7, <2>1, <2>4 DEF SendingByte, byte_sent
    <3>2. mosi = IF c = 0 THEN 0 ELSE 1
      BY <1>8, <3>1, OnesStay
    <3>3. /\ card' = (IF c = 0 THEN [card EXCEPT !.expects = "block"] ELSE card) /\ stored' = stored
      BY <2>2, <3>1, <3>2 DEF Rise
    <3>4. /\ CardTypes' /\ Quiet' /\ card'.got = <<>> /\ card'.sector = card.sector
          /\ card'.expects = IF c = 0 THEN "block" ELSE "token"
      <4>1. /\ DOMAIN card' = CardFields /\ card'.got = <<>> /\ card'.answer = card.answer
            /\ card'.miso = card.miso /\ card'.polls = card.polls /\ card'.sector = card.sector
            /\ card'.expects = IF c = 0 THEN "block" ELSE "token"
        BY <1>0, <3>1, <3>3 DEF CardTypes, CardFields
      <4> QED
        BY <1>0, <3>1, <3>3, <4>1 DEF CardTypes, Quiet, EndsBy
    <3>5. SendingByte'
      BY <1>3, <1>6, <1>9, <2>1, <2>3, <2>4, <3>4 DEF SendingByte
    <3>6. Wires'
      BY <1>0, <1>9, <2>1, <3>5 DEF Wires
    <3> QED
      BY <1>11, <3>3, <3>4, <3>6 DEF WiresNext
  <2>5. CASE b # SectorSize + 2
    <3>1. PICK n \in Nat : n = M + (BitsPerByte - 1 - c)
      BY <1>6, <1>13, <1>14, <2>5, BitsPerByteIs
    <3>2. Quiet /\ GotBits(n)
      <4>1. (SectorSize + 1 - sd.byte_counter) * BitsPerByte + BitsPerByte - 1 - sd.bit_counter
              + sd.sclk_sig = n
        <5>1. M + BitsPerByte - 1 - c + 0 = M + (BitsPerByte - 1 - c)
          BY <1>6, <1>13, <1>14, <2>5, BitsPerByteIs
        <5> QED
          BY <1>4, <1>5, <1>15, <3>1, <5>1 DEF M
      <4> QED
        BY <1>2, <1>4, <2>1, <2>5, <4>1 DEF SendingByte
    <3>3. n < SectorBits => mosi = bit_of(call.data, n)
      <4>1. ASSUME n < SectorBits
            PROVE  b \in 2 .. SectorSize + 1
        BY <1>6, <1>13, <1>14, <2>5, <3>1, <4>1, SizeIs
      <4>2. ASSUME b \in 2 .. SectorSize + 1
            PROVE  mosi = bit_of(call.data, n)
        <5>1. bit_of(call.data, n) = bits_of(call.data[SectorSize + 1 - b])[BitsPerByte - c]
          BY <3>1, <4>2, BitSent DEF M
        <5>2. x = call.data[SectorSize + 1 - b]
          BY <1>4, <1>7, <2>5, <4>2 DEF byte_sent
        <5> QED
          BY <1>8, <5>1, <5>2
      <4> QED
        BY <4>1, <4>2
    <3>4. PICK bit \in {0, 1} : bit = mosi
      BY <1>8
    <3> DEFINE got == Append(card.got, bit)
    <3>5. /\ got \in Seq(Int) /\ Len(got) = n + 1
          /\ \A p \in Nat : p < n + 1 /\ p < SectorBits => got[p + 1] = bit_of(call.data, p)
      BY <1>0, <1>3, <3>2, <3>3, <3>4, BitRises DEF GotBits
    <3>6. /\ card.expects = "block"
          /\ IF Len(got) < (SectorSize + 2) * BitsPerByte
               THEN card' = [card EXCEPT !.got = got] /\ UNCHANGED stored
               ELSE Block(got)
      BY <2>2, <3>2, <3>4 DEF Rise, GotBits
    <3> HIDE DEF got
    <3>7. CASE ~(b = 0 /\ c = 0)
      <4>1. n + 1 < (SectorSize + 2) * BitsPerByte
        BY <1>13, <1>14, <2>5, <3>1, <3>7
      <4>2. card' = [card EXCEPT !.got = got] /\ stored' = stored
        BY <3>5, <3>6, <4>1
      <4>3. /\ DOMAIN card' = CardFields /\ card'.got = got /\ card'.answer = card.answer
            /\ card'.miso = card.miso /\ card'.polls = card.polls /\ card'.sector = card.sector
            /\ card'.expects = "block"
        BY <1>0, <3>6, <4>2 DEF CardTypes, CardFields
      <4>4. CardTypes' /\ Quiet'
        BY <1>0, <3>2, <3>5, <4>2, <4>3 DEF CardTypes, Quiet, EndsBy
      <4>5. GotBits(n + 1)'
        BY <1>3, <3>5, <4>3 DEF GotBits, bit_of
      <4>6. ((SectorSize + 1 - sd.byte_counter) * BitsPerByte
              + BitsPerByte - 1 - sd.bit_counter + sd.sclk_sig)' = n + 1
        <5>1. M + BitsPerByte - 1 - c + 1 = n + 1
          BY <1>6, <1>13, <1>14, <2>5, <3>1, BitsPerByteIs
        <5> QED
          BY <1>9, <2>1, <5>1 DEF M
      <4>7. GotBits((SectorSize + 1 - sd.byte_counter) * BitsPerByte
                    + BitsPerByte - 1 - sd.bit_counter + sd.sclk_sig)'
        BY <4>5, <4>6
      <4>8. SendingByte'
        BY <1>3, <1>6, <1>9, <2>1, <2>3, <2>5, <3>7, <4>3, <4>4, <4>7 DEF SendingByte
      <4>9. Wires'
        BY <1>0, <1>9, <2>1, <4>8 DEF Wires
      <4> QED
        BY <1>11, <4>2, <4>4, <4>9 DEF WiresNext
    <3>8. CASE b = 0 /\ c = 0
      <4>1. n + 1 = (SectorSize + 2) * BitsPerByte /\ n >= SectorBits
        BY <1>13, <3>1, <3>8
      <4>2. Block(got)
        BY <3>5, <3>6, <4>1
      <4>3. \A p \in Nat : p < SectorBits => got[p + 1] = bit_of(call.data, p)
        BY <3>5, <4>1, SizeIs
      <4>4. /\ DOMAIN card' = CardFields /\ card'.answer \in Seq({0, 1}) /\ card'.miso = 1
            /\ card'.polls = card.polls /\ card'.sector = card.sector
            /\ card'.expects = "command" /\ card'.got = <<>>
            /\ stored' = [stored EXCEPT ![card.sector] = call.data]
            /\ \E k \in Nat : ZeroAt(1, k)' /\ BusyAfter(k + BitsPerByte)'
        BY <1>0, <1>3, <1>6, <3>2, <4>2, <4>3, BlockAnswers
      <4>5. CardTypes' /\ stored'[call'.sector] = call'.data
        <5>1. <<>> \in Seq(Int)
          OBVIOUS
        <5> QED
          BY <1>0, <1>3, <1>6, <4>4, <5>1 DEF CardTypes
      <4>6. sd'.data_sig = all_ones
        <5>1. x = all_ones
          BY <1>4, <1>7, <3>8, SizeIs DEF byte_sent
        <5> QED
          BY <1>8, <2>1, <5>1, OnesStay
      <4>7. Stored'
        BY <1>6, <1>9, <4>4, <4>5, <4>6 DEF Stored, CardIdle
      <4>8. SendingByte'
        BY <1>3, <1>6, <1>9, <2>1, <2>3, <2>5, <3>8, <4>4, <4>7 DEF SendingByte
      <4>9. Wires'
        BY <1>0, <1>9, <2>1, <4>8 DEF Wires
      <4> QED
        BY <1>6, <1>11, <4>4, <4>5, <4>9 DEF WiresNext
    <3> QED
      BY <3>7, <3>8
  <2> QED
    BY <2>4, <2>5
<1>16. CASE sd.sclk_sig = 1
  <2>1. sd'.sclk_sig = 0 /\ sclk = 1 /\ sclk' = 0
    BY <1>9, <1>16 DEF sclk
  <2>2. Fall
    BY <1>1, <1>6, <1>16, <2>1, ClockFalls
  <2>3. /\ card'.expects = card.expects /\ card'.got = card.got /\ card'.sector = card.sector
        /\ stored' = stored /\ (Quiet => Quiet') /\ CardTypes'
    <3>1. /\ card'.expects = card.expects /\ card'.got = card.got /\ card'.sector = card.sector
          /\ stored' = stored /\ (Quiet => Quiet') /\ card'.polls = card.polls
          /\ DOMAIN card' = CardFields /\ card'.answer \in Seq({0, 1}) /\ card'.miso \in {0, 1}
      BY <1>0, <2>2, LineFalls
    <3> QED
      BY <1>0, <3>1 DEF CardTypes
  <2>4. \A m \in Int : GotBits(m) => GotBits(m)'
    BY <1>3, <2>3 DEF GotBits, bit_of
  <2>5. CASE c = 0
    <3>1. /\ sd'.state = "WRITE_BLOCK_DATA" /\ sd'.data_sig = sd.data_sig
      BY <1>9, <2>1, <2>5
    <3>2. CASE b = SectorSize + 2
      <4>1. Quiet' /\ card'.got = <<>> /\ card'.expects = "block"
        BY <1>2, <1>4, <1>5, <2>1, <2>3, <2>5, <3>2 DEF SendingByte
      <4>2. b # SectorSize + 3 /\ b # 0 /\ (SectorSize + 2 - b) * BitsPerByte = 0
        BY <3>2, SizeIs, BitsPerByteIs
      <4>3. GotBits((SectorSize + 2 - sd.byte_counter) * BitsPerByte)'
        <5>1. GotBits(0)'
          BY <4>1 DEF GotBits
        <5>2. ((SectorSize + 2 - sd.byte_counter) * BitsPerByte)' = 0
          BY <1>9, <4>2
        <5> QED
          BY <5>1, <5>2
      <4>4. sd'.byte_counter \in 0 .. SectorSize + 3
        BY <1>6, <1>9, SizeIs
      <4>5. BetweenBytes'
        BY <1>3, <1>6, <1>9, <2>1, <2>3, <4>1, <4>2, <4>3, <4>4 DEF BetweenBytes
      <4>6. Wires'
        BY <1>0, <1>9, <3>1, <4>5 DEF Wires
      <4> QED
        BY <1>11, <2>3, <4>6 DEF WiresNext
    <3>3. CASE b = 0
      <4>1. PICK n \in Nat : Stored /\ ZeroAt(1, n) /\ BusyAfter(n + BitsPerByte)
        BY <1>2, <1>4, <1>5, <2>1, <2>5, <3>3, SizeIs DEF SendingByte
      <4>2. Stored'
        BY <1>3, <1>9, <2>3, <3>1, <4>1 DEF Stored, CardIdle
      <4>3. n > 0 /\ n - 1 \in Nat /\ ZeroAt(0, n - 1)'
        <5>1. ZeroAt(0 + 1, n)
          BY <4>1
        <5> QED
          BY <1>0, <2>2, <5>1, BlockFalls
      <4>4. BusyAfter((n - 1) + BitsPerByte)'
        <5>1. PICK m \in Nat : m = (n - 1) + BitsPerByte /\ m + 1 = n + BitsPerByte
          BY <4>3, BitsPerByteIs
        <5>2. BusyAfter(m)'
          BY <1>0, <2>2, <4>1, <5>1, BlockFalls
        <5> QED
          BY <5>1, <5>2
      <4>5. b # SectorSize + 3 /\ sd'.byte_counter \in 0 .. SectorSize + 3
        BY <1>6, <1>9, <3>3, SizeIs
      <4>6. BetweenBytes'
        BY <1>3, <1>6, <1>9, <2>1, <2>3, <3>3, <4>2, <4>3, <4>4, <4>5 DEF BetweenBytes
      <4>7. Wires'
        BY <1>0, <1>9, <3>1, <4>6 DEF Wires
      <4> QED
        BY <1>11, <2>3, <4>7 DEF WiresNext
    <3>4. CASE b # 0 /\ b # SectorSize + 2
      <4>1. PICK m \in Int : m = M + BitsPerByte
        BY <1>13, <1>14, <3>4, BitsPerByteIs
      <4>2. (SectorSize + 1 - sd.byte_counter) * BitsPerByte + BitsPerByte - 1 - sd.bit_counter
              + sd.sclk_sig = m
        <5>1. M + BitsPerByte - 1 - c + 1 = M + BitsPerByte
          BY <1>13, <1>14, <2>5, <3>4, BitsPerByteIs
        <5> QED
          BY <1>4, <1>5, <1>16, <4>1, <5>1 DEF M
      <4>3. Quiet' /\ GotBits(m)'
        BY <1>2, <1>4, <1>5, <2>3, <2>4, <3>4, <4>2 DEF SendingByte
      <4>4. GotBits((SectorSize + 2 - sd.byte_counter) * BitsPerByte)'
        <5>1. ((SectorSize + 2 - sd.byte_counter) * BitsPerByte)' = m
          BY <1>9, <1>13, <4>1
        <5> QED
          BY <4>3, <5>1
      <4>5. b # SectorSize + 3 /\ sd'.byte_counter \in 0 .. SectorSize + 3
        BY <1>6, <1>9, SizeIs
      <4>6. BetweenBytes'
        BY <1>3, <1>6, <1>9, <2>1, <2>3, <3>4, <4>3, <4>4, <4>5 DEF BetweenBytes
      <4>7. Wires'
        BY <1>0, <1>9, <3>1, <4>6 DEF Wires
      <4> QED
        BY <1>11, <2>3, <4>7 DEF WiresNext
    <3> QED
      BY <3>2, <3>3, <3>4
  <2>6. CASE c > 0
    <3>1. /\ sd'.state = "WRITE_BLOCK_BYTE" /\ sd'.bit_counter = c - 1
          /\ sd'.data_sig = rest_of(x, BitsPerByte - 1 - (c - 1))
          /\ c - 1 \in 0 .. BitsPerByte - 1
      BY <1>0, <1>6, <1>8, <1>9, <2>1, <2>6, BitsPerByteIs
    <3>2. sd'.data_sig = rest_of(byte_sent, BitsPerByte - 1 - sd.bit_counter)'
      BY <1>12, <3>1 DEF rest_of
    <3>3. CASE b = SectorSize + 2
      <4>1. Quiet' /\ card'.got = <<>> /\ card'.expects = "token"
        BY <1>2, <1>4, <1>5, <2>1, <2>3, <2>6, <3>3 DEF SendingByte
      <4>2. SendingByte'
        BY <1>3, <1>6, <1>9, <2>1, <2>3, <3>1, <3>2, <3>3, <4>1 DEF SendingByte
      <4>3. Wires'
        BY <1>0, <1>9, <3>1, <4>2 DEF Wires
      <4> QED
        BY <1>11, <2>3, <4>3 DEF WiresNext
    <3>4. CASE b # SectorSize + 2
      <4>1. PICK m \in Int : m = M + (BitsPerByte - 1 - c) + 1
        BY <1>6, <1>13, <1>14, <3>4, BitsPerByteIs
      <4>2. (SectorSize + 1 - sd.byte_counter) * BitsPerByte + BitsPerByte - 1 - sd.bit_counter
              + sd.sclk_sig = m
        <5>1. M + BitsPerByte - 1 - c + 1 = M + (BitsPerByte - 1 - c) + 1
          BY <1>6, <1>13, <1>14, <3>4, BitsPerByteIs
        <5> QED
          BY <1>4, <1>5, <1>16, <4>1, <5>1 DEF M
      <4>3. Quiet' /\ GotBits(m)'
        BY <1>2, <1>4, <1>5, <2>3, <2>4, <2>6, <3>4, <4>2 DEF SendingByte
      <4>4. GotBits((SectorSize + 1 - sd.byte_counter) * BitsPerByte
                    + BitsPerByte - 1 - sd.bit_counter + sd.sclk_sig)'
        <5>1. M + BitsPerByte - 1 - (c - 1) + 0 = m
          BY <1>6, <1>13, <1>14, <3>4, <4>1, BitsPerByteIs
        <5>2. ((SectorSize + 1 - sd.byte_counter) * BitsPerByte
                + BitsPerByte - 1 - sd.bit_counter + sd.sclk_sig)' = m
          BY <1>9, <2>1, <3>1, <5>1 DEF M
        <5> QED
          BY <4>3, <5>2
      <4>5. SendingByte'
        BY <1>3, <1>6, <1>9, <2>1, <2>3, <3>1, <3>2, <3>4, <4>3, <4>4 DEF SendingByte
      <4>6. Wires'
        BY <1>0, <1>9, <3>1, <4>5 DEF Wires
      <4> QED
        BY <1>11, <2>3, <4>6 DEF WiresNext
    <3> QED
      BY <3>3, <3>4
  <2> QED
    BY <1>6, <2>5, <2>6
<1> QED
  BY <1>10, <1>15, <1>16

-----------------------------------------------------------------------------
(* A cycle of clk, and what the program may do in it.                      *)

\* top.sv: the slow clock is the clock.
LEMMA EveryCycle ==
  ASSUME InterfaceTypes, NEW cmd, NEW sector, NEW data_in, Clock(cmd, sector, data_in)
  PROVE  /\ Pulse(sdcard.rd, sdcard.wr, sdcard.address, sdcard.din, card.miso)
         /\ CardStep(sclk, sd'.sclk_sig, mosi) /\ counter' = 0
<1>1. ClockDivider = 0 /\ counter = 0
  BY SdSystemAssumption DEF InterfaceTypes
<1>2. 2 ^ ClockDivider = 1
  BY <1>1
<1>3. (0 + 1) % 1 = 0
  OBVIOUS
<1> QED
  BY <1>1, <1>2, <1>3 DEF Clock, InterfaceStep, clk_pulse_slow

\* In every state the wires are where the invariant says, and only the last
\* bit of a block stores something.
LEMMA CycleWires ==
  ASSUME CycleIn(sd.state)
  PROVE  /\ WiresNext
         /\ \/ stored' = stored
            \/ sd.state = "WRITE_BLOCK_BYTE" /\ stored' = [stored EXCEPT ![call.sector] = call.data]
<1>1. sd.state \in {"RST", "INIT", "CMD0", "CMD8", "CMD55", "CMD41", "POLL_CMD", "IDLE", "SEND_CMD",
                    "RECEIVE_BYTE_WAIT", "RECEIVE_BYTE", "READ_BLOCK", "READ_BLOCK_WAIT",
                    "READ_BLOCK_DATA", "READ_BLOCK_CRC", "WRITE_BLOCK_CMD", "WRITE_BLOCK_INIT",
                    "WRITE_BLOCK_DATA", "WRITE_BLOCK_BYTE", "WRITE_BLOCK_WAIT"}
  BY DEF CycleIn, Pulse
<1>2. CASE sd.state \in {"RST", "INIT", "POLL_CMD", "IDLE", "SEND_CMD", "RECEIVE_BYTE_WAIT",
                         "RECEIVE_BYTE"}
  BY <1>2, WiresRst, WiresInit, WiresPollCmd, WiresIdle, WiresSendCmd, WiresReceiveByteWait,
     WiresReceiveByte
<1>3. CASE sd.state \in {"CMD0", "CMD8", "CMD55", "CMD41"}
  BY <1>3, WiresCommands
<1>4. CASE sd.state \in {"READ_BLOCK", "WRITE_BLOCK_CMD"}
  BY <1>4, WiresTransfers
<1>5. CASE sd.state \in {"READ_BLOCK_WAIT", "READ_BLOCK_DATA", "READ_BLOCK_CRC", "WRITE_BLOCK_INIT",
                         "WRITE_BLOCK_DATA", "WRITE_BLOCK_BYTE", "WRITE_BLOCK_WAIT"}
  BY <1>5, WiresReadBlockWait, WiresReadBlockData, WiresReadBlockCrc, WiresWriteBlockInit,
     WiresWriteBlockData, WiresWriteBlockByte, WiresWriteBlockWait
<1> QED
  BY <1>1, <1>2, <1>3, <1>4, <1>5

\* The program waits while sdcard.sv is busy with its call.
LEMMA ProgramWaits ==
  ASSUME Inv, Wait \/ CallAny \/ Access, sdcard.state \notin {"Init", "Idle"}
  PROVE  /\ UNCHANGED programVars
         /\ \E cmd, sector, data_in \in Int : Clock(cmd, sector, data_in)
<1>1. busy /\ doing \in {"wait_for_read", "wait_for_write"}
  BY DEF Inv, InterfaceAt, busy
<1>2. ~CallAny
  BY <1>1 DEF CallAny, CallRead, CallWrite
<1>3. CASE Wait
  BY <1>3 DEF Wait
<1>4. CASE Access
  <2>1. SeesBusy(busy) /\ Clock(0, 0, 0)
    BY <1>1, <1>4 DEF Access, StartsRead, ReadsByte, WritesByte, StartsWrite
  <2>2. doing' = doing /\ call' = call
    BY <1>1, <2>1 DEF SeesBusy
  <2> QED
    BY <2>1, <2>2 DEF SeesBusy, programVars
<1> QED
  BY <1>2, <1>3, <1>4

-----------------------------------------------------------------------------
(* The buffer of sdcard.sv as a stream.                                    *)

\* The remainder is the only one that fits.
LEMMA RemainderIs ==
  ASSUME NEW x \in Nat, NEW m \in Nat \ {0}, NEW q \in Int, NEW r \in 0 .. m - 1, x = m * q + r
  PROVE  x % m = r
<1>1. x = m * (x \div m) + (x % m) /\ x \div m \in Nat /\ x % m \in 0 .. m - 1
  OBVIOUS
<1>2. (x % m) - r = m * (q - x \div m)
  BY <1>1
<1>3. CASE q - x \div m = 0
  BY <1>1, <1>2, <1>3
<1>4. CASE q - x \div m >= 1
  <2>1. \A d \in Int : d >= 1 => m * d >= m
    OBVIOUS
  <2> QED
    BY <1>1, <1>2, <1>4, <2>1
<1>5. CASE q - x \div m <= -1
  <2>1. \A d \in Int : d <= -1 => m * d <= -m
    OBVIOUS
  <2> QED
    BY <1>1, <1>2, <1>5, <2>1
<1> QED
  BY <1>1, <1>3, <1>4, <1>5

\* A remainder is the only one.
LEMMA OneRemainder ==
  ASSUME NEW x \in Nat, NEW q \in Int, NEW r \in Indices, x = SectorSize * q + r
  PROVE  x % SectorSize = r
BY RemainderIs, SizeIs DEF Indices

\* What is added after a remainder is taken may be added before.
LEMMA AddsUp ==
  ASSUME NEW x \in Nat, NEW k \in Nat
  PROVE  ((x % SectorSize) + k) % SectorSize = (x + k) % SectorSize
<1> DEFINE r == x % SectorSize
           q == x \div SectorSize
           y == r + k
<1>1. x = SectorSize * q + r /\ q \in Nat /\ r \in Indices /\ r \in Nat
  BY SizeIs DEF Indices
<1>2. y \in Nat /\ y = SectorSize * (y \div SectorSize) + (y % SectorSize)
      /\ y \div SectorSize \in Nat /\ y % SectorSize \in Indices
  <2> HIDE DEF r
  <2>1. y \in Nat
    BY <1>1
  <2> HIDE DEF y
  <2> QED
    BY <2>1, SizeIs DEF Indices
<1>3. x + k = SectorSize * q + y
  <2> HIDE DEF q, r
  <2>1. SectorSize * q \in Int
    BY <1>1, SizeIs
  <2> QED
    BY <1>1, <2>1
<1> HIDE DEF q, r
<1>4. SectorSize * (q + y \div SectorSize) = SectorSize * q + SectorSize * (y \div SectorSize)
  <2> HIDE DEF y
  <2> QED
    BY <1>1, <1>2, SizeIs
<1>5. x + k = SectorSize * (q + y \div SectorSize) + (y % SectorSize)
  <2> HIDE DEF y
  <2>1. SectorSize * q \in Int /\ SectorSize * (y \div SectorSize) \in Int /\ y % SectorSize \in Int
    BY <1>1, <1>2, SizeIs
  <2> QED
    BY <1>2, <1>3, <1>4, <2>1
<1>6. x + k \in Nat /\ q + y \div SectorSize \in Int
  <2> HIDE DEF y
  <2> QED
    BY <1>1, <1>2
<1>7. (x + k) % SectorSize = y % SectorSize
  <2> HIDE DEF y
  <2> QED
    BY <1>2, <1>5, <1>6, OneRemainder
<1> QED
  BY <1>7 DEF r

\* An index that goes around stays one.
LEMMA InIndices ==
  \A x \in Nat : /\ x % SectorSize \in Indices /\ x % SectorSize \in Nat
                 /\ x < SectorSize => x % SectorSize = x
BY SizeIs DEF Indices

\* The stream comes round.
LEMMA RingComesRound ==
  ASSUME InterfaceTypes, NEW k \in Nat
  PROVE  /\ ring(k) = ring(k % SectorSize) /\ ring(k) \in ByteValues
         /\ (sdcard.buffer_index + k) % SectorSize \in Indices
<1>1. sdcard.buffer_index \in Nat /\ sdcard.buffer \in [Indices -> ByteValues]
  BY DEF InterfaceTypes, Indices
<1>2. PICK x \in Nat : x = sdcard.buffer_index
  BY <1>1
<1>3. ((k % SectorSize) + x) % SectorSize = (k + x) % SectorSize
  BY AddsUp
<1>4. k + x = x + k /\ (k % SectorSize) + x = x + (k % SectorSize) /\ x + k \in Nat
  BY InIndices
<1>5. (x + k) % SectorSize \in Indices
  BY <1>4, InIndices
<1> QED
  BY <1>1, <1>2, <1>3, <1>4, <1>5 DEF ring

\* The index moves: what was next is first.
LEMMA RingMoves ==
  ASSUME InterfaceTypes, sdcard'.buffer = sdcard.buffer, sdcard'.buffer_index = next_index
  PROVE  \A k \in Nat : ring(k)' = ring(k + 1)
<1>1. PICK x \in Nat : x = sdcard.buffer_index
  BY DEF InterfaceTypes, Indices
<1>2. ASSUME NEW k \in Nat
      PROVE  ring(k)' = ring(k + 1)
  <2>1. (((x + 1) % SectorSize) + k) % SectorSize = ((x + 1) + k) % SectorSize
    BY AddsUp
  <2>2. (x + 1) + k = x + (k + 1)
    OBVIOUS
  <2> QED
    BY <1>1, <2>1, <2>2 DEF ring, next_index
<1> QED
  BY <1>2

\* A byte is written and the index moves: the byte is the last of the stream.
LEMMA RingTakes ==
  ASSUME InterfaceTypes, NEW byte \in ByteValues,
         sdcard'.buffer = [sdcard.buffer EXCEPT ![sdcard.buffer_index] = byte],
         sdcard'.buffer_index = next_index
  PROVE  /\ \A k \in Nat : k + 1 < SectorSize => ring(k)' = ring(k + 1)
         /\ ring(SectorSize - 1)' = byte
<1>1. PICK x \in Nat : x = sdcard.buffer_index /\ x \in Indices
  BY DEF InterfaceTypes, Indices
<1>2. \A k \in Nat : ring(k)' = sdcard'.buffer[(x + (k + 1)) % SectorSize]
  <2>1. ASSUME NEW k \in Nat
        PROVE  ring(k)' = sdcard'.buffer[(x + (k + 1)) % SectorSize]
    <3>1. (((x + 1) % SectorSize) + k) % SectorSize = ((x + 1) + k) % SectorSize
      BY AddsUp
    <3>2. (x + 1) + k = x + (k + 1)
      OBVIOUS
    <3> QED
      BY <1>1, <3>1, <3>2 DEF ring, next_index
  <2> QED
    BY <2>1
<1>3. ASSUME NEW k \in Nat, k + 1 < SectorSize
      PROVE  (x + (k + 1)) % SectorSize # x
  <2>1. CASE x + (k + 1) < SectorSize
    BY <2>1, InIndices
  <2>2. CASE x + (k + 1) >= SectorSize
    <3>1. /\ x + (k + 1) = SectorSize * 1 + (x + k + 1 - SectorSize)
          /\ x + k + 1 - SectorSize \in Indices /\ x + (k + 1) \in Nat
      BY <1>1, <1>3, <2>2, SizeIs DEF Indices
    <3>2. (x + (k + 1)) % SectorSize = x + k + 1 - SectorSize
      BY <3>1, OneRemainder
    <3> QED
      BY <1>3, <3>2, SizeIs
  <2> QED
    BY <2>1, <2>2, SizeIs
<1>4. (x + ((SectorSize - 1) + 1)) % SectorSize = x /\ SectorSize - 1 \in Nat
  <2>1. PICK y \in Nat : y = x + ((SectorSize - 1) + 1)
    BY SizeIs
  <2>2. y = SectorSize * 1 + x
    BY <2>1, SizeIs
  <2>3. y % SectorSize = x
    BY <1>1, <2>2, OneRemainder
  <2>4. SectorSize - 1 \in Nat
    BY SizeIs
  <2> QED
    BY <2>1, <2>3, <2>4
<1>5. sdcard.buffer \in [Indices -> ByteValues]
  BY DEF InterfaceTypes
<1>6. ring(SectorSize - 1)' = byte
  <2>1. ring(SectorSize - 1)' = sdcard'.buffer[x]
    <3>1. PICK k \in Nat : k = SectorSize - 1
      BY <1>4
    <3>2. ring(k)' = sdcard'.buffer[x]
      BY <1>2, <1>4, <3>1
    <3> QED
      BY <3>1, <3>2 DEF ring
  <2> QED
    BY <1>1, <1>5, <2>1
<1>7. ASSUME NEW k \in Nat, k + 1 < SectorSize
      PROVE  ring(k)' = ring(k + 1)
  <2>1. (x + (k + 1)) % SectorSize \in Indices
    <3>1. x + (k + 1) \in Nat
      OBVIOUS
    <3> QED
      BY <3>1, InIndices
  <2>2. (x + (k + 1)) % SectorSize # x
    BY <1>3, <1>7
  <2> QED
    BY <1>1, <1>2, <1>5, <2>1, <2>2 DEF ring
<1> QED
  BY <1>6, <1>7

\* The stream of the buffer rests while the buffer does.
LEMMA RingRests ==
  ASSUME sdcard'.buffer = sdcard.buffer, sdcard'.buffer_index = sdcard.buffer_index
  PROVE  /\ \A k : ring(k)' = ring(k)
         /\ \A f, n : Holds(f, n)' = Holds(f, n)
         /\ \A f, n : Behind(f, n)' = Behind(f, n)
<1>1. \A k : ring(k)' = ring(k)
  BY DEF ring
<1> QED
  BY <1>1 DEF Holds, Behind

\* A byte is taken from the buffer: the next one is first.
LEMMA HoldsMoves ==
  ASSUME InterfaceTypes, NEW f, NEW t \in Nat, Holds(f, t),
         sdcard'.buffer = sdcard.buffer, sdcard'.buffer_index = next_index
  PROVE  Holds(f, t + 1)' /\ ring(0) = f[t % SectorSize]
<1>1. \A k \in Nat : ring(k)' = ring(k + 1)
  BY RingMoves
<1>2. \A k \in Nat : ring(k) = f[(t + k) % SectorSize]
  BY DEF Holds
<1>3. ASSUME NEW k \in Nat
      PROVE  ring(k)' = f[((t + 1) + k) % SectorSize]
  <2>1. ring(k + 1) = f[(t + (k + 1)) % SectorSize] /\ t + (k + 1) = (t + 1) + k
    BY <1>2
  <2> QED
    BY <1>1, <2>1
<1>4. ring(0) = f[(t + 0) % SectorSize] /\ t + 0 = t
  BY <1>2
<1> QED
  BY <1>3, <1>4 DEF Holds

\* A byte is put in the buffer behind the ones before it.
LEMMA BehindTakes ==
  ASSUME InterfaceTypes, NEW f, NEW n \in Nat, n < SectorSize, Behind(f, n),
         f[n] \in ByteValues,
         sdcard'.buffer = [sdcard.buffer EXCEPT ![sdcard.buffer_index] = f[n]],
         sdcard'.buffer_index = next_index
  PROVE  Behind(f, n + 1)'
<1>1. /\ \A k \in Nat : k + 1 < SectorSize => ring(k)' = ring(k + 1)
      /\ ring(SectorSize - 1)' = f[n]
  BY RingTakes
<1>2. ASSUME NEW k \in Nat, k < n + 1
      PROVE  ring(SectorSize - (n + 1) + k)' = f[k]
  <2>1. CASE k = n
    <3>1. SectorSize - (n + 1) + k = SectorSize - 1
      BY <2>1, SizeIs
    <3> QED
      BY <1>1, <2>1, <3>1
  <2>2. CASE k < n
    <3>1. PICK j \in Nat : j = SectorSize - (n + 1) + k
      BY <2>2, SizeIs
    <3>2. j + 1 < SectorSize /\ j + 1 = SectorSize - n + k
      BY <2>2, <3>1, SizeIs
    <3>3. ring(SectorSize - n + k) = f[k]
      BY <2>2 DEF Behind
    <3>4. ring(j)' = f[k]
      BY <1>1, <3>2, <3>3
    <3> QED
      BY <3>1, <3>4
  <2> QED
    BY <1>2, <2>1, <2>2
<1> QED
  BY <1>2 DEF Behind

\* After a whole sector the stream is at its first byte.
LEMMA BehindAll ==
  ASSUME InterfaceTypes, NEW f, Behind(f, SectorSize)
  PROVE  Holds(f, 0)
<1>1. ASSUME NEW k \in Nat
      PROVE  ring(k) = f[(0 + k) % SectorSize]
  <2>1. PICK j \in Nat : j = k % SectorSize /\ j < SectorSize
    BY InIndices, SizeIs DEF Indices
  <2>2. ring(SectorSize - SectorSize + j) = f[j] /\ SectorSize - SectorSize + j = j
    BY <2>1, SizeIs DEF Behind
  <2>3. ring(k) = ring(j)
    BY <2>1, RingComesRound
  <2>4. 0 + k = k
    OBVIOUS
  <2> QED
    BY <2>1, <2>2, <2>3, <2>4
<1> QED
  BY <1>1 DEF Holds

-----------------------------------------------------------------------------
(* What sdcard.sv sees of a pulse.                                         *)

\* the wires between the two modules do not change
SameWires == /\ sd'.byte_available = sd.byte_available
             /\ sd'.ready_for_next_byte = sd.ready_for_next_byte
             /\ sd'.dout = sd.dout

\* Where the states of the initialization go.
LEMMA MovesInit ==
  ASSUME CycleIn(sd.state)
  PROVE  /\ sd.state = "RST" => \/ sd'.state = "RST"
                                \/ /\ sd'.state = "INIT" /\ ~sd'.byte_available
                                   /\ ~sd'.ready_for_next_byte
         /\ sd.state = "INIT" => sd'.state \in {"INIT", "CMD0"} /\ SameWires
         /\ sd.state \in {"CMD0", "CMD8", "CMD55", "CMD41"}
              => /\ sd'.state = "SEND_CMD" /\ SameWires
                 /\ sd'.return_state \in {"CMD8", "CMD55", "CMD41", "POLL_CMD"}
         /\ sd.state = "POLL_CMD" => sd'.state \in {"IDLE", "CMD55"} /\ SameWires
<1>0. DOMAIN sd = ControllerFields
  BY CycleTypes
<1>1. sd.state = "RST" => RST
  BY DEF CycleIn, Pulse
<1>2. sd.state = "INIT" => INIT
  BY DEF CycleIn, Pulse
<1>3. /\ sd.state = "CMD0" => CMD0
      /\ sd.state = "CMD8" => CMD8
      /\ sd.state = "CMD55" => CMD55
      /\ sd.state = "CMD41" => CMD41
  BY DEF CycleIn, Pulse
<1>4. sd.state = "POLL_CMD" => POLL_CMD
  BY DEF CycleIn, Pulse
<1>5. sd.state = "RST" => \/ sd'.state = "RST"
                          \/ /\ sd'.state = "INIT" /\ ~sd'.byte_available
                             /\ ~sd'.ready_for_next_byte
  BY <1>0, <1>1 DEF RST, ControllerFields
<1>6. sd.state = "INIT" => sd'.state \in {"INIT", "CMD0"} /\ SameWires
  BY <1>0, <1>2 DEF INIT, ControllerFields, SameWires
<1>7. sd.state \in {"CMD0", "CMD8", "CMD55", "CMD41"}
        => /\ sd'.state = "SEND_CMD" /\ SameWires
           /\ sd'.return_state \in {"CMD8", "CMD55", "CMD41", "POLL_CMD"}
  <2>1. ASSUME NEW number, NEW argument, NEW then, sd' = send(number, argument, then)
        PROVE  sd'.state = "SEND_CMD" /\ SameWires /\ sd'.return_state = then
    BY <1>0, <2>1 DEF send, ControllerFields, SameWires
  <2>2. ASSUME sd' = [send(72, 426, "CMD55") EXCEPT !.response_type = 7]
        PROVE  sd'.state = "SEND_CMD" /\ SameWires /\ sd'.return_state = "CMD55"
    BY <1>0, <2>2 DEF send, ControllerFields, SameWires
  <2>3. CASE sd.state = "CMD0"
    BY <1>3, <2>1, <2>3 DEF CMD0
  <2>4. CASE sd.state = "CMD8"
    BY <1>3, <2>2, <2>4 DEF CMD8
  <2>5. CASE sd.state = "CMD55"
    BY <1>3, <2>1, <2>5 DEF CMD55
  <2>6. CASE sd.state = "CMD41"
    BY <1>3, <2>1, <2>6 DEF CMD41
  <2> QED
    BY <2>3, <2>4, <2>5, <2>6
<1>8. sd.state = "POLL_CMD" => sd'.state \in {"IDLE", "CMD55"} /\ SameWires
  BY <1>0, <1>4 DEF POLL_CMD, ControllerFields, SameWires
<1> QED
  BY <1>5, <1>6, <1>7, <1>8

\* Where the states of a command and its response go.
LEMMA MovesResponse ==
  ASSUME CycleIn(sd.state)
  PROVE  /\ sd.state = "SEND_CMD"
              => /\ sd'.state \in {"SEND_CMD", "RECEIVE_BYTE_WAIT"} /\ SameWires
                 /\ sd'.return_state = sd.return_state
         /\ sd.state = "RECEIVE_BYTE_WAIT"
              => /\ sd'.state \in {"RECEIVE_BYTE_WAIT", "RECEIVE_BYTE"} /\ SameWires
                 /\ sd'.return_state = sd.return_state
         /\ sd.state = "RECEIVE_BYTE"
              => /\ sd'.state \in {"RECEIVE_BYTE", sd.return_state} /\ ~sd'.byte_available
                 /\ sd'.return_state = sd.return_state /\ sd'.byte_counter = sd.byte_counter
                 /\ sd'.ready_for_next_byte = sd.ready_for_next_byte
<1>0. DOMAIN sd = ControllerFields
  BY CycleTypes
<1>1. sd.state = "SEND_CMD" => SEND_CMD
  BY DEF CycleIn, Pulse
<1>2. sd.state = "RECEIVE_BYTE_WAIT" => RECEIVE_BYTE_WAIT(card.miso)
  BY DEF CycleIn, Pulse
<1>3. sd.state = "RECEIVE_BYTE" => RECEIVE_BYTE(card.miso)
  BY DEF CycleIn, Pulse
<1>4. sd.state = "SEND_CMD"
        => /\ sd'.state \in {"SEND_CMD", "RECEIVE_BYTE_WAIT"} /\ SameWires
           /\ sd'.return_state = sd.return_state
  BY <1>0, <1>1 DEF SEND_CMD, ControllerFields, SameWires
<1>5. sd.state = "RECEIVE_BYTE_WAIT"
        => /\ sd'.state \in {"RECEIVE_BYTE_WAIT", "RECEIVE_BYTE"} /\ SameWires
           /\ sd'.return_state = sd.return_state
  BY <1>0, <1>2 DEF RECEIVE_BYTE_WAIT, ControllerFields, SameWires
<1>6. sd.state = "RECEIVE_BYTE"
        => /\ sd'.state \in {"RECEIVE_BYTE", sd.return_state} /\ ~sd'.byte_available
           /\ sd'.return_state = sd.return_state /\ sd'.byte_counter = sd.byte_counter
           /\ sd'.ready_for_next_byte = sd.ready_for_next_byte
  BY <1>0, <1>3 DEF RECEIVE_BYTE, ControllerFields
<1> QED
  BY <1>4, <1>5, <1>6

\* Where the states of a read go, and what they do to the wires to sdcard.sv.
LEMMA MovesRead ==
  ASSUME CycleIn(sd.state)
  PROVE  /\ sd.state = "READ_BLOCK"
              => /\ sd'.state = "SEND_CMD" /\ SameWires
                 /\ sd'.return_state = "READ_BLOCK_WAIT"
         /\ sd.state = "READ_BLOCK_WAIT"
              => /\ SameWires
                 /\ \/ sd'.state = "READ_BLOCK_WAIT"
                    \/ /\ sd'.state = "RECEIVE_BYTE" /\ sd'.return_state = "READ_BLOCK_DATA"
                       /\ sd'.byte_counter = SectorSize - 1
         /\ sd.state = "READ_BLOCK_DATA"
              => /\ sd'.state = "RECEIVE_BYTE" /\ sd'.byte_available /\ sd'.dout = sd.recv_data
                 /\ sd'.ready_for_next_byte = sd.ready_for_next_byte
                 /\ \/ sd.byte_counter = 0 /\ sd'.return_state = "READ_BLOCK_CRC"
                    \/ /\ sd.byte_counter # 0 /\ sd'.return_state = "READ_BLOCK_DATA"
                       /\ sd'.byte_counter = sd.byte_counter - 1
         /\ sd.state = "READ_BLOCK_CRC"
              => sd'.state = "RECEIVE_BYTE" /\ sd'.return_state = "IDLE" /\ SameWires
<1>0. DOMAIN sd = ControllerFields
  BY CycleTypes
<1>1. sd.state = "READ_BLOCK" => READ_BLOCK(sdcard.address)
  BY DEF CycleIn, Pulse
<1>2. sd.state = "READ_BLOCK_WAIT" => READ_BLOCK_WAIT(card.miso)
  BY DEF CycleIn, Pulse
<1>3. sd.state = "READ_BLOCK_DATA" => READ_BLOCK_DATA
  BY DEF CycleIn, Pulse
<1>4. sd.state = "READ_BLOCK_CRC" => READ_BLOCK_CRC
  BY DEF CycleIn, Pulse
<1>5. sd.state = "READ_BLOCK"
        => /\ sd'.state = "SEND_CMD" /\ SameWires
           /\ sd'.return_state = "READ_BLOCK_WAIT"
  BY <1>0, <1>1 DEF READ_BLOCK, send, ControllerFields, SameWires
<1>6. sd.state = "READ_BLOCK_WAIT"
        => /\ SameWires
           /\ \/ sd'.state = "READ_BLOCK_WAIT"
              \/ /\ sd'.state = "RECEIVE_BYTE" /\ sd'.return_state = "READ_BLOCK_DATA"
                 /\ sd'.byte_counter = SectorSize - 1
  BY <1>0, <1>2 DEF READ_BLOCK_WAIT, receive_byte, ControllerFields, SameWires
<1>7. sd.state = "READ_BLOCK_DATA"
        => /\ sd'.state = "RECEIVE_BYTE" /\ sd'.byte_available /\ sd'.dout = sd.recv_data
           /\ sd'.ready_for_next_byte = sd.ready_for_next_byte
           /\ \/ sd.byte_counter = 0 /\ sd'.return_state = "READ_BLOCK_CRC"
              \/ /\ sd.byte_counter # 0 /\ sd'.return_state = "READ_BLOCK_DATA"
                 /\ sd'.byte_counter = sd.byte_counter - 1
  BY <1>0, <1>3 DEF READ_BLOCK_DATA, receive_byte, ControllerFields
<1>8. sd.state = "READ_BLOCK_CRC"
        => sd'.state = "RECEIVE_BYTE" /\ sd'.return_state = "IDLE" /\ SameWires
  BY <1>0, <1>4 DEF READ_BLOCK_CRC, receive_byte, ControllerFields, SameWires
<1> QED
  BY <1>5, <1>6, <1>7, <1>8

\* Where the states of a write go, and what they do to the wires to sdcard.sv.
LEMMA MovesWrite ==
  ASSUME CycleIn(sd.state)
  PROVE  /\ sd.state = "WRITE_BLOCK_CMD"
              => /\ sd'.state = "SEND_CMD" /\ sd'.return_state = "WRITE_BLOCK_INIT"
                 /\ sd'.byte_available = sd.byte_available /\ sd'.ready_for_next_byte
                 /\ sd'.bit_counter = 4 /\ sd'.sclk_sig = sd.sclk_sig
         /\ sd.state = "WRITE_BLOCK_INIT"
              => /\ sd'.state = "WRITE_BLOCK_DATA" /\ sd'.byte_available = sd.byte_available
                 /\ ~sd'.ready_for_next_byte /\ sd'.byte_counter = SectorSize + 3
         /\ sd.state = "WRITE_BLOCK_DATA" /\ sd.byte_counter = 0
              => /\ sd'.state = "RECEIVE_BYTE_WAIT" /\ sd'.return_state = "WRITE_BLOCK_WAIT"
                 /\ SameWires
         /\ sd.state = "WRITE_BLOCK_DATA" /\ sd.byte_counter # 0
              => /\ sd'.state = "WRITE_BLOCK_BYTE" /\ sd'.byte_available = sd.byte_available
                 /\ sd'.byte_counter = sd.byte_counter - 1
                 /\ sd'.bit_counter = BitsPerByte - 1 /\ sd'.sclk_sig = sd.sclk_sig
                 /\ sd'.ready_for_next_byte = IF sd.byte_counter \in {1, 2, SectorSize + 3}
                                                THEN sd.ready_for_next_byte ELSE TRUE
         /\ sd.state = "WRITE_BLOCK_BYTE"
              => /\ sd'.byte_available = sd.byte_available /\ sd'.byte_counter = sd.byte_counter
                 /\ \/ sd'.state = "WRITE_BLOCK_BYTE" /\ SameWires
                    \/ sd'.state = "WRITE_BLOCK_DATA" /\ sclk = 1 /\ ~sd'.ready_for_next_byte
         /\ sd.state = "WRITE_BLOCK_WAIT"
              => sd'.state \in {"WRITE_BLOCK_WAIT", "IDLE"} /\ SameWires
<1>0. DOMAIN sd = ControllerFields
  BY CycleTypes
<1>1. sd.state = "WRITE_BLOCK_CMD" => WRITE_BLOCK_CMD(sdcard.address)
  BY DEF CycleIn, Pulse
<1>2. sd.state = "WRITE_BLOCK_INIT" => WRITE_BLOCK_INIT
  BY DEF CycleIn, Pulse
<1>3. sd.state = "WRITE_BLOCK_DATA" => WRITE_BLOCK_DATA(sdcard.din)
  BY DEF CycleIn, Pulse
<1>4. sd.state = "WRITE_BLOCK_BYTE" => WRITE_BLOCK_BYTE
  BY DEF CycleIn, Pulse
<1>5. sd.state = "WRITE_BLOCK_WAIT" => WRITE_BLOCK_WAIT(card.miso)
  BY DEF CycleIn, Pulse
<1>6. sd.state = "WRITE_BLOCK_CMD"
        => /\ sd'.state = "SEND_CMD" /\ sd'.return_state = "WRITE_BLOCK_INIT"
           /\ sd'.byte_available = sd.byte_available /\ sd'.ready_for_next_byte
           /\ sd'.bit_counter = 4 /\ sd'.sclk_sig = sd.sclk_sig
  <2>1. clocks_of_command - 1 = 4
    BY DEF clocks_of_command
  <2> QED
    BY <1>0, <1>1, <2>1 DEF WRITE_BLOCK_CMD, send, ControllerFields
<1>7. sd.state = "WRITE_BLOCK_INIT"
        => /\ sd'.state = "WRITE_BLOCK_DATA" /\ sd'.byte_available = sd.byte_available
           /\ ~sd'.ready_for_next_byte /\ sd'.byte_counter = SectorSize + 3
  BY <1>0, <1>2 DEF WRITE_BLOCK_INIT, WRITE_DATA_SIZE, ControllerFields
<1>8. sd.state = "WRITE_BLOCK_DATA" /\ sd.byte_counter = 0
        => /\ sd'.state = "RECEIVE_BYTE_WAIT" /\ sd'.return_state = "WRITE_BLOCK_WAIT"
           /\ SameWires
  BY <1>0, <1>3 DEF WRITE_BLOCK_DATA, ControllerFields, SameWires
<1>9. sd.state = "WRITE_BLOCK_DATA" /\ sd.byte_counter # 0
        => /\ sd'.state = "WRITE_BLOCK_BYTE" /\ sd'.byte_available = sd.byte_available
           /\ sd'.byte_counter = sd.byte_counter - 1
           /\ sd'.bit_counter = BitsPerByte - 1 /\ sd'.sclk_sig = sd.sclk_sig
           /\ sd'.ready_for_next_byte = IF sd.byte_counter \in {1, 2, SectorSize + 3}
                                          THEN sd.ready_for_next_byte ELSE TRUE
  BY <1>0, <1>3 DEF WRITE_BLOCK_DATA, WRITE_DATA_SIZE, is_check_sum, ControllerFields
<1>10. sd.state = "WRITE_BLOCK_BYTE"
         => /\ sd'.byte_available = sd.byte_available /\ sd'.byte_counter = sd.byte_counter
            /\ \/ sd'.state = "WRITE_BLOCK_BYTE" /\ SameWires
               \/ sd'.state = "WRITE_BLOCK_DATA" /\ sclk = 1 /\ ~sd'.ready_for_next_byte
  BY <1>0, <1>4 DEF WRITE_BLOCK_BYTE, ControllerFields, SameWires
<1>11. sd.state = "WRITE_BLOCK_WAIT"
         => sd'.state \in {"WRITE_BLOCK_WAIT", "IDLE"} /\ SameWires
  BY <1>0, <1>5 DEF WRITE_BLOCK_WAIT, ControllerFields, SameWires
<1> QED
  BY <1>6, <1>7, <1>8, <1>9, <1>10, <1>11

\* Where IDLE goes.
LEMMA MovesIdle ==
  ASSUME CycleIn("IDLE")
  PROVE  /\ SameWires
         /\ sd'.state = IF sdcard.rd THEN "READ_BLOCK" ELSE IF sdcard.wr THEN "WRITE_BLOCK_CMD"
                        ELSE "IDLE"
<1>0. DOMAIN sd = ControllerFields /\ sd.state = "IDLE"
  BY CycleTypes
<1>1. IDLE(sdcard.rd, sdcard.wr)
  BY <1>0 DEF CycleIn, Pulse
<1> QED
  BY <1>0, <1>1 DEF IDLE, ControllerFields, SameWires

\* The states of a transfer belong to one state of sdcard.sv.
LEMMA BelongsToOne ==
  /\ \A s \in InitStates : BelongsTo(s) = {"Init"}
  /\ \A s \in ReadStates : BelongsTo(s) = {"ReadSector"}
  /\ \A s \in WriteStates : BelongsTo(s) = {"WriteSector"}
<1>1. ASSUME NEW s \in InitStates
      PROVE  BelongsTo(s) = {"Init"}
  <2>1. /\ s \notin ReadStates /\ s \notin WriteStates
        /\ s \notin {"IDLE", "SEND_CMD", "RECEIVE_BYTE_WAIT", "RECEIVE_BYTE"}
    BY DEF WriteStates, ReadStates, InitStates
  <2> QED
    BY <2>1 DEF BelongsTo
<1>2. ASSUME NEW s \in ReadStates
      PROVE  BelongsTo(s) = {"ReadSector"}
  <2>1. /\ s \notin InitStates /\ s \notin WriteStates
        /\ s \notin {"IDLE", "SEND_CMD", "RECEIVE_BYTE_WAIT", "RECEIVE_BYTE"}
    BY DEF WriteStates, ReadStates, InitStates
  <2> QED
    BY <2>1 DEF BelongsTo
<1>3. ASSUME NEW s \in WriteStates
      PROVE  BelongsTo(s) = {"WriteSector"}
  <2>1. /\ s \notin InitStates /\ s \notin ReadStates
        /\ s \notin {"IDLE", "SEND_CMD", "RECEIVE_BYTE_WAIT", "RECEIVE_BYTE"}
    BY DEF WriteStates, ReadStates, InitStates
  <2> QED
    BY <2>1 DEF BelongsTo
<1> QED
  BY <1>1, <1>2, <1>3

\* While sdcard.sv stays where it is sd_controller.v works for it.
LEMMA ReturnsNext ==
  ASSUME CycleIn(sd.state), sd.state # "IDLE", sdcard'.state = sdcard.state
  PROVE  Returns' /\ NoByteComes' /\ NoByteIsAsked'
<1>0. /\ Returns /\ NoByteComes /\ NoByteIsAsked
  BY DEF CycleIn, Inv, Ring
<1>1. sd.state \in {"RST", "INIT", "CMD0", "CMD8", "CMD55", "CMD41", "POLL_CMD", "IDLE", "SEND_CMD",
                    "RECEIVE_BYTE_WAIT", "RECEIVE_BYTE", "READ_BLOCK", "READ_BLOCK_WAIT",
                    "READ_BLOCK_DATA", "READ_BLOCK_CRC", "WRITE_BLOCK_CMD", "WRITE_BLOCK_INIT",
                    "WRITE_BLOCK_DATA", "WRITE_BLOCK_BYTE", "WRITE_BLOCK_WAIT"}
  BY DEF CycleIn, Pulse
<1>2. CASE sd.state \in InitStates
  <2>1. sdcard.state = "Init"
    BY <1>0, <1>2, BelongsToOne DEF Returns
  <2>2. sd.state # "RST" => ~sd.byte_available /\ ~sd.ready_for_next_byte
    BY <1>0, <1>2, <2>1 DEF NoByteComes, NoByteIsAsked, InitStates
  <2>3. CASE sd.state = "RST"
    <3>1. \/ sd'.state = "RST"
          \/ sd'.state = "INIT" /\ ~sd'.byte_available /\ ~sd'.ready_for_next_byte
      BY <2>3, MovesInit
    <3> QED
      BY <2>1, <3>1, BelongsToOne DEF Returns, NoByteComes, NoByteIsAsked, InitStates
  <2>4. CASE sd.state = "INIT"
    <3>1. sd'.state \in {"INIT", "CMD0"} /\ ~sd'.byte_available /\ ~sd'.ready_for_next_byte
      BY <2>2, <2>4, MovesInit DEF SameWires
    <3> QED
      BY <2>1, <3>1, BelongsToOne DEF Returns, NoByteComes, NoByteIsAsked, InitStates
  <2>5. CASE sd.state \in {"CMD0", "CMD8", "CMD55", "CMD41"}
    <3>1. /\ sd'.state = "SEND_CMD" /\ ~sd'.byte_available /\ ~sd'.ready_for_next_byte
          /\ sd'.return_state \in {"CMD8", "CMD55", "CMD41", "POLL_CMD"}
      BY <2>2, <2>5, MovesInit DEF SameWires
    <3> QED
      BY <2>1, <3>1 DEF Returns, NoByteComes, NoByteIsAsked, BelongsTo, InitStates, Responses,
                        ReadStates, WriteStates
  <2>6. CASE sd.state = "POLL_CMD"
    <3>1. sd'.state \in {"IDLE", "CMD55"} /\ ~sd'.byte_available /\ ~sd'.ready_for_next_byte
      BY <2>2, <2>6, MovesInit DEF SameWires
    <3> QED
      BY <2>1, <3>1 DEF Returns, NoByteComes, NoByteIsAsked, BelongsTo, InitStates, ReadStates,
                        WriteStates
  <2> QED
    BY <1>2, <2>3, <2>4, <2>5, <2>6 DEF InitStates
<1>3. CASE sd.state \in {"SEND_CMD", "RECEIVE_BYTE_WAIT"}
  <2>1. /\ sd'.return_state = sd.return_state /\ ~sd'.byte_available
        /\ sd'.ready_for_next_byte = sd.ready_for_next_byte
        /\ sd.state = "SEND_CMD" => sd'.state \in {"SEND_CMD", "RECEIVE_BYTE_WAIT"}
        /\ sd.state = "RECEIVE_BYTE_WAIT" => sd'.state \in {"RECEIVE_BYTE_WAIT", "RECEIVE_BYTE"}
    BY <1>0, <1>3, MovesResponse DEF SameWires, NoByteComes
  <2>2. Returns'
    <3>1. sdcard'.state \in IF sd'.return_state = "IDLE" THEN {"ReadSector"}
                            ELSE BelongsTo(sd'.return_state)
      BY <1>0, <1>3, <2>1 DEF Returns, BelongsTo
    <3>2. sdcard'.state \in BelongsTo(sd'.state)
      BY <1>0, <1>3, <2>1 DEF Returns, BelongsTo, InitStates, ReadStates, WriteStates
    <3> QED
      BY <1>0, <1>3, <2>1, <3>1, <3>2 DEF Returns
  <2> QED
    BY <1>0, <1>3, <2>1, <2>2 DEF NoByteComes, NoByteIsAsked
<1>4. CASE sd.state = "RECEIVE_BYTE"
  <2>1. /\ sd'.state \in {"RECEIVE_BYTE", sd.return_state} /\ ~sd'.byte_available
        /\ sd'.return_state = sd.return_state /\ sd'.ready_for_next_byte = sd.ready_for_next_byte
    BY <1>4, MovesResponse
  <2>2. /\ sd.return_state \in {"CMD8", "CMD55", "CMD41", "POLL_CMD", "READ_BLOCK_WAIT",
                                "WRITE_BLOCK_INIT", "WRITE_BLOCK_WAIT", "READ_BLOCK_DATA",
                                "READ_BLOCK_CRC", "IDLE"}
        /\ sdcard.state \in IF sd.return_state = "IDLE" THEN {"ReadSector"}
                            ELSE BelongsTo(sd.return_state)
    BY <1>0, <1>4 DEF Returns, Responses
  <2>3. CASE sd'.state = "RECEIVE_BYTE"
    <3>1. sdcard'.state \in IF sd'.return_state = "IDLE" THEN {"ReadSector"}
                            ELSE BelongsTo(sd'.return_state)
      BY <2>1, <2>2 DEF BelongsTo
    <3>2. sdcard'.state \in BelongsTo(sd'.state)
      BY <1>0, <1>4, <2>3 DEF Returns
    <3> QED
      BY <1>0, <1>4, <2>1, <2>2, <2>3, <3>1, <3>2 DEF Returns, NoByteComes, NoByteIsAsked
  <2>4. CASE sd'.state = sd.return_state
    <3>1. sdcard.state \in BelongsTo(sd.return_state)
      BY <2>2 DEF BelongsTo, InitStates, ReadStates, WriteStates
    <3>2. sdcard'.state \in BelongsTo(sd'.state)
      BY <2>4, <3>1 DEF BelongsTo
    <3>3. sd.return_state = "IDLE" => sdcard.state = "ReadSector"
      BY <2>2
    <3> QED
      BY <1>0, <1>4, <2>1, <2>2, <2>4, <3>2, <3>3 DEF Returns, NoByteComes, NoByteIsAsked
  <2> QED
    BY <2>1, <2>3, <2>4
<1>5. CASE sd.state \in ReadStates
  <2>1. sdcard.state = "ReadSector"
    BY <1>0, <1>5, BelongsToOne DEF Returns
  <2>2. ~sd.byte_available /\ ~sd.ready_for_next_byte
    BY <1>0, <1>5, <2>1 DEF NoByteComes, NoByteIsAsked, ReadStates
  <2>3. /\ ~sd'.ready_for_next_byte
        /\ \/ sd'.state = "SEND_CMD" /\ sd'.return_state = "READ_BLOCK_WAIT" /\ ~sd'.byte_available
           \/ sd'.state = "READ_BLOCK_WAIT" /\ ~sd'.byte_available
           \/ /\ sd'.state = "RECEIVE_BYTE"
              /\ sd'.return_state \in {"READ_BLOCK_DATA", "READ_BLOCK_CRC", "IDLE"}
              /\ sd'.return_state = "IDLE" => ~sd'.byte_available
    BY <1>5, <2>2, MovesRead DEF ReadStates, SameWires
  <2> QED
    BY <2>1, <2>3 DEF Returns, NoByteComes, NoByteIsAsked, BelongsTo, InitStates, ReadStates,
                      WriteStates, Responses
<1>6. CASE sd.state \in WriteStates
  <2>1. sdcard.state = "WriteSector"
    BY <1>0, <1>6, BelongsToOne DEF Returns
  <2>2. ~sd.byte_available
    BY <1>0, <1>6 DEF NoByteComes, WriteStates
  <2>3. /\ ~sd'.byte_available
        /\ \/ sd'.state = "SEND_CMD" /\ sd'.return_state = "WRITE_BLOCK_INIT"
           \/ sd'.state = "RECEIVE_BYTE_WAIT" /\ sd'.return_state = "WRITE_BLOCK_WAIT"
           \/ sd'.state \in {"WRITE_BLOCK_DATA", "WRITE_BLOCK_BYTE", "WRITE_BLOCK_WAIT"}
           \/ sd'.state = "IDLE" /\ sd.state = "WRITE_BLOCK_WAIT" /\ SameWires
    BY <1>6, <2>2, MovesWrite DEF WriteStates, SameWires
  <2>4. sd.state = "WRITE_BLOCK_WAIT" => ~sd.ready_for_next_byte
    BY <2>1 DEF CycleIn, Inv, Ring, Writing
  <2> QED
    BY <2>1, <2>3, <2>4 DEF Returns, NoByteComes, NoByteIsAsked, BelongsTo, InitStates, ReadStates,
                            WriteStates, Responses, SameWires
<1> QED
  BY <1>1, <1>2, <1>3, <1>4, <1>5, <1>6 DEF InitStates, ReadStates, WriteStates

-----------------------------------------------------------------------------
(* The invariant is kept in every cycle, for every state of sdcard.sv.     *)

InvOfInterface == InterfaceTypes /\ InCall /\ InterfaceAt /\ Returns /\ Ring

\* What is left to show when the wires are.
LEMMA CycleKeeps ==
  ASSUME CycleIn(sd.state), InvOfInterface'
  PROVE  Inv'
BY CycleWires DEF InvOfInterface, Inv, Types, WiresNext

\* sdcard.sv has two clocks in one: its own and that of sd_controller.v.
LEMMA ClockIs ==
  ASSUME Inv, NEW cmd, NEW sector, NEW data_in, Clock(cmd, sector, data_in),
         sdcard.state \in {"Init", "Idle"} \/ call' = call
  PROVE  /\ CycleIn(sd.state) /\ counter' = 0
         /\ sdcard.state = "Init" => sdcard' = [sdcard EXCEPT !.state = IF ready THEN "Idle" ELSE @]
         /\ sdcard.state = "Idle" => Idle(cmd, sector, data_in)
         /\ sdcard.state = "PreReadSector" => PreReadSector
         /\ sdcard.state = "ReadSector" => ReadSector
         /\ sdcard.state = "PreWriteSector" => PreWriteSector
         /\ sdcard.state = "WriteSector" => WriteSector
<1>1. InterfaceTypes
  BY DEF Inv, Types
<1>2. CycleIn(sd.state) /\ counter' = 0
  BY <1>1, EveryCycle DEF CycleIn
<1> QED
  BY <1>2 DEF Clock, InterfaceStep

\* While sd_controller.v starts up the program can begin a call, no more.
LEMMA ProgramBegins ==
  ASSUME Inv, Wait \/ CallAny \/ Access, sdcard.state = "Init"
  PROVE  /\ InCall' /\ doing' \in {"caller", "wait_to_read", "wait_to_write"}
         /\ \E cmd, sector, data_in \in Int : Clock(cmd, sector, data_in)
<1>0. InCall /\ busy /\ doing \in {"caller", "wait_to_read", "wait_to_write"}
  BY DEF Inv, InterfaceAt, busy
<1>1. CASE Wait
  BY <1>0, <1>1 DEF Wait, InCall, programVars
<1>2. CASE CallAny
  <2>1. Clock(0, 0, 0)
    BY <1>2 DEF CallAny
  <2>2. CASE \E s \in Sectors : CallRead(s)
    <3>1. PICK s \in Sectors : CallRead(s)
      BY <2>2
    <3>2. call' \in Calls /\ call'.op = "read"
      BY <3>1 DEF CallRead, Calls
    <3> QED
      BY <1>0, <2>1, <3>1, <3>2 DEF CallRead, InCall
  <2>3. CASE \E s \in Sectors, t \in Texts : CallWrite(s, t)
    <3>1. PICK s \in Sectors, t \in Texts : CallWrite(s, t)
      BY <2>3
    <3>2. t \in Contents
      BY <3>1, SdSystemAssumption
    <3>3. call' \in Calls /\ call'.op = "write" /\ call'.data = t
      BY <3>1, <3>2 DEF CallWrite, Calls
    <3> QED
      BY <1>0, <2>1, <3>1, <3>2, <3>3 DEF CallWrite, InCall
  <2> QED
    BY <1>2, <2>2, <2>3 DEF CallAny
<1>3. CASE Access
  <2>1. SeesBusy(busy) /\ Clock(0, 0, 0)
    BY <1>0, <1>3 DEF Access, StartsRead, ReadsByte, WritesByte, StartsWrite
  <2>2. doing' = doing
    BY <1>0, <2>1 DEF SeesBusy
  <2>3. call' = call
    BY <1>0, <2>1, <2>2 DEF SeesBusy, after_wait
  <2> QED
    BY <1>0, <2>1, <2>2, <2>3 DEF SeesBusy, InCall
<1> QED
  BY <1>1, <1>2, <1>3

\* A cycle while the card is initialized.
LEMMA InitKeeps ==
  ASSUME Inv, Wait \/ CallAny \/ Access, sdcard.state = "Init"
  PROVE  Inv' /\ stored' = stored
<1>1. PICK cmd, sector, data_in \in Int : Clock(cmd, sector, data_in)
  BY ProgramBegins
<1>2. /\ CycleIn(sd.state) /\ counter' = 0
      /\ sdcard' = [sdcard EXCEPT !.state = IF ready THEN "Idle" ELSE @]
  BY <1>1, ClockIs
<1>3. InCall' /\ doing' \in {"caller", "wait_to_read", "wait_to_write"}
  BY ProgramBegins
<1>4. InterfaceTypes /\ ~sdcard.rd /\ ~sdcard.wr
  BY DEF Inv, Types, InterfaceAt
<1>5. /\ DOMAIN sdcard' = InterfaceFields
      /\ sdcard'.rd = sdcard.rd /\ sdcard'.wr = sdcard.wr /\ sdcard'.din = sdcard.din
      /\ sdcard'.address = sdcard.address /\ sdcard'.buffer = sdcard.buffer
      /\ sdcard'.buffer_index = sdcard.buffer_index
      /\ sdcard'.waiting_ready_for_next_byte = sdcard.waiting_ready_for_next_byte
      /\ sdcard'.state = IF ready THEN "Idle" ELSE "Init"
  BY <1>2, <1>4 DEF InterfaceTypes, InterfaceFields
<1>6. InterfaceTypes'
  BY <1>2, <1>4, <1>5 DEF InterfaceTypes
<1>7. stored' = stored
  <2>1. sd.state # "WRITE_BLOCK_BYTE"
    BY BelongsToOne DEF Inv, Returns, WriteStates
  <2> QED
    BY <1>2, <2>1, CycleWires
<1>8. CASE sd.state = "IDLE"
  <2>1. SameWires /\ sd'.state = "IDLE" /\ sdcard'.state = "Idle"
    BY <1>2, <1>4, <1>5, <1>8, MovesIdle DEF ready
  <2>2. ~sd.byte_available /\ ~sd.ready_for_next_byte
    BY <1>8 DEF Inv, Ring, NoByteComes, NoByteIsAsked
  <2>3. InterfaceAt'
    BY <1>4, <1>5, <2>1 DEF InterfaceAt
  <2>4. Returns'
    BY <2>1 DEF Returns, BelongsTo, InitStates, ReadStates, WriteStates
  <2>5. Ring'
    BY <1>3, <2>1, <2>2 DEF Ring, Reading, NoByteComes, Writing, NoByteIsAsked, Waiting, SameWires
  <2> QED
    BY <1>2, <1>3, <1>6, <1>7, <2>3, <2>4, <2>5, CycleKeeps DEF InvOfInterface
<1>9. CASE sd.state # "IDLE"
  <2>1. sdcard'.state = "Init"
    BY <1>5, <1>9 DEF ready
  <2>2. Returns' /\ NoByteComes' /\ NoByteIsAsked'
    BY <1>2, <1>9, <2>1, ReturnsNext
  <2>3. InterfaceAt'
    BY <1>3, <1>4, <1>5, <2>1 DEF InterfaceAt
  <2>4. Ring'
    BY <2>1, <2>2 DEF Ring, Reading, Writing, Waiting
  <2> QED
    BY <1>2, <1>3, <1>6, <1>7, <2>2, <2>3, <2>4, CycleKeeps DEF InvOfInterface
<1> QED
  BY <1>8, <1>9

\* What is left after a wait.
LEMMA AfterWait ==
  /\ DOMAIN after_wait = {"wait_to_read", "wait_for_read", "wait_to_write", "wait_for_write"}
  /\ after_wait["wait_to_read"] = "start_read" /\ after_wait["wait_for_read"] = "read_bytes"
  /\ after_wait["wait_to_write"] = "write_bytes" /\ after_wait["wait_for_write"] = "caller"
BY DEF after_wait

\* While sdcard.sv is idle sd_controller.v and the card are.
LEMMA IdleCycle ==
  ASSUME Inv, sdcard.state = "Idle", NEW cmd, NEW sector, NEW data_in, Clock(cmd, sector, data_in)
  PROVE  /\ CycleIn(sd.state) /\ counter' = 0 /\ Idle(cmd, sector, data_in) /\ stored' = stored
         /\ sd'.state = "IDLE" /\ ~sd'.byte_available /\ ~sd'.ready_for_next_byte
         /\ sdcard'.state \in {"Idle", "PreReadSector", "PreWriteSector"}
              => Returns' /\ NoByteComes' /\ NoByteIsAsked' /\ Reading' /\ Writing'
<1>1. CycleIn(sd.state) /\ counter' = 0 /\ Idle(cmd, sector, data_in)
  BY ClockIs
<1>2. sd.state = "IDLE" /\ ~sdcard.rd /\ ~sdcard.wr
  BY DEF Inv, InterfaceAt
<1>3. SameWires /\ sd'.state = "IDLE"
  BY <1>1, <1>2, MovesIdle
<1>4. ~sd.byte_available /\ ~sd.ready_for_next_byte
  BY <1>2 DEF Inv, Ring, NoByteComes, NoByteIsAsked
<1>5. stored' = stored
  BY <1>1, <1>2, CycleWires
<1>6. ~sd'.byte_available /\ ~sd'.ready_for_next_byte
  BY <1>3, <1>4 DEF SameWires
<1>7. ASSUME sdcard'.state \in {"Idle", "PreReadSector", "PreWriteSector"}
      PROVE  Returns' /\ NoByteComes' /\ NoByteIsAsked' /\ Reading' /\ Writing'
  <2>1. Returns'
    BY <1>3, <1>7 DEF Returns, BelongsTo, InitStates, ReadStates, WriteStates
  <2> QED
    BY <1>3, <1>6, <1>7, <2>1 DEF NoByteComes, NoByteIsAsked, Reading, Writing
<1> QED
  BY <1>1, <1>3, <1>5, <1>6, <1>7

\* The program calls or waits.
LEMMA IdleWaits ==
  ASSUME Inv, sdcard.state = "Idle", Clock(0, 0, 0),
         UNCHANGED programVars \/ CallAny \/ SeesBusy(busy)
  PROVE  /\ Inv' /\ stored' = stored
         /\ doing = "wait_for_write" => stored[call.sector] = call.data
<1>1. /\ CycleIn(sd.state) /\ counter' = 0 /\ Idle(0, 0, 0) /\ stored' = stored
      /\ sd'.state = "IDLE" /\ ~sd'.byte_available /\ ~sd'.ready_for_next_byte
      /\ sdcard'.state \in {"Idle", "PreReadSector", "PreWriteSector"}
           => Returns' /\ NoByteComes' /\ NoByteIsAsked' /\ Reading' /\ Writing'
  BY IdleCycle
<1>2. sdcard' = sdcard
  BY <1>1 DEF Idle
<1>3. InterfaceTypes' /\ InterfaceAt'
  BY <1>1, <1>2 DEF Inv, Types, InterfaceTypes, InterfaceAt
<1>4. /\ \A f, n : Holds(f, n)' = Holds(f, n)
      /\ \A f, n : Behind(f, n)' = Behind(f, n)
  BY <1>2, RingRests
<1>5. InCall /\ Waiting /\ ~busy
  BY DEF Inv, Ring, busy
<1>6. InCall' /\ Waiting'
  <2>1. CASE UNCHANGED programVars
    <3>1. PICK f, data, n : /\ f = stored[call.sector] /\ data = call.data /\ n = i
                            /\ f = stored'[call'.sector] /\ data = call'.data /\ n = i'
      BY <1>1, <2>1 DEF programVars
    <3>2. /\ (Holds(stored[call.sector], 0) => Holds(stored[call.sector], 0)')
          /\ (Holds(stored[call.sector], i) => Holds(stored[call.sector], i)')
          /\ (Behind(call.data, i) => Behind(call.data, i)')
      <4>1. /\ (Holds(f, 0) => Holds(f, 0)')
            /\ (Holds(f, n) => Holds(f, n)')
            /\ (Behind(data, n) => Behind(data, n)')
        BY <1>4
      <4> QED
        BY <3>1, <4>1 DEF Holds, Behind
    <3>3. Taken(0) => Taken(0)'
      <4>1. Holds(data, 0) => Holds(data, 0)'
        BY <1>4
      <4>2. Holds(call.data, 0) => Holds(call.data, 0)'
        BY <3>1, <4>1 DEF Holds
      <4> QED
        BY <4>2 DEF Taken
    <3>4. Waiting'
      BY <1>1, <1>2, <1>5, <2>1, <3>2, <3>3 DEF Waiting, programVars
    <3> QED
      BY <1>5, <2>1, <3>4 DEF InCall, programVars
  <2>2. CASE \E s \in Sectors : CallRead(s)
    <3>1. PICK s \in Sectors : CallRead(s)
      BY <2>2
    <3>2. call' \in Calls /\ call'.op = "read"
      BY <3>1 DEF CallRead, Calls
    <3> QED
      BY <1>2, <1>5, <3>1, <3>2 DEF CallRead, InCall, Waiting
  <2>3. CASE \E s \in Sectors, t \in Texts : CallWrite(s, t)
    <3>1. PICK s \in Sectors, t \in Texts : CallWrite(s, t)
      BY <2>3
    <3>2. t \in Contents
      BY <3>1, SdSystemAssumption
    <3>3. call' \in Calls /\ call'.op = "write" /\ call'.data = t
      BY <3>1, <3>2 DEF CallWrite, Calls
    <3> QED
      BY <1>2, <1>5, <3>1, <3>2, <3>3 DEF CallWrite, InCall, Waiting
  <2>4. CASE SeesBusy(busy)
    <3>1. /\ doing \in {"wait_to_read", "wait_for_read", "wait_to_write", "wait_for_write"}
          /\ doing' = after_wait[doing] /\ i' = i /\ buffer' = buffer /\ result' = result
          /\ call' = IF doing' = "caller" THEN NoCall ELSE call
      BY <1>5, <2>4, AfterWait DEF SeesBusy
    <3>2. CASE doing = "wait_to_read"
      <4>1. doing' = "start_read" /\ call' = call
        BY <3>1, <3>2, AfterWait
      <4> QED
        BY <1>2, <1>5, <3>1, <3>2, <4>1 DEF InCall, Waiting
    <3>3. CASE doing = "wait_for_read"
      <4>1. doing' = "read_bytes" /\ call' = call /\ i = 0
        BY <1>5, <3>1, <3>3, AfterWait DEF InCall
      <4>2. PICK f : f = stored[call.sector] /\ Holds(f, 0)
        BY <1>5, <3>3 DEF Waiting
      <4>3. Holds(f, 0)' /\ f = stored'[call'.sector] /\ i' = 0
        BY <1>1, <1>4, <3>1, <4>1, <4>2
      <4>4. Holds(stored[call.sector], i)'
        BY <4>3 DEF Holds
      <4>5. \A k \in Nat : k < i' => buffer'[k] = stored'[call'.sector][k]
        BY <4>3
      <4>6. Waiting'
        BY <1>2, <4>1, <4>4, <4>5 DEF Waiting
      <4> QED
        BY <1>5, <3>1, <3>3, <4>1, <4>6 DEF InCall
    <3>4. CASE doing = "wait_to_write"
      <4>1. doing' = "write_bytes" /\ call' = call /\ i' = 0
        BY <1>5, <3>1, <3>4, AfterWait DEF InCall
      <4>2. Behind(call.data, i)'
        BY <4>1 DEF Behind
      <4> QED
        BY <1>2, <1>5, <3>1, <3>4, <4>1, <4>2 DEF InCall, Waiting
    <3>5. CASE doing = "wait_for_write"
      <4>1. doing' = "caller" /\ call' = NoCall
        BY <3>1, <3>5, AfterWait
      <4> QED
        BY <1>2, <1>5, <3>1, <3>5, <4>1 DEF InCall, Waiting
    <3> QED
      BY <3>1, <3>2, <3>3, <3>4, <3>5
  <2> QED
    BY <2>1, <2>2, <2>3, <2>4 DEF CallAny
<1>7. Ring' /\ Returns'
  BY <1>1, <1>2, <1>6 DEF Ring
<1>8. doing = "wait_for_write" => stored[call.sector] = call.data
  BY <1>5 DEF Waiting
<1> QED
  BY <1>1, <1>3, <1>6, <1>7, <1>8, CycleKeeps DEF InvOfInterface

\* The program starts a transfer.
LEMMA IdleStarts ==
  ASSUME Inv, sdcard.state = "Idle",
         \/ StartsRead  /\ Clock(1, call.sector, 0)
         \/ StartsWrite /\ Clock(4, call.sector, 0)
  PROVE  Inv' /\ stored' = stored
<1>0. /\ InCall /\ Waiting /\ InterfaceTypes /\ ~sdcard.rd /\ ~sdcard.wr
      /\ DOMAIN sdcard = InterfaceFields
  BY DEF Inv, Ring, InterfaceAt, Types, InterfaceTypes
<1>1. call \in Calls /\ call.sector \in Sectors /\ call.sector \in Nat
  <2>1. call \in Calls
    BY <1>0 DEF InCall, StartsRead, StartsWrite
  <2> QED
    BY <2>1, SectorBufferAssumption DEF Calls
<1> DEFINE address == (call.sector * 2 ^ SectorToSDCardAddressShiftLeft) % AddressModulus
<1>2. address \in Int /\ address \div AddressUnit = call.sector
  <2>1. SectorToSDCardAddressShiftLeft \in Nat /\ AddressModulus \in Nat \ {0}
    BY SdInterfaceAssumption
  <2>2. 2 ^ SectorToSDCardAddressShiftLeft \in Int
    BY <2>1
  <2>3. \A x, y \in Int : x * y \in Int
    OBVIOUS
  <2>4. \A x \in Int : x % AddressModulus \in Int
    BY <2>1
  <2>5. address \in Int
    BY <1>1, <2>2, <2>3, <2>4
  <2> QED
    BY <1>1, <2>5, SdSystemAssumption
<1> HIDE DEF address
<1>3. CASE StartsRead /\ Clock(1, call.sector, 0)
  <2>1. /\ CycleIn(sd.state) /\ counter' = 0 /\ Idle(1, call.sector, 0) /\ stored' = stored
        /\ sd'.state = "IDLE"
        /\ sdcard'.state \in {"Idle", "PreReadSector", "PreWriteSector"}
             => Returns' /\ NoByteComes' /\ NoByteIsAsked' /\ Reading' /\ Writing'
    BY <1>3, IdleCycle
  <2>2. sdcard' = [sdcard EXCEPT !.rd = TRUE, !.address = address, !.state = "PreReadSector"]
    BY <2>1 DEF Idle, address
  <2>3. /\ DOMAIN sdcard' = InterfaceFields /\ sdcard'.state = "PreReadSector"
        /\ sdcard'.rd = TRUE /\ sdcard'.wr = sdcard.wr /\ sdcard'.din = sdcard.din
        /\ sdcard'.address = address /\ sdcard'.buffer = sdcard.buffer
        /\ sdcard'.buffer_index = sdcard.buffer_index
        /\ sdcard'.waiting_ready_for_next_byte = sdcard.waiting_ready_for_next_byte
    BY <1>0, <2>2 DEF InterfaceFields
  <2>4. InterfaceTypes'
    BY <1>0, <1>2, <2>1, <2>3 DEF InterfaceTypes
  <2>5. doing' = "wait_for_read" /\ call' = call
    BY <1>3 DEF StartsRead
  <2>6. InterfaceAt'
    BY <1>0, <1>2, <2>1, <2>3, <2>5 DEF InterfaceAt
  <2>7. InCall'
    BY <1>0, <1>3, <2>5 DEF InCall, StartsRead
  <2>8. Ring'
    BY <2>1, <2>3 DEF Ring, Waiting
  <2> QED
    BY <2>1, <2>3, <2>4, <2>6, <2>7, <2>8, CycleKeeps DEF InvOfInterface
<1>4. CASE StartsWrite /\ Clock(4, call.sector, 0)
  <2>1. /\ CycleIn(sd.state) /\ counter' = 0 /\ Idle(4, call.sector, 0) /\ stored' = stored
        /\ sd'.state = "IDLE"
        /\ sdcard'.state \in {"Idle", "PreReadSector", "PreWriteSector"}
             => Returns' /\ NoByteComes' /\ NoByteIsAsked' /\ Reading' /\ Writing'
    BY <1>4, IdleCycle
  <2>2. sdcard' = [sdcard EXCEPT !.wr = TRUE, !.address = address,
                                 !.waiting_ready_for_next_byte = TRUE, !.state = "PreWriteSector"]
    BY <2>1 DEF Idle, address
  <2>3. /\ DOMAIN sdcard' = InterfaceFields /\ sdcard'.state = "PreWriteSector"
        /\ sdcard'.wr = TRUE /\ sdcard'.rd = sdcard.rd /\ sdcard'.din = sdcard.din
        /\ sdcard'.address = address /\ sdcard'.buffer = sdcard.buffer
        /\ sdcard'.buffer_index = sdcard.buffer_index
        /\ sdcard'.waiting_ready_for_next_byte = TRUE
    BY <1>0, <2>2 DEF InterfaceFields
  <2>4. InterfaceTypes'
    BY <1>0, <1>2, <2>1, <2>3 DEF InterfaceTypes
  <2>5. doing' = "wait_for_write" /\ call' = call /\ doing = "start_write"
    BY <1>4 DEF StartsWrite
  <2>6. InterfaceAt'
    BY <1>0, <1>2, <2>1, <2>3, <2>5 DEF InterfaceAt
  <2>7. InCall'
    BY <1>0, <1>4, <2>5 DEF InCall, StartsWrite
  <2>8. Taken(0)'
    <3>1. PICK data : data = call.data /\ Holds(data, 0)
      BY <1>0, <2>5 DEF Waiting, Taken
    <3>2. Holds(data, 0)'
      BY <2>3, <3>1, RingRests
    <3>3. Holds(call.data, 0)'
      BY <2>5, <3>1, <3>2 DEF Holds
    <3> QED
      BY <3>3 DEF Taken
  <2>9. Ring'
    BY <2>1, <2>3, <2>8 DEF Ring, Waiting
  <2> QED
    BY <2>1, <2>3, <2>4, <2>6, <2>7, <2>9, CycleKeeps DEF InvOfInterface
<1> QED
  BY <1>3, <1>4

\* An index of the buffer and the next one.
LEMMA NextIndex ==
  ASSUME NEW n \in Indices
  PROVE  /\ (n + 1) % SectorSize \in Indices
         /\ n + 1 < SectorSize => (n + 1) % SectorSize = n + 1
         /\ n + 1 = SectorSize => (n + 1) % SectorSize = 0
         /\ (n + 1) % SectorSize = 0 => n + 1 = SectorSize
         /\ n + 1 <= SectorSize
<1>1. n \in Nat /\ n + 1 \in Nat /\ n + 1 <= SectorSize
  BY SizeIs DEF Indices
<1>2. n + 1 < SectorSize => (n + 1) % SectorSize = n + 1
  BY <1>1, InIndices
<1>3. n + 1 = SectorSize => (n + 1) % SectorSize = 0
  BY <1>1, SizeIs
<1>4. (n + 1) % SectorSize \in Indices
  BY <1>1, InIndices
<1> QED
  BY <1>1, <1>2, <1>3, <1>4, SizeIs

\* The same of the state after a step.
LEMMA BehindAllNext ==
  ASSUME InterfaceTypes', NEW f, Behind(f, SectorSize)'
  PROVE  Holds(f, 0)'
<1>1. PICK x \in Nat : x = sdcard'.buffer_index
  BY DEF InterfaceTypes, Indices
<1>2. ASSUME NEW k \in Nat
      PROVE  ring(k)' = f[(0 + k) % SectorSize]
  <2>1. PICK j \in Nat : j = k % SectorSize /\ j < SectorSize
    BY InIndices, SizeIs DEF Indices
  <2>2. ring(SectorSize - SectorSize + j)' = f[j] /\ SectorSize - SectorSize + j = j
    BY <2>1, SizeIs DEF Behind
  <2>3. (x + k) % SectorSize = (x + j) % SectorSize
    <3>1. ((k % SectorSize) + x) % SectorSize = (k + x) % SectorSize
      BY AddsUp
    <3>2. k + x = x + k /\ j + x = x + j
      OBVIOUS
    <3> QED
      BY <2>1, <3>1, <3>2
  <2>4. ring(k)' = f[j]
    BY <1>1, <2>2, <2>3 DEF ring
  <2>5. 0 + k = k
    OBVIOUS
  <2> QED
    BY <2>1, <2>4, <2>5
<1> QED
  BY <1>2 DEF Holds

\* The program takes a byte: it is the one of the sector.
LEMMA IdleReads ==
  ASSUME Inv, sdcard.state = "Idle", ReadsByte(data_out), Clock(2, 0, 0)
  PROVE  /\ Inv' /\ stored' = stored
         /\ call' # call => call' = NoCall /\ result' = stored[call.sector]
         /\ call' = call => result' = result
<1>0. /\ InCall /\ InterfaceTypes /\ DOMAIN sdcard = InterfaceFields /\ ~sdcard.rd /\ ~sdcard.wr
      /\ doing = "read_bytes" /\ CardTypes
  BY DEF Inv, InterfaceAt, Types, InterfaceTypes, ReadsByte
<1>1. /\ CycleIn(sd.state) /\ counter' = 0 /\ Idle(2, 0, 0) /\ stored' = stored
      /\ sd'.state = "IDLE"
      /\ sdcard'.state \in {"Idle", "PreReadSector", "PreWriteSector"}
           => Returns' /\ NoByteComes' /\ NoByteIsAsked' /\ Reading' /\ Writing'
  BY IdleCycle
<1>2. sdcard' = [sdcard EXCEPT !.buffer_index = next_index]
  BY <1>1 DEF Idle
<1>3. /\ DOMAIN sdcard' = InterfaceFields /\ sdcard'.state = "Idle"
      /\ sdcard'.wr = sdcard.wr /\ sdcard'.rd = sdcard.rd /\ sdcard'.din = sdcard.din
      /\ sdcard'.address = sdcard.address /\ sdcard'.buffer = sdcard.buffer
      /\ sdcard'.buffer_index = next_index
      /\ sdcard'.waiting_ready_for_next_byte = sdcard.waiting_ready_for_next_byte
  BY <1>0, <1>2 DEF InterfaceFields
<1>4. InterfaceTypes'
  <2>1. next_index \in Indices
    <3>1. sdcard.buffer_index \in Indices
      BY <1>0 DEF InterfaceTypes
    <3> QED
      BY <3>1, NextIndex DEF next_index
  <2> QED
    BY <1>0, <1>1, <1>3, <2>1 DEF InterfaceTypes
<1>5. InterfaceAt'
  BY <1>0, <1>1, <1>3 DEF InterfaceAt
<1>6. PICK f \in Contents : /\ f = stored[call.sector] /\ Holds(f, i)
                            /\ \A k \in Nat : k < i => buffer[k] = f[k]
  <2>1. stored[call.sector] \in Contents
    BY <1>0 DEF InCall, CardTypes, Calls
  <2> QED
    BY <1>0, <2>1 DEF Inv, Ring, Waiting
<1>7. PICK n \in Nat : n = i /\ n \in Indices
  BY <1>0 DEF InCall, Indices
<1>8. /\ buffer' = [buffer EXCEPT ![n] = data_out] /\ i' = (n + 1) % SectorSize
      /\ i' # 0 => doing' = doing /\ call' = call /\ result' = result
      /\ i' = 0 => doing' = "caller" /\ call' = NoCall /\ result' = buffer'
  BY <1>7 DEF ReadsByte
<1>9. Holds(f, n + 1)' /\ data_out = f[n]
  <2>1. Holds(f, n + 1)' /\ ring(0) = f[n % SectorSize]
    BY <1>0, <1>3, <1>6, <1>7, HoldsMoves
  <2>2. n % SectorSize = n
    BY <1>7, InIndices, SizeIs DEF Indices
  <2>3. ring(0) = data_out
    <3>1. sdcard.buffer_index + 0 = sdcard.buffer_index /\ sdcard.buffer_index \in Nat
          /\ sdcard.buffer_index < SectorSize
      BY <1>0, SizeIs DEF InterfaceTypes, Indices
    <3>2. sdcard.buffer_index % SectorSize = sdcard.buffer_index
      BY <3>1, InIndices
    <3> QED
      BY <3>1, <3>2 DEF ring, data_out
  <2> QED
    BY <2>1, <2>2, <2>3
<1>10. buffer' \in Contents /\ \A k \in Nat : k < n + 1 => buffer'[k] = f[k]
  <2>1. buffer \in [Indices -> Bytes] /\ f[n] \in Bytes
    BY <1>0, <1>6, <1>7 DEF InCall, Contents
  <2>2. buffer' \in [Indices -> Bytes] /\ buffer'[n] = f[n]
        /\ \A k \in Indices : k # n => buffer'[k] = buffer[k]
    BY <1>7, <1>8, <1>9, <2>1
  <2>3. ASSUME NEW k \in Nat, k < n + 1
        PROVE  buffer'[k] = f[k]
    <3>1. CASE k = n
      BY <2>2, <3>1
    <3>2. CASE k < n
      <4>1. k \in Indices
        BY <1>7, <3>2, SizeIs DEF Indices
      <4> QED
        BY <1>6, <1>7, <2>2, <3>2, <4>1
    <3> QED
      BY <2>3, <3>1, <3>2
  <2> QED
    BY <2>2, <2>3 DEF Contents
<1>11. CASE i' # 0
  <2>1. i' = n + 1 /\ i' \in Indices
    BY <1>7, <1>8, <1>11, NextIndex, SizeIs
  <2>2. doing' = doing /\ call' = call /\ result' = result
    BY <1>8, <1>11
  <2>3. f = stored'[call'.sector]
    BY <1>1, <1>6, <2>2
  <2>4. Holds(stored[call.sector], i)'
    BY <1>9, <2>1, <2>3 DEF Holds
  <2>5. \A k \in Nat : k < i' => buffer'[k] = stored'[call'.sector][k]
    BY <1>10, <2>1, <2>3
  <2>6. Waiting'
    BY <1>0, <1>3, <2>2, <2>4, <2>5 DEF Waiting
  <2>7. InCall'
    BY <1>0, <1>10, <2>1, <2>2 DEF InCall
  <2>8. Inv'
    BY <1>1, <1>3, <1>4, <1>5, <2>6, <2>7, CycleKeeps DEF InvOfInterface, Ring
  <2> QED
    BY <1>1, <2>2, <2>8
<1>12. CASE i' = 0
  <2>1. doing' = "caller" /\ call' = NoCall /\ result' = buffer'
    BY <1>8, <1>12
  <2>2. n + 1 = SectorSize
    BY <1>7, <1>8, <1>12, NextIndex
  <2>3. \A k \in Indices : buffer'[k] = f[k]
    BY <1>10, <2>2, SizeIs DEF Indices
  <2>4. buffer' = f
    BY <1>6, <1>10, <2>3 DEF Contents
  <2>5. Waiting'
    BY <1>3, <2>1 DEF Waiting
  <2>6. InCall'
    <3>1. 0 \in Indices
      BY SizeIs DEF Indices
    <3> QED
      BY <1>10, <1>12, <2>1, <3>1 DEF InCall
  <2>7. Inv'
    BY <1>1, <1>3, <1>4, <1>5, <2>5, <2>6, CycleKeeps DEF InvOfInterface, Ring
  <2>8. NoCall # call
    BY <1>0, SdProgramAssumption DEF InCall
  <2> QED
    BY <1>1, <1>6, <2>1, <2>4, <2>7, <2>8
<1> QED
  BY <1>11, <1>12

\* The program gives a byte.
LEMMA IdleWrites ==
  ASSUME Inv, sdcard.state = "Idle", WritesByte, Clock(3, 0, buffer[i])
  PROVE  Inv' /\ stored' = stored
<1>0. /\ InCall /\ InterfaceTypes /\ DOMAIN sdcard = InterfaceFields /\ ~sdcard.rd /\ ~sdcard.wr
      /\ doing = "write_bytes"
  BY DEF Inv, InterfaceAt, Types, InterfaceTypes, WritesByte
<1>1. /\ CycleIn(sd.state) /\ counter' = 0 /\ Idle(3, 0, buffer[i]) /\ stored' = stored
      /\ sd'.state = "IDLE"
      /\ sdcard'.state \in {"Idle", "PreReadSector", "PreWriteSector"}
           => Returns' /\ NoByteComes' /\ NoByteIsAsked' /\ Reading' /\ Writing'
  BY IdleCycle
<1>2. PICK n \in Nat : n = i /\ n \in Indices
  BY <1>0 DEF InCall, Indices
<1>3. PICK data \in Contents : data = call.data /\ buffer = data /\ Behind(data, n)
  <2>1. call.data \in Contents /\ buffer = call.data
    BY <1>0 DEF InCall
  <2>2. Behind(call.data, i)
    BY <1>0 DEF Inv, Ring, Waiting
  <2> QED
    BY <1>2, <2>1, <2>2
<1>4. sdcard' = [sdcard EXCEPT !.buffer[sdcard.buffer_index] = data[n],
                               !.buffer_index = next_index]
  BY <1>1, <1>2, <1>3 DEF Idle
<1>5. /\ DOMAIN sdcard' = InterfaceFields /\ sdcard'.state = "Idle"
      /\ sdcard'.wr = sdcard.wr /\ sdcard'.rd = sdcard.rd /\ sdcard'.din = sdcard.din
      /\ sdcard'.address = sdcard.address
      /\ sdcard'.buffer = [sdcard.buffer EXCEPT ![sdcard.buffer_index] = data[n]]
      /\ sdcard'.buffer_index = next_index
      /\ sdcard'.waiting_ready_for_next_byte = sdcard.waiting_ready_for_next_byte
  BY <1>0, <1>4 DEF InterfaceFields
<1>6. data[n] \in ByteValues
  BY <1>2, BytesAreBytes
<1>7. InterfaceTypes'
  <2>1. sdcard.buffer_index \in Indices /\ sdcard.buffer \in [Indices -> ByteValues]
    BY <1>0 DEF InterfaceTypes
  <2>2. next_index \in Indices
    BY <2>1, NextIndex DEF next_index
  <2>3. sdcard'.buffer \in [Indices -> ByteValues]
    BY <1>5, <1>6, <2>1
  <2> QED
    BY <1>0, <1>1, <1>5, <2>2, <2>3 DEF InterfaceTypes
<1>8. InterfaceAt'
  BY <1>0, <1>1, <1>5 DEF InterfaceAt
<1>9. Behind(data, n + 1)'
  <2>1. n < SectorSize
    BY <1>2, SizeIs DEF Indices
  <2> QED
    BY <1>0, <1>3, <1>5, <1>6, <2>1, BehindTakes
<1>10. /\ i' = (n + 1) % SectorSize /\ doing' = IF i' = 0 THEN "start_write" ELSE "write_bytes"
       /\ call' = call /\ buffer' = buffer /\ result' = result
  BY <1>0, <1>2 DEF WritesByte
<1>11. i' \in Indices
  BY <1>2, <1>10, NextIndex
<1>12. InCall'
  BY <1>0, <1>10, <1>11 DEF InCall
<1>13. Waiting'
  <2>1. CASE i' # 0
    <3>1. i' = n + 1 /\ doing' = "write_bytes"
      BY <1>2, <1>10, <2>1, NextIndex, SizeIs
    <3>2. Behind(call.data, i)'
      BY <1>3, <1>9, <1>10, <3>1 DEF Behind
    <3> QED
      BY <1>5, <3>1, <3>2 DEF Waiting
  <2>2. CASE i' = 0
    <3>1. doing' = "start_write" /\ n + 1 = SectorSize
      BY <1>2, <1>10, <2>2, NextIndex
    <3>2. Behind(data, SectorSize)'
      BY <1>9, <3>1
    <3>3. Holds(data, 0)'
      BY <1>7, <3>2, BehindAllNext
    <3>4. Holds(call.data, 0)'
      BY <1>3, <1>10, <3>3 DEF Holds
    <3>5. Taken(0)'
      BY <3>4 DEF Taken
    <3> QED
      BY <1>5, <3>1, <3>5 DEF Waiting
  <2> QED
    BY <2>1, <2>2
<1> QED
  BY <1>1, <1>5, <1>7, <1>8, <1>12, <1>13, CycleKeeps DEF InvOfInterface, Ring

\* A cycle in which a transfer is on its way: the program sees busy and waits.
LEMMA BusyCycle ==
  ASSUME Inv, Wait \/ CallAny \/ Access, sdcard.state \notin {"Init", "Idle"}
  PROVE  /\ UNCHANGED programVars /\ call' = call /\ doing' = doing /\ InCall'
         /\ CycleIn(sd.state) /\ counter' = 0
         /\ sdcard.state = "PreReadSector" => PreReadSector
         /\ sdcard.state = "ReadSector" => ReadSector
         /\ sdcard.state = "PreWriteSector" => PreWriteSector
         /\ sdcard.state = "WriteSector" => WriteSector
         /\ InterfaceTypes /\ DOMAIN sdcard = InterfaceFields
         /\ call \in Calls /\ call.sector \in Sectors
<1>1. /\ UNCHANGED programVars
      /\ \E cmd, sector, data_in \in Int : Clock(cmd, sector, data_in)
  BY ProgramWaits
<1>2. call' = call /\ doing' = doing
  BY <1>1 DEF programVars
<1>3. PICK cmd, sector, data_in \in Int : Clock(cmd, sector, data_in)
  BY <1>1
<1>4. /\ CycleIn(sd.state) /\ counter' = 0
      /\ sdcard.state = "PreReadSector" => PreReadSector
      /\ sdcard.state = "ReadSector" => ReadSector
      /\ sdcard.state = "PreWriteSector" => PreWriteSector
      /\ sdcard.state = "WriteSector" => WriteSector
  BY <1>2, <1>3, ClockIs
<1>5. InCall'
  BY <1>1 DEF Inv, InCall, programVars
<1>6. InterfaceTypes /\ DOMAIN sdcard = InterfaceFields
  BY DEF Inv, Types, InterfaceTypes
<1>7. call \in Calls
  BY DEF Inv, InterfaceAt, InCall
<1>8. call.sector \in Sectors
  BY <1>7 DEF Calls
<1> QED
  BY <1>1, <1>2, <1>4, <1>5, <1>6, <1>7, <1>8

\* sd_controller.v sees the command in one cycle.
LEMMA PreReadKeeps ==
  ASSUME Inv, Wait \/ CallAny \/ Access, sdcard.state = "PreReadSector"
  PROVE  Inv' /\ call' = call /\ UNCHANGED <<result, stored>>
<1>1. /\ UNCHANGED programVars /\ call' = call /\ doing' = doing /\ InCall'
      /\ CycleIn(sd.state) /\ counter' = 0 /\ PreReadSector
      /\ InterfaceTypes /\ DOMAIN sdcard = InterfaceFields
  BY BusyCycle
<1>2. /\ sd.state = "IDLE" /\ sdcard.rd /\ ~sdcard.wr /\ doing = "wait_for_read"
      /\ sdcard.address \div AddressUnit = call.sector
  BY DEF Inv, InterfaceAt
<1>3. SameWires /\ sd'.state = "READ_BLOCK"
  BY <1>1, <1>2, MovesIdle
<1>4. /\ DOMAIN sdcard' = InterfaceFields /\ sdcard'.state = "ReadSector"
      /\ sdcard'.wr = sdcard.wr /\ sdcard'.rd = FALSE /\ sdcard'.din = sdcard.din
      /\ sdcard'.address = sdcard.address /\ sdcard'.buffer = sdcard.buffer
      /\ sdcard'.buffer_index = sdcard.buffer_index
      /\ sdcard'.waiting_ready_for_next_byte = sdcard.waiting_ready_for_next_byte
  BY <1>1 DEF PreReadSector, InterfaceFields
<1>5. InterfaceTypes'
  BY <1>1, <1>4 DEF InterfaceTypes
<1>6. InterfaceAt'
  BY <1>1, <1>2, <1>4 DEF InterfaceAt
<1>7. ~sd.byte_available /\ ~sd.ready_for_next_byte
  BY <1>2 DEF Inv, Ring, NoByteComes, NoByteIsAsked
<1>8. Returns'
  <2>1. sdcard'.state \in BelongsTo(sd'.state)
    BY <1>3, <1>4, BelongsToOne DEF ReadStates
  <2> QED
    BY <1>3, <2>1 DEF Returns
<1>9. Ring'
  BY <1>3, <1>4, <1>7 DEF Ring, Reading, NoByteComes, Writing, NoByteIsAsked, Waiting, SameWires
<1>10. stored' = stored
  BY <1>1, <1>2, CycleWires
<1> QED
  BY <1>1, <1>5, <1>6, <1>8, <1>9, <1>10, CycleKeeps DEF InvOfInterface, programVars

\* A cycle in which sdcard.sv waits for the controller to begin a write.
LEMMA PreWriteKeeps ==
  ASSUME Inv, Wait \/ CallAny \/ Access, sdcard.state = "PreWriteSector"
  PROVE  Inv' /\ call' = call /\ UNCHANGED <<result, stored>>
<1>1. /\ UNCHANGED programVars /\ call' = call /\ doing' = doing /\ InCall'
      /\ CycleIn(sd.state) /\ counter' = 0 /\ PreWriteSector
      /\ InterfaceTypes /\ DOMAIN sdcard = InterfaceFields
  BY BusyCycle
<1>2. /\ sd.state = "IDLE" /\ ~sdcard.rd /\ sdcard.wr /\ doing = "wait_for_write"
      /\ sdcard.address \div AddressUnit = call.sector /\ sdcard.waiting_ready_for_next_byte
  BY DEF Inv, InterfaceAt
<1>3. SameWires /\ sd'.state = "WRITE_BLOCK_CMD"
  BY <1>1, <1>2, MovesIdle
<1>4. /\ DOMAIN sdcard' = InterfaceFields /\ sdcard'.state = "WriteSector"
      /\ sdcard'.wr = FALSE /\ sdcard'.rd = sdcard.rd /\ sdcard'.din = sdcard.din
      /\ sdcard'.address = sdcard.address /\ sdcard'.buffer = sdcard.buffer
      /\ sdcard'.buffer_index = sdcard.buffer_index
      /\ sdcard'.waiting_ready_for_next_byte = sdcard.waiting_ready_for_next_byte
  BY <1>1 DEF PreWriteSector, InterfaceFields
<1>5. InterfaceTypes'
  BY <1>1, <1>4 DEF InterfaceTypes
<1>6. InterfaceAt'
  BY <1>1, <1>2, <1>4 DEF InterfaceAt
<1>7. ~sd.byte_available /\ ~sd.ready_for_next_byte
  BY <1>2 DEF Inv, Ring, NoByteComes, NoByteIsAsked
<1>8. Returns'
  <2>1. sdcard'.state \in BelongsTo(sd'.state)
    BY <1>3, <1>4, BelongsToOne DEF WriteStates
  <2> QED
    BY <1>3, <2>1 DEF Returns
<1>9. Taken(0)'
  <2>1. PICK data : data = call.data /\ Holds(data, 0)
    BY DEF Inv, Ring, Waiting, Taken
  <2>2. Holds(data, 0)'
    BY <1>4, <2>1, RingRests
  <2>3. Holds(call.data, 0)'
    BY <1>1, <2>1, <2>2 DEF Holds
  <2> QED
    BY <2>3 DEF Taken
<1>10. Ring'
  BY <1>2, <1>3, <1>4, <1>7, <1>9 DEF Ring, Reading, NoByteComes, Writing, NoByteIsAsked, Waiting,
                                      SameWires
<1>11. stored' = stored
  BY <1>1, <1>2, CycleWires
<1> QED
  BY <1>1, <1>5, <1>6, <1>8, <1>10, <1>11, CycleKeeps DEF InvOfInterface, programVars

-----------------------------------------------------------------------------
\* A byte that sd_controller.v has ready is taken, whatever comes next.
LEMMA ByteComes ==
  ASSUME InterfaceTypes, ControllerTypes, ReadSector, NEW f \in Contents,
         NEW n \in Nat, n <= SectorSize, Came(f, n), DOMAIN sdcard = InterfaceFields
  PROVE  Behind(f, n)'
<1>1. CASE sd.byte_available
  <2>1. n > 0 /\ sd.dout = f[n - 1] /\ Behind(f, n - 1)
    BY <1>1 DEF Came
  <2>2. PICK m \in Nat : m = n - 1 /\ m < SectorSize /\ m \in Indices /\ m + 1 = n
    BY <2>1, SizeIs DEF Indices
  <2>3. f[m] \in ByteValues
    BY <2>2, BytesAreBytes
  <2>4. /\ sdcard'.buffer = [sdcard.buffer EXCEPT ![sdcard.buffer_index] = f[m]]
        /\ sdcard'.buffer_index = next_index
    BY <1>1, <2>1, <2>2 DEF ReadSector, InterfaceFields
  <2>5. Behind(f, m + 1)'
    BY <2>1, <2>2, <2>3, <2>4, BehindTakes
  <2> QED
    BY <2>2, <2>5
<1>2. CASE ~sd.byte_available
  <2>1. Behind(f, n)
    BY <1>2 DEF Came
  <2>2. sdcard'.buffer = sdcard.buffer /\ sdcard'.buffer_index = sdcard.buffer_index
    BY <1>2 DEF ReadSector, InterfaceFields
  <2> QED
    BY <2>1, <2>2, RingRests
<1> QED
  BY <1>1, <1>2

\* Where a read is.
BeforeBlock == \/ sd.state \in {"READ_BLOCK", "SEND_CMD", "RECEIVE_BYTE_WAIT", "READ_BLOCK_WAIT"}
               \/ sd.state = "RECEIVE_BYTE" /\ sd.return_state = "READ_BLOCK_WAIT"
InBlock     == \/ sd.state = "READ_BLOCK_DATA"
               \/ sd.state = "RECEIVE_BYTE" /\ sd.return_state = "READ_BLOCK_DATA"

\* The buffer in the parts of a read,
LEMMA ReadingIs ==
  ASSUME Reading, sdcard.state = "ReadSector"
  PROVE  /\ BeforeBlock => ~sd.byte_available
         /\ InBlock => Came(stored[call.sector], SectorSize - 1 - sd.byte_counter)
         /\ ~BeforeBlock /\ ~InBlock => Came(stored[call.sector], SectorSize)
<1>1. ~(BeforeBlock /\ InBlock)
  BY DEF BeforeBlock, InBlock
<1>2. CASE BeforeBlock
  BY <1>1, <1>2 DEF Reading, BeforeBlock, InBlock
<1>3. CASE InBlock
  BY <1>1, <1>3 DEF Reading, BeforeBlock, InBlock
<1>4. CASE ~BeforeBlock /\ ~InBlock
  BY <1>4 DEF Reading, BeforeBlock, InBlock
<1> QED
  BY <1>1, <1>2, <1>3, <1>4

\* and after a cycle of it.
LEMMA ReadingNext ==
  ASSUME NEW f, f = stored'[call'.sector],
         \/ BeforeBlock' /\ ~sd'.byte_available
         \/ InBlock' /\ \E n \in Int : n = SectorSize - 1 - sd'.byte_counter /\ Came(f, n)'
         \/ ~BeforeBlock' /\ ~InBlock' /\ Came(f, SectorSize)'
  PROVE  Reading'
<1>1. ~(BeforeBlock' /\ InBlock')
  BY DEF BeforeBlock, InBlock
<1>2. CASE BeforeBlock' /\ ~sd'.byte_available
  BY <1>1, <1>2 DEF Reading, BeforeBlock, InBlock
<1>3. CASE InBlock' /\ \E n \in Int : n = SectorSize - 1 - sd'.byte_counter /\ Came(f, n)'
  <2>1. PICK n \in Int : n = SectorSize - 1 - sd'.byte_counter /\ Came(f, n)'
    BY <1>3
  <2>2. Came(stored[call.sector], SectorSize - 1 - sd.byte_counter)'
    BY <2>1 DEF Came, Behind
  <2> QED
    BY <1>1, <1>3, <2>2 DEF Reading, BeforeBlock, InBlock
<1>4. CASE ~BeforeBlock' /\ ~InBlock' /\ Came(f, SectorSize)'
  <2>1. Came(stored[call.sector], SectorSize)'
    BY <1>4 DEF Came, Behind
  <2> QED
    BY <1>4, <2>1 DEF Reading, BeforeBlock, InBlock
<1> QED
  BY <1>2, <1>3, <1>4

\* The bytes of the block come, one after the other, and none is lost.
LEMMA ReadRing ==
  ASSUME Inv, CycleIn(sd.state), sdcard.state = "ReadSector", ReadSector, call' = call,
         stored' = stored, NEW f \in Contents, f = stored[call.sector]
  PROVE  Reading' /\ (sd.state = "IDLE" => Behind(f, SectorSize)')
<1>0. /\ InterfaceTypes /\ ControllerTypes /\ DOMAIN sdcard = InterfaceFields
      /\ Reading /\ Returns /\ NoByteComes
  BY DEF Inv, Types, InterfaceTypes, Ring
<1>1. sd.state \in ReadStates \cup {"SEND_CMD", "RECEIVE_BYTE_WAIT", "RECEIVE_BYTE", "IDLE"}
  <2>1. sd.state \in {"RST", "INIT", "CMD0", "CMD8", "CMD55", "CMD41", "POLL_CMD", "IDLE", "SEND_CMD",
                      "RECEIVE_BYTE_WAIT", "RECEIVE_BYTE", "READ_BLOCK", "READ_BLOCK_WAIT",
                      "READ_BLOCK_DATA", "READ_BLOCK_CRC", "WRITE_BLOCK_CMD", "WRITE_BLOCK_INIT",
                      "WRITE_BLOCK_DATA", "WRITE_BLOCK_BYTE", "WRITE_BLOCK_WAIT"}
    BY DEF CycleIn, Pulse
  <2>2. sd.state \notin InitStates /\ sd.state \notin WriteStates
    BY <1>0, BelongsToOne DEF Returns
  <2> QED
    BY <2>1, <2>2 DEF InitStates, ReadStates, WriteStates
<1>2. /\ BeforeBlock => ~sd.byte_available
      /\ InBlock => Came(f, SectorSize - 1 - sd.byte_counter)
      /\ ~BeforeBlock /\ ~InBlock => Came(f, SectorSize)
  BY <1>0, ReadingIs
<1>3. f = stored'[call'.sector]
  OBVIOUS
<1>4. sd.state \in {"RECEIVE_BYTE_WAIT", "RECEIVE_BYTE"}
        => \/ sd.return_state = "READ_BLOCK_WAIT"
           \/ /\ sd.state = "RECEIVE_BYTE"
              /\ sd.return_state \in {"READ_BLOCK_DATA", "READ_BLOCK_CRC", "IDLE"}
  <2>1. sd.state \in {"RECEIVE_BYTE_WAIT", "RECEIVE_BYTE"} /\ sd.return_state # "IDLE"
          => sd.return_state \notin InitStates /\ sd.return_state \notin WriteStates
    BY <1>0, BelongsToOne DEF Returns
  <2> QED
    BY <1>0, <2>1 DEF Returns, Responses, InitStates, WriteStates
<1>5. ASSUME InBlock
      PROVE  /\ ReceivingBlock /\ sd.byte_counter \in 0 .. SectorSize - 1
             /\ \E n \in Nat : /\ n = SectorSize - 1 - sd.byte_counter /\ n < SectorSize
                               /\ Came(f, n) /\ Behind(f, n)'
  <2>1. ReceivingBlock
    BY <1>5 DEF Inv, Wires, InBlock
  <2>2. sd.byte_counter \in 0 .. SectorSize - 1
    BY <2>1 DEF ReceivingBlock
  <2>3. PICK n \in Nat : n = SectorSize - 1 - sd.byte_counter /\ n < SectorSize
    BY <2>2, SizeIs
  <2>4. Came(f, n)
    BY <1>2, <1>5, <2>3
  <2>5. Behind(f, n)'
    BY <1>0, <2>3, <2>4, SizeIs, ByteComes
  <2> QED
    BY <2>1, <2>2, <2>3, <2>4, <2>5
<1>6. ~BeforeBlock /\ ~InBlock => Behind(f, SectorSize)'
  BY <1>0, <1>2, SizeIs, ByteComes
<1>7. CASE sd.state \in {"READ_BLOCK", "SEND_CMD", "RECEIVE_BYTE_WAIT"}
  <2>1. BeforeBlock
    BY <1>7 DEF BeforeBlock
  <2>2. SameWires
    BY <1>7, MovesRead, MovesResponse
  <2>3. BeforeBlock'
    BY <1>4, <1>7, MovesRead, MovesResponse DEF BeforeBlock
  <2> QED
    BY <1>2, <1>3, <1>7, <2>1, <2>2, <2>3, ReadingNext DEF SameWires
<1>8. CASE sd.state = "READ_BLOCK_WAIT"
  <2>1. BeforeBlock
    BY <1>8 DEF BeforeBlock
  <2>2. ~sd'.byte_available
    BY <1>2, <1>8, <2>1, MovesRead DEF SameWires
  <2>3. CASE sd'.state = "READ_BLOCK_WAIT"
    <3>1. BeforeBlock'
      BY <2>3 DEF BeforeBlock
    <3> QED
      BY <1>3, <1>8, <2>2, <3>1, ReadingNext
  <2>4. CASE /\ sd'.state = "RECEIVE_BYTE" /\ sd'.return_state = "READ_BLOCK_DATA"
             /\ sd'.byte_counter = SectorSize - 1
    <3>1. InBlock'
      BY <2>4 DEF InBlock
    <3>2. PICK n \in Int : n = 0
      OBVIOUS
    <3>3. n = SectorSize - 1 - sd'.byte_counter
      BY <2>4, <3>2, SizeIs
    <3>4. Came(f, n)'
      BY <2>2, <3>2 DEF Came, Behind
    <3> QED
      BY <1>3, <1>8, <3>1, <3>3, <3>4, ReadingNext
  <2> QED
    BY <1>8, <2>3, <2>4, MovesRead
<1>9. CASE sd.state = "RECEIVE_BYTE"
  <2>1. /\ sd'.state \in {"RECEIVE_BYTE", sd.return_state} /\ ~sd'.byte_available
        /\ sd'.return_state = sd.return_state /\ sd'.byte_counter = sd.byte_counter
    BY <1>9, MovesResponse
  <2>2. CASE sd.return_state = "READ_BLOCK_WAIT"
    <3>1. BeforeBlock'
      BY <2>1, <2>2 DEF BeforeBlock
    <3> QED
      BY <1>3, <1>9, <2>1, <3>1, ReadingNext
  <2>3. CASE sd.return_state = "READ_BLOCK_DATA"
    <3>1. InBlock /\ InBlock'
      BY <1>9, <2>1, <2>3 DEF InBlock
    <3>2. PICK n \in Nat : n = SectorSize - 1 - sd.byte_counter /\ Behind(f, n)'
      BY <1>5, <3>1
    <3>3. n \in Int /\ n = SectorSize - 1 - sd'.byte_counter /\ Came(f, n)'
      BY <2>1, <3>2 DEF Came
    <3> QED
      BY <1>3, <1>9, <3>1, <3>3, ReadingNext
  <2>4. CASE sd.return_state \in {"READ_BLOCK_CRC", "IDLE"}
    <3>1. ~BeforeBlock /\ ~InBlock /\ ~BeforeBlock' /\ ~InBlock'
      BY <1>9, <2>1, <2>4 DEF BeforeBlock, InBlock
    <3>2. Came(f, SectorSize)'
      BY <1>6, <2>1, <3>1 DEF Came
    <3> QED
      BY <1>3, <1>9, <3>1, <3>2, ReadingNext
  <2> QED
    BY <1>4, <1>9, <2>2, <2>3, <2>4
<1>10. CASE sd.state = "READ_BLOCK_DATA"
  <2>1. /\ sd'.state = "RECEIVE_BYTE" /\ sd'.byte_available /\ sd'.dout = sd.recv_data
        /\ \/ sd.byte_counter = 0 /\ sd'.return_state = "READ_BLOCK_CRC"
           \/ /\ sd.byte_counter # 0 /\ sd'.return_state = "READ_BLOCK_DATA"
              /\ sd'.byte_counter = sd.byte_counter - 1
    BY <1>10, MovesRead
  <2>2. InBlock
    BY <1>10 DEF InBlock
  <2>3. PICK n \in Nat : /\ n = SectorSize - 1 - sd.byte_counter /\ n < SectorSize
                         /\ Behind(f, n)'
    BY <1>5, <2>2
  <2>4. sd.recv_data = f[n]
    BY <1>5, <1>10, <2>2, <2>3 DEF ReceivingBlock
  <2>5. PICK m \in Nat : m = n + 1 /\ m - 1 = n /\ m > 0
    OBVIOUS
  <2>6. Came(f, m)'
    BY <2>1, <2>3, <2>4, <2>5 DEF Came
  <2>7. CASE sd.byte_counter = 0
    <3>1. sd'.return_state = "READ_BLOCK_CRC" /\ m = SectorSize
      BY <2>1, <2>3, <2>5, <2>7, SizeIs
    <3>2. ~BeforeBlock' /\ ~InBlock'
      BY <2>1, <3>1 DEF BeforeBlock, InBlock
    <3>3. Came(f, SectorSize)'
      BY <2>6, <3>1
    <3> QED
      BY <1>3, <1>10, <3>2, <3>3, ReadingNext
  <2>8. CASE sd.byte_counter # 0
    <3>1. sd'.return_state = "READ_BLOCK_DATA" /\ m = SectorSize - 1 - sd'.byte_counter
      BY <1>5, <2>1, <2>2, <2>3, <2>5, <2>8, SizeIs
    <3>2. InBlock'
      BY <2>1, <3>1 DEF InBlock
    <3>3. m \in Int
      OBVIOUS
    <3> QED
      BY <1>3, <1>10, <2>6, <3>1, <3>2, <3>3, ReadingNext
  <2> QED
    BY <2>7, <2>8
<1>11. CASE sd.state = "READ_BLOCK_CRC"
  <2>1. sd'.state = "RECEIVE_BYTE" /\ sd'.return_state = "IDLE" /\ SameWires
    BY <1>11, MovesRead
  <2>2. ~sd'.byte_available
    BY <1>0, <1>11, <2>1 DEF NoByteComes, SameWires
  <2>3. ~BeforeBlock /\ ~InBlock /\ ~BeforeBlock' /\ ~InBlock'
    BY <1>11, <2>1 DEF BeforeBlock, InBlock
  <2>4. Came(f, SectorSize)'
    BY <1>6, <2>2, <2>3 DEF Came
  <2> QED
    BY <1>3, <1>11, <2>3, <2>4, ReadingNext
<1>12. CASE sd.state = "IDLE"
  <2>1. sdcard'.state # "ReadSector"
    BY <1>0, <1>12 DEF ReadSector, ready, InterfaceFields
  <2>2. ~BeforeBlock /\ ~InBlock
    BY <1>12 DEF BeforeBlock, InBlock
  <2> QED
    BY <1>6, <2>1, <2>2 DEF Reading
<1> QED
  BY <1>1, <1>7, <1>8, <1>9, <1>10, <1>11, <1>12 DEF ReadStates

\* A cycle of a read.
LEMMA ReadKeeps ==
  ASSUME Inv, Wait \/ CallAny \/ Access, sdcard.state = "ReadSector"
  PROVE  Inv' /\ call' = call /\ UNCHANGED <<result, stored>>
<1>1. /\ UNCHANGED programVars /\ call' = call /\ doing' = doing /\ InCall'
      /\ CycleIn(sd.state) /\ counter' = 0 /\ ReadSector
      /\ InterfaceTypes /\ DOMAIN sdcard = InterfaceFields
      /\ call \in Calls /\ call.sector \in Sectors
  BY BusyCycle
<1>2. /\ ~sdcard.rd /\ ~sdcard.wr /\ doing = "wait_for_read"
      /\ sdcard.address \div AddressUnit = call.sector
  BY DEF Inv, InterfaceAt
<1>3. ControllerTypes /\ CardTypes
  BY DEF Inv, Types
<1>4. stored' = stored
  <2>1. sd.state # "WRITE_BLOCK_BYTE"
    BY BelongsToOne DEF Inv, Returns, WriteStates
  <2> QED
    BY <1>1, <2>1, CycleWires
<1>5. PICK f \in Contents : f = stored[call.sector]
  BY <1>1, <1>3 DEF CardTypes
<1>6. Reading' /\ (sd.state = "IDLE" => Behind(f, SectorSize)')
  BY <1>1, <1>4, <1>5, ReadRing
<1>7. /\ DOMAIN sdcard' = InterfaceFields
      /\ sdcard'.state = IF ready THEN "Idle" ELSE "ReadSector"
      /\ sdcard'.wr = sdcard.wr /\ sdcard'.rd = sdcard.rd /\ sdcard'.din = sdcard.din
      /\ sdcard'.address = sdcard.address
      /\ sdcard'.waiting_ready_for_next_byte = sdcard.waiting_ready_for_next_byte
  BY <1>1 DEF ReadSector, InterfaceFields
<1>8. sdcard'.buffer \in [Indices -> ByteValues] /\ sdcard'.buffer_index \in Indices
  <2>1. sdcard.buffer \in [Indices -> ByteValues] /\ sdcard.buffer_index \in Indices
    BY <1>1 DEF InterfaceTypes
  <2>2. next_index \in Indices
    BY <2>1, NextIndex DEF next_index
  <2>3. CASE sd.byte_available
    <3>1. /\ sdcard'.buffer = [sdcard.buffer EXCEPT ![sdcard.buffer_index] = sd.dout]
          /\ sdcard'.buffer_index = next_index
      BY <1>1, <2>3 DEF ReadSector, InterfaceFields
    <3>2. sd.dout \in ByteValues
      BY <1>3 DEF ControllerTypes
    <3> QED
      BY <2>1, <2>2, <3>1, <3>2
  <2>4. CASE ~sd.byte_available
    <3>1. sdcard'.buffer = sdcard.buffer /\ sdcard'.buffer_index = sdcard.buffer_index
      BY <1>1, <2>4 DEF ReadSector, InterfaceFields
    <3> QED
      BY <2>1, <3>1
  <2> QED
    BY <2>3, <2>4
<1>9. InterfaceTypes'
  BY <1>1, <1>7, <1>8 DEF InterfaceTypes
<1>10. CASE sd.state = "IDLE"
  <2>1. SameWires /\ sd'.state = "IDLE" /\ sdcard'.state = "Idle"
    BY <1>1, <1>2, <1>7, <1>10, MovesIdle DEF ready
  <2>2. ~sd.byte_available /\ ~sd.ready_for_next_byte
    BY <1>10 DEF Inv, Ring, NoByteComes, NoByteIsAsked
  <2>3. InterfaceAt'
    BY <1>2, <1>7, <2>1 DEF InterfaceAt
  <2>4. Returns'
    BY <2>1 DEF Returns, BelongsTo, InitStates, ReadStates, WriteStates
  <2>5. Waiting'
    <3>1. Holds(f, 0)'
      BY <1>6, <1>9, <1>10, BehindAllNext
    <3>2. Holds(stored[call.sector], 0)'
      BY <1>1, <1>4, <1>5, <3>1 DEF Holds
    <3> QED
      BY <1>1, <1>2, <2>1, <3>2 DEF Waiting
  <2>6. Ring'
    BY <1>6, <2>1, <2>2, <2>5 DEF Ring, NoByteComes, Writing, NoByteIsAsked, SameWires
  <2> QED
    BY <1>1, <1>4, <1>9, <2>3, <2>4, <2>6, CycleKeeps DEF InvOfInterface, programVars
<1>11. CASE sd.state # "IDLE"
  <2>1. sdcard'.state = "ReadSector"
    BY <1>7, <1>11 DEF ready
  <2>2. Returns' /\ NoByteComes' /\ NoByteIsAsked'
    BY <1>1, <1>11, <2>1, ReturnsNext
  <2>3. InterfaceAt'
    BY <1>1, <1>2, <1>7, <2>1 DEF InterfaceAt
  <2>4. Ring'
    BY <1>6, <2>1, <2>2 DEF Ring, Writing, Waiting
  <2> QED
    BY <1>1, <1>4, <1>9, <2>2, <2>3, <2>4, CycleKeeps DEF InvOfInterface, programVars
<1> QED
  BY <1>10, <1>11

-----------------------------------------------------------------------------
(* A write. *)

AsksForFirst == \/ sd.state \in {"SEND_CMD", "RECEIVE_BYTE_WAIT", "RECEIVE_BYTE"}
                   /\ sd.return_state = "WRITE_BLOCK_INIT"
                \/ sd.state = "WRITE_BLOCK_INIT"

\* The next byte is taken from the buffer while sd_controller.v waits for it.
LEMMA ByteTaken ==
  ASSUME InterfaceTypes, WriteSector, DOMAIN sdcard = InterfaceFields, NEW data, NEW t \in Nat,
         Holds(data, t), sd.ready_for_next_byte, sdcard.waiting_ready_for_next_byte
  PROVE  Holds(data, t + 1)' /\ sdcard'.din = data[t % SectorSize]
<1>1. /\ sdcard'.buffer = sdcard.buffer /\ sdcard'.buffer_index = next_index
      /\ sdcard'.din = data_out
  BY DEF WriteSector, takes_byte, InterfaceFields
<1>2. Holds(data, t + 1)' /\ ring(0) = data[t % SectorSize]
  BY <1>1, HoldsMoves
<1>3. ring(0) = data_out
  <2>1. sdcard.buffer_index + 0 = sdcard.buffer_index /\ sdcard.buffer_index \in Nat
        /\ sdcard.buffer_index < SectorSize
    BY SizeIs DEF InterfaceTypes, Indices
  <2>2. sdcard.buffer_index % SectorSize = sdcard.buffer_index
    BY <2>1, InIndices
  <2> QED
    BY <2>1, <2>2 DEF ring, data_out
<1> QED
  BY <1>1, <1>2, <1>3

\* Otherwise nothing moves.
LEMMA NoByteTaken ==
  ASSUME WriteSector, DOMAIN sdcard = InterfaceFields,
         ~sd.ready_for_next_byte \/ ~sdcard.waiting_ready_for_next_byte
  PROVE  /\ sdcard'.buffer = sdcard.buffer /\ sdcard'.buffer_index = sdcard.buffer_index
         /\ sdcard'.din = sdcard.din
BY DEF WriteSector, takes_byte, InterfaceFields

\* The stream of bytes to the controller rests while the buffer does.
LEMMA TakenRests ==
  ASSUME sdcard'.buffer = sdcard.buffer, sdcard'.buffer_index = sdcard.buffer_index,
         sdcard'.din = sdcard.din, call' = call
  PROVE  \A t : Taken(t) => Taken(t)'
<1>1. \A f, n : Holds(f, n)' = Holds(f, n)
  BY RingRests
<1>2. PICK data : data = call.data
  OBVIOUS
<1>3. ASSUME NEW t, Taken(t)
      PROVE  Taken(t)'
  <2>1. Holds(data, t) /\ (t > 0 => sdcard.din = data[(t - 1) % SectorSize])
    BY <1>2, <1>3 DEF Taken
  <2>2. Holds(data, t)'
    BY <1>1, <2>1
  <2>3. Holds(call.data, t)'
    BY <1>2, <2>2 DEF Holds
  <2> QED
    BY <1>2, <2>1, <2>3 DEF Taken
<1> QED
  BY <1>3

\* sdcard.sv gives the next byte when it is asked for one.
LEMMA TakenMoves ==
  ASSUME InterfaceTypes, WriteSector, DOMAIN sdcard = InterfaceFields, call' = call, NEW t \in Nat,
         Taken(t), sd.ready_for_next_byte, sdcard.waiting_ready_for_next_byte
  PROVE  Taken(t + 1)'
<1>1. PICK data : data = call.data /\ data = call'.data
  OBVIOUS
<1>2. Holds(data, t)
  BY <1>1 DEF Taken
<1>3. Holds(data, t + 1)' /\ sdcard'.din = data[t % SectorSize]
  BY <1>2, ByteTaken
<1>4. Holds(call.data, t + 1)'
  BY <1>1, <1>3 DEF Holds
<1>5. (t + 1) - 1 = t
  OBVIOUS
<1> QED
  BY <1>1, <1>3, <1>4, <1>5 DEF Taken

\* One byte of the data is on the wires to sd_controller.v when it is sent.
LEMMA WriteRing ==
  ASSUME Inv, CycleIn(sd.state), sdcard.state = "WriteSector", WriteSector, call' = call,
         sd.state # "IDLE"
  PROVE  Writing'
<1>0. /\ InterfaceTypes /\ ControllerTypes /\ DOMAIN sdcard = InterfaceFields
      /\ Writing /\ Returns /\ NoByteComes
  BY DEF Inv, Types, InterfaceTypes, Ring
<1>1. sd.state \in WriteStates \cup {"SEND_CMD", "RECEIVE_BYTE_WAIT", "RECEIVE_BYTE"}
  <2>1. sd.state \in {"RST", "INIT", "CMD0", "CMD8", "CMD55", "CMD41", "POLL_CMD", "IDLE", "SEND_CMD",
                      "RECEIVE_BYTE_WAIT", "RECEIVE_BYTE", "READ_BLOCK", "READ_BLOCK_WAIT",
                      "READ_BLOCK_DATA", "READ_BLOCK_CRC", "WRITE_BLOCK_CMD", "WRITE_BLOCK_INIT",
                      "WRITE_BLOCK_DATA", "WRITE_BLOCK_BYTE", "WRITE_BLOCK_WAIT"}
    BY DEF CycleIn, Pulse
  <2>2. sd.state \notin InitStates /\ sd.state \notin ReadStates
    BY <1>0, BelongsToOne DEF Returns
  <2> QED
    BY <2>1, <2>2 DEF InitStates, ReadStates, WriteStates
<1>2. sd.state \in {"SEND_CMD", "RECEIVE_BYTE_WAIT", "RECEIVE_BYTE"}
        => \/ sd.return_state = "WRITE_BLOCK_INIT"
           \/ sd.state # "SEND_CMD" /\ sd.return_state = "WRITE_BLOCK_WAIT"
  <2>1. sd.state \in {"SEND_CMD", "RECEIVE_BYTE_WAIT", "RECEIVE_BYTE"}
          => /\ sd.return_state \notin InitStates /\ sd.return_state \notin ReadStates
             /\ sd.return_state # "IDLE"
    BY <1>0, BelongsToOne DEF Returns
  <2> QED
    BY <1>0, <2>1 DEF Returns, Responses, InitStates, ReadStates
<1>3. sdcard'.waiting_ready_for_next_byte = ~sd.ready_for_next_byte
  BY <1>0 DEF WriteSector, InterfaceFields
<1>4. ~sd.ready_for_next_byte \/ ~sdcard.waiting_ready_for_next_byte
        => \A t : Taken(t) => Taken(t)'
  BY <1>0, NoByteTaken, TakenRests
<1>5. ASSUME NEW t \in Nat, Taken(t), sd.ready_for_next_byte, sdcard.waiting_ready_for_next_byte
      PROVE  Taken(t + 1)'
  BY <1>0, <1>5, TakenMoves
<1>6. CASE sd.state = "WRITE_BLOCK_CMD"
  <2>1. ~sd.ready_for_next_byte /\ Taken(0)
    BY <1>0, <1>6 DEF Writing
  <2>2. Taken(0)'
    BY <1>4, <2>1
  <2>3. /\ sd'.state = "SEND_CMD" /\ sd'.return_state = "WRITE_BLOCK_INIT"
        /\ sd'.ready_for_next_byte /\ sd'.bit_counter = 4 /\ sd'.sclk_sig = sd.sclk_sig
    BY <1>6, MovesWrite
  <2>4. sclk' = 0
    BY <1>6, <2>3, RestsIn DEF Resting, sclk
  <2> QED
    BY <1>3, <2>1, <2>2, <2>3, <2>4 DEF Writing
<1>7. ASSUME AsksForFirst
      PROVE  Taken(1)' /\ ~sdcard'.waiting_ready_for_next_byte /\ sd.ready_for_next_byte
  <2>1. /\ sd.ready_for_next_byte
        /\ IF sdcard.waiting_ready_for_next_byte THEN Taken(0) ELSE Taken(1)
    BY <1>0, <1>7 DEF Writing, AsksForFirst
  <2>2. CASE sdcard.waiting_ready_for_next_byte
    <3>1. PICK t \in Nat : t = 0 /\ t + 1 = 1
      OBVIOUS
    <3>2. Taken(t + 1)'
      BY <1>5, <2>1, <2>2, <3>1
    <3>3. Taken(1)'
      BY <3>1, <3>2
    <3> QED
      BY <1>3, <2>1, <3>3
  <2>3. CASE ~sdcard.waiting_ready_for_next_byte
    BY <1>3, <1>4, <2>1, <2>3
  <2> QED
    BY <2>2, <2>3
<1>8. CASE sd.state \in {"SEND_CMD", "RECEIVE_BYTE_WAIT", "RECEIVE_BYTE"}
           /\ sd.return_state = "WRITE_BLOCK_INIT"
  <2>1. AsksForFirst
    BY <1>8 DEF AsksForFirst
  <2>2. /\ sd'.return_state = sd.return_state /\ sd'.ready_for_next_byte = sd.ready_for_next_byte
        /\ sd'.state \in {"SEND_CMD", "RECEIVE_BYTE_WAIT", "RECEIVE_BYTE", "WRITE_BLOCK_INIT"}
    BY <1>8, MovesResponse DEF SameWires
  <2> QED
    BY <1>7, <1>8, <2>1, <2>2 DEF Writing
<1>9. CASE sd.state \in {"RECEIVE_BYTE_WAIT", "RECEIVE_BYTE"}
           /\ sd.return_state = "WRITE_BLOCK_WAIT"
  <2>1. ~sd.ready_for_next_byte
    BY <1>0, <1>9 DEF Writing
  <2>2. /\ sd'.return_state = sd.return_state /\ sd'.ready_for_next_byte = sd.ready_for_next_byte
        /\ sd'.state \in {"RECEIVE_BYTE_WAIT", "RECEIVE_BYTE", "WRITE_BLOCK_WAIT"}
    BY <1>9, MovesResponse DEF SameWires
  <2> QED
    BY <1>9, <2>1, <2>2 DEF Writing
<1>10. CASE sd.state = "WRITE_BLOCK_INIT"
  <2>1. AsksForFirst
    BY <1>10 DEF AsksForFirst
  <2>2. /\ sd'.state = "WRITE_BLOCK_DATA" /\ ~sd'.ready_for_next_byte
        /\ sd'.byte_counter = SectorSize + 3
    BY <1>10, MovesWrite
  <2>3. Taken(IF sd.byte_counter = SectorSize + 3 THEN 1 ELSE SectorSize + 3 - sd.byte_counter)'
    <3>1. Taken(1)' /\ (IF sd.byte_counter = SectorSize + 3 THEN 1
                        ELSE SectorSize + 3 - sd.byte_counter)' = 1
      BY <1>7, <2>1, <2>2
    <3> QED
      BY <3>1 DEF Taken, Holds
  <2> QED
    BY <2>2, <2>3 DEF Writing
<1>11. CASE sd.state = "WRITE_BLOCK_DATA"
  <2>0. PICK b \in Nat : b = sd.byte_counter /\ b <= SectorSize + 3
    BY <1>0, SizeIs DEF ControllerTypes, WRITE_DATA_SIZE
  <2>1. ~sd.ready_for_next_byte /\ (b > 2 => Taken(IF b = SectorSize + 3 THEN 1 ELSE SectorSize + 3 - b))
    BY <1>0, <1>11, <2>0 DEF Writing
  <2>2. b > 2 => Taken(IF b = SectorSize + 3 THEN 1 ELSE SectorSize + 3 - b)'
    <3>1. PICK t : t = IF b = SectorSize + 3 THEN 1 ELSE SectorSize + 3 - b
      OBVIOUS
    <3>2. b > 2 => Taken(t)
      BY <2>1, <3>1
    <3>3. b > 2 => Taken(t)'
      BY <1>4, <2>1, <3>2
    <3> QED
      BY <3>1, <3>3
  <2>3. sdcard'.waiting_ready_for_next_byte
    BY <1>3, <2>1
  <2>4. CASE b = 0
    <3>1. /\ sd'.state = "RECEIVE_BYTE_WAIT" /\ sd'.return_state = "WRITE_BLOCK_WAIT" /\ SameWires
      BY <1>11, <2>0, <2>4, MovesWrite
    <3> QED
      BY <2>1, <3>1 DEF Writing, SameWires
  <2>5. CASE b # 0
    <3>1. /\ sd'.state = "WRITE_BLOCK_BYTE" /\ sd'.byte_counter = b - 1
          /\ sd'.bit_counter = BitsPerByte - 1 /\ sd'.sclk_sig = sd.sclk_sig
          /\ sd'.ready_for_next_byte = IF b \in {1, 2, SectorSize + 3}
                                         THEN sd.ready_for_next_byte ELSE TRUE
      BY <1>11, <2>0, <2>5, MovesWrite
    <3>2. sclk' = 0
      BY <1>11, <3>1 DEF Inv, Wires, BetweenBytes, sclk
    <3>3. CASE b = SectorSize + 3
      <4>1. /\ sd'.byte_counter = SectorSize + 2 /\ sd'.byte_counter \notin 2 .. SectorSize + 1
            /\ ~sd'.ready_for_next_byte
        BY <2>1, <3>1, <3>3, SizeIs
      <4>2. Taken(1)'
        BY <2>2, <3>3, SizeIs
      <4> QED
        BY <3>1, <4>1, <4>2 DEF Writing
    <3>4. CASE b \in {1, 2}
      <4>1. /\ sd'.byte_counter # SectorSize + 2 /\ sd'.byte_counter \notin 2 .. SectorSize + 1
            /\ ~sd'.ready_for_next_byte
        BY <2>1, <3>1, <3>4, SizeIs
      <4> QED
        BY <3>1, <4>1 DEF Writing
    <3>5. CASE b > 2 /\ b # SectorSize + 3
      <4>1. /\ sd'.byte_counter # SectorSize + 2 /\ sd'.byte_counter \in 2 .. SectorSize + 1
            /\ sd'.ready_for_next_byte
        BY <2>0, <3>1, <3>5, SizeIs
      <4>2. Taken(SectorSize + 3 - b)'
        BY <2>2, <3>5
      <4>3. Taken(SectorSize + 2 - sd.byte_counter)'
        <5>1. PICK t \in Int : t = SectorSize + 3 - b
          BY SizeIs
        <5>2. Taken(t)'
          BY <4>2, <5>1
        <5>3. t = (SectorSize + 2 - sd.byte_counter)'
          BY <3>1, <5>1, SizeIs
        <5> QED
          BY <5>2, <5>3 DEF Taken, Holds
      <4> QED
        BY <2>3, <3>1, <3>2, <4>1, <4>3 DEF Writing
    <3> QED
      BY <2>5, <3>3, <3>4, <3>5
  <2> QED
    BY <2>4, <2>5
<1>12. CASE sd.state = "WRITE_BLOCK_BYTE"
  <2>0. PICK b \in Nat : b = sd.byte_counter /\ b <= SectorSize + 2
    <3>1. sd.byte_counter \in 0 .. SectorSize + 2
      BY <1>12 DEF Inv, Wires, SendingByte
    <3> QED
      BY <3>1, SizeIs
  <2>1. /\ sd.ready_for_next_byte <=> b \in 2 .. SectorSize + 1
        /\ b = SectorSize + 2 => Taken(1)
        /\ b \in 2 .. SectorSize + 1
             => IF sdcard.waiting_ready_for_next_byte
                  THEN sclk = 0 /\ Taken(SectorSize + 2 - b)
                  ELSE Taken(SectorSize + 3 - b)
    BY <1>0, <1>12, <2>0 DEF Writing
  <2>2. /\ sd'.byte_counter = b
        /\ \/ sd'.state = "WRITE_BLOCK_BYTE" /\ SameWires
           \/ sd'.state = "WRITE_BLOCK_DATA" /\ sclk = 1 /\ ~sd'.ready_for_next_byte
    BY <1>12, <2>0, MovesWrite
  <2>3. b = SectorSize + 2 => Taken(1)'
    <3>1. b = SectorSize + 2 => ~sd.ready_for_next_byte
      BY <2>1, SizeIs
    <3> QED
      BY <1>4, <2>1, <3>1
  <2>4. ASSUME b \in 2 .. SectorSize + 1
        PROVE  Taken(SectorSize + 3 - sd.byte_counter)' /\ ~sdcard'.waiting_ready_for_next_byte
    <3>1. PICK t \in Nat : t = SectorSize + 2 - b /\ t + 1 = SectorSize + 3 - b
      BY <2>4, SizeIs
    <3>2. Taken(t + 1)'
      <4>1. CASE sdcard.waiting_ready_for_next_byte
        BY <1>5, <2>1, <2>4, <3>1, <4>1
      <4>2. CASE ~sdcard.waiting_ready_for_next_byte
        <5>1. PICK u : u = t + 1
          OBVIOUS
        <5>2. Taken(u)
          BY <2>1, <2>4, <3>1, <4>2, <5>1
        <5>3. Taken(u)'
          BY <1>4, <4>2, <5>2
        <5> QED
          BY <5>1, <5>3
      <4> QED
        BY <4>1, <4>2
    <3>3. Taken(SectorSize + 3 - sd.byte_counter)'
      <4>1. (SectorSize + 3 - sd.byte_counter)' = t + 1
        BY <2>2, <3>1
      <4> QED
        BY <3>2, <4>1 DEF Taken, Holds
    <3> QED
      BY <1>3, <2>1, <2>4, <3>3
  <2>5. b # SectorSize + 3 /\ (b > 2 => b = SectorSize + 2 \/ b \in 2 .. SectorSize + 1)
    BY <2>0, SizeIs
  <2>6. CASE sd'.state = "WRITE_BLOCK_BYTE" /\ SameWires
    <3>1. sd'.ready_for_next_byte <=> sd'.byte_counter \in 2 .. SectorSize + 1
      BY <2>1, <2>2, <2>6 DEF SameWires
    <3> QED
      BY <2>2, <2>3, <2>4, <2>6, <3>1 DEF Writing
  <2>7. CASE sd'.state = "WRITE_BLOCK_DATA" /\ sclk = 1 /\ ~sd'.ready_for_next_byte
    <3>1. b > 2 => Taken(IF sd.byte_counter = SectorSize + 3 THEN 1
                         ELSE SectorSize + 3 - sd.byte_counter)'
      <4>1. CASE b = SectorSize + 2
        <5>1. (IF sd.byte_counter = SectorSize + 3 THEN 1
               ELSE SectorSize + 3 - sd.byte_counter)' = 1
          BY <2>2, <4>1, SizeIs
        <5> QED
          BY <2>3, <4>1, <5>1 DEF Taken, Holds
      <4>2. CASE b \in 2 .. SectorSize + 1
        <5>1. (IF sd.byte_counter = SectorSize + 3 THEN 1
               ELSE SectorSize + 3 - sd.byte_counter)' = (SectorSize + 3 - sd.byte_counter)'
          BY <2>2, <2>5
        <5>2. Taken(SectorSize + 3 - sd.byte_counter)'
          BY <2>4, <4>2
        <5> QED
          BY <5>1, <5>2 DEF Taken, Holds
      <4> QED
        BY <2>5, <4>1, <4>2
    <3> QED
      BY <2>2, <2>7, <3>1 DEF Writing
  <2> QED
    BY <2>2, <2>6, <2>7
<1>13. CASE sd.state = "WRITE_BLOCK_WAIT"
  <2>1. ~sd.ready_for_next_byte /\ stored[call.sector] = call.data
    BY <1>0, <1>13 DEF Writing, Inv, Wires, Stored
  <2>2. sd'.state \in {"WRITE_BLOCK_WAIT", "IDLE"} /\ SameWires
    BY <1>13, MovesWrite
  <2>3. stored' = stored
    BY <1>13, CycleWires
  <2> QED
    BY <2>1, <2>2, <2>3 DEF Writing, SameWires
<1> QED
  BY <1>1, <1>2, <1>6, <1>8, <1>9, <1>10, <1>11, <1>12, <1>13 DEF WriteStates

\* A cycle of a write: at most the sector of the call is stored, with the bytes of the call.
LEMMA WriteKeeps ==
  ASSUME Inv, Wait \/ CallAny \/ Access, sdcard.state = "WriteSector"
  PROVE  /\ Inv' /\ call' = call /\ result' = result
         /\ stored' = stored \/ stored' = [stored EXCEPT ![call.sector] = call.data]
         /\ call \in Calls /\ call.op = "write"
<1>1. /\ UNCHANGED programVars /\ call' = call /\ doing' = doing /\ InCall'
      /\ CycleIn(sd.state) /\ counter' = 0 /\ WriteSector
      /\ InterfaceTypes /\ DOMAIN sdcard = InterfaceFields
      /\ call \in Calls /\ call.sector \in Sectors
  BY BusyCycle
<1>2. /\ ~sdcard.rd /\ ~sdcard.wr /\ doing = "wait_for_write"
      /\ sdcard.address \div AddressUnit = call.sector
  BY DEF Inv, InterfaceAt
<1>3. call.op = "write" /\ result' = result
  BY <1>1, <1>2 DEF Inv, InCall, programVars
<1>4. stored' = stored \/ stored' = [stored EXCEPT ![call.sector] = call.data]
  BY <1>1, CycleWires
<1>5. /\ DOMAIN sdcard' = InterfaceFields
      /\ sdcard'.state = IF ready THEN "Idle" ELSE "WriteSector"
      /\ sdcard'.wr = sdcard.wr /\ sdcard'.rd = sdcard.rd
      /\ sdcard'.address = sdcard.address /\ sdcard'.buffer = sdcard.buffer
      /\ sdcard'.buffer_index \in {next_index, sdcard.buffer_index}
      /\ sdcard'.din \in {data_out, sdcard.din}
      /\ sdcard'.waiting_ready_for_next_byte = ~sd.ready_for_next_byte
  BY <1>1 DEF WriteSector, InterfaceFields
<1>6. InterfaceTypes'
  <2>1. sdcard.buffer \in [Indices -> ByteValues] /\ sdcard.buffer_index \in Indices
    BY <1>1 DEF InterfaceTypes
  <2>2. next_index \in Indices
    BY <2>1, NextIndex DEF next_index
  <2>3. data_out \in ByteValues
    BY <2>1 DEF data_out
  <2>4. sdcard'.waiting_ready_for_next_byte \in BOOLEAN
    BY <1>5
  <2> QED
    BY <1>1, <1>5, <2>1, <2>2, <2>3, <2>4 DEF InterfaceTypes
<1>7. CASE sd.state = "IDLE"
  <2>1. SameWires /\ sd'.state = "IDLE" /\ sdcard'.state = "Idle"
    BY <1>1, <1>2, <1>5, <1>7, MovesIdle DEF ready
  <2>2. /\ ~sd.byte_available /\ ~sd.ready_for_next_byte
        /\ stored[call.sector] = call.data
    BY <1>7 DEF Inv, Ring, NoByteComes, NoByteIsAsked, Writing
  <2>3. stored' = stored
    BY <1>1, <1>7, CycleWires
  <2>4. InterfaceAt'
    BY <1>2, <1>5, <2>1 DEF InterfaceAt
  <2>5. Returns'
    BY <2>1 DEF Returns, BelongsTo, InitStates, ReadStates, WriteStates
  <2>6. Ring'
    BY <1>1, <1>2, <2>1, <2>2, <2>3 DEF Ring, Reading, NoByteComes, Writing, NoByteIsAsked, Waiting,
                                        SameWires
  <2>7. Inv'
    BY <1>1, <1>6, <2>4, <2>5, <2>6, CycleKeeps DEF InvOfInterface
  <2> QED
    BY <1>1, <1>3, <1>4, <2>7
<1>8. CASE sd.state # "IDLE"
  <2>1. sdcard'.state = "WriteSector"
    BY <1>5, <1>8 DEF ready
  <2>2. Returns' /\ NoByteComes' /\ NoByteIsAsked'
    BY <1>1, <1>8, <2>1, ReturnsNext
  <2>3. InterfaceAt'
    BY <1>1, <1>2, <1>5, <2>1 DEF InterfaceAt
  <2>4. Writing'
    BY <1>1, <1>8, WriteRing
  <2>5. Ring'
    BY <2>1, <2>2, <2>4 DEF Ring, Reading, Waiting
  <2>6. Inv'
    BY <1>1, <1>6, <2>2, <2>3, <2>5, CycleKeeps DEF InvOfInterface
  <2> QED
    BY <1>1, <1>3, <1>4, <2>6
<1> QED
  BY <1>7, <1>8

\* A cycle in which sdcard.sv is idle: the program fills the buffer, reads it or begins a
\* transfer.
LEMMA IdleKeeps ==
  ASSUME Inv, Wait \/ CallAny \/ Access, sdcard.state = "Idle"
  PROVE  Inv'
<1>1. ~busy
  BY DEF busy
<1>2. CASE Wait
  BY <1>2, IdleWaits DEF Wait
<1>3. CASE CallAny
  BY <1>3, IdleWaits DEF CallAny
<1>4. CASE Access
  <2>1. CASE SeesBusy(busy) /\ Clock(0, 0, 0)
    BY <2>1, IdleWaits
  <2>2. CASE StartsRead /\ Clock(1, call.sector, 0)
    BY <2>2, IdleStarts
  <2>3. CASE ReadsByte(data_out) /\ Clock(2, 0, 0)
    BY <2>3, IdleReads
  <2>4. CASE WritesByte /\ Clock(3, 0, buffer[i])
    BY <2>4, IdleWrites
  <2>5. CASE StartsWrite /\ Clock(4, call.sector, 0)
    BY <2>5, IdleStarts
  <2> QED
    BY <1>4, <2>1, <2>2, <2>3, <2>4, <2>5 DEF Access
<1> QED
  BY <1>2, <1>3, <1>4

-----------------------------------------------------------------------------
\* Unless a block is written the card is at most in the middle of a command.
LEMMA CutOffIs ==
  ASSUME Inv, sdcard.state # "WriteSector"
  PROVE  CutOff /\ (Len(card.got) = 1 => mosi # 88) /\ mosi \in Int
<1>1. ControllerTypes /\ CardTypes /\ Wires /\ Returns /\ sdcard.state \in BelongsTo(sd.state)
  BY DEF Inv, Types, Returns
<1>2. mosi \in Int
  <2>1. CASE sd.state = "SEND_CMD"
    <3>1. PICK argument \in Int : SendingCommand(sd.bit_counter, argument)
      BY <1>1, <2>1 DEF Wires, Sending
    <3>2. sd.cmd_mode /\ number_of \in Int
      BY <1>1, <2>1 DEF Wires, Sending, number_of
    <3>3. \E first \in Int : \E b, c, d, f : sd.cmd_out = <<first, b, c, d, f>>
      BY <3>1, <3>2 DEF SendingCommand
    <3> QED
      BY <3>2, <3>3 DEF mosi
  <2>2. CASE sd.state # "SEND_CMD"
    <3>1. sd.cmd_out[1] = 1
      BY <1>1, <2>2, NoCommand DEF Wires
    <3>2. msb(sd.data_sig) \in Int
      <4>1. /\ 0 \in 0 .. BitsPerByte - 1 /\ BitsPerByte - 1 \in 0 .. BitsPerByte - 1
            /\ BitsPerByte - 1 - (BitsPerByte - 1) = 0 /\ sd.data_sig \in ByteValues
        BY <1>1, BitsPerByteIs DEF ControllerTypes
      <4>2. msb(rest_of(sd.data_sig, 0)) \in {0, 1}
        BY <4>1, SendsBits, BitOf
      <4> QED
        BY <4>1, <4>2, WholeByte
    <3> QED
      BY <3>1, <3>2 DEF mosi
  <2> QED
    BY <2>1, <2>2
<1>3. ASSUME CardIdle
      PROVE  CutOff /\ (Len(card.got) = 1 => mosi # 88) /\ mosi \in Int
  <2>1. Len(<<>>) = 0
    OBVIOUS
  <2> QED
    BY <1>2, <1>3, <2>1 DEF CardIdle, CutOff
<1>4. CASE sd.state \in {"RST", "INIT"}
  <2>1. mosi = 1 /\ CutOff
    BY <1>1, <1>4, NoCommand DEF Wires, mosi
  <2> QED
    BY <2>1
<1>5. CASE sd.state \in {"CMD0", "CMD8", "CMD55", "CMD41", "POLL_CMD", "IDLE", "READ_BLOCK",
                         "WRITE_BLOCK_CMD"}
  BY <1>1, <1>3, <1>5 DEF Wires, Resting
<1>6. CASE sd.state = "SEND_CMD"
  <2>0. sd.return_state \in Responses /\ sd.return_state # "WRITE_BLOCK_INIT"
    BY <1>1, <1>6 DEF Returns, BelongsTo, InitStates, ReadStates, WriteStates
  <2>1. PICK argument \in Int : SendingCommand(sd.bit_counter, argument)
    BY <1>1, <1>6 DEF Wires, Sending
  <2> DEFINE n == number_of
  <2>2. n \in Int /\ n # 88 /\ sd.cmd_mode /\ sd.bit_counter \in 0 .. 4 /\ sclk \in {0, 1}
    BY <1>1, <1>6, <2>0 DEF number_of, Responses, Wires, Sending, sclk, ControllerTypes
  <2>3. CASE sd.bit_counter = 0 /\ sclk = 1
    <3>1. CardIdle
      BY <2>0, <2>1, <2>3 DEF SendingCommand, Commanded, CardIdle
    <3> QED
      BY <1>3, <3>1
  <2>4. CASE ~(sd.bit_counter = 0 /\ sclk = 1)
    <3>1. /\ card.expects = "command"
          /\ card.got \in {<<>>, <<0>>, <<0, n>>, <<0, n, argument>>}
          /\ card.got = <<0>> => sd.cmd_out \in {<<0, n, argument, 1, 1>>, <<n, argument, 1, 1, 1>>}
      <4> DEFINE left == sd.bit_counter
                 come == 4 - left + sclk
      <4>1. /\ card.expects = "command"
            /\ sd.cmd_out = CASE left = 4 -> <<1, 0, n, argument, 1>>
                              [] left = 3 -> <<0, n, argument, 1, 1>>
                              [] left = 2 -> <<n, argument, 1, 1, 1>>
                              [] left = 1 -> <<argument, 1, 1, 1, 1>>
                              [] OTHER    -> <<1, 1, 1, 1, 1>>
            /\ card.got = CASE come <= 1 -> <<>>
                            [] come = 2  -> <<0>>
                            [] come = 3  -> <<0, n>>
                            [] OTHER     -> <<0, n, argument>>
        BY <2>1, <2>4 DEF SendingCommand
      <4> HIDE DEF n
      <4>2. come = 2 => left = 3 \/ left = 2
        BY <2>2
      <4>3. <<0>> # <<>> /\ <<0>> # <<0, n>> /\ <<0>> # <<0, n, argument>>
        <5>1. Len(<<>>) = 0 /\ Len(<<0>>) = 1 /\ Len(<<0, n>>) = 2 /\ Len(<<0, n, argument>>) = 3
          OBVIOUS
        <5> QED
          BY <5>1
      <4>4. card.got = <<0>> => come = 2
        BY <4>1, <4>3
      <4>5. come \in Int
        BY <2>2
      <4> HIDE DEF come
      <4>6. come = 2 => sd.cmd_out \in {<<0, n, argument, 1, 1>>, <<n, argument, 1, 1, 1>>}
        <5>1. CASE left = 3
          BY <4>1, <5>1
        <5>2. CASE left = 2
          BY <4>1, <5>2
        <5> QED
          BY <4>2, <5>1, <5>2
      <4>7. card.got \in {<<>>, <<0>>, <<0, n>>, <<0, n, argument>>}
        BY <4>1, <4>5
      <4> QED
        BY <4>1, <4>4, <4>6, <4>7
    <3> HIDE DEF n
    <3>2. /\ Len(<<>>) = 0 /\ Len(<<0>>) = 1 /\ Len(<<0, n>>) = 2 /\ Len(<<0, n, argument>>) = 3
          /\ <<0, n>>[2] = n /\ <<0, n, argument>>[2] = n
          /\ <<0, n, argument, 1, 1>>[1] = 0 /\ <<n, argument, 1, 1, 1>>[1] = n
      OBVIOUS
    <3>3. CutOff
      <4>1. CASE card.got \in {<<>>, <<0>>}
        <5>1. Len(card.got) \in {0, 1}
          BY <3>2, <4>1
        <5> QED
          BY <3>1, <5>1 DEF CutOff
      <4>2. CASE card.got \in {<<0, n>>, <<0, n, argument>>}
        <5>1. Len(card.got) = 2 \/ Len(card.got) = 3
          BY <3>2, <4>2
        <5>2. Len(card.got) <= 3
          <6>1. \A l : l = 2 \/ l = 3 => l <= 3
            OBVIOUS
          <6> QED
            BY <5>1, <6>1, Zenon
        <5>5. card.got[2] = n
          BY <3>2, <4>2
        <5>3. n # 88
          BY <2>2
        <5>4. card.got[2] # 88
          BY <5>3, <5>5
        <5> QED
          BY <3>1, <5>2, <5>4 DEF CutOff
      <4> QED
        BY <3>1, <4>1, <4>2
    <3>4. Len(card.got) = 1 => card.got = <<0>>
      BY <3>1, <3>2
    <3>5. Len(card.got) = 1 => mosi # 88
      BY <2>2, <3>1, <3>2, <3>4 DEF mosi
    <3> QED
      BY <1>2, <3>3, <3>5
  <2> QED
    BY <2>3, <2>4
<1>7. CASE sd.state \in {"RECEIVE_BYTE_WAIT", "RECEIVE_BYTE"}
  <2>1. CASE sd.return_state \in {"READ_BLOCK_DATA", "READ_BLOCK_CRC", "IDLE"}
    <3>1. sd.state = "RECEIVE_BYTE"
      BY <1>1, <1>7, <2>1 DEF Returns, Responses
    <3>2. CardIdle
      BY <1>1, <2>1, <3>1 DEF Wires, ReceivingBlock, LastBits
    <3> QED
      BY <1>3, <3>2
  <2>2. CASE sd.return_state \in Responses \cup {"WRITE_BLOCK_WAIT"}
    <3>1. Answered /\ sd.return_state # "WRITE_BLOCK_INIT"
      BY <1>1, <1>7, <2>2 DEF Wires, Returns, BelongsTo, InitStates, ReadStates, WriteStates
    <3>2. CardIdle
      BY <3>1 DEF Answered, Commanded, CardIdle
    <3> QED
      BY <1>3, <3>2
  <2> QED
    BY <1>1, <1>7, <2>1, <2>2 DEF Returns
<1>8. CASE sd.state \in {"READ_BLOCK_WAIT", "READ_BLOCK_DATA", "READ_BLOCK_CRC"}
  BY <1>1, <1>3, <1>8 DEF Wires, ReceivingBlock, LastBits
<1>9. sd.state \notin WriteStates
  BY <1>1 DEF BelongsTo, InitStates, ReadStates, WriteStates
<1>10. sd.state \in InitStates \cup ReadStates \cup WriteStates
                     \cup {"IDLE", "SEND_CMD", "RECEIVE_BYTE_WAIT", "RECEIVE_BYTE"}
  BY <1>1 DEF BelongsTo
<1> QED
  BY <1>4, <1>5, <1>6, <1>7, <1>8, <1>9, <1>10 DEF InitStates, ReadStates, WriteStates

\* The button may be pressed unless a block is written: a command may be cut off.
LEMMA ResetKeeps ==
  ASSUME Inv, PressReset
  PROVE  Inv' /\ stored' = stored
<1>1. /\ InterfaceTypes /\ ControllerTypes /\ CardTypes /\ InCall
      /\ DOMAIN sdcard = InterfaceFields /\ DOMAIN sd = ControllerFields
  BY DEF Inv, Types, InterfaceTypes, ControllerTypes
<1>2. /\ doing' = "caller" /\ call' = NoCall /\ i' = 0 /\ buffer' = buffer /\ result' = result
      /\ counter' = 0 /\ Reset
      /\ sdcard' = [sdcard EXCEPT !.state = "Init", !.rd = FALSE, !.wr = FALSE, !.din = 0,
                                  !.buffer_index = 0]
  BY DEF PressReset, InterfaceReset
<1>3. PICK level \in {0, 1} :
        sd' = [sd EXCEPT !.state = "RST", !.sclk_sig = level, !.boot_counter = ResetPulses,
                         !.cmd_mode = TRUE, !.cs = 1, !.cmd_out = no_command, !.data_sig = all_ones]
  BY <1>2 DEF Reset
<1>4. /\ DOMAIN sd' = ControllerFields /\ sd'.state = "RST" /\ sd'.sclk_sig = level
      /\ sd'.boot_counter = ResetPulses /\ sd'.cmd_mode = TRUE
      /\ sd'.cmd_out = no_command /\ sd'.data_sig = all_ones
      /\ sd'.byte_available = sd.byte_available /\ sd'.ready_for_next_byte = sd.ready_for_next_byte
      /\ sd'.bit_counter = sd.bit_counter /\ sd'.byte_counter = sd.byte_counter
      /\ sd'.recv_data = sd.recv_data /\ sd'.dout = sd.dout
  BY <1>1, <1>3 DEF ControllerFields
<1>5. /\ DOMAIN sdcard' = InterfaceFields /\ sdcard'.state = "Init"
      /\ sdcard'.rd = FALSE /\ sdcard'.wr = FALSE /\ sdcard'.din = 0
      /\ sdcard'.address = sdcard.address /\ sdcard'.buffer = sdcard.buffer
      /\ sdcard'.buffer_index = 0
      /\ sdcard'.waiting_ready_for_next_byte = sdcard.waiting_ready_for_next_byte
  BY <1>1, <1>2 DEF InterfaceFields
<1>6. ControllerTypes'
  <2>1. ResetPulses \in Nat /\ ResetPulses <= ResetPulses
    BY SdControllerAssumption
  <2> QED
    BY <1>1, <1>4, <2>1, ByteRange DEF ControllerTypes
<1>7. InterfaceTypes'
  <2>1. 0 \in Indices
    BY SizeIs DEF Indices
  <2> QED
    BY <1>1, <1>2, <1>5, <2>1, ByteRange DEF InterfaceTypes
<1>8. CardTypes' /\ CutOff' /\ stored' = stored
  <2>1. PICK seen \in {mosi, 1} : CardStep(sclk, level, seen)
    BY <1>4 DEF PressReset
  <2>2. sdcard.state # "WriteSector"
    BY SdSystemAssumption DEF PressReset
  <2>3. CutOff /\ (Len(card.got) = 1 => seen # 88) /\ seen \in Int /\ sd.sclk_sig \in {0, 1}
    BY <1>1, <2>1, <2>2, CutOffIs DEF ControllerTypes
  <2> QED
    BY <1>1, <2>1, <2>3, CutOffSteps
<1>9. InCall'
  <2>1. 0 \in Indices
    BY SizeIs DEF Indices
  <2> QED
    BY <1>1, <1>2, <2>1 DEF InCall
<1>10. InterfaceAt'
  BY <1>2, <1>5 DEF InterfaceAt
<1>11. Returns'
  <2>1. sdcard'.state \in BelongsTo(sd'.state)
    BY <1>4, <1>5, BelongsToOne DEF InitStates
  <2> QED
    BY <1>4, <2>1 DEF Returns
<1>12. Wires'
  BY <1>4, <1>8 DEF Wires
<1>13. Ring'
  BY <1>4, <1>5 DEF Ring, Reading, NoByteComes, Writing, NoByteIsAsked, Waiting
<1>14. Types'
  BY <1>6, <1>7, <1>8 DEF Types
<1> QED
  BY <1>8, <1>9, <1>10, <1>11, <1>12, <1>13, <1>14 DEF Inv

\* The invariant holds at power on,
LEMMA InvInit == Init => Inv
<1> SUFFICES ASSUME Init PROVE Inv
  OBVIOUS
<1>1. /\ doing = "caller" /\ call = NoCall /\ i = 0 /\ buffer \in Contents /\ result = buffer
      /\ stored \in [Sectors -> Contents]
  BY SdSystemAssumption DEF Init, ProgramInit
<1>2. /\ DOMAIN sd = ControllerFields /\ sd.state = "RST" /\ sd.sclk_sig = 0
      /\ sd.boot_counter = BootPulses /\ sd.cmd_mode = TRUE
      /\ sd.cmd_out = no_command /\ sd.data_sig = all_ones
      /\ sd.byte_available \in BOOLEAN /\ sd.ready_for_next_byte \in BOOLEAN
      /\ sd.bit_counter = 0 /\ sd.byte_counter = 0
      /\ sd.recv_data = 0 /\ sd.dout = 0
  BY DEF Init, SdInterfaceInit, SdControllerInit, ControllerFields
<1>3. PICK b \in ByteValues :
        sdcard = [state |-> "Init", rd |-> FALSE, wr |-> FALSE, din |-> 0, address |-> 0,
                  buffer |-> [k \in Indices |-> b], buffer_index |-> 0,
                  waiting_ready_for_next_byte |-> FALSE]
  BY DEF Init, SdInterfaceInit
<1>4. /\ DOMAIN sdcard = InterfaceFields /\ sdcard.state = "Init"
      /\ sdcard.rd = FALSE /\ sdcard.wr = FALSE /\ sdcard.din = 0
      /\ sdcard.address = 0 /\ sdcard.buffer = [k \in Indices |-> b]
      /\ sdcard.buffer_index = 0 /\ sdcard.waiting_ready_for_next_byte = FALSE
  BY <1>3 DEF InterfaceFields
<1>5. counter = 0
  BY DEF Init, SdInterfaceInit
<1>6. /\ DOMAIN card = CardFields /\ card.got = <<>> /\ card.answer = <<>> /\ card.miso = 1
      /\ card.polls = 0
  BY DEF Init, CardInit, CardFields
<1>7. 0 \in Indices /\ 0 \in 0 .. WRITE_DATA_SIZE
  BY SizeIs DEF Indices, WRITE_DATA_SIZE
<1>8. ControllerTypes
  <2>1. BootPulses \in Nat /\ BootPulses <= BootPulses /\ 0 <= 5 * BitsPerByte
    BY SdControllerAssumption, BitsPerByteIs
  <2> QED
    BY <1>2, <1>7, <2>1, ByteRange DEF ControllerTypes
<1>9. InterfaceTypes
  <2>1. sdcard.buffer \in [Indices -> ByteValues]
    BY <1>4
  <2>2. sdcard.buffer_index \in Indices /\ sdcard.din \in ByteValues /\ sdcard.address \in Int
    BY <1>4, <1>7, ByteRange
  <2> QED
    BY <1>4, <1>5, <2>1, <2>2 DEF InterfaceTypes
<1>10. CardTypes
  <2>1. <<>> \in Seq({0, 1}) /\ <<>> \in Seq(Int)
    OBVIOUS
  <2> QED
    BY <1>1, <1>6, <2>1 DEF CardTypes
<1>11. InCall
  BY <1>1, <1>7 DEF InCall
<1>12. InterfaceAt
  BY <1>1, <1>4 DEF InterfaceAt
<1>13. Returns
  <2>1. sdcard.state \in BelongsTo(sd.state)
    BY <1>2, <1>4, BelongsToOne DEF InitStates
  <2> QED
    BY <1>2, <2>1 DEF Returns
<1>14. Wires
  <2>1. Len(<<>>) = 0 /\ card.expects = "command"
    BY DEF Init, CardInit
  <2>2. CutOff
    BY <1>6, <2>1 DEF CutOff
  <2> QED
    BY <1>2, <2>2 DEF Wires
<1>15. Ring
  BY <1>2, <1>4 DEF Ring, Reading, NoByteComes, Writing, NoByteIsAsked, Waiting
<1> QED
  BY <1>8, <1>9, <1>10, <1>11, <1>12, <1>13, <1>14, <1>15 DEF Inv, Types

\* Nothing changes.
LEMMA StutterKeeps ==
  ASSUME Inv, UNCHANGED vars
  PROVE  Inv'
<1>1. /\ doing' = doing /\ call' = call /\ i' = i /\ buffer' = buffer /\ result' = result
      /\ sd' = sd /\ sdcard' = sdcard /\ counter' = counter /\ stored' = stored /\ card' = card
  BY DEF vars, programVars, interfaceVars
<1>2. Types' /\ InCall' /\ InterfaceAt' /\ Returns'
  BY <1>1 DEF Inv, Types, ControllerTypes, InterfaceTypes, CardTypes, InCall, InterfaceAt, Returns,
              BelongsTo
<1>3. /\ \A k : line(k)' = line(k)
      /\ \A k : EndsBy(k)' = EndsBy(k)
      /\ Quiet' = Quiet
  BY <1>1, LineRests
<1>4. /\ sclk' = sclk /\ mosi' = mosi /\ number_of' = number_of /\ Commanded' = Commanded
      /\ bits_of_response' = bits_of_response /\ CardIdle' = CardIdle
      /\ received_bits' = received_bits /\ byte_sent' = byte_sent /\ LastBits' = LastBits
  BY <1>1 DEF sclk, mosi, number_of, Commanded, bits_of_response, CardIdle, received_bits, byte_sent,
              LastBits
<1>5. \A m, q : ZeroAt(m, q)' = ZeroAt(m, q)
  BY <1>3 DEF ZeroAt
<1>6. \A m, p : BlockFrom(m, p)' = BlockFrom(m, p)
  BY <1>1, <1>3 DEF BlockFrom, bit_of
<1>7. /\ \A m : BlockAfter(m)' = BlockAfter(m)
      /\ \A m : BusyAfter(m)' = BusyAfter(m)
  BY <1>3, <1>5, <1>6 DEF BlockAfter, BusyAfter
<1>8. \A m : Follows(m)' = Follows(m)
  BY <1>1, <1>3, <1>7 DEF Follows
<1>9. \A m : AnswerAfter(m)' = AnswerAfter(m)
  BY <1>4, <1>5, <1>8 DEF AnswerAfter
<1>10. \A left, argument : SendingCommand(left, argument)' = SendingCommand(left, argument)
  BY <1>1, <1>3, <1>4, <1>9 DEF SendingCommand
<1>11. \A n : GotBits(n)' = GotBits(n)
  BY <1>1 DEF GotBits, bit_of
<1>12. Stored' = Stored /\ Resting' = Resting /\ Answered' = Answered
  BY <1>1, <1>3, <1>4 DEF Stored, Resting, Answered
<1>13. Sending' = Sending
  BY <1>1, <1>4, <1>10 DEF Sending
<1>14. SendingByte' = SendingByte
  BY <1>1, <1>3, <1>4, <1>5, <1>7, <1>11, <1>12 DEF SendingByte
<1>15. BetweenBytes' = BetweenBytes
  BY <1>1, <1>3, <1>4, <1>5, <1>7, <1>11, <1>12 DEF BetweenBytes
<1>16. ReceivingBlock' = ReceivingBlock
  BY <1>1, <1>3, <1>4, <1>6 DEF ReceivingBlock
<1>17. Wires'
  <2>1. CutOff' = CutOff
    BY <1>1 DEF CutOff
  <2> QED
    BY <1>1, <1>3, <1>4, <1>7, <1>8, <1>9, <1>12, <1>13, <1>14, <1>15, <1>16, <2>1 DEF Inv, Wires
<1>18. \A k : ring(k)' = ring(k)
  BY <1>1, RingRests
<1>19. /\ \A t : Taken(t)' = Taken(t)
       /\ \A t : Holds(stored[call.sector], t)' = Holds(stored[call.sector], t)
       /\ Holds(stored[call.sector], i)' = Holds(stored[call.sector], i)
       /\ Behind(call.data, i)' = Behind(call.data, i)
  BY <1>1, <1>18 DEF Taken, Holds, Behind
<1>20. Reading'
  <2>1. CASE sdcard.state = "ReadSector"
    <3>1. PICK f, n : f = stored[call.sector] /\ n = SectorSize - 1 - sd.byte_counter
      OBVIOUS
    <3>2. /\ BeforeBlock => ~sd.byte_available
          /\ InBlock => Came(f, n)
          /\ ~BeforeBlock /\ ~InBlock => Came(f, SectorSize)
      BY <2>1, <3>1, ReadingIs DEF Inv, Ring
    <3>3. Came(f, n)' = Came(f, n) /\ Came(f, SectorSize)' = Came(f, SectorSize)
      BY <1>1, <1>18 DEF Came, Behind
    <3>4. BeforeBlock' = BeforeBlock /\ InBlock' = InBlock
      BY <1>1 DEF BeforeBlock, InBlock
    <3>5. f = stored'[call'.sector] /\ n = SectorSize - 1 - sd'.byte_counter /\ n \in Int
      <4>1. sd.byte_counter \in Int /\ SectorSize \in Int
        BY SizeIs DEF Inv, Types, ControllerTypes
      <4> QED
        BY <1>1, <3>1, <4>1
    <3> QED
      BY <1>1, <3>2, <3>3, <3>4, <3>5, ReadingNext
  <2>2. CASE sdcard.state # "ReadSector"
    BY <1>1, <2>2 DEF Reading
  <2> QED
    BY <2>1, <2>2
<1>21. Writing'
  <2>1. Writing
    BY DEF Inv, Ring
  <2>2. /\ \A t : Taken(t) => Taken(t)'
        /\ Taken(IF sd.byte_counter = SectorSize + 3 THEN 1 ELSE SectorSize + 3 - sd.byte_counter)
           => Taken(IF sd.byte_counter = SectorSize + 3 THEN 1
                    ELSE SectorSize + 3 - sd.byte_counter)'
        /\ Taken(SectorSize + 2 - sd.byte_counter) => Taken(SectorSize + 2 - sd.byte_counter)'
        /\ Taken(SectorSize + 3 - sd.byte_counter) => Taken(SectorSize + 3 - sd.byte_counter)'
    BY <1>1, <1>18 DEF Taken, Holds
  <2> QED
    BY <1>1, <1>4, <2>1, <2>2 DEF Writing
<1>22. NoByteComes' /\ NoByteIsAsked'
  BY <1>1 DEF Inv, Ring, NoByteComes, NoByteIsAsked
<1>23. Waiting'
  BY <1>1, <1>19 DEF Inv, Ring, Waiting
<1> QED
  BY <1>2, <1>17, <1>20, <1>21, <1>22, <1>23 DEF Inv, Ring

-----------------------------------------------------------------------------
(* The theorems.                                                           *)

\* Whatever happens in a cycle.
LEMMA InvNext == Inv /\ [Next]_vars => Inv'
<1> SUFFICES ASSUME Inv, [Next]_vars PROVE Inv'
  OBVIOUS
<1>1. CASE Wait \/ CallAny \/ Access
  <2>1. sdcard.state \in {"Init", "Idle", "PreReadSector", "ReadSector", "PreWriteSector",
                          "WriteSector"}
    BY DEF Inv, InterfaceAt
  <2> QED
    BY <1>1, <2>1, InitKeeps, IdleKeeps, PreReadKeeps, ReadKeeps, PreWriteKeeps, WriteKeeps
<1>2. CASE PressReset
  BY <1>2, ResetKeeps
<1>3. CASE UNCHANGED vars
  BY <1>3, StutterKeeps
<1> QED
  BY <1>1, <1>2, <1>3 DEF Next

\* and in every state.
LEMMA Invariant == Init /\ [][Next]_vars => []Inv
<1>1. Init => Inv
  BY InvInit
<1>2. Inv /\ [Next]_vars => Inv'
  BY InvNext
<1> QED
  BY <1>1, <1>2, PTL

\* A command has the length of one while it is sent.
LEMMA CommandLength == Inv => Len(sd.cmd_out) = 5
<1> SUFFICES ASSUME Inv PROVE Len(sd.cmd_out) = 5
  OBVIOUS
<1>1. \A a, b, c, d, e : Len(<<a, b, c, d, e>>) = 5
  OBVIOUS
<1>2. CASE sd.state = "SEND_CMD"
  <2>1. PICK argument \in Int : SendingCommand(sd.bit_counter, argument)
    BY <1>2 DEF Inv, Wires, Sending
  <2>2. \E a, b, c, d, e : sd.cmd_out = <<a, b, c, d, e>>
    BY <2>1 DEF SendingCommand
  <2> QED
    BY <1>1, <2>2
<1>3. CASE sd.state # "SEND_CMD"
  <2>1. sd.cmd_out = <<1, 1, 1, 1, 1>>
    BY <1>3, NoCommand DEF Inv, Wires
  <2> QED
    BY <1>1, <2>1
<1> QED
  BY <1>2, <1>3

\* The invariant says what IdleWhenCardIs says.
LEMMA InvImpliesIdleWhenCardIs == Inv => IdleWhenCardIs
<1> SUFFICES ASSUME Inv PROVE IdleWhenCardIs
  OBVIOUS
<1>1. ControllerTypes /\ InterfaceTypes /\ CardTypes
  BY DEF Inv, Types
<1>2. /\ sd.bit_counter \in 0 .. InitPulses \cup 0 .. 5 * BitsPerByte
      /\ sd.boot_counter \in 0 .. BootPulses \cup 0 .. ResetPulses
  BY <1>1, SdControllerAssumption, BitsPerByteIs DEF ControllerTypes
<1>3. Len(sd.cmd_out) = clocks_of_command
  BY CommandLength DEF clocks_of_command
<1>4. stored \in [Sectors -> [Indices -> ByteValues]]
  <2>1. \A s \in Sectors : stored[s] \in [Indices -> ByteValues]
    BY <1>1, SdSystemAssumption DEF CardTypes, Contents
  <2> QED
    BY <1>1, <2>1 DEF CardTypes
<1>5. sd.state \in {"IDLE", "READ_BLOCK", "WRITE_BLOCK_CMD", "CMD0", "CMD55", "WRITE_BLOCK_DATA"}
        => sd.sclk_sig = 0
  BY DEF Inv, Wires, Resting, BetweenBytes
<1>6. TypeOK
  BY <1>1, <1>2, <1>3, <1>4, <1>5 DEF TypeOK, ControllerTypes, InterfaceTypes
<1>7. sdcard.state = "Idle" => card.answer = <<>> /\ card.got = <<>> /\ card.expects = "command"
  BY DEF Inv, InterfaceAt, Wires, Resting, CardIdle, Quiet, EndsBy
<1> QED
  BY <1>6, <1>7 DEF IdleWhenCardIs

\* IdleWhenCardIs, for every size of a sector and a byte, all delays of the card
\* and every program: sdcard.sv is idle only when the card is, and sd_controller.v
\* takes no counter below zero; with the button pressed in any cycle in which no
\* block is written, or never.
THEOREM SdIdleWhenCardIs == Spec => []IdleWhenCardIs
<1>1. Spec => []Inv
  BY Invariant, PTL DEF Spec
<1>2. Inv => IdleWhenCardIs
  BY InvImpliesIdleWhenCardIs
<1> QED
  BY <1>1, <1>2, PTL

-----------------------------------------------------------------------------
(* The refinement.                                                         *)

\* A program that calls.
LEMMA CallIsCall ==
  ASSUME Inv, CallAny, stored' = stored
  PROVE  Store!Call
<1>0. call = NoCall
  BY DEF CallAny, CallRead, CallWrite, Inv, InCall
<1>1. CASE \E s \in Sectors : CallRead(s)
  <2>1. PICK s \in Sectors : CallRead(s)
    BY <1>1
  <2>2. call' \in Store!Calls /\ result' = result
    BY <2>1 DEF CallRead, Store!Calls
  <2> QED
    BY <1>0, <2>2 DEF Store!Call
<1>2. CASE \E s \in Sectors, t \in Texts : CallWrite(s, t)
  <2>1. PICK s \in Sectors, t \in Texts : CallWrite(s, t)
    BY <1>2
  <2>2. t \in Contents
    BY <2>1, SdSystemAssumption
  <2>3. call' \in Store!Calls /\ result' = result
    BY <2>1, <2>2 DEF CallWrite, Store!Calls
  <2> QED
    BY <1>0, <2>3 DEF Store!Call
<1> QED
  BY <1>1, <1>2 DEF CallAny

\* A cycle is a step of SectorStore or none of it.
LEMMA StepRefines ==
  ASSUME Inv, [Next]_vars
  PROVE  [Store!Next]_(Store!vars)
<1>0. InCall /\ (call # NoCall => call \in Calls) /\ NoCall \notin Calls
  BY SdProgramAssumption DEF Inv, InCall
<1>1. ASSUME stored' = stored, call' = call, result' = result
      PROVE  [Store!Next]_(Store!vars)
  BY <1>1 DEF Store!vars
<1>2. CASE UNCHANGED vars
  BY <1>1, <1>2 DEF vars, programVars
<1>3. CASE PressReset
  <2>1. ResetsIn # {} /\ call' = NoCall /\ stored' = stored /\ result' = result
    BY <1>3, ResetKeeps DEF PressReset
  <2> QED
    BY <1>1, <2>1 DEF Store!Next, Store!Crash
<1>4. CASE Wait \/ CallAny \/ Access
  <2>1. CASE sdcard.state = "Init"
    <3>1. stored' = stored
      BY <1>4, <2>1, InitKeeps
    <3>2. CASE Wait
      BY <1>1, <3>1, <3>2 DEF Wait, programVars
    <3>3. CASE CallAny
      BY <3>1, <3>3, CallIsCall DEF Store!Next
    <3>4. CASE Access
      <4>1. busy /\ doing \in {"caller", "wait_to_read", "wait_to_write"}
        BY <2>1 DEF Inv, InterfaceAt, busy
      <4>2. SeesBusy(busy) /\ doing # "caller"
        BY <3>4, <4>1, AfterWait DEF Access, SeesBusy, StartsRead, ReadsByte, WritesByte, StartsWrite
      <4>3. call' = call /\ result' = result
        BY <4>1, <4>2 DEF SeesBusy
      <4> QED
        BY <1>1, <3>1, <4>3
    <3> QED
      BY <1>4, <3>2, <3>3, <3>4
  <2>2. CASE sdcard.state = "Idle"
    <3>0. ~busy
      BY <2>2 DEF busy
    <3>1. CASE Wait
      <4>1. stored' = stored
        BY <2>2, <3>1, IdleWaits DEF Wait
      <4> QED
        BY <1>1, <3>1, <4>1 DEF Wait, programVars
    <3>2. CASE CallAny
      <4>1. stored' = stored
        BY <2>2, <3>2, IdleWaits DEF CallAny
      <4> QED
        BY <3>2, <4>1, CallIsCall DEF Store!Next
    <3>3. CASE SeesBusy(busy) /\ Clock(0, 0, 0)
      <4>1. stored' = stored /\ (doing = "wait_for_write" => stored[call.sector] = call.data)
        BY <2>2, <3>3, IdleWaits
      <4>2. /\ doing \in {"wait_to_read", "wait_for_read", "wait_to_write", "wait_for_write"}
            /\ doing' = after_wait[doing] /\ result' = result
            /\ call' = IF doing' = "caller" THEN NoCall ELSE call
        BY <3>0, <3>3, AfterWait DEF SeesBusy
      <4>3. CASE doing = "wait_for_write"
        <5>1. call' = NoCall /\ call # NoCall /\ call.op = "write"
          BY <1>0, <4>2, <4>3, AfterWait DEF InCall
        <5> QED
          BY <4>1, <4>2, <4>3, <5>1 DEF Store!Next, Store!ReturnWrite
      <4>4. CASE doing # "wait_for_write"
        <5>1. call' = call
          BY <4>2, <4>4, AfterWait
        <5> QED
          BY <1>1, <4>1, <4>2, <5>1
      <4> QED
        BY <4>3, <4>4
    <3>4. CASE \/ StartsRead /\ Clock(1, call.sector, 0)
               \/ StartsWrite /\ Clock(4, call.sector, 0)
      <4>1. stored' = stored
        BY <2>2, <3>4, IdleStarts
      <4> QED
        BY <1>1, <3>4, <4>1 DEF StartsRead, StartsWrite
    <3>5. CASE ReadsByte(data_out) /\ Clock(2, 0, 0)
      <4>1. /\ stored' = stored
            /\ call' # call => call' = NoCall /\ result' = stored[call.sector]
            /\ call' = call => result' = result
        BY <2>2, <3>5, IdleReads
      <4>2. call # NoCall /\ call.op = "read"
        BY <1>0, <3>5 DEF InCall, ReadsByte
      <4>3. CASE call' = call
        BY <1>1, <4>1, <4>3
      <4>4. CASE call' # call
        BY <4>1, <4>2, <4>4 DEF Store!Next, Store!ReturnRead
      <4> QED
        BY <4>3, <4>4
    <3>6. CASE WritesByte /\ Clock(3, 0, buffer[i])
      <4>1. stored' = stored
        BY <2>2, <3>6, IdleWrites
      <4> QED
        BY <1>1, <3>6, <4>1 DEF WritesByte
    <3> QED
      BY <1>4, <3>1, <3>2, <3>3, <3>4, <3>5, <3>6 DEF Access
  <2>3. CASE sdcard.state \in {"PreReadSector", "ReadSector", "PreWriteSector"}
    BY <1>1, <1>4, <2>3, PreReadKeeps, ReadKeeps, PreWriteKeeps
  <2>4. CASE sdcard.state = "WriteSector"
    <3>1. /\ call' = call /\ result' = result
          /\ stored' = stored \/ stored' = [stored EXCEPT ![call.sector] = call.data]
          /\ call \in Calls /\ call.op = "write"
      BY <1>4, <2>4, WriteKeeps
    <3> QED
      BY <1>0, <1>1, <3>1 DEF Store!Next, Store!Store
  <2>5. sdcard.state \in {"Init", "Idle", "PreReadSector", "ReadSector", "PreWriteSector",
                          "WriteSector"}
    BY DEF Inv, InterfaceAt
  <2> QED
    BY <2>1, <2>2, <2>3, <2>4, <2>5
<1> QED
  BY <1>2, <1>3, <1>4 DEF Next

\* The refinement without fairness.
LEMMA Refines == Init /\ [][Next]_vars => Store!Spec
<1>1. Init => Store!Init
  <2> SUFFICES ASSUME Init PROVE Store!Init
    OBVIOUS
  <2>1. /\ call = NoCall /\ result \in Contents /\ stored \in [Sectors -> Contents]
    BY SdSystemAssumption DEF Init, ProgramInit
  <2> QED
    BY <2>1 DEF Store!Init
<1>2. Inv /\ [Next]_vars => [Store!Next]_(Store!vars)
  BY StepRefines
<1> QED
  BY <1>1, <1>2, Invariant, PTL DEF Store!Spec

\* ImplementsStore, for every size of a sector and a byte, all delays of the card
\* and every program: bit by bit over the wires, a write that is over has stored
\* its bytes and a read returns what the sector holds; no other sector changes,
\* also when the button is pressed in a cycle in which no block is written.
THEOREM SdImplementsStore == Spec => ImplementsStore
BY Refines, PTL DEF Spec, ImplementsStore
=============================================================================
