------------------------------ MODULE SdController ------------------------------
(***************************************************************************)
(* sd_controller.v: an SD card in SPI mode, one bit for two pulses of the  *)
(* slow clock.  It samples miso while sclk is high and changes mosi when   *)
(* sclk falls.  A byte has BitsPerByte bits; a command is the sequence of  *)
(* what is on the line in as many clocks: the idle byte, the start bit,    *)
(* the number of the command, its argument, the check sum with the end     *)
(* bit, of which a number or an argument takes one clock.                  *)
(***************************************************************************)
EXTENDS SectorBuffer

CONSTANTS BootPulses,   \* of RST, after power on
          ResetPulses,  \* of RST, after a reset
          InitPulses    \* of INIT

ASSUME SdControllerAssumption ==
  /\ BootPulses \in Nat /\ ResetPulses \in Nat /\ InitPulses \in Nat /\ InitPulses % 2 = 0

VARIABLE sd  \* the registers

start_token     == all_ones - 1  \* 0xfe
WRITE_DATA_SIZE == SectorSize + 3

command(number, argument) == <<1, 0, number, argument, 1>>
clocks_of_command == 5
no_command == [k \in 1 .. clocks_of_command |-> 1]

ready == sd.state = "IDLE"
sclk  == sd.sclk_sig
mosi  == IF sd.cmd_mode THEN sd.cmd_out[1] ELSE msb(sd.data_sig)

\* power on; the wires to sdcard.sv have no initial value
SdControllerInit ==
  sd \in [state : {"RST"}, return_state : {"IDLE"}, cs : {1}, sclk_sig : {0},
          cmd_out : {no_command}, cmd_mode : {TRUE}, data_sig : {all_ones},
          response_type : {1}, byte_counter : {0}, bit_counter : {0},
          boot_counter : {BootPulses}, recv_data : {0}, dout : {0},
          byte_available : BOOLEAN, ready_for_next_byte : BOOLEAN]

\* the counters and the wires to sdcard.sv are not reset, sclk may be running
Reset == \E level \in {0, 1} :
  sd' = [sd EXCEPT !.state = "RST", !.sclk_sig = level, !.boot_counter = ResetPulses,
                   !.cmd_mode = TRUE, !.cs = 1, !.cmd_out = no_command, !.data_sig = all_ones]

-----------------------------------------------------------------------------
\* helpers of the states
toggled == 1 - sd.sclk_sig

send(number, argument, then) ==
  [sd EXCEPT !.cmd_out = command(number, argument), !.bit_counter = clocks_of_command - 1,
             !.response_type = 1, !.return_state = then, !.state = "SEND_CMD"]

receive_byte(next, then) ==
  [next EXCEPT !.bit_counter = BitsPerByte - 1, !.return_state = then, !.state = "RECEIVE_BYTE"]

RST ==
  sd' = IF sd.boot_counter = 0
          THEN [sd EXCEPT !.sclk_sig = 0, !.cmd_out = no_command, !.byte_counter = 0,
                          !.byte_available = FALSE, !.ready_for_next_byte = FALSE,
                          !.cmd_mode = TRUE, !.bit_counter = InitPulses, !.cs = 1,
                          !.state = "INIT"]
          ELSE [sd EXCEPT !.boot_counter = @ - 1,
                          !.sclk_sig = IF (sd.boot_counter \div 4) % 2 = 1 THEN toggled ELSE @]

INIT ==
  sd' = IF sd.bit_counter = 0
          THEN [sd EXCEPT !.cs = 0, !.state = "CMD0"]
          ELSE [sd EXCEPT !.bit_counter = @ - 1, !.sclk_sig = toggled]

CMD0  == sd' = send(64, 0, "CMD8")
CMD8  == sd' = [send(72, 426, "CMD55") EXCEPT !.response_type = 7]
CMD55 == sd' = send(119, 0, "CMD41")
CMD41 == sd' = send(105, 0, "POLL_CMD")

\* the card is ready when the last response is not "in idle state"
POLL_CMD == sd' = [sd EXCEPT !.state = IF sd.recv_data % 2 = 0 THEN "IDLE" ELSE "CMD55"]

IDLE(rd, wr) ==
  sd' = [sd EXCEPT !.state = IF rd THEN "READ_BLOCK" ELSE IF wr THEN "WRITE_BLOCK_CMD" ELSE @]

SEND_CMD ==
  sd' = [sd EXCEPT !.sclk_sig = toggled,
           !.state       = IF sclk = 1 /\ sd.bit_counter = 0 THEN "RECEIVE_BYTE_WAIT" ELSE @,
           !.bit_counter = IF sclk = 1 /\ @ # 0 THEN @ - 1 ELSE @,
           !.cmd_out     = IF sclk = 1 /\ sd.bit_counter # 0 THEN Append(Tail(@), 1) ELSE @]

\* mutant: the first bit of a response is counted twice
response_bits_one_more == IF sd.response_type = 7 THEN 5 * BitsPerByte - 1 ELSE BitsPerByte - 1

\* the start bit has been seen, this many and one are left
response_bits == IF sd.response_type = 7 THEN 5 * BitsPerByte - 2 ELSE BitsPerByte - 2

RECEIVE_BYTE_WAIT(miso) ==
  LET starts == sclk = 1 /\ miso = 0
  IN sd' = [sd EXCEPT !.sclk_sig = toggled,
              !.recv_data   = IF starts THEN 0 ELSE @,
              !.bit_counter = IF starts THEN response_bits ELSE @,
              !.state       = IF starts THEN "RECEIVE_BYTE" ELSE @]

RECEIVE_BYTE(miso) ==
  sd' = [sd EXCEPT !.sclk_sig = toggled, !.byte_available = FALSE,
           !.recv_data   = IF sclk = 1 THEN shifted_in(@, miso) ELSE @,
           !.state       = IF sclk = 1 /\ sd.bit_counter = 0 THEN sd.return_state ELSE @,
           !.bit_counter = IF sclk = 1 /\ @ # 0 THEN @ - 1 ELSE @]

-----------------------------------------------------------------------------
READ_BLOCK(address) == sd' = send(81, address, "READ_BLOCK_WAIT")

READ_BLOCK_WAIT(miso) ==
  sd' = IF sclk = 1 /\ miso = 0
          THEN receive_byte([sd EXCEPT !.byte_counter = SectorSize - 1, !.sclk_sig = toggled],
                            "READ_BLOCK_DATA")
          ELSE [sd EXCEPT !.sclk_sig = toggled]

\* after the last byte the two of the check sum are received
READ_BLOCK_DATA ==
  LET next == [sd EXCEPT !.dout = sd.recv_data, !.byte_available = TRUE]
  IN sd' = IF sd.byte_counter = 0
             THEN receive_byte(next, "READ_BLOCK_CRC")
             ELSE receive_byte([next EXCEPT !.byte_counter = @ - 1], "READ_BLOCK_DATA")

READ_BLOCK_CRC == sd' = receive_byte(sd, "IDLE")

-----------------------------------------------------------------------------
WRITE_BLOCK_CMD(address) ==
  sd' = [send(88, address, "WRITE_BLOCK_INIT") EXCEPT !.ready_for_next_byte = TRUE]

WRITE_BLOCK_INIT ==
  sd' = [sd EXCEPT !.cmd_mode = FALSE, !.byte_counter = WRITE_DATA_SIZE,
                   !.state = "WRITE_BLOCK_DATA", !.ready_for_next_byte = FALSE]

is_check_sum == sd.byte_counter \in {1, 2}

\* the start token, the bytes and two of check sum, which is not computed
WRITE_BLOCK_DATA(din) ==
  sd' = IF sd.byte_counter = 0
          THEN [sd EXCEPT !.state = "RECEIVE_BYTE_WAIT", !.return_state = "WRITE_BLOCK_WAIT"]
          ELSE LET next == [sd EXCEPT !.bit_counter = BitsPerByte - 1, !.byte_counter = @ - 1,
                                      !.state = "WRITE_BLOCK_BYTE"]
               IN IF is_check_sum
                    THEN [next EXCEPT !.data_sig = all_ones]
                  ELSE IF sd.byte_counter = WRITE_DATA_SIZE
                    THEN [next EXCEPT !.data_sig = start_token]
                  ELSE [next EXCEPT !.data_sig = din, !.ready_for_next_byte = TRUE]

WRITE_BLOCK_BYTE ==
  LET last == sclk = 1 /\ sd.bit_counter = 0
  IN sd' = [sd EXCEPT !.sclk_sig = toggled,
              !.state               = IF last THEN "WRITE_BLOCK_DATA" ELSE @,
              !.ready_for_next_byte = IF last THEN FALSE ELSE @,
              !.data_sig            = IF sclk = 1 /\ ~last THEN shifted_in(@, 1) ELSE @,
              !.bit_counter         = IF sclk = 1 /\ ~last THEN @ - 1 ELSE @]

\* mutant: the card is not waited for while it programs the sector
WRITE_BLOCK_WAIT_not(miso) ==
  sd' = [sd EXCEPT !.sclk_sig = toggled,
           !.state    = IF sclk = 1 THEN "IDLE" ELSE @,
           !.cmd_mode = IF sclk = 1 THEN TRUE ELSE @]

\* the card holds miso low until the sector is programmed
WRITE_BLOCK_WAIT(miso) ==
  sd' = [sd EXCEPT !.sclk_sig = toggled,
           !.state    = IF sclk = 1 /\ miso = 1 THEN "IDLE" ELSE @,
           !.cmd_mode = IF sclk = 1 /\ miso = 1 THEN TRUE ELSE @]

-----------------------------------------------------------------------------
\* one pulse of the slow clock
Pulse(rd, wr, address, din, miso) ==
  \/ sd.state = "RST"               /\ RST
  \/ sd.state = "INIT"              /\ INIT
  \/ sd.state = "CMD0"              /\ CMD0
  \/ sd.state = "CMD8"              /\ CMD8
  \/ sd.state = "CMD55"             /\ CMD55
  \/ sd.state = "CMD41"             /\ CMD41
  \/ sd.state = "POLL_CMD"          /\ POLL_CMD
  \/ sd.state = "IDLE"              /\ IDLE(rd, wr)
  \/ sd.state = "SEND_CMD"          /\ SEND_CMD
  \/ sd.state = "RECEIVE_BYTE_WAIT" /\ RECEIVE_BYTE_WAIT(miso)
  \/ sd.state = "RECEIVE_BYTE"      /\ RECEIVE_BYTE(miso)
  \/ sd.state = "READ_BLOCK"        /\ READ_BLOCK(address)
  \/ sd.state = "READ_BLOCK_WAIT"   /\ READ_BLOCK_WAIT(miso)
  \/ sd.state = "READ_BLOCK_DATA"   /\ READ_BLOCK_DATA
  \/ sd.state = "READ_BLOCK_CRC"    /\ READ_BLOCK_CRC
  \/ sd.state = "WRITE_BLOCK_CMD"   /\ WRITE_BLOCK_CMD(address)
  \/ sd.state = "WRITE_BLOCK_INIT"  /\ WRITE_BLOCK_INIT
  \/ sd.state = "WRITE_BLOCK_DATA"  /\ WRITE_BLOCK_DATA(din)
  \/ sd.state = "WRITE_BLOCK_BYTE"  /\ WRITE_BLOCK_BYTE
  \/ sd.state = "WRITE_BLOCK_WAIT"  /\ WRITE_BLOCK_WAIT(miso)
=============================================================================
