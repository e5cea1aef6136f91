------------------------------ MODULE SdInterface ------------------------------
(***************************************************************************)
(* sdcard.sv: the buffer of a sector and its index between the registers   *)
(* of the bus and sd_controller.v.  It works on every clock, sd_controller *)
(* on every 2 ^ ClockDivider-th.  A command that comes while it is busy is *)
(* not heard.                                                              *)
(***************************************************************************)
EXTENDS SdController

CONSTANTS ClockDivider,                  \* 0 in top.sv
          SectorToSDCardAddressShiftLeft,
          AddressModulus                 \* 2 ^ 32

ASSUME SdInterfaceAssumption ==
  /\ ClockDivider \in Nat /\ SectorToSDCardAddressShiftLeft \in Nat
  /\ AddressModulus \in Nat \ {0}

VARIABLES sdcard,  \* the registers of sdcard.sv
          counter  \* of the slow clock

interfaceVars == <<sd, sdcard, counter>>

\* the buffer and the address are not reset
SdInterfaceInit ==
  /\ SdControllerInit
  /\ \E b \in ByteValues :
       sdcard = [state |-> "Init", rd |-> FALSE, wr |-> FALSE, din |-> 0, address |-> 0,
                 buffer |-> [k \in Indices |-> b], buffer_index |-> 0,
                 waiting_ready_for_next_byte |-> FALSE]
  /\ counter = 0

\* rst_n
InterfaceReset ==
  /\ Reset /\ counter' = 0
  /\ sdcard' = [sdcard EXCEPT !.state = "Init", !.rd = FALSE, !.wr = FALSE, !.din = 0,
                              !.buffer_index = 0]

busy     == sdcard.state # "Idle"
data_out == sdcard.buffer[sdcard.buffer_index]

clk_pulse_slow == counter = 0

next_index == (sdcard.buffer_index + 1) % SectorSize

\* commands: 0 none, 1 read sector, 2 next byte, 3 write byte, 4 write sector
Idle(cmd, sector, data_in) ==
  LET address == (sector * 2 ^ SectorToSDCardAddressShiftLeft) % AddressModulus
  IN sdcard' = CASE cmd = 1 -> [sdcard EXCEPT !.rd = TRUE, !.address = address,
                                              !.state = "PreReadSector"]
                 [] cmd = 2 -> [sdcard EXCEPT !.buffer_index = next_index]
                 [] cmd = 3 -> [sdcard EXCEPT !.buffer[sdcard.buffer_index] = data_in,
                                              !.buffer_index = next_index]
                 [] cmd = 4 -> [sdcard EXCEPT !.wr = TRUE, !.address = address,
                                              !.waiting_ready_for_next_byte = TRUE,
                                              !.state = "PreWriteSector"]
                 [] OTHER   -> sdcard

\* in the cycle of PreReadSector sd_controller sees rd
PreReadSector  == sdcard' = [sdcard EXCEPT !.rd = FALSE, !.state = "ReadSector"]
PreWriteSector == sdcard' = [sdcard EXCEPT !.wr = FALSE, !.state = "WriteSector"]

ReadSector ==
  LET next == IF sd.byte_available
                THEN [sdcard EXCEPT !.buffer[sdcard.buffer_index] = sd.dout,
                                    !.buffer_index = next_index]
                ELSE sdcard
  IN sdcard' = [next EXCEPT !.state = IF ready THEN "Idle" ELSE @]

\* mutant: every cycle that ready_for_next_byte is up takes a byte
takes_byte_every_cycle == sd.ready_for_next_byte

takes_byte == sd.ready_for_next_byte /\ sdcard.waiting_ready_for_next_byte

WriteSector ==
  LET next == IF takes_byte
                THEN [sdcard EXCEPT !.din = data_out, !.buffer_index = next_index]
                ELSE sdcard
  IN sdcard' = [next EXCEPT !.state = IF ready THEN "Idle" ELSE @,
                            !.waiting_ready_for_next_byte = ~sd.ready_for_next_byte]

\* one cycle of clk
InterfaceStep(cmd, sector, data_in, miso) ==
  /\ \/ sdcard.state = "Init" /\ sdcard' = [sdcard EXCEPT !.state = IF ready THEN "Idle" ELSE @]
     \/ sdcard.state = "Idle"           /\ Idle(cmd, sector, data_in)
     \/ sdcard.state = "PreReadSector"  /\ PreReadSector
     \/ sdcard.state = "ReadSector"     /\ ReadSector
     \/ sdcard.state = "PreWriteSector" /\ PreWriteSector
     \/ sdcard.state = "WriteSector"    /\ WriteSector
  /\ IF clk_pulse_slow THEN Pulse(sdcard.rd, sdcard.wr, sdcard.address, sdcard.din, miso)
                       ELSE UNCHANGED sd
  /\ counter' = (counter + 1) % 2 ^ ClockDivider
=============================================================================
