------------------------------- MODULE SdSystem -------------------------------
(***************************************************************************)
(* A program that calls sdcard_read_blocking and sdcard_write_blocking of  *)
(* os.cpp, the registers of ramio.sv, sdcard.sv with sd_controller.v, and  *)
(* the card.  A step is one cycle of clk; in any of them the program may   *)
(* access a register, most of the time it does not.                        *)
(***************************************************************************)
EXTENDS SdProgram, SdInterface, SdCardModel

CONSTANTS Texts,    \* the contents that programs write, and what a card holds
          ResetsIn  \* states of sdcard.sv in which the reset button may be pressed

\* top.sv and configuration.sv: sd_controller.v works on every clock, and the
\* address of a sector is the one the card has it at; the pulses of INIT are as
\* many as complete any command.  The button is not pressed while a block is
\* written: the card would take what comes next for the rest of the block.
ASSUME SdSystemAssumption ==
  /\ ClockDivider = 0 /\ BitsPerByte <= 8 /\ "WriteSector" \notin ResetsIn
  /\ InitPulses >= 2 * clocks_of_command
  /\ Bytes \subseteq ByteValues /\ Texts \subseteq Contents
  /\ \A s \in Sectors :
       ((s * 2 ^ SectorToSDCardAddressShiftLeft) % AddressModulus) \div AddressUnit = s

vars == <<programVars, interfaceVars, stored, card>>

Init == /\ buffer \in Texts /\ ProgramInit
        /\ SdInterfaceInit
        /\ CardInit /\ stored \in [Sectors -> Texts]

\* one cycle of clk, with the command of the registers in it
Clock(cmd, sector, data_in) ==
  /\ InterfaceStep(cmd, sector, data_in, card.miso)
  /\ CardStep(sclk, sd'.sclk_sig, mosi)

-----------------------------------------------------------------------------
Wait == UNCHANGED programVars /\ Clock(0, 0, 0)

CallAny == /\ \/ \E s \in Sectors : CallRead(s)
              \/ \E s \in Sectors, t \in Texts : CallWrite(s, t)
           /\ Clock(0, 0, 0)

\* ramio.sv: the registers; what is read is on the bus in the same cycle
Access == \/ SeesBusy(busy)      /\ Clock(0, 0, 0)
          \/ StartsRead          /\ Clock(1, call.sector, 0)
          \/ ReadsByte(data_out) /\ Clock(2, 0, 0)
          \/ WritesByte          /\ Clock(3, 0, buffer[i])
          \/ StartsWrite         /\ Clock(4, call.sector, 0)

\* the button resets the core, sdcard.sv and sd_controller.v, not the card, which
\* sees the edge of sclk, if there is one, with mosi as it was before or is after it
PressReset == /\ sdcard.state \in ResetsIn
              /\ doing' = "caller" /\ call' = NoCall /\ i' = 0 /\ UNCHANGED <<buffer, result>>
              /\ InterfaceReset
              /\ \E seen \in {mosi, 1} : CardStep(sclk, sd'.sclk_sig, seen)

Next == Wait \/ CallAny \/ Access \/ PressReset

\* the clock runs and the program goes on with a call
Spec == Init /\ [][Next]_vars /\ WF_vars(Access)

-----------------------------------------------------------------------------
(* For the runs: a card of one or two sectors of two bytes. *)

\* no byte is the same in two of them, nor the same backwards
MCTexts == {[k \in Indices |-> IF k = 0 THEN 6 ELSE 1], [k \in Indices |-> IF k = 0 THEN 0 ELSE 3]}

\* a buffer and a card that hold the same text at power on, the wires without a
\* value in any state
OneText == Init /\ stored = [s \in Sectors |-> buffer] /\ buffer[0] = 6 /\ data_out = 0

OneTextSpec == OneText /\ [][Next]_vars /\ WF_vars(Access)

-----------------------------------------------------------------------------
Store == INSTANCE SectorStore WITH Crashes <- (ResetsIn # {})

\* The registers stay in their ranges: no counter is taken below zero, and the
\* clock is low whenever a state begins that does not toggle it.
TypeOK ==
  /\ sd.bit_counter \in 0 .. InitPulses \cup 0 .. 5 * BitsPerByte
  /\ sd.byte_counter \in 0 .. WRITE_DATA_SIZE
  /\ sd.boot_counter \in 0 .. BootPulses \cup 0 .. ResetPulses
  /\ sd.recv_data \in ByteValues /\ sd.dout \in ByteValues /\ sd.data_sig \in ByteValues
  /\ Len(sd.cmd_out) = clocks_of_command
  /\ sdcard.buffer \in [Indices -> ByteValues] /\ sdcard.buffer_index \in Indices
  /\ stored \in [Sectors -> [Indices -> ByteValues]]
  /\ sd.state \in {"IDLE", "READ_BLOCK", "WRITE_BLOCK_CMD", "CMD0", "CMD55", "WRITE_BLOCK_DATA"}
       => sd.sclk_sig = 0

\* Bit by bit over the wires, with all the delays of a card: a call that is
\* over has stored its bytes, or has the bytes that are stored.  The fetch of
\* one byte too many by a write leaves the index of the buffer behind by one,
\* the next transfer begins there on both sides.
ImplementsStore == Store!Spec

\* While one end waits for the other the other does something: every call of
\* the program returns.
CallsReturn == Store!CallsReturn

\* The registers keep their ranges, and sdcard.sv is idle only when the card is:
\* the next command does not reach it in the middle of an answer or while it
\* programs a sector.
IdleWhenCardIs ==
  /\ TypeOK
  /\ sdcard.state = "Idle" => card.answer = <<>> /\ card.got = <<>> /\ card.expects = "command"
=============================================================================
