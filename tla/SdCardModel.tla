------------------------------ MODULE SdCardModel ------------------------------
(***************************************************************************)
(* An SD card in SPI mode at the other end of the wires, as far as         *)
(* sd_controller.v uses it.  It samples mosi when sclk rises, and drives   *)
(* the next bit of its answer when sclk falls; the line is high when it    *)
(* has nothing to say.  Before a response, a block or the end of a write   *)
(* it takes its time, MaxDelay clocks at most.  It does no command wrong.  *)
(* It is selected all the time: top.sv holds DAT3, which is CS, low and    *)
(* leaves sd_cs_n of sd_controller.v unused.  It hears a command while it  *)
(* answers one, and then drops the rest of that answer.                    *)
(***************************************************************************)
EXTENDS SectorBuffer

CONSTANTS MaxDelay,    \* clocks the card makes the controller wait
          MaxPolls,    \* responses that say it is not ready yet
          AddressUnit  \* what the address of the next sector is larger by

ASSUME SdCardAssumption == MaxDelay \in Nat /\ MaxPolls \in Nat /\ AddressUnit \in Nat \ {0}

VARIABLES stored,  \* sector to its bytes
          card     \* the rest of its state

CardInit == card \in [expects : {"command"}, got : {<<>>}, answer : {<<>>}, miso : {1},
                      sector : {0}, polls : {0}]

bits(bit, n) == [k \in 1 .. n |-> bit]
delays       == {bits(1, n) : n \in 0 .. MaxDelay}

\* of a byte, the highest bit first
bits_of(byte) == [k \in 1 .. BitsPerByte |-> (byte \div 2 ^ (BitsPerByte - k)) % 2]

bits_of_sector(sector) ==
  [k \in 1 .. SectorSize * BitsPerByte |->
     bits_of(stored[sector][(k - 1) \div BitsPerByte])[((k - 1) % BitsPerByte) + 1]]

byte_from(got, n) ==
  CHOOSE byte \in ByteValues :
    bits_of(byte) = [k \in 1 .. BitsPerByte |-> got[n * BitsPerByte + k]]

R1(in_idle_state) == bits(0, BitsPerByte - 1) \o <<in_idle_state>>

\* the rest of an R7 response and a check sum have zeros and ones in them
R7    == R1(1) \o [k \in 1 .. 4 * BitsPerByte |-> k % 2]
CRC   == [k \in 1 .. 2 * BitsPerByte |-> (k \div 2) % 2]
start == bits(1, BitsPerByte - 1) \o <<0>>

-----------------------------------------------------------------------------
\* a command has arrived: its number and its argument
Command(number, argument) ==
  LET sector == argument \div AddressUnit
      response == CASE number = 72 -> R7
                    [] number \in {81, 88} -> R1(0)
                    [] number = 105 /\ card.polls = 0 -> R1(0)
                    [] OTHER -> R1(1)
  IN \E before \in delays, pause \in delays, polls \in 0 .. MaxPolls :
       card' = [card EXCEPT
         !.got     = <<>>,
         !.sector  = sector,
         !.expects = IF number = 88 THEN "token" ELSE "command",
         !.polls   = IF number = 64 THEN polls ELSE IF number = 105 /\ @ # 0 THEN @ - 1 ELSE @,
         !.answer  = before \o response
                     \o IF number = 81 /\ sector \in Sectors
                          THEN pause \o start \o bits_of_sector(sector) \o CRC
                          ELSE <<>>]

\* a block has arrived: it is accepted and programmed, the line is low meanwhile
Block(got) ==
  \E before \in delays, n \in 1 .. BitsPerByte + MaxDelay :
    /\ card' = [card EXCEPT !.got = <<>>, !.expects = "command",
                            !.answer = before \o <<0, 1>> \o bits(0, n)]
    /\ stored' = [stored EXCEPT ![card.sector] =
                    [k \in Indices |-> byte_from(got, k)]]

Rise(mosi) ==
  LET got == Append(card.got, mosi)
  IN \/ /\ card.expects = "command" /\ card.got = <<>>  \* the start bit
        /\ card' = IF mosi = 0 THEN [card EXCEPT !.got = got] ELSE card
        /\ UNCHANGED stored
     \/ /\ card.expects = "command" /\ card.got # <<>>
        /\ IF Len(got) < 4 THEN card' = [card EXCEPT !.got = got] ELSE Command(got[2], got[3])
        /\ UNCHANGED stored
     \/ /\ card.expects = "token"
        /\ card' = IF mosi = 0 THEN [card EXCEPT !.expects = "block"] ELSE card
        /\ UNCHANGED stored
     \/ /\ card.expects = "block"
        /\ IF Len(got) < (SectorSize + 2) * BitsPerByte
             THEN card' = [card EXCEPT !.got = got] /\ UNCHANGED stored
             ELSE Block(got)

Fall == /\ card' = IF card.answer = <<>> THEN [card EXCEPT !.miso = 1]
                   ELSE [card EXCEPT !.miso = Head(card.answer), !.answer = Tail(@)]
        /\ UNCHANGED stored

\* what the card sees of the wires
CardStep(sclk, next_sclk, mosi) ==
  \/ sclk = 0 /\ next_sclk = 1 /\ Rise(mosi)
  \/ sclk = 1 /\ next_sclk = 0 /\ Fall
  \/ sclk = next_sclk /\ UNCHANGED <<card, stored>>
=============================================================================
