------------------------------ MODULE SectorBuffer ------------------------------
(***************************************************************************)
(* What programs, sdcard.sv, sd_controller.v, the card and the emulator    *)
(* agree on: the size of a sector, and bytes as they are on the line, the  *)
(* highest bit first.                                                      *)
(***************************************************************************)
EXTENDS Integers, Sequences

CONSTANTS SectorSize,  \* 512 in the source
          Sectors,     \* that programs ask for
          BitsPerByte  \* 8

ASSUME SectorBufferAssumption ==
  /\ SectorSize \in Nat \ {0} /\ Sectors \subseteq Nat
  /\ BitsPerByte \in Nat /\ BitsPerByte > 2

Indices    == 0 .. SectorSize - 1
ByteValues == 0 .. 2 ^ BitsPerByte - 1
all_ones   == 2 ^ BitsPerByte - 1

\* what a shift register sends next, and what it holds with one more bit
msb(byte)             == byte \div 2 ^ (BitsPerByte - 1)
shifted_in(byte, bit) == (2 * byte + bit) % 2 ^ BitsPerByte
=============================================================================
