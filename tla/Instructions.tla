---------------------------- MODULE Instructions ----------------------------
(***************************************************************************)
(* What core.sv and the emulator's rv32i.hpp agree on before they execute  *)
(* anything: words, bytes, the fields of an instruction.  The encoding and *)
(* the arithmetic are parameters: the machines are the same for any.       *)
(***************************************************************************)
EXTENDS Integers

CONSTANTS ByteCount,      \* values of a byte: 256 in the code
          RegisterCount,  \* 32 in the code
          RamWords,       \* words of RAM, at the start of the address space
          Decode(_),      \* the fields of an instruction word
          Alu(_, _, _, _) \* funct3, bit 30 and two words: module Alu

WordCount == ByteCount * ByteCount * ByteCount * ByteCount
Words     == 0..(WordCount - 1)
Registers == 0..(RegisterCount - 1)
Lanes     == 0..3
RamBytes  == 4 * RamWords

Opcodes == {"lui", "op_imm", "op", "store", "load", "auipc", "jal", "jalr",
            "branch", "fence", "other"}

\* 'alt' is bit 30, 'imm' the immediate of the opcode's format, sign extended.
\* 'well_formed': bits 0 and 1, and for shifts, ADD and SUB the rest of funct7,
\* are as the encoding has them.  The core does not look at them.
InstructionFields == [op : Opcodes, funct3 : 0..7, alt : BOOLEAN, well_formed : BOOLEAN,
                      rd : Registers, rs1 : Registers, rs2 : Registers, imm : Words]

ASSUME SizeAssumption == /\ ByteCount \in Nat \ {0, 1}
                         /\ RegisterCount \in Nat \ {0}
                         /\ RamWords \in Nat \ {0}
                         /\ RamBytes <= WordCount

ASSUME DecodeAssumption == \A w \in Words : Decode(w) \in InstructionFields

ASSUME AluAssumption ==
  \A f \in 0..7, alt \in BOOLEAN, a, b \in Words : Alu(f, alt, a, b) \in Words

-----------------------------------------------------------------------------
byte(w, i) == CASE i = 0 -> w % ByteCount
                [] i = 1 -> (w \div ByteCount) % ByteCount
                [] i = 2 -> (w \div (ByteCount * ByteCount)) % ByteCount
                [] i = 3 -> (w \div (ByteCount * ByteCount * ByteCount)) % ByteCount

signed(w) == IF w < WordCount \div 2 THEN w ELSE w - WordCount
wrap(n)   == n % WordCount

\* ADDI has no bit 30: there it is a bit of the immediate
logical_imm(i, a) == Alu(i.funct3, i.alt /\ i.funct3 = 5, a, i.imm)

branch_taken(funct3, a, b) ==
  \/ funct3 = 0 /\ a = b
  \/ funct3 = 1 /\ a # b
  \/ funct3 = 4 /\ signed(a) < signed(b)
  \/ funct3 = 5 /\ signed(a) >= signed(b)
  \/ funct3 = 6 /\ a < b
  \/ funct3 = 7 /\ a >= b

StoreFunct3  == 0..2
LoadFunct3   == {0, 1, 2, 4, 5}
BranchFunct3 == {0, 1, 4, 5, 6, 7}
=============================================================================
