---------------------------- MODULE MCCoreSystem ----------------------------
(* CoreSystem on every program of a few instructions: bytes of two bits, three registers. *)
EXTENDS CoreSystem, Sequences

A == INSTANCE Alu WITH WordBits <- 8
MCAlu(funct3, alt, a, b) == A!logical(funct3, alt, a, b)

I(op, funct3, rd_, rs1_, rs2_, imm_) ==
  [op |-> op, funct3 |-> funct3, alt |-> FALSE, well_formed |-> TRUE,
   rd |-> rd_, rs1 |-> rs1_, rs2 |-> rs2_, imm |-> imm_ % 256]

\* the data word is at 16; 17 is the odd lane of a half word
Encoding ==
  << I("jal",    0, 0, 0, 0, 0),
     I("op_imm", 0, 1, 0, 0, 200),
     I("op_imm", 0, 0, 1, 0, 1),
     I("op_imm", 0, 2, 1, 0, 5),
     [I("op",    0, 1, 1, 2, 0) EXCEPT !.alt = TRUE],
     [I("op",    0, 1, 1, 2, 0) EXCEPT !.well_formed = FALSE],
     I("op",     4, 1, 1, 2, 0),
     I("lui",    0, 2, 0, 0, 16),
     I("auipc",  0, 1, 0, 0, 4),
     I("jal",    0, 1, 0, 0, 8),
     I("jalr",   0, 2, 1, 0, 4),
     I("branch", 0, 0, 1, 2, 8),
     I("branch", 4, 0, 1, 0, -4),
     I("branch", 2, 0, 0, 0, 8),
     I("store",  0, 0, 0, 1, 17),
     I("store",  1, 0, 2, 1, 2),
     I("store",  1, 0, 0, 1, 17),
     I("store",  2, 0, 2, 2, -4),
     I("store",  3, 0, 0, 1, 16),
     I("load",   0, 1, 0, 0, 17),
     I("load",   1, 2, 0, 0, 18),
     I("load",   5, 2, 0, 0, 17),
     I("load",   4, 1, 1, 0, 0),
     I("load",   2, 0, 0, 0, 16),
     I("load",   2, 1, 2, 0, 0),
     I("load",   3, 1, 0, 0, 16),
     I("fence",  0, 0, 0, 0, 0),
     I("other",  0, 0, 0, 0, 0) >>

MCDecode(w) == IF w + 1 \in DOMAIN Encoding THEN Encoding[w + 1] ELSE I("other", 0, 0, 0, 0, 0)

Split(w) == [b \in Lanes |-> byte(w, b)]

\* programs of n instructions, a jump to itself, and the data
ProgramsOf(n) == {[a \in 0..(RamWords - 1) |-> Split(IF a < n THEN p[a] ELSE IF a = n THEN 0 ELSE 135)] :
                    p \in [0..(n - 1) -> 1..(Len(Encoding) - 1)]}

TwoInstructions == ProgramsOf(2)
=============================================================================
