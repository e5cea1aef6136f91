-------------------------------- MODULE Rv32i --------------------------------
(***************************************************************************)
(* The emulator: one step is one call of rv32i::cpu::tick with the bus of  *)
(* main.cpp.  It is what a program sees of the processor: one instruction  *)
(* after the other, each of them done before the next.  The I/O addresses, *)
(* which are above the RAM, are left out: here they are outside.           *)
(***************************************************************************)
EXTENDS Instructions

\* What registers may hold when the program starts: zeros in the emulator, anything
\* in the core, which does not reset them.
CONSTANT InitialWords

VARIABLES pc_, regs_,
          ram,     \* bytes
          stopped  \* tick returned an error, or ebreak halted it: it has exited

vars == <<pc_, regs_, ram, stopped>>

ram_address(address) == address - (address % 4)

\* bus: 'address' is outside the memory
outside(address) == ram_address(address) + 4 > RamBytes

lane(address, width) == IF width = 4 THEN 0 ELSE address % 4

\* half words at odd lanes are not written and read 0
is_ignored(address, width) == width = 2 /\ address % 2 = 1

bus_load(address, width) ==
  LET at(i) == IF i < width THEN ram[ram_address(address) + lane(address, width) + i] ELSE 0
  IN  IF is_ignored(address, width) THEN 0
      ELSE at(0) + ByteCount * (at(1) + ByteCount * (at(2) + ByteCount * at(3)))

bus_store(address, width, data) ==
  LET first == ram_address(address) + lane(address, width)
  IN  IF is_ignored(address, width) THEN ram
      ELSE [a \in DOMAIN ram |->
              IF a \in first..(first + width - 1) THEN byte(data, a - first) ELSE ram[a]]

\* b, h and w: 1, 2 and 4 bytes; bit 2 of funct3 is set for lbu and lhu
width_of(funct3) == CASE funct3 % 4 = 0 -> 1 [] funct3 % 4 = 1 -> 2 [] OTHER -> 4

\* 0xffff'ff00 | value and 0xffff'0000 | value, for lb and lh
sign_extended(value, width) ==
  LET range == IF width = 1 THEN ByteCount ELSE ByteCount * ByteCount
  IN  IF width < 4 /\ value >= range \div 2 THEN (WordCount - range) + value ELSE value

-----------------------------------------------------------------------------
instruction == Decode(bus_load(pc_, 4))

rs1 == regs_[instruction.rs1]
rs2 == regs_[instruction.rs2]

store_address == wrap(rs1 + instruction.imm)
load_address  == wrap(rs1 + instruction.imm)

\* tick clears regs_[0] before it reads any
Write(value) == regs_' = [regs_ EXCEPT ![instruction.rd] =
                            IF instruction.rd = 0 THEN 0 ELSE value]

Continue == pc_' = wrap(pc_ + 4)

Execute(op) == /\ ~stopped /\ ~outside(pc_)
               /\ instruction.op = op /\ instruction.well_formed
               /\ ~stopped'

TickLui == /\ Execute("lui")
           /\ Write(instruction.imm)
           /\ Continue /\ UNCHANGED ram

TickLogicalImm == /\ Execute("op_imm")
                  /\ Write(logical_imm(instruction, rs1))
                  /\ Continue /\ UNCHANGED ram

TickLogical == /\ Execute("op")
               /\ Write(Alu(instruction.funct3, instruction.alt, rs1, rs2))
               /\ Continue /\ UNCHANGED ram

TickStore == /\ Execute("store")
             /\ instruction.funct3 \in StoreFunct3
             /\ ~outside(store_address)
             /\ ram' = bus_store(store_address, width_of(instruction.funct3), rs2)
             /\ Continue /\ UNCHANGED regs_

TickLoad == /\ Execute("load")
            /\ instruction.funct3 \in LoadFunct3
            /\ ~outside(load_address)
            /\ LET width == width_of(instruction.funct3)
                   value == bus_load(load_address, width)
               IN  Write(IF instruction.funct3 < 4 THEN sign_extended(value, width) ELSE value)
            /\ Continue /\ UNCHANGED ram

TickAuipc == /\ Execute("auipc")
             /\ Write(wrap(pc_ + instruction.imm))
             /\ Continue /\ UNCHANGED ram

TickJal == /\ Execute("jal")
           /\ Write(wrap(pc_ + 4))
           /\ pc_' = wrap(pc_ + instruction.imm)
           /\ UNCHANGED ram

TickJalr == /\ Execute("jalr")
            /\ Write(wrap(pc_ + 4))
            /\ pc_' = wrap(rs1 + instruction.imm)
            /\ UNCHANGED ram

TickBranch == /\ Execute("branch")
              /\ instruction.funct3 \in BranchFunct3
              /\ pc_' = IF branch_taken(instruction.funct3, rs1, rs2)
                        THEN wrap(pc_ + instruction.imm) ELSE wrap(pc_ + 4)
              /\ UNCHANGED <<regs_, ram>>

TickFence == /\ Execute("fence")
             /\ Continue /\ UNCHANGED <<regs_, ram>>

Tick == \/ TickLui \/ TickLogicalImm \/ TickLogical \/ TickStore \/ TickLoad
        \/ TickAuipc \/ TickJal \/ TickJalr \/ TickBranch \/ TickFence

-----------------------------------------------------------------------------
\* what tick answers with an error or halts on
refused == \/ outside(pc_)
           \/ ~instruction.well_formed
           \/ instruction.op = "other"
           \/ instruction.op = "store" /\ \/ instruction.funct3 \notin StoreFunct3
                                          \/ outside(store_address)
           \/ instruction.op = "load" /\ \/ instruction.funct3 \notin LoadFunct3
                                         \/ outside(load_address)
           \/ instruction.op = "branch" /\ instruction.funct3 \notin BranchFunct3

Stop == ~stopped /\ refused /\ stopped'

\* The emulator has exited: nothing is said of the registers and the RAM.
Exited == stopped /\ stopped'

Init == /\ pc_ = 0
        /\ regs_ \in [Registers -> InitialWords \cup {0}]
        /\ regs_[0] = 0
        /\ ram \in [0..(RamBytes - 1) -> 0..(ByteCount - 1)]
        /\ ~stopped

Next == Tick \/ Stop \/ Exited

Spec == Init /\ [][Next]_vars
=============================================================================
