-------------------------------- MODULE Core --------------------------------
(***************************************************************************)
(* core.sv from CpuFetch on, with registers.sv and the part of ramio.sv    *)
(* that turns its byte, half word and word accesses into accesses of words *)
(* under a byte mask.  One action per state of the machine, and one per    *)
(* opcode in CpuExecute; a step is one clock edge.                         *)
(***************************************************************************)
EXTENDS Instructions

CONSTANT InitialWords  \* what the machine holds where nothing has set it

VARIABLES state,
          pc, ir,            \* ir: the instruction word
          data,              \* registers.sv
          rd_data_in, rd_write_enable,
          led,               \* 0 is on: the core met what it does not know
          ramio_enable, ramio_read_type, ramio_write_type,
          ramio_address, ramio_data_in

requestVars == <<ramio_enable, ramio_read_type, ramio_write_type, ramio_address, ramio_data_in>>
coreVars == <<state, pc, ir, data, rd_data_in, rd_write_enable, led, requestVars>>

States == {"CpuFetch", "CpuExecute", "CpuStore", "CpuLoad"}

\* [bytes, sign extended] of a read, bytes of a write; 0 bytes: none
NoRead     == [width |-> 0, signed |-> FALSE]
ReadWord   == [width |-> 4, signed |-> TRUE]
ReadTypes  == [width : {0, 1, 2, 4}, signed : BOOLEAN]
WriteTypes == {0, 1, 2, 4}

-----------------------------------------------------------------------------
\* ramio.sv, always_comb: what the access is for the cache and what it returns
ramio_lane == ramio_address % 4

cache_enable == ramio_enable /\ (ramio_write_type # 0 \/ ramio_read_type.width # 0)

cache_write_enable ==
  CASE ramio_write_type = 1 -> {ramio_lane}
    [] ramio_write_type = 2 -> IF ramio_lane \in {0, 2} THEN {ramio_lane, ramio_lane + 1} ELSE {}
    [] ramio_write_type = 4 -> Lanes
    [] OTHER -> {}

cache_data_in ==
  [b \in Lanes |->
     IF b \notin cache_write_enable THEN 0
     ELSE byte(ramio_data_in, IF ramio_write_type = 4 THEN b ELSE b - ramio_lane)]

data_out(word, type) ==
  LET half(first) == word[first] + ByteCount * word[first + 1]
      extended(value, range) ==
        IF type.signed /\ value >= range \div 2 THEN (WordCount - range) + value ELSE value
  IN CASE type.width = 1 -> extended(word[ramio_lane], ByteCount)
       [] type.width = 2 -> IF ramio_lane \in {0, 2}
                            THEN extended(half(ramio_lane), ByteCount * ByteCount) ELSE 0
       [] type.width = 4 -> half(0) + ByteCount * ByteCount * half(2)
       [] OTHER -> 0

-----------------------------------------------------------------------------
instr == Decode(ir)

\* mutant: register 0 is not hardwired
rs1_data_out_without_x0 == data[instr.rs1]

rs1_data_out == IF instr.rs1 = 0 THEN 0 ELSE data[instr.rs1]
rs2_data_out == IF instr.rs2 = 0 THEN 0 ELSE data[instr.rs2]

\* registers.sv: the write of the cycle before this edge, to 'rd' of 'ir'
RegisterWrite == data' = IF rd_write_enable THEN [data EXCEPT ![instr.rd] = rd_data_in]
                         ELSE data

WriteBack(value) == rd_data_in' = value /\ rd_write_enable' = TRUE
NoWriteBack      == UNCHANGED <<rd_data_in, rd_write_enable>>

Fetch(address) == /\ state' = "CpuFetch"
                  /\ ramio_enable' = TRUE
                  /\ ramio_read_type' = ReadWord
                  /\ ramio_write_type' = 0
                  /\ ramio_address' = address
                  /\ UNCHANGED ramio_data_in

\* mutant: the register write stays enabled while the next instruction comes
CpuFetch_keeps_write_enable(ready, word) ==
  /\ state = "CpuFetch"
  /\ IF ready
     THEN /\ ir' = data_out(word, ramio_read_type)
          /\ ramio_enable' = FALSE
          /\ state' = "CpuExecute"
     ELSE UNCHANGED <<ir, ramio_enable, state>>
  /\ NoWriteBack
  /\ UNCHANGED <<pc, led, ramio_read_type, ramio_write_type, ramio_address, ramio_data_in>>

CpuFetch(ready, word) ==
  /\ state = "CpuFetch"
  /\ rd_write_enable' = FALSE
  /\ IF ready
     THEN /\ ir' = data_out(word, ramio_read_type)
          /\ ramio_enable' = FALSE
          /\ state' = "CpuExecute"
     ELSE UNCHANGED <<ir, ramio_enable, state>>
  /\ UNCHANGED <<pc, rd_data_in, led, ramio_read_type, ramio_write_type,
                 ramio_address, ramio_data_in>>

-----------------------------------------------------------------------------
next_pc == wrap(pc + 4)

Execute(op) == state = "CpuExecute" /\ instr.op = op /\ UNCHANGED ir

\* the default: the next instruction is fetched
Advance == pc' = next_pc /\ Fetch(next_pc)

Jump(target) == pc' = target /\ Fetch(target)

ExecuteLui == /\ Execute("lui")
              /\ Advance
              /\ WriteBack(instr.imm)
              /\ UNCHANGED led

ExecuteLogicalImm == /\ Execute("op_imm")
                     /\ Advance
                     /\ WriteBack(logical_imm(instr, rs1_data_out))
                     /\ UNCHANGED led

ExecuteLogical == /\ Execute("op")
                  /\ Advance
                  /\ WriteBack(Alu(instr.funct3, instr.alt, rs1_data_out, rs2_data_out))
                  /\ UNCHANGED led

\* an unknown funct3 writes nothing, and turns the led on
ExecuteStore ==
  /\ Execute("store")
  /\ pc' = next_pc
  /\ ramio_enable' = TRUE
  /\ ramio_read_type' = NoRead
  /\ ramio_address' = wrap(rs1_data_out + instr.imm)
  /\ ramio_data_in' = rs2_data_out
  /\ ramio_write_type' = CASE instr.funct3 = 0 -> 1
                           [] instr.funct3 = 1 -> 2
                           [] instr.funct3 = 2 -> 4
                           [] OTHER -> 0
  /\ led' = IF instr.funct3 \in StoreFunct3 THEN led ELSE 0
  /\ state' = "CpuStore"
  /\ NoWriteBack

\* mutant: an unknown funct3 reads nothing
ExecuteLoad_reads_nothing ==
  /\ Execute("load")
  /\ pc' = next_pc
  /\ ramio_enable' = TRUE
  /\ ramio_write_type' = 0
  /\ ramio_address' = wrap(rs1_data_out + instr.imm)
  /\ ramio_read_type' = IF instr.funct3 \in LoadFunct3 THEN ReadWord ELSE NoRead
  /\ led' = IF instr.funct3 \in LoadFunct3 THEN led ELSE 0
  /\ state' = "CpuLoad"
  /\ NoWriteBack /\ UNCHANGED ramio_data_in

\* an unknown funct3 reads a word, and turns the led on
ExecuteLoad ==
  /\ Execute("load")
  /\ pc' = next_pc
  /\ ramio_enable' = TRUE
  /\ ramio_write_type' = 0
  /\ ramio_address' = wrap(rs1_data_out + instr.imm)
  /\ ramio_read_type' = CASE instr.funct3 = 0 -> [width |-> 1, signed |-> TRUE]
                          [] instr.funct3 = 1 -> [width |-> 2, signed |-> TRUE]
                          [] instr.funct3 = 4 -> [width |-> 1, signed |-> FALSE]
                          [] instr.funct3 = 5 -> [width |-> 2, signed |-> FALSE]
                          [] OTHER -> ReadWord
  /\ led' = IF instr.funct3 \in LoadFunct3 THEN led ELSE 0
  /\ state' = "CpuLoad"
  /\ NoWriteBack /\ UNCHANGED ramio_data_in

ExecuteAuipc == /\ Execute("auipc")
                /\ Advance
                /\ WriteBack(wrap(pc + instr.imm))
                /\ UNCHANGED led

ExecuteJal == /\ Execute("jal")
              /\ Jump(wrap(pc + instr.imm))
              /\ WriteBack(next_pc)
              /\ UNCHANGED led

ExecuteJalr == /\ Execute("jalr")
               /\ Jump(wrap(rs1_data_out + instr.imm))
               /\ WriteBack(next_pc)
               /\ UNCHANGED led

ExecuteBranch == /\ Execute("branch")
                 /\ IF branch_taken(instr.funct3, rs1_data_out, rs2_data_out)
                    THEN Jump(wrap(pc + instr.imm)) ELSE Advance
                 /\ led' = IF instr.funct3 \in BranchFunct3 THEN led ELSE 0
                 /\ NoWriteBack

ExecuteFence == /\ Execute("fence")
                /\ Advance /\ NoWriteBack
                /\ UNCHANGED led

ExecuteUnknown == /\ Execute("other")
                  /\ Advance /\ NoWriteBack
                  /\ led' = 0

CpuExecute == \/ ExecuteLui \/ ExecuteLogicalImm \/ ExecuteLogical \/ ExecuteStore
              \/ ExecuteLoad \/ ExecuteAuipc \/ ExecuteJal \/ ExecuteJalr
              \/ ExecuteBranch \/ ExecuteFence \/ ExecuteUnknown

-----------------------------------------------------------------------------
\* mutant: the store is taken for done at once
CpuStore_does_not_wait(busy) ==
  /\ state = "CpuStore"
  /\ Fetch(pc)
  /\ NoWriteBack /\ UNCHANGED <<pc, ir, led>>

CpuStore(busy) ==
  /\ state = "CpuStore"
  /\ IF busy THEN UNCHANGED <<state, requestVars>> ELSE Fetch(pc)
  /\ NoWriteBack /\ UNCHANGED <<pc, ir, led>>

CpuLoad(ready, word) ==
  /\ state = "CpuLoad"
  /\ IF ready
     THEN WriteBack(data_out(word, ramio_read_type)) /\ Fetch(pc)
     ELSE NoWriteBack /\ UNCHANGED <<state, requestVars>>
  /\ UNCHANGED <<pc, ir, led>>

\* After the boot from flash, at the first fetch.  Neither the registers nor
\* rd_write_enable are reset: a write may still be on its way.  The port holds
\* the last word the boot wrote.
CoreInit == /\ state = "CpuFetch"
            /\ pc = 0
            /\ ir \in InitialWords
            /\ data \in [Registers -> InitialWords]
            /\ rd_data_in \in InitialWords
            /\ rd_write_enable \in BOOLEAN
            /\ led = 1
            /\ ramio_enable = TRUE
            /\ ramio_read_type = ReadWord
            /\ ramio_write_type = 0
            /\ ramio_address = 0
            /\ ramio_data_in \in InitialWords

\* 'busy', 'ready' and 'word': what the memory answers in this cycle
CoreStep(busy, ready, word) ==
  RegisterWrite /\ (CpuFetch(ready, word) \/ CpuExecute \/ CpuStore(busy) \/ CpuLoad(ready, word))
=============================================================================
