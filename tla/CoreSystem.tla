----------------------------- MODULE CoreSystem -----------------------------
(***************************************************************************)
(* The core on the memory that module Memory promises it: a request is     *)
(* answered in this cycle or kept waiting, for as long as the cache likes. *)
(***************************************************************************)
EXTENDS Core

CONSTANT Programs  \* what the boot leaves in the memory

VARIABLES memory,  \* words of four bytes
          hit,     \* the memory answers a request in this cycle
          strayed  \* it has reached outside the RAM, or executed an ill formed word

vars == <<coreVars, memory, hit, strayed>>

MemoryWords == [Lanes -> 0..(ByteCount - 1)]
Memories    == [0..(RamWords - 1) -> MemoryWords]

ASSUME ProgramAssumption == Programs \subseteq Memories /\ InitialWords \subseteq Words

\* the cache truncates the address to the RAM
ram_word == (ramio_address \div 4) % RamWords

busy  == cache_enable /\ ~hit
ready == cache_enable /\ hit /\ cache_write_enable = {}

Store == memory' = IF cache_enable /\ hit
                   THEN [memory EXCEPT ![ram_word] =
                           [b \in Lanes |-> IF b \in cache_write_enable
                                            THEN cache_data_in[b] ELSE @[b]]]
                   ELSE memory

Stray == strayed' = \/ strayed
                    \/ ramio_enable /\ ramio_address >= RamBytes
                    \/ state = "CpuExecute" /\ ~instr.well_formed

Init == /\ CoreInit
        /\ memory \in Programs
        /\ hit \in BOOLEAN
        /\ strayed = FALSE

Next == /\ CoreStep(busy, ready, memory[ram_word])
        /\ Store
        /\ Stray
        /\ hit' \in BOOLEAN

\* The clock does not stop and the memory answers in the end: the cache's
\* EveryRequestServed.
Spec == Init /\ [][Next]_vars /\ WF_vars(Next) /\ WF_vars(Next /\ hit')

-----------------------------------------------------------------------------
TypeOK ==
  /\ state \in States
  /\ pc \in Words /\ ir \in Words
  /\ data \in [Registers -> Words]
  /\ rd_data_in \in Words /\ rd_write_enable \in BOOLEAN
  /\ led \in {0, 1}
  /\ ramio_enable \in BOOLEAN
  /\ ramio_read_type \in ReadTypes /\ ramio_write_type \in WriteTypes
  /\ ramio_address \in Words /\ ramio_data_in \in Words
  /\ memory \in Memories
  /\ hit \in BOOLEAN /\ strayed \in BOOLEAN

\* core.sv, the handshake the cache relies on: while the memory is busy the
\* core changes nothing of the request it has made.
HoldsRequest == [][busy => UNCHANGED requestVars]_vars

-----------------------------------------------------------------------------
\* registers as the next instruction reads them, the pending write included
registers ==
  [r \in Registers |->
     IF r = 0 THEN 0
     ELSE IF rd_write_enable /\ r = instr.rd THEN rd_data_in ELSE data[r]]

\* the program counter moves on before the access of a store or a load is over
retiring_pc == IF state \in {"CpuStore", "CpuLoad"} THEN wrap(pc - 4) ELSE pc

\* the RAM byte by byte
ram_bytes == [a \in 0..(RamBytes - 1) |-> memory[a \div 4][a % 4]]

Emulator == INSTANCE Rv32i WITH
              pc_     <- retiring_pc,
              regs_   <- registers,
              ram     <- ram_bytes,
              stopped <- led = 0 \/ strayed

\* The core executes a program as the emulator does, whatever the memory makes
\* it wait, as long as the emulator does not refuse an instruction: the order
\* of fetch, delayed register write, store and load cannot be seen.
IsEmulator == Emulator!Spec

\* No instruction waits for an answer that does not come.
KeepsExecuting == []<>(state = "CpuExecute")

-----------------------------------------------------------------------------
(***************************************************************************)
(* Why the core executes as the emulator does: what holds in each of its   *)
(* states, strong enough to be inductive.                                  *)
(***************************************************************************)
\* the word at an address of the RAM, as a fetch reads it
word_at(address) ==
  LET word == memory[(address \div 4) % RamWords] IN
  (word[0] + ByteCount * word[1]) + (ByteCount * ByteCount) * (word[2] + ByteCount * word[3])

\* a fetch is on the port: the word at pc
Fetching ==
  state = "CpuFetch" => /\ ramio_enable
                        /\ ramio_read_type = ReadWord
                        /\ ramio_write_type = 0
                        /\ ramio_address = pc

\* no access is on the port while an instruction is decoded
Idling == state = "CpuExecute" => ~ramio_enable

\* While an instruction executes, the write of the one before has gone to
\* registers.sv: nobody writes to the 'rd' of an 'ir' that has been replaced.
Settled == state # "CpuFetch" => ~rd_write_enable

\* 'ir' is the instruction at the address it was fetched from, even when the
\* instruction before has stored to it
Fetched ==
  state # "CpuFetch" /\ ~strayed => retiring_pc < RamBytes /\ ir = word_at(retiring_pc)

\* the access of a store, as long as it is not answered
Storing ==
  state = "CpuStore" =>
    /\ instr.op = "store"
    /\ ramio_enable
    /\ ramio_read_type = NoRead
    /\ ramio_write_type = CASE instr.funct3 = 0 -> 1
                            [] instr.funct3 = 1 -> 2
                            [] instr.funct3 = 2 -> 4
                            [] OTHER -> 0
    /\ ramio_address = wrap(rs1_data_out + instr.imm)
    /\ ramio_data_in = rs2_data_out
    /\ led = 1 => instr.funct3 \in StoreFunct3
    /\ strayed \/ instr.well_formed

\* the access of a load, as long as it is not answered
Loading ==
  state = "CpuLoad" =>
    /\ instr.op = "load"
    /\ ramio_enable
    /\ ramio_write_type = 0
    /\ ramio_address = wrap(rs1_data_out + instr.imm)
    /\ strayed \/ instr.well_formed
    /\ led = 1 => /\ instr.funct3 \in LoadFunct3
                  /\ ramio_read_type = CASE instr.funct3 = 0 -> [width |-> 1, signed |-> TRUE]
                                         [] instr.funct3 = 1 -> [width |-> 2, signed |-> TRUE]
                                         [] instr.funct3 = 4 -> [width |-> 1, signed |-> FALSE]
                                         [] instr.funct3 = 5 -> [width |-> 2, signed |-> FALSE]
                                         [] OTHER -> ReadWord

Inv == TypeOK /\ Fetching /\ Idling /\ Settled /\ Fetched /\ Storing /\ Loading
=============================================================================
