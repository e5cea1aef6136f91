----------------------------- MODULE CoreProofs -----------------------------
(***************************************************************************)
(* Proofs about CoreSystem: the arithmetic of words, what each state of    *)
(* the core leaves on its port, and the invariant for every memory timing; *)
(* last, the refinement of the emulator.                                   *)
(***************************************************************************)
EXTENDS CoreSystem, TLAPS

(* Numbers of the word size, whatever that is. *)

LEMMA Sizes ==
  /\ ByteCount \in Nat /\ ByteCount >= 2
  /\ ByteCount * ByteCount \in Nat /\ ByteCount * ByteCount >= 2 * ByteCount
  /\ WordCount \in Nat /\ WordCount >= 16
  /\ WordCount = (ByteCount * ByteCount) * (ByteCount * ByteCount)
<1>1. ByteCount \in Nat /\ ByteCount >= 2
  BY SizeAssumption
<1> DEFINE b == ByteCount
           h == ByteCount * ByteCount
<1>2. h \in Nat /\ h >= 2 * b
  BY <1>1
<1>3. WordCount = h * h
  BY <1>1 DEF WordCount
<1> HIDE DEF h
<1>4. h >= 4
  BY <1>1, <1>2
<1>5. h * h \in Nat /\ h * h >= 16
  BY <1>2, <1>4
<1> QED
  BY <1>1, <1>2, <1>3, <1>5 DEF h

LEMMA WrapInWords == ASSUME NEW n \in Int PROVE wrap(n) \in Words
<1> DEFINE w == WordCount
<1>1. w \in Nat /\ w >= 16
  BY Sizes
<1> HIDE DEF w
<1>2. n % w \in 0..(w - 1)
  BY <1>1
<1> QED
  BY <1>2 DEF w, wrap, Words

LEMMA WrapSmall == ASSUME NEW n \in Words PROVE wrap(n) = n
<1> DEFINE w == WordCount
<1>1. w \in Nat /\ w >= 16
  BY Sizes
<1>2. n \in 0..(w - 1)
  BY DEF Words
<1> HIDE DEF w
<1>3. n % w = n
  BY <1>1, <1>2
<1> QED
  BY <1>3 DEF w, wrap

\* the next program counter and the one before are inverse
LEMMA WrapForth == ASSUME NEW n \in Words PROVE wrap(wrap(n + 4) - 4) = n
<1> DEFINE w == WordCount
<1>1. w \in Nat /\ w >= 16
  BY Sizes
<1>2. n \in 0..(w - 1)
  BY DEF Words
<1> HIDE DEF w
<1>3. CASE n + 4 < w
  <2>1. (n + 4) % w = n + 4
    BY <1>1, <1>2, <1>3
  <2>2. ((n + 4) - 4) % w = n
    BY <1>1, <1>2
  <2> QED
    BY <2>1, <2>2 DEF w, wrap
<1>4. CASE n + 4 >= w
  <2>1. (n + 4) % w = n + 4 - w
    BY <1>1, <1>2, <1>4
  <2>2. ((n + 4 - w) - 4) % w = n
    BY <1>1, <1>2
  <2> QED
    BY <2>1, <2>2 DEF w, wrap
<1> QED
  BY <1>1, <1>2, <1>3, <1>4

LEMMA WrapBack == ASSUME NEW n \in Words PROVE wrap(wrap(n - 4) + 4) = n
<1> DEFINE w == WordCount
<1>1. w \in Nat /\ w >= 16
  BY Sizes
<1>2. n \in 0..(w - 1)
  BY DEF Words
<1> HIDE DEF w
<1>3. CASE n >= 4
  <2>1. (n - 4) % w = n - 4
    BY <1>1, <1>2, <1>3
  <2>2. ((n - 4) + 4) % w = n
    BY <1>1, <1>2
  <2> QED
    BY <2>1, <2>2 DEF w, wrap
<1>4. CASE n < 4
  <2>1. (n - 4) % w = n - 4 + w
    BY <1>1, <1>2, <1>4
  <2>2. ((n - 4 + w) + 4) % w = n
    BY <1>1, <1>2
  <2> QED
    BY <2>1, <2>2 DEF w, wrap
<1> QED
  BY <1>1, <1>2, <1>3, <1>4

LEMMA ByteInRange ==
  ASSUME NEW w \in Nat, NEW i \in Lanes
  PROVE  byte(w, i) \in 0..(ByteCount - 1)
<1>1. ByteCount \in Nat /\ ByteCount >= 2
  BY Sizes
<1>2. ASSUME NEW n \in Nat PROVE n % ByteCount \in 0..(ByteCount - 1)
  BY <1>1
<1>3. ASSUME NEW d \in Nat, d > 0 PROVE w \div d \in Nat
  BY <1>3
<1>4. /\ ByteCount * ByteCount \in Nat /\ ByteCount * ByteCount > 0
      /\ ByteCount * ByteCount * ByteCount \in Nat /\ ByteCount * ByteCount * ByteCount > 0
  BY <1>1
<1>5. CASE i = 0
  BY <1>2, <1>5 DEF byte
<1>6. CASE i = 1
  BY <1>1, <1>2, <1>3, <1>6 DEF byte
<1>7. CASE i = 2
  <2>1. byte(w, 2) = (w \div (ByteCount * ByteCount)) % ByteCount
    BY DEF byte
  <2> QED
    BY <1>2, <1>3, <1>4, <1>7, <2>1
<1>8. CASE i = 3
  <2>1. byte(w, 3) = (w \div (ByteCount * ByteCount * ByteCount)) % ByteCount
    BY DEF byte
  <2> QED
    BY <1>2, <1>3, <1>4, <1>8, <2>1
<1> QED
  BY <1>5, <1>6, <1>7, <1>8 DEF Lanes

\* a digit of base q before one of base p
LEMMA Digits ==
  ASSUME NEW p \in Nat, NEW q \in Nat, NEW a \in 0..(p - 1), NEW b \in 0..(q - 1)
  PROVE  a + p * b \in 0..(p * q - 1)
<1>1. p * b \in Nat
  OBVIOUS
<1>2. p * (q - 1 - b) \in Nat
  OBVIOUS
<1>3. p * (q - 1 - b) = p * q - p - p * b
  OBVIOUS
<1> QED
  BY <1>1, <1>2, <1>3

-----------------------------------------------------------------------------
(* What ramio returns and writes. *)

LEMMA HalfWord ==
  ASSUME NEW word \in MemoryWords, NEW i \in {0, 2}
  PROVE  word[i] + ByteCount * word[i + 1] \in 0..(ByteCount * ByteCount - 1)
<1>1. word[i] \in 0..(ByteCount - 1) /\ word[i + 1] \in 0..(ByteCount - 1)
  BY DEF MemoryWords, Lanes
<1> QED
  BY <1>1, Digits, Sizes

LEMMA WholeWord ==
  ASSUME NEW word \in MemoryWords
  PROVE  (word[0] + ByteCount * word[1])
           + (ByteCount * ByteCount) * (word[2] + ByteCount * word[3]) \in Words
<1> DEFINE h == ByteCount * ByteCount
           low == word[0] + ByteCount * word[1]
           high == word[2] + ByteCount * word[3]
<1>1. low \in 0..(h - 1)
  BY HalfWord, word[0 + 1] = word[1]
<1>2. high \in 0..(h - 1)
  BY HalfWord, word[2 + 1] = word[3]
<1>3. h \in Nat /\ WordCount = h * h
  BY Sizes
<1> HIDE DEF h, low, high
<1>4. low + h * high \in 0..(h * h - 1)
  BY <1>1, <1>2, <1>3, Digits
<1> QED
  BY <1>3, <1>4 DEF Words, h, low, high

LEMMA ExtendedInWords ==
  ASSUME NEW range \in {ByteCount, ByteCount * ByteCount}, NEW value \in 0..(range - 1)
  PROVE  value \in Words /\ (WordCount - range) + value \in Words
<1>1. range \in Nat /\ range <= WordCount
  <2> DEFINE h == ByteCount * ByteCount
  <2>1. h \in Nat /\ h >= 2 * ByteCount /\ WordCount = h * h /\ ByteCount \in Nat /\ ByteCount >= 2
    BY Sizes
  <2>2. range \in {ByteCount, h}
    OBVIOUS
  <2> HIDE DEF h
  <2>3. h * h >= h
    BY <2>1
  <2> QED
    BY <2>1, <2>2, <2>3
<1>2. WordCount \in Nat
  BY Sizes
<1> QED
  BY <1>1, <1>2 DEF Words

LEMMA DataOutInWords ==
  ASSUME NEW word \in MemoryWords, NEW type \in ReadTypes, ramio_address \in Words
  PROVE  data_out(word, type) \in Words
<1>1. ramio_lane \in Lanes
  <2>1. ramio_address \in Nat
    BY Sizes DEF Words
  <2> QED
    BY <2>1 DEF ramio_lane, Lanes
<1>2. 0 \in Words
  BY Sizes DEF Words
<1>3. CASE type.width = 1
  <2>1. word[ramio_lane] \in 0..(ByteCount - 1)
    BY <1>1 DEF MemoryWords
  <2>2. /\ word[ramio_lane] \in Words
        /\ (WordCount - ByteCount) + word[ramio_lane] \in Words
    BY <2>1, ExtendedInWords
  <2> QED
    BY <1>3, <2>2 DEF data_out
<1>4. CASE type.width = 2
  <2>1. CASE ramio_lane \in {0, 2}
    <3> DEFINE half == word[ramio_lane] + ByteCount * word[ramio_lane + 1]
    <3>1. half \in Words /\ (WordCount - ByteCount * ByteCount) + half \in Words
      BY <2>1, HalfWord, ExtendedInWords
    <3>2. data_out(word, type) \in {half, (WordCount - ByteCount * ByteCount) + half}
      BY <1>4, <2>1 DEF data_out
    <3> QED
      BY <3>1, <3>2
  <2>2. CASE ramio_lane \notin {0, 2}
    <3>1. data_out(word, type) = 0
      BY <1>4, <2>2 DEF data_out
    <3> QED
      BY <3>1, <1>2
  <2> QED
    BY <2>1, <2>2
<1>5. CASE type.width = 4
  <2>1. data_out(word, type) = (word[0] + ByteCount * word[0 + 1])
                                 + (ByteCount * ByteCount) * (word[2] + ByteCount * word[2 + 1])
    BY <1>5 DEF data_out
  <2>2. 0 + 1 = 1 /\ 2 + 1 = 3
    OBVIOUS
  <2> QED
    BY <2>1, <2>2, WholeWord
<1>6. CASE type.width = 0
  BY <1>2, <1>6 DEF data_out
<1> QED
  BY <1>3, <1>4, <1>5, <1>6 DEF ReadTypes

LEMMA DataInTyped ==
  ASSUME ramio_address \in Words, ramio_data_in \in Words, ramio_write_type \in WriteTypes
  PROVE  cache_data_in \in MemoryWords /\ cache_write_enable \subseteq Lanes
<1>1. ramio_lane \in Lanes /\ ramio_data_in \in Nat
  <2>1. ramio_address \in Nat /\ ramio_data_in \in Nat
    BY Sizes DEF Words
  <2> QED
    BY <2>1 DEF ramio_lane, Lanes
<1>2. cache_write_enable \subseteq Lanes
  BY <1>1 DEF cache_write_enable, Lanes, WriteTypes
<1>3. ASSUME NEW b \in cache_write_enable
      PROVE  (IF ramio_write_type = 4 THEN b ELSE b - ramio_lane) \in Lanes
  BY <1>1 DEF cache_write_enable, Lanes, WriteTypes
<1>4. ASSUME NEW b \in Lanes
      PROVE  (IF b \notin cache_write_enable THEN 0
              ELSE byte(ramio_data_in, IF ramio_write_type = 4 THEN b ELSE b - ramio_lane))
                \in 0..(ByteCount - 1)
  BY <1>1, <1>3, ByteInRange, Sizes
<1> QED
  BY <1>2, <1>4 DEF cache_data_in, MemoryWords

\* the access without a mask leaves the memory alone
LEMMA NoStore ==
  ASSUME TypeOK, Store, cache_enable => cache_write_enable = {}
  PROVE  memory' = memory
BY DEF TypeOK, Store, Memories, MemoryWords

LEMMA RamWordInRam ==
  ASSUME TypeOK
  PROVE  ram_word \in 0..(RamWords - 1) /\ memory[ram_word] \in MemoryWords
<1>1. ramio_address \div 4 \in Nat
  BY Sizes DEF TypeOK, Words
<1>2. RamWords \in Nat /\ RamWords > 0
  BY SizeAssumption
<1>3. ram_word \in 0..(RamWords - 1)
  BY <1>1, <1>2 DEF ram_word
<1> QED
  BY <1>3 DEF TypeOK, Memories

-----------------------------------------------------------------------------
(* The inductive invariant. *)

LEMMA InstructionTyped ==
  ASSUME TypeOK
  PROVE  /\ instr \in InstructionFields
         /\ instr.op \in Opcodes /\ instr.funct3 \in 0..7
         /\ instr.alt \in BOOLEAN /\ instr.well_formed \in BOOLEAN
         /\ instr.rd \in Registers /\ instr.rs1 \in Registers /\ instr.rs2 \in Registers
         /\ instr.imm \in Words
         /\ rs1_data_out \in Words /\ rs2_data_out \in Words
<1>1. instr \in InstructionFields
  BY DecodeAssumption DEF TypeOK, instr
<1>2. 0 \in Words
  BY Sizes DEF Words
<1> QED
  BY <1>1, <1>2 DEF InstructionFields, TypeOK, rs1_data_out, rs2_data_out

LEMMA SumInWords == ASSUME NEW a \in Words, NEW b \in Words PROVE wrap(a + b) \in Words
<1>1. a + b \in Int
  BY Sizes DEF Words
<1> QED
  BY <1>1, WrapInWords

LEMMA NextPcInWords == ASSUME pc \in Words PROVE next_pc \in Words
<1>1. pc + 4 \in Int
  BY Sizes DEF Words
<1> QED
  BY <1>1, WrapInWords DEF next_pc

LEMMA InitInv == Init => Inv
<1> SUFFICES ASSUME Init PROVE Inv
  OBVIOUS
<1> USE DEF Init, CoreInit
<1>1. 0 \in Words /\ InitialWords \subseteq Words
  BY Sizes, ProgramAssumption DEF Words
<1>2. TypeOK
  BY <1>1, ProgramAssumption DEF TypeOK, States, ReadTypes, WriteTypes, ReadWord
<1> QED
  BY <1>2 DEF Inv, Fetching, Idling, Settled, Fetched, Storing, Loading

\* what every edge does besides the step of the machine
LEMMA EveryEdge ==
  ASSUME TypeOK, Next
  PROVE  /\ data' \in [Registers -> Words]
         /\ memory' \in Memories
         /\ hit' \in BOOLEAN
         /\ strayed' \in BOOLEAN
<1>1. data' \in [Registers -> Words]
  BY InstructionTyped DEF Next, CoreStep, RegisterWrite, TypeOK
<1>2. memory' \in Memories
  <2>1. cache_data_in \in MemoryWords
    BY DataInTyped DEF TypeOK
  <2>2. [b \in Lanes |-> IF b \in cache_write_enable
                         THEN cache_data_in[b] ELSE memory[ram_word][b]] \in MemoryWords
    BY <2>1, RamWordInRam DEF MemoryWords
  <2> QED
    BY <2>2, RamWordInRam DEF Next, Store, TypeOK, Memories
<1> QED
  BY <1>1, <1>2 DEF Next, Stray, TypeOK

\* the registers of the machine keep their types
CoreTyped == /\ state \in States
             /\ pc \in Words /\ ir \in Words
             /\ rd_data_in \in Words /\ rd_write_enable \in BOOLEAN
             /\ led \in {0, 1}
             /\ ramio_enable \in BOOLEAN
             /\ ramio_read_type \in ReadTypes /\ ramio_write_type \in WriteTypes
             /\ ramio_address \in Words /\ ramio_data_in \in Words

LEMMA FetchTyped ==
  ASSUME TypeOK, NEW address \in Words, Fetch(address)
  PROVE  /\ state' \in States
         /\ ramio_enable' \in BOOLEAN
         /\ ramio_read_type' \in ReadTypes /\ ramio_write_type' \in WriteTypes
         /\ ramio_address' \in Words /\ ramio_data_in' \in Words
BY DEF Fetch, TypeOK, States, ReadTypes, WriteTypes, ReadWord

\* the instructions that go on with a fetch
Jumping == \E target \in Words : Jump(target)

LEMMA Jumps ==
  ASSUME TypeOK, CpuExecute
  PROVE  ExecuteStore \/ ExecuteLoad \/ Jumping
<1>1. /\ next_pc \in Words
      /\ wrap(pc + instr.imm) \in Words
      /\ wrap(rs1_data_out + instr.imm) \in Words
  BY InstructionTyped, NextPcInWords, SumInWords DEF TypeOK
<1>2. Advance <=> Jump(next_pc)
  BY DEF Advance, Jump
<1> QED
  BY <1>1, <1>2
     DEF CpuExecute, Jumping, ExecuteLui, ExecuteLogicalImm, ExecuteLogical, ExecuteAuipc,
         ExecuteJal, ExecuteJalr, ExecuteBranch, ExecuteFence, ExecuteUnknown

LEMMA ExecuteTyped ==
  ASSUME TypeOK, CpuExecute
  PROVE  CoreTyped'
<1>1. /\ instr.imm \in Words /\ instr.funct3 \in 0..7 /\ instr.alt \in BOOLEAN
      /\ rs1_data_out \in Words /\ rs2_data_out \in Words
      /\ pc \in Words /\ next_pc \in Words
  BY InstructionTyped, NextPcInWords DEF TypeOK
<1>2. /\ wrap(pc + instr.imm) \in Words
      /\ wrap(rs1_data_out + instr.imm) \in Words
  BY <1>1, SumInWords
<1>3. /\ logical_imm(instr, rs1_data_out) \in Words
      /\ Alu(instr.funct3, instr.alt, rs1_data_out, rs2_data_out) \in Words
  BY <1>1, AluAssumption DEF logical_imm
<1>4. ir' \in Words
  BY DEF CpuExecute, ExecuteLui, ExecuteLogicalImm, ExecuteLogical, ExecuteStore, ExecuteLoad,
         ExecuteAuipc, ExecuteJal, ExecuteJalr, ExecuteBranch, ExecuteFence, ExecuteUnknown,
         Execute, TypeOK
<1>5. led' \in {0, 1}
  BY DEF CpuExecute, ExecuteLui, ExecuteLogicalImm, ExecuteLogical, ExecuteStore, ExecuteLoad,
         ExecuteAuipc, ExecuteJal, ExecuteJalr, ExecuteBranch, ExecuteFence, ExecuteUnknown,
         TypeOK
<1>6. rd_data_in' \in Words /\ rd_write_enable' \in BOOLEAN
  <2>1. CASE NoWriteBack
    BY <2>1 DEF NoWriteBack, TypeOK
  <2>2. ASSUME NEW value \in Words, WriteBack(value)
        PROVE  rd_data_in' \in Words /\ rd_write_enable' \in BOOLEAN
    BY <2>2 DEF WriteBack
  <2> QED
    BY <1>1, <1>2, <1>3, <2>1, <2>2
       DEF CpuExecute, ExecuteLui, ExecuteLogicalImm, ExecuteLogical, ExecuteStore, ExecuteLoad,
           ExecuteAuipc, ExecuteJal, ExecuteJalr, ExecuteBranch, ExecuteFence, ExecuteUnknown
<1>7. /\ state' \in States /\ pc' \in Words
      /\ ramio_enable' \in BOOLEAN
      /\ ramio_read_type' \in ReadTypes /\ ramio_write_type' \in WriteTypes
      /\ ramio_address' \in Words /\ ramio_data_in' \in Words
  <2>1. CASE ExecuteStore
    BY <1>1, <1>2, <2>1 DEF ExecuteStore, States, ReadTypes, WriteTypes, NoRead
  <2>2. CASE ExecuteLoad
    BY <1>1, <1>2, <2>2 DEF ExecuteLoad, States, ReadTypes, WriteTypes, ReadWord, TypeOK
  <2>3. CASE Jumping
    BY <2>3, FetchTyped DEF Jumping, Jump
  <2> QED
    BY <2>1, <2>2, <2>3, Jumps
<1> QED
  BY <1>4, <1>5, <1>6, <1>7 DEF CoreTyped

LEMMA StepTyped ==
  ASSUME TypeOK, Next
  PROVE  TypeOK'
<1>1. memory[ram_word] \in MemoryWords
  BY RamWordInRam
<1>2. data_out(memory[ram_word], ramio_read_type) \in Words
  BY <1>1, DataOutInWords DEF TypeOK
<1>3. CoreTyped'
  <2>1. CASE CpuFetch(ready, memory[ram_word])
    BY <1>2, <2>1 DEF CpuFetch, TypeOK, CoreTyped, States
  <2>2. CASE CpuExecute
    BY <2>2, ExecuteTyped
  <2>3. CASE CpuStore(busy)
    <3>1. CASE busy
      BY <2>3, <3>1 DEF CpuStore, NoWriteBack, requestVars, TypeOK, CoreTyped
    <3>2. CASE ~busy
      BY <2>3, <3>2, FetchTyped DEF CpuStore, NoWriteBack, TypeOK, CoreTyped
    <3> QED
      BY <3>1, <3>2
  <2>4. CASE CpuLoad(ready, memory[ram_word])
    <3>1. CASE ready
      BY <1>2, <2>4, <3>1, FetchTyped DEF CpuLoad, WriteBack, TypeOK, CoreTyped
    <3>2. CASE ~ready
      BY <2>4, <3>2 DEF CpuLoad, NoWriteBack, requestVars, TypeOK, CoreTyped
    <3> QED
      BY <3>1, <3>2
  <2> QED
    BY <2>1, <2>2, <2>3, <2>4 DEF Next, CoreStep
<1> QED
  BY <1>3, EveryEdge DEF CoreTyped, TypeOK

\* A fetch reads the word at pc and writes nothing.
LEMMA FetchReads ==
  ASSUME Inv, state = "CpuFetch"
  PROVE  /\ cache_enable /\ cache_write_enable = {}
         /\ data_out(memory[ram_word], ramio_read_type) = word_at(pc)
<1>1. /\ ramio_enable /\ ramio_read_type = ReadWord
      /\ ramio_write_type = 0 /\ ramio_address = pc
  BY DEF Inv, Fetching
<1>2. cache_enable /\ cache_write_enable = {}
  BY <1>1 DEF cache_enable, cache_write_enable, ReadWord
<1>3. memory[ram_word] = memory[(pc \div 4) % RamWords]
  BY <1>1 DEF ram_word
<1>4. 0 + 1 = 1 /\ 2 + 1 = 3
  OBVIOUS
<1> QED
  BY <1>1, <1>2, <1>3, <1>4 DEF data_out, word_at, ReadWord

LEMMA StepFetch ==
  ASSUME Inv, Next, CpuFetch(ready, memory[ram_word])
  PROVE  Inv'
<1>1. TypeOK'
  BY StepTyped DEF Inv
<1>2. state = "CpuFetch" /\ rd_write_enable' = FALSE /\ pc' = pc
  BY DEF CpuFetch
<1>3. memory' = memory
  BY <1>2, FetchReads, NoStore DEF Inv, Next
<1>4. CASE ready
  <2>1. state' = "CpuExecute" /\ ir' = word_at(pc) /\ ramio_enable' = FALSE
    BY <1>2, <1>4, FetchReads DEF CpuFetch
  <2>2. ASSUME ~strayed' PROVE pc < RamBytes
    <3>1. ~(ramio_address >= RamBytes) /\ ramio_address = pc
      BY <1>2, <2>2 DEF Inv, Fetching, Next, Stray
    <3>2. pc \in Nat /\ RamBytes \in Nat
      BY Sizes, SizeAssumption DEF Inv, TypeOK, Words, RamBytes
    <3> QED
      BY <3>1, <3>2
  <2>3. retiring_pc' = pc /\ word_at(pc)' = word_at(pc)
    BY <1>2, <1>3, <2>1 DEF retiring_pc, word_at
  <2>4. Fetched'
    BY <1>2, <1>3, <2>1, <2>2, <2>3 DEF Fetched, word_at
  <2> QED
    BY <1>1, <1>2, <2>1, <2>4 DEF Inv, Fetching, Idling, Settled, Storing, Loading
<1>5. CASE ~ready
  <2>1. /\ state' = "CpuFetch"
        /\ UNCHANGED <<ramio_enable, ramio_read_type, ramio_write_type, ramio_address>>
    BY <1>2, <1>5 DEF CpuFetch
  <2> QED
    BY <1>1, <1>2, <2>1 DEF Inv, Fetching, Idling, Settled, Fetched, Storing, Loading
<1> QED
  BY <1>4, <1>5

LEMMA StartFetch ==
  ASSUME Inv, Next, NEW target \in Words, Fetch(target), pc' = target
  PROVE  Inv'
<1>1. TypeOK'
  BY StepTyped DEF Inv
<1>2. /\ state' = "CpuFetch" /\ ramio_enable' = TRUE /\ ramio_read_type' = ReadWord
      /\ ramio_write_type' = 0 /\ ramio_address' = pc'
  BY DEF Fetch
<1> QED
  BY <1>1, <1>2 DEF Inv, Fetching, Idling, Settled, Fetched, Storing, Loading

\* nothing is written and no register is on its way while an instruction executes
LEMMA QuietExecute ==
  ASSUME Inv, Next, CpuExecute
  PROVE  /\ state = "CpuExecute" /\ ir' = ir
         /\ memory' = memory /\ data' = data
         /\ strayed' = (strayed \/ ~instr.well_formed)
         /\ retiring_pc = pc /\ ~rd_write_enable
<1>1. state = "CpuExecute" /\ ir' = ir
  BY DEF CpuExecute, ExecuteLui, ExecuteLogicalImm, ExecuteLogical, ExecuteStore, ExecuteLoad,
         ExecuteAuipc, ExecuteJal, ExecuteJalr, ExecuteBranch, ExecuteFence, ExecuteUnknown,
         Execute
<1>2. ~rd_write_enable /\ data' = data
  BY <1>1 DEF Inv, Settled, Next, CoreStep, RegisterWrite
<1>3. ~ramio_enable
  BY <1>1 DEF Inv, Idling
<1>4. memory' = memory
  BY <1>3, NoStore DEF Inv, Next, cache_enable
<1>5. strayed' = (strayed \/ ~instr.well_formed)
  BY <1>1, <1>3 DEF Next, Stray
<1> QED
  BY <1>1, <1>2, <1>4, <1>5 DEF retiring_pc

LEMMA StartStore ==
  ASSUME Inv, Next, CpuExecute, ExecuteStore
  PROVE  Inv'
<1>1. TypeOK'
  BY StepTyped DEF Inv
<1>2. /\ state' = "CpuStore" /\ instr.op = "store" /\ pc' = wrap(pc + 4)
      /\ rd_write_enable' = rd_write_enable
  BY DEF ExecuteStore, Execute, NoWriteBack, next_pc
<1>3. instr' = instr /\ rs1_data_out' = rs1_data_out /\ rs2_data_out' = rs2_data_out
  BY QuietExecute DEF instr, rs1_data_out, rs2_data_out
<1>4. retiring_pc' = pc
  BY <1>2, WrapForth DEF retiring_pc, Inv, TypeOK
<1>5. Fetched'
  BY <1>4, QuietExecute DEF Fetched, Inv, word_at
<1>6. Storing'
  <2>1. strayed' \/ (instr').well_formed
    BY <1>3, QuietExecute
  <2> QED
    BY <1>2, <1>3, <2>1 DEF Storing, ExecuteStore, Inv, TypeOK
<1> QED
  BY <1>1, <1>2, <1>5, <1>6, QuietExecute DEF Inv, Fetching, Idling, Settled, Loading

LEMMA StartLoad ==
  ASSUME Inv, Next, CpuExecute, ExecuteLoad
  PROVE  Inv'
<1>1. TypeOK'
  BY StepTyped DEF Inv
<1>2. /\ state' = "CpuLoad" /\ instr.op = "load" /\ pc' = wrap(pc + 4)
      /\ rd_write_enable' = rd_write_enable
  BY DEF ExecuteLoad, Execute, NoWriteBack, next_pc
<1>3. instr' = instr /\ rs1_data_out' = rs1_data_out
  BY QuietExecute DEF instr, rs1_data_out
<1>4. retiring_pc' = pc
  BY <1>2, WrapForth DEF retiring_pc, Inv, TypeOK
<1>5. Fetched'
  BY <1>4, QuietExecute DEF Fetched, Inv, word_at
<1>6. Loading'
  <2>1. strayed' \/ (instr').well_formed
    BY <1>3, QuietExecute
  <2> QED
    BY <1>2, <1>3, <2>1 DEF Loading, ExecuteLoad, Inv, TypeOK
<1> QED
  BY <1>1, <1>2, <1>5, <1>6, QuietExecute DEF Inv, Fetching, Idling, Settled, Storing

\* an access that is not answered is kept, with the instruction it belongs to
LEMMA KeepAccess ==
  ASSUME Inv, Next, state \in {"CpuStore", "CpuLoad"}, memory' = memory,
         UNCHANGED <<state, pc, ir, led, rd_write_enable, requestVars>>
  PROVE  Inv'
<1>1. TypeOK'
  BY StepTyped DEF Inv
<1>2. data' = data
  BY DEF Inv, Settled, Next, CoreStep, RegisterWrite
<1>3. instr' = instr /\ rs1_data_out' = rs1_data_out /\ rs2_data_out' = rs2_data_out
  BY <1>2 DEF instr, rs1_data_out, rs2_data_out
<1>4. strayed => strayed'
  BY DEF Next, Stray
<1>5. Fetched'
  <2>1. retiring_pc' = retiring_pc
    BY DEF retiring_pc
  <2>2. word_at(retiring_pc)' = word_at(retiring_pc)
    BY <2>1 DEF word_at
  <2> QED
    BY <1>4, <2>1, <2>2 DEF Fetched, Inv
<1>6. Storing'
  BY <1>3, <1>4 DEF Storing, Inv, requestVars
<1>7. Loading'
  BY <1>3, <1>4 DEF Loading, Inv, requestVars
<1> QED
  BY <1>1, <1>5, <1>6, <1>7 DEF Inv, Fetching, Idling, Settled

LEMMA StepStore ==
  ASSUME Inv, Next, CpuStore(busy)
  PROVE  Inv'
<1>1. CASE busy
  <2>1. memory' = memory
    BY <1>1 DEF busy, Next, Store
  <2> QED
    BY <1>1, <2>1, KeepAccess DEF CpuStore, NoWriteBack
<1>2. CASE ~busy
  BY <1>2, StartFetch DEF CpuStore, Inv, TypeOK
<1> QED
  BY <1>1, <1>2

\* no access of a load writes
LEMMA LoadReads ==
  ASSUME Inv, Next, state = "CpuLoad"
  PROVE  cache_write_enable = {} /\ memory' = memory
<1>1. cache_write_enable = {}
  BY DEF Inv, Loading, cache_write_enable
<1> QED
  BY <1>1, NoStore DEF Inv, Next

LEMMA StepLoad ==
  ASSUME Inv, Next, CpuLoad(ready, memory[ram_word])
  PROVE  Inv'
<1>1. CASE ~ready
  BY <1>1, KeepAccess, LoadReads DEF CpuLoad, NoWriteBack
<1>2. CASE ready
  BY <1>2, StartFetch DEF CpuLoad, Inv, TypeOK
<1> QED
  BY <1>1, <1>2

LEMMA StepInv == Inv /\ Next => Inv'
<1> SUFFICES ASSUME Inv, Next PROVE Inv'
  OBVIOUS
<1>1. CASE CpuFetch(ready, memory[ram_word])
  BY <1>1, StepFetch
<1>2. CASE CpuExecute
  <2>1. CASE ExecuteStore
    BY <1>2, <2>1, StartStore
  <2>2. CASE ExecuteLoad
    BY <1>2, <2>2, StartLoad
  <2>3. CASE Jumping
    BY <2>3, StartFetch DEF Jumping, Jump
  <2> QED
    BY <1>2, <2>1, <2>2, <2>3, Jumps DEF Inv
<1>3. CASE CpuStore(busy)
  BY <1>3, StepStore
<1>4. CASE CpuLoad(ready, memory[ram_word])
  BY <1>4, StepLoad
<1> QED
  BY <1>1, <1>2, <1>3, <1>4 DEF Next, CoreStep

LEMMA StutterInv == Inv /\ UNCHANGED vars => Inv'
<1> SUFFICES ASSUME Inv, UNCHANGED vars PROVE Inv'
  OBVIOUS
<1> USE DEF vars, coreVars, requestVars
<1>1. TypeOK'
  BY DEF Inv, TypeOK
<1>2. Fetching' /\ Idling' /\ Settled'
  BY DEF Inv, Fetching, Idling, Settled
<1>3. Fetched'
  BY DEF Inv, Fetched, retiring_pc, word_at
<1>4. Storing' /\ Loading'
  BY DEF Inv, Storing, Loading, instr, rs1_data_out, rs2_data_out
<1> QED
  BY <1>1, <1>2, <1>3, <1>4 DEF Inv

-----------------------------------------------------------------------------
\* In every state the core can reach, its registers, the request on the port
\* and the instruction it works on mean what Inv says: the argument behind
\* everything core.sv does from CpuFetch on.
THEOREM CoreInvariantHolds == Spec => []Inv
<1>1. Inv /\ [Next]_vars => Inv'
  BY StepInv, StutterInv
<1> QED
  BY <1>1, InitInv, PTL DEF Spec

\* The core's registers and the request port keep their types: addresses wrap
\* at the word size and data_out is a word for every access, aligned or not.
THEOREM CoreTypeCorrect == Spec => []TypeOK
<1>1. Inv => TypeOK
  BY DEF Inv
<1> QED
  BY <1>1, CoreInvariantHolds, PTL

\* While the memory is busy the core keeps the request it has made: the half
\* of the handshake cache.sv relies on (its Hold).
THEOREM RequestHeld == Spec => HoldsRequest
<1>1. ASSUME Inv, Next, busy
      PROVE  UNCHANGED requestVars
  <2>1. cache_enable /\ ~hit /\ ~ready
    BY <1>1 DEF busy, ready
  <2>2. CASE CpuFetch(ready, memory[ram_word])
    BY <2>1, <2>2 DEF CpuFetch, requestVars
  <2>3. ~CpuExecute
    BY <1>1, <2>1, QuietExecute DEF Inv, Idling, cache_enable
  <2>4. CASE CpuStore(busy)
    BY <1>1, <2>4 DEF CpuStore
  <2>5. CASE CpuLoad(ready, memory[ram_word])
    BY <2>1, <2>5 DEF CpuLoad
  <2> QED
    BY <1>1, <2>2, <2>3, <2>4, <2>5 DEF Next, CoreStep
<1>2. Inv /\ [Next]_vars => [busy => UNCHANGED requestVars]_vars
  BY <1>1
<1> QED
  BY <1>2, CoreInvariantHolds, PTL DEF Spec, HoldsRequest

(***************************************************************************)
(* The core implements the emulator: a tick is the cycle in which an       *)
(* instruction is over, every other cycle is a stutter.                    *)
(***************************************************************************)

(* The two ways to reach a byte: the word and lane of ramio.sv and the byte *)
(* array of the emulator.                                                   *)

LEMMA Lane ==
  ASSUME NEW address \in Nat, address < RamBytes, NEW i \in Lanes
  PROVE  /\ Emulator!ram_address(address) \in Nat
         /\ Emulator!ram_address(address) + 4 <= RamBytes
         /\ Emulator!ram_address(address) + i \in 0..(RamBytes - 1)
         /\ (Emulator!ram_address(address) + i) \div 4 = address \div 4
         /\ (Emulator!ram_address(address) + i) % 4 = i
         /\ (address \div 4) % RamWords = address \div 4
         /\ address \div 4 \in 0..(RamWords - 1)
<1>1. PICK n \in Nat : RamWords = n /\ RamBytes = 4 * n
  BY SizeAssumption DEF RamBytes
<1>2. i \in 0..3
  BY DEF Lanes
<1>3. PICK q \in Nat, r \in 0..3 : address = 4 * q + r /\ address \div 4 = q /\ address % 4 = r
  <2>1. address = 4 * (address \div 4) + (address % 4)
    OBVIOUS
  <2>2. address \div 4 \in Nat /\ address % 4 \in 0..3
    OBVIOUS
  <2> QED
    BY <2>1, <2>2
<1>4. Emulator!ram_address(address) = 4 * q
  BY <1>3 DEF Emulator!ram_address
<1>5. q < n
  BY <1>1, <1>3
<1>6. (4 * q + i) \div 4 = q /\ (4 * q + i) % 4 = i
  BY <1>2
<1>7. q % n = q
  BY <1>5
<1>8. 4 * q + 4 <= 4 * n /\ 4 * q + i \in 0..(4 * n - 1)
  BY <1>2, <1>5
<1> QED
  BY <1>1, <1>3, <1>4, <1>5, <1>6, <1>7, <1>8

LEMMA ByteOfRam ==
  ASSUME NEW address \in Nat, address < RamBytes, NEW i \in Lanes
  PROVE  ram_bytes[Emulator!ram_address(address) + i] = memory[(address \div 4) % RamWords][i]
BY Lane DEF ram_bytes

LEMMA OutsideIsBeyond ==
  ASSUME NEW address \in Nat
  PROVE  Emulator!outside(address) <=> address >= RamBytes
<1>1. PICK n \in Nat : RamBytes = 4 * n
  BY SizeAssumption DEF RamBytes
<1>2. PICK q \in Nat, r \in 0..3 : address = 4 * q + r /\ address % 4 = r
  <2>1. address = 4 * (address \div 4) + (address % 4)
    OBVIOUS
  <2>2. address \div 4 \in Nat /\ address % 4 \in 0..3
    OBVIOUS
  <2> QED
    BY <2>1, <2>2
<1>3. Emulator!ram_address(address) = 4 * q
  BY <1>2 DEF Emulator!ram_address
<1>4. 4 * q + 4 > 4 * n <=> 4 * q + r >= 4 * n
  OBVIOUS
<1> QED
  BY <1>1, <1>2, <1>3, <1>4 DEF Emulator!outside, Emulator!RamBytes, RamBytes

\* Rv32i's own copies of the definitions of Instructions are those of Core.
LEMMA SameInstructions ==
  /\ Emulator!RamBytes = RamBytes
  /\ Emulator!Registers = Registers
  /\ Emulator!WordCount = WordCount
  /\ Emulator!StoreFunct3 = StoreFunct3
  /\ Emulator!LoadFunct3 = LoadFunct3
  /\ Emulator!BranchFunct3 = BranchFunct3
  /\ \A n : Emulator!wrap(n) = wrap(n)
  /\ \A w, i : Emulator!byte(w, i) = byte(w, i)
  /\ \A i, a : Emulator!logical_imm(i, a) = logical_imm(i, a)
  /\ \A f, a, b : Emulator!branch_taken(f, a, b) <=> branch_taken(f, a, b)
<1>1. Emulator!WordCount = WordCount /\ Emulator!RamBytes = RamBytes
  BY DEF Emulator!WordCount, WordCount, Emulator!RamBytes, RamBytes
<1>2. \A w : Emulator!signed(w) = signed(w)
  BY <1>1 DEF Emulator!signed, signed
<1>3. \A w, i : Emulator!byte(w, i) = byte(w, i)
  BY DEF Emulator!byte, byte
<1> QED
  BY <1>1, <1>2, <1>3
     DEF Emulator!Registers, Registers, Emulator!StoreFunct3, StoreFunct3, Emulator!LoadFunct3,
         LoadFunct3, Emulator!BranchFunct3, BranchFunct3, Emulator!wrap, wrap,
         Emulator!logical_imm, logical_imm, Emulator!branch_taken, branch_taken

\* A word load of the emulator's bus, wherever in the word its address points.
LEMMA BusLoadsWord ==
  ASSUME TypeOK, NEW address \in Nat, address < RamBytes
  PROVE  Emulator!bus_load(address, 4) = word_at(address)
<1> DEFINE w == memory[(address \div 4) % RamWords]
<1>1. \A i \in Lanes : ram_bytes[Emulator!ram_address(address) + i] = w[i]
  BY ByteOfRam
<1>2. Emulator!ram_address(address) \in Nat
  BY Lane DEF Lanes
<1>3. w \in MemoryWords
  <2>1. 0 \in Lanes
    BY DEF Lanes
  <2>2. (address \div 4) % RamWords \in 0..(RamWords - 1)
    BY <2>1, Lane
  <2> QED
    BY <2>2 DEF TypeOK, Memories
<1>4. \A i \in Lanes : w[i] \in Nat
  BY <1>3, Sizes DEF MemoryWords
<1>5. Emulator!bus_load(address, 4)
        = w[0] + ByteCount * (w[1] + ByteCount * (w[2] + ByteCount * w[3]))
  <2>1. ~Emulator!is_ignored(address, 4) /\ Emulator!lane(address, 4) = 0
    BY DEF Emulator!is_ignored, Emulator!lane
  <2>2. \A i \in Lanes : ram_bytes[Emulator!ram_address(address) + 0 + i] = w[i]
    BY <1>1, <1>2
  <2> HIDE DEF w
  <2> QED
    BY <2>1, <2>2 DEF Emulator!bus_load, Lanes
<1>6. w[0] + ByteCount * (w[1] + ByteCount * (w[2] + ByteCount * w[3]))
        = (w[0] + ByteCount * w[1]) + (ByteCount * ByteCount) * (w[2] + ByteCount * w[3])
  <2>1. ByteCount \in Nat /\ w[0] \in Nat /\ w[1] \in Nat /\ w[2] \in Nat /\ w[3] \in Nat
    BY <1>4, Sizes DEF Lanes
  <2>2. ASSUME NEW b \in Nat, NEW p \in Nat, NEW q \in Nat, NEW r \in Nat, NEW t \in Nat
        PROVE  p + b * (q + b * (r + b * t)) = (p + b * q) + (b * b) * (r + b * t)
    OBVIOUS
  <2> QED
    BY <2>1, <2>2
<1> QED
  BY <1>5, <1>6 DEF word_at

-----------------------------------------------------------------------------
(* The initial states. *)

LEMMA InitialEmulator == Init => Emulator!Init
<1> SUFFICES ASSUME Init PROVE Emulator!Init
  OBVIOUS
<1>1. TypeOK
  BY InitInv DEF Inv
<1>2. retiring_pc = 0 /\ ~(led = 0 \/ strayed)
  BY DEF Init, CoreInit, retiring_pc
<1>3. registers \in [Registers -> InitialWords \cup {0}] /\ registers[0] = 0
  <2>1. 0 \in Registers
    BY SizeAssumption DEF Registers
  <2> QED
    BY <2>1 DEF Init, CoreInit, registers
<1>4. ram_bytes \in [0..(RamBytes - 1) -> 0..(ByteCount - 1)]
  <2>1. ASSUME NEW a \in 0..(RamBytes - 1)
        PROVE  a \div 4 \in 0..(RamWords - 1) /\ a % 4 \in Lanes
    <3>1. RamWords \in Nat
      BY SizeAssumption
    <3> QED
      BY <3>1 DEF RamBytes, Lanes
  <2>2. ASSUME NEW a \in 0..(RamBytes - 1)
        PROVE  memory[a \div 4][a % 4] \in 0..(ByteCount - 1)
    BY <1>1, <2>1 DEF TypeOK, Memories, MemoryWords
  <2> QED
    BY <2>2 DEF ram_bytes
<1> QED
  BY <1>2, <1>3, <1>4, SameInstructions DEF Emulator!Init

-----------------------------------------------------------------------------
(* The edges of the core, each against the emulator. *)

\* the state of the emulator is left alone
Kept == retiring_pc' = retiring_pc /\ registers' = registers /\ ram_bytes' = ram_bytes

Exit == led = 0 \/ strayed

LEMMA OnceStopped ==
  ASSUME Exit, Exit'
  PROVE  Emulator!Next
BY DEF Exit, Emulator!Next, Emulator!Exited

LEMMA ExitIsFinal ==
  ASSUME Inv, Next, Exit
  PROVE  Exit'
<1>1. strayed => strayed'
  BY DEF Next, Stray
<1>2. led = 0 => led' = 0
  BY DEF Next, CoreStep, CpuFetch, CpuStore, CpuLoad, CpuExecute, ExecuteLui,
         ExecuteLogicalImm, ExecuteLogical, ExecuteStore, ExecuteLoad, ExecuteAuipc,
         ExecuteJal, ExecuteJalr, ExecuteBranch, ExecuteFence, ExecuteUnknown
<1> QED
  BY <1>1, <1>2 DEF Exit

\* the instruction the emulator is at is the one in 'ir', with the same operands
LEMMA SameInstruction ==
  ASSUME Inv, state # "CpuFetch", ~Exit
  PROVE  /\ ~Emulator!outside(retiring_pc)
         /\ Emulator!instruction = instr
         /\ Emulator!rs1 = rs1_data_out
         /\ Emulator!rs2 = rs2_data_out
         /\ Emulator!store_address = wrap(rs1_data_out + instr.imm)
         /\ Emulator!load_address = wrap(rs1_data_out + instr.imm)
<1>1. TypeOK /\ ~rd_write_enable
  BY DEF Inv, Settled
<1>2. retiring_pc < RamBytes /\ ir = word_at(retiring_pc)
  BY DEF Inv, Fetched, Exit
<1>3. retiring_pc \in Nat
  <2>1. pc \in Words /\ pc - 4 \in Int
    BY <1>1, Sizes DEF TypeOK, Words
  <2>2. wrap(pc - 4) \in Words
    BY <2>1, WrapInWords
  <2>3. \A n \in Words : n \in Nat
    BY Sizes DEF Words
  <2> QED
    BY <2>1, <2>2, <2>3 DEF retiring_pc
<1>4. ~Emulator!outside(retiring_pc)
  <2>1. RamBytes \in Nat
    BY SizeAssumption DEF RamBytes
  <2> QED
    BY <1>2, <1>3, <2>1, OutsideIsBeyond
<1>5. Emulator!instruction = instr
  BY <1>1, <1>2, <1>3, BusLoadsWord DEF Emulator!instruction, instr
<1>6. Emulator!rs1 = rs1_data_out /\ Emulator!rs2 = rs2_data_out
  BY <1>1, <1>5, InstructionTyped
     DEF Emulator!rs1, Emulator!rs2, registers, rs1_data_out, rs2_data_out
<1> QED
  BY <1>4, <1>5, <1>6, SameInstructions DEF Emulator!store_address, Emulator!load_address

\* a fetch only takes in the instruction, or strays
LEMMA FetchRefines ==
  ASSUME Inv, Next, CpuFetch(ready, memory[ram_word])
  PROVE  Emulator!Next \/ (Kept /\ (Exit' <=> Exit))
<1>1. state = "CpuFetch" /\ state' \in {"CpuFetch", "CpuExecute"} /\ pc' = pc /\ led' = led
  BY DEF CpuFetch
<1>2. retiring_pc = pc /\ retiring_pc' = pc
  BY <1>1 DEF retiring_pc
<1>3. memory' = memory
  BY <1>1, FetchReads, NoStore DEF Inv, Next
<1>4. ram_bytes' = ram_bytes
  BY <1>3 DEF ram_bytes
<1>5. registers' = registers
  <2>1. rd_write_enable' = FALSE
    BY DEF CpuFetch
  <2>2. data' = IF rd_write_enable THEN [data EXCEPT ![instr.rd] = rd_data_in] ELSE data
    BY DEF Next, CoreStep, RegisterWrite
  <2>3. data \in [Registers -> Words]
    BY DEF Inv, TypeOK
  <2>4. ASSUME NEW r \in Registers, r # 0
        PROVE  data'[r] = (IF rd_write_enable /\ r = instr.rd THEN rd_data_in ELSE data[r])
    BY <2>2, <2>3
  <2> QED
    BY <2>1, <2>4 DEF registers
<1>6. CASE Exit
  BY <1>6, ExitIsFinal, OnceStopped
<1>7. CASE ~Exit /\ Exit'
  <2>1. ramio_address = pc /\ ramio_address >= RamBytes
    BY <1>1, <1>7 DEF Exit, Next, Stray, Inv, Fetching
  <2>2. pc \in Nat
    BY Sizes DEF Inv, TypeOK, Words
  <2>3. Emulator!outside(retiring_pc)
    BY <1>2, <2>1, <2>2, OutsideIsBeyond
  <2> QED
    BY <1>7, <2>3 DEF Exit, Emulator!Next, Emulator!Stop, Emulator!refused
<1> QED
  BY <1>2, <1>4, <1>5, <1>6, <1>7 DEF Kept

\* a value on its way to 'rd' is, for the next instruction, already there
LEMMA WritingBack ==
  ASSUME Inv, state # "CpuFetch", data' = data, ir' = ir, NEW value, WriteBack(value)
  PROVE  registers' = [registers EXCEPT ![instr.rd] = IF instr.rd = 0 THEN 0 ELSE value]
<1>1. ~rd_write_enable /\ rd_write_enable' = TRUE /\ rd_data_in' = value /\ instr' = instr
  BY DEF Inv, Settled, WriteBack, instr
<1>2. instr.rd \in Registers
  BY InstructionTyped DEF Inv
<1>3. ASSUME NEW r \in Registers
      PROVE  (IF r = 0 THEN 0
              ELSE IF rd_write_enable' /\ r = (instr').rd THEN rd_data_in' ELSE data'[r])
               = [registers EXCEPT ![instr.rd] = IF instr.rd = 0 THEN 0 ELSE value][r]
  BY <1>1, <1>2 DEF registers
<1> QED
  BY <1>2, <1>3 DEF registers

LEMMA NotWritingBack ==
  ASSUME Inv, state # "CpuFetch", data' = data, ir' = ir, NoWriteBack
  PROVE  registers' = registers
BY DEF NoWriteBack, registers, instr

\* what the core does not look at, the emulator refuses
LEMMA IllFormedRefines ==
  ASSUME Inv, Next, CpuExecute, ~instr.well_formed, ~Exit
  PROVE  Emulator!Next
<1>1. state = "CpuExecute" /\ strayed'
  BY QuietExecute
<1>2. Emulator!instruction = instr
  BY <1>1, SameInstruction
<1>3. Emulator!Stop
  BY <1>1, <1>2 DEF Emulator!Stop, Emulator!refused, Exit
<1> QED
  BY <1>3 DEF Emulator!Next

\* an instruction that needs no access is over in one cycle
LEMMA JumpingRefines ==
  ASSUME Inv, Next, CpuExecute, ~ExecuteStore, ~ExecuteLoad, instr.well_formed, ~Exit
  PROVE  Emulator!Next
<1>1. /\ state = "CpuExecute" /\ data' = data /\ ir' = ir /\ memory' = memory
      /\ retiring_pc = pc /\ strayed' = strayed
  BY QuietExecute DEF Inv, TypeOK
<1>2. retiring_pc' = pc'
  <2>1. state' = "CpuFetch"
    BY Jumps DEF Inv, Jumping, Jump, Fetch
  <2> QED
    BY <2>1 DEF retiring_pc
<1>3. ram_bytes' = ram_bytes
  BY <1>1 DEF ram_bytes
<1>4. /\ ~Emulator!outside(retiring_pc) /\ Emulator!instruction = instr
      /\ Emulator!rs1 = rs1_data_out /\ Emulator!rs2 = rs2_data_out
  BY <1>1, SameInstruction
<1>5. ASSUME led' = led PROVE ~Exit'
  BY <1>1, <1>5 DEF Exit
<1>6. ASSUME NEW op, Execute(op), led' = led PROVE Emulator!Execute(op)
  BY <1>4, <1>5, <1>6 DEF Execute, Emulator!Execute, Exit
<1>7. ASSUME NEW value, WriteBack(value) PROVE Emulator!Write(value)
  BY <1>1, <1>4, <1>7, WritingBack DEF Emulator!Write
<1>8. ASSUME Advance PROVE Emulator!Continue
  BY <1>1, <1>2, <1>8, SameInstructions DEF Advance, next_pc, Emulator!Continue
<1>9. ASSUME NoWriteBack PROVE registers' = registers
  BY <1>1, <1>9, NotWritingBack
<1>10. CASE ExecuteLui
  <2>1. Emulator!TickLui
    BY <1>3, <1>4, <1>6, <1>7, <1>8, <1>10 DEF ExecuteLui, Emulator!TickLui
  <2> QED
    BY <2>1 DEF Emulator!Next, Emulator!Tick
<1>11. CASE ExecuteLogicalImm
  <2>1. Emulator!TickLogicalImm
    BY <1>3, <1>4, <1>6, <1>7, <1>8, <1>11, SameInstructions
       DEF ExecuteLogicalImm, Emulator!TickLogicalImm
  <2> QED
    BY <2>1 DEF Emulator!Next, Emulator!Tick
<1>12. CASE ExecuteLogical
  <2>1. Emulator!TickLogical
    BY <1>3, <1>4, <1>6, <1>7, <1>8, <1>12 DEF ExecuteLogical, Emulator!TickLogical
  <2> QED
    BY <2>1 DEF Emulator!Next, Emulator!Tick
<1>13. CASE ExecuteAuipc
  <2>1. Emulator!TickAuipc
    BY <1>1, <1>3, <1>4, <1>6, <1>7, <1>8, <1>13, SameInstructions
       DEF ExecuteAuipc, Emulator!TickAuipc
  <2> QED
    BY <2>1 DEF Emulator!Next, Emulator!Tick
<1>14. CASE ExecuteJal
  <2>1. Emulator!TickJal
    BY <1>1, <1>2, <1>3, <1>4, <1>6, <1>7, <1>14, SameInstructions
       DEF ExecuteJal, Jump, next_pc, Emulator!TickJal
  <2> QED
    BY <2>1 DEF Emulator!Next, Emulator!Tick
<1>15. CASE ExecuteJalr
  <2>1. Emulator!TickJalr
    BY <1>1, <1>2, <1>3, <1>4, <1>6, <1>7, <1>15, SameInstructions
       DEF ExecuteJalr, Jump, next_pc, Emulator!TickJalr
  <2> QED
    BY <2>1 DEF Emulator!Next, Emulator!Tick
<1>16. CASE ExecuteBranch
  <2>1. CASE instr.funct3 \in BranchFunct3
    <3>1. Emulator!TickBranch
      BY <1>1, <1>2, <1>3, <1>4, <1>6, <1>9, <1>16, <2>1, SameInstructions
         DEF ExecuteBranch, Jump, Advance, next_pc, Emulator!TickBranch
    <3> QED
      BY <3>1 DEF Emulator!Next, Emulator!Tick
  <2>2. CASE instr.funct3 \notin BranchFunct3
    <3>1. led' = 0 /\ instr.op = "branch"
      BY <1>16, <2>2 DEF ExecuteBranch, Execute
    <3>2. Emulator!Stop
      BY <1>4, <2>2, <3>1, SameInstructions DEF Emulator!Stop, Emulator!refused, Exit
    <3> QED
      BY <3>2 DEF Emulator!Next
  <2> QED
    BY <2>1, <2>2
<1>17. CASE ExecuteFence
  <2>1. Emulator!TickFence
    BY <1>3, <1>4, <1>6, <1>8, <1>9, <1>17 DEF ExecuteFence, Emulator!TickFence
  <2> QED
    BY <2>1 DEF Emulator!Next, Emulator!Tick
<1>18. CASE ExecuteUnknown
  <2>1. led' = 0 /\ instr.op = "other"
    BY <1>18 DEF ExecuteUnknown, Execute
  <2>2. Emulator!Stop
    BY <1>4, <2>1 DEF Emulator!Stop, Emulator!refused, Exit
  <2> QED
    BY <2>2 DEF Emulator!Next
<1> QED
  BY <1>10, <1>11, <1>12, <1>13, <1>14, <1>15, <1>16, <1>17, <1>18 DEF CpuExecute

\* putting an access on the port changes nothing, or is what the emulator refuses
LEMMA StartAccessRefines ==
  ASSUME Inv, Next, CpuExecute, ExecuteStore \/ ExecuteLoad, instr.well_formed, ~Exit
  PROVE  Emulator!Next \/ (Kept /\ (Exit' <=> Exit))
<1>1. /\ state = "CpuExecute" /\ data' = data /\ ir' = ir /\ memory' = memory
      /\ retiring_pc = pc /\ strayed' = strayed
  BY QuietExecute DEF Inv, TypeOK
<1>2. state' \in {"CpuStore", "CpuLoad"} /\ pc' = wrap(pc + 4) /\ NoWriteBack
  BY DEF ExecuteStore, ExecuteLoad, next_pc
<1>3. retiring_pc' = retiring_pc
  BY <1>1, <1>2, WrapForth DEF retiring_pc, Inv, TypeOK
<1>4. registers' = registers /\ ram_bytes' = ram_bytes
  BY <1>1, <1>2, NotWritingBack DEF ram_bytes
<1>5. CASE led' = led
  BY <1>1, <1>3, <1>4, <1>5 DEF Kept, Exit
<1>6. CASE led' # led
  <2>1. /\ led' = 0
        /\ \/ instr.op = "store" /\ instr.funct3 \notin StoreFunct3
           \/ instr.op = "load" /\ instr.funct3 \notin LoadFunct3
    BY <1>6 DEF ExecuteStore, ExecuteLoad, Execute
  <2>2. Emulator!instruction = instr
    BY <1>1, SameInstruction
  <2>3. Emulator!Stop
    BY <2>1, <2>2, SameInstructions DEF Emulator!Stop, Emulator!refused, Exit
  <2> QED
    BY <2>3 DEF Emulator!Next
<1> QED
  BY <1>5, <1>6

\* an access that leaves the RAM is one the emulator refuses
LEMMA StrayingAccess ==
  ASSUME Inv, Next, state \in {"CpuStore", "CpuLoad"}, ~Exit, Exit'
  PROVE  Emulator!Next
<1>1. led' = led
  BY DEF Next, CoreStep, CpuFetch, CpuStore, CpuLoad, CpuExecute, ExecuteLui,
         ExecuteLogicalImm, ExecuteLogical, ExecuteStore, ExecuteLoad, ExecuteAuipc,
         ExecuteJal, ExecuteJalr, ExecuteBranch, ExecuteFence, ExecuteUnknown, Execute
<1>2. ramio_address >= RamBytes
  BY <1>1 DEF Exit, Next, Stray
<1>3. ramio_address \in Nat
  BY Sizes DEF Inv, TypeOK, Words
<1>4. /\ instr.op \in {"store", "load"}
      /\ state = "CpuStore" => instr.op = "store"
      /\ state = "CpuLoad" => instr.op = "load"
      /\ ramio_address = wrap(rs1_data_out + instr.imm)
  BY DEF Inv, Storing, Loading
<1>5. Emulator!outside(ramio_address)
  BY <1>2, <1>3, OutsideIsBeyond
<1>6. Emulator!refused
  BY <1>4, <1>5, SameInstruction DEF Emulator!refused
<1> QED
  BY <1>6 DEF Emulator!Next, Emulator!Stop, Exit

LEMMA WaitingRefines ==
  ASSUME Inv, Next, state \in {"CpuStore", "CpuLoad"}, memory' = memory,
         UNCHANGED <<state, pc, ir, rd_data_in, rd_write_enable>>
  PROVE  Kept
<1>1. data' = data
  BY DEF Inv, Settled, Next, CoreStep, RegisterWrite
<1> QED
  BY <1>1 DEF Kept, retiring_pc, registers, instr, ram_bytes

\* the bytes the emulator stores to are the lanes ramio.sv enables
LEMMA StoredBytes ==
  ASSUME ramio_address \in Nat, ramio_address < RamBytes,
         ramio_write_type \in {1, 2, 4}, NEW a \in 0..(RamBytes - 1),
         ~Emulator!is_ignored(ramio_address, ramio_write_type)
  PROVE  LET first == Emulator!ram_address(ramio_address)
                        + Emulator!lane(ramio_address, ramio_write_type)
         IN  /\ a \in first..(first + ramio_write_type - 1)
                  <=> a \div 4 = ramio_address \div 4 /\ a % 4 \in cache_write_enable
             /\ a \div 4 = ramio_address \div 4 =>
                  a - first = IF ramio_write_type = 4 THEN a % 4 ELSE (a % 4) - ramio_lane
<1>1. PICK q \in Nat, r \in 0..3 :
        /\ ramio_address = 4 * q + r /\ ramio_address \div 4 = q /\ ramio_address % 4 = r
        /\ ramio_address % 2 = r % 2
  <2>1. ramio_address = 4 * (ramio_address \div 4) + (ramio_address % 4)
    OBVIOUS
  <2>2. ramio_address \div 4 \in Nat /\ ramio_address % 4 \in 0..3
    OBVIOUS
  <2>3. ramio_address % 2 = (ramio_address % 4) % 2
    OBVIOUS
  <2> QED
    BY <2>1, <2>2, <2>3
<1>2. RamBytes \in Nat
  BY SizeAssumption DEF RamBytes
<1>3. PICK n \in Nat, k \in 0..3 : a = 4 * n + k /\ a \div 4 = n /\ a % 4 = k
  <2>1. a \in Nat /\ a = 4 * (a \div 4) + (a % 4)
    BY <1>2
  <2>2. a \div 4 \in Nat /\ a % 4 \in 0..3
    BY <2>1
  <2> QED
    BY <2>1, <2>2
<1>4. Emulator!ram_address(ramio_address) = 4 * q
  BY <1>1 DEF Emulator!ram_address
<1> ramio_lane = r
  BY <1>1 DEF ramio_lane
<1> r \in Int
  OBVIOUS
<1>5. CASE ramio_write_type = 1
  <2>1. Emulator!lane(ramio_address, ramio_write_type) = r /\ cache_write_enable = {r}
    <3>1. Emulator!lane(ramio_address, ramio_write_type) = r
      BY <1>1, <1>5 DEF Emulator!lane
    <3>2. cache_write_enable = {r}
      <4>1. ramio_write_type # 2 /\ ramio_write_type # 4
        BY <1>5
      <4> QED
        BY <1>5, <4>1 DEF cache_write_enable
    <3> QED
      BY <3>1, <3>2
  <2>2. 4 * n + k \in (4 * q + r)..(4 * q + r + 1 - 1) <=> n = q /\ k \in {r}
    OBVIOUS
  <2>3. n = q => (4 * n + k) - (4 * q + r) = k - r
    OBVIOUS
  <2> QED
    BY <1>1, <1>3, <1>4, <1>5, <2>1, <2>2, <2>3 DEF ramio_lane
<1>6. CASE ramio_write_type = 2
  <2>1. r \in {0, 2}
    BY <1>1, <1>6 DEF Emulator!is_ignored
  <2>2. Emulator!lane(ramio_address, ramio_write_type) = r /\ cache_write_enable = {r, r + 1}
    <3>1. Emulator!lane(ramio_address, ramio_write_type) = r
      BY <1>1, <1>6 DEF Emulator!lane
    <3>2. cache_write_enable = IF r \in {0, 2} THEN {r, r + 1} ELSE {}
      <4>1. ramio_write_type # 1
        BY <1>6
      <4> QED
        BY <1>6, <4>1 DEF cache_write_enable
    <3> QED
      BY <2>1, <3>1, <3>2
  <2>3. 4 * n + k \in (4 * q + r)..(4 * q + r + 2 - 1) <=> n = q /\ k \in {r, r + 1}
    BY <2>1
  <2>4. n = q => (4 * n + k) - (4 * q + r) = k - r
    OBVIOUS
  <2> QED
    BY <1>1, <1>3, <1>4, <1>6, <2>2, <2>3, <2>4 DEF ramio_lane
<1>7. CASE ramio_write_type = 4
  <2>1. Emulator!lane(ramio_address, ramio_write_type) = 0 /\ cache_write_enable = 0..3
    BY <1>7 DEF Emulator!lane, cache_write_enable, Lanes
  <2>2. 4 * n + k \in (4 * q + 0)..(4 * q + 0 + 4 - 1) <=> n = q /\ k \in 0..3
    OBVIOUS
  <2>3. n = q => (4 * n + k) - (4 * q + 0) = k
    OBVIOUS
  <2> QED
    BY <1>1, <1>3, <1>4, <1>7, <2>1, <2>2, <2>3 DEF ramio_lane
<1> QED
  BY <1>5, <1>6, <1>7

LEMMA StoreIsBusStore ==
  ASSUME TypeOK, Next, cache_enable, hit, ramio_address < RamBytes,
         ramio_write_type \in {1, 2, 4}
  PROVE  ram_bytes' = Emulator!bus_store(ramio_address, ramio_write_type, ramio_data_in)
<1> DEFINE stored == [b \in Lanes |-> IF b \in cache_write_enable
                                      THEN cache_data_in[b] ELSE memory[ram_word][b]]
<1>1. memory' = [memory EXCEPT ![ram_word] = stored]
  BY DEF Next, Store
<1>2. ramio_address \in Nat
  BY Sizes DEF TypeOK, Words
<1>3. ram_word = ramio_address \div 4 /\ ram_word \in 0..(RamWords - 1)
  <2>1. 0 \in Lanes
    BY DEF Lanes
  <2> QED
    BY <1>2, <2>1, Lane DEF ram_word
<1>4. ASSUME NEW a \in 0..(RamBytes - 1)
      PROVE  a \div 4 \in 0..(RamWords - 1) /\ a % 4 \in Lanes
  <2>1. RamWords \in Nat
    BY SizeAssumption
  <2> QED
    BY <2>1 DEF RamBytes, Lanes
<1>5. ASSUME NEW a \in 0..(RamBytes - 1)
      PROVE  memory'[a \div 4][a % 4]
               = IF a \div 4 = ramio_address \div 4 /\ a % 4 \in cache_write_enable
                 THEN cache_data_in[a % 4] ELSE ram_bytes[a]
  BY <1>1, <1>3, <1>4 DEF TypeOK, Memories, ram_bytes
<1> HIDE DEF stored
<1>6. CASE Emulator!is_ignored(ramio_address, ramio_write_type)
  <2>1. ramio_write_type = 2 /\ ramio_lane \notin {0, 2}
    <3>1. ramio_write_type = 2 /\ ramio_address % 2 = 1
      BY <1>6 DEF Emulator!is_ignored
    <3>2. ramio_address % 4 \notin {0, 2}
      BY <1>2, <3>1
    <3> QED
      BY <3>1, <3>2 DEF ramio_lane
  <2>2. cache_write_enable = {}
    BY <2>1 DEF cache_write_enable
  <2>3. ram_bytes' = ram_bytes
    BY <1>5, <2>2 DEF ram_bytes
  <2> QED
    BY <1>6, <2>3 DEF Emulator!bus_store
<1>7. CASE ~Emulator!is_ignored(ramio_address, ramio_write_type)
  <2> DEFINE first == Emulator!ram_address(ramio_address)
                        + Emulator!lane(ramio_address, ramio_write_type)
  <2>1. ASSUME NEW a \in 0..(RamBytes - 1)
        PROVE  memory'[a \div 4][a % 4]
                 = IF a \in first..(first + ramio_write_type - 1)
                   THEN byte(ramio_data_in, a - first) ELSE ram_bytes[a]
    <3>1. /\ a \in first..(first + ramio_write_type - 1)
                <=> a \div 4 = ramio_address \div 4 /\ a % 4 \in cache_write_enable
          /\ a \div 4 = ramio_address \div 4 =>
                a - first = IF ramio_write_type = 4 THEN a % 4 ELSE (a % 4) - ramio_lane
      BY <1>2, <1>7, StoredBytes
    <3> HIDE DEF first
    <3>2. a % 4 \in cache_write_enable =>
            cache_data_in[a % 4]
              = byte(ramio_data_in, IF ramio_write_type = 4 THEN a % 4 ELSE (a % 4) - ramio_lane)
      BY <1>4 DEF cache_data_in
    <3> QED
      BY <1>5, <3>1, <3>2
  <2>2. DOMAIN ram_bytes = 0..(RamBytes - 1)
    BY DEF ram_bytes
  <2>3. Emulator!bus_store(ramio_address, ramio_write_type, ramio_data_in)
          = [a \in 0..(RamBytes - 1) |->
               IF a \in first..(first + ramio_write_type - 1)
               THEN byte(ramio_data_in, a - first) ELSE ram_bytes[a]]
    BY <1>7, <2>2, SameInstructions DEF Emulator!bus_store
  <2> HIDE DEF first
  <2>4. ram_bytes' = [a \in 0..(RamBytes - 1) |-> memory'[a \div 4][a % 4]]
    BY DEF ram_bytes
  <2> QED
    BY <2>1, <2>3, <2>4
<1> QED
  BY <1>6, <1>7

\* what ramio.sv returns of the word is what the emulator reads and extends
LoadedValue(width) ==
  LET value == Emulator!bus_load(ramio_address, width)
  IN  IF instr.funct3 < 4 THEN Emulator!sign_extended(value, width) ELSE value

LEMMA BusLoadsBytes ==
  ASSUME TypeOK, ramio_address < RamBytes, NEW width \in {1, 2, 4},
         ~Emulator!is_ignored(ramio_address, width)
  PROVE  LET l == IF width = 4 THEN 0 ELSE ramio_lane
             w == memory[ram_word]
         IN  /\ width = 1 => Emulator!bus_load(ramio_address, width) = w[l]
             /\ width = 2 => Emulator!bus_load(ramio_address, width) = w[l] + ByteCount * w[l + 1]
             /\ width = 4 => Emulator!bus_load(ramio_address, width) = word_at(ramio_address)
             /\ width = 2 => l \in {0, 2}
<1> DEFINE w == memory[ram_word]
           base == Emulator!ram_address(ramio_address)
<1>1. ramio_address \in Nat
  BY Sizes DEF TypeOK, Words
<1>2. ramio_lane \in 0..3 /\ ramio_lane = ramio_address % 4
  BY <1>1 DEF ramio_lane
<1>3. base \in Nat /\ \A i \in Lanes : ram_bytes[base + i] = w[i]
  <2>1. 0 \in Lanes
    BY DEF Lanes
  <2> QED
    BY <1>1, <2>1, Lane, ByteOfRam DEF ram_word
<1>4. \A i \in Lanes : w[i] \in Nat
  BY RamWordInRam, Sizes DEF MemoryWords
<1>5. ByteCount \in Nat
  BY Sizes
<1>6. CASE width = 1
  <2>1. Emulator!lane(ramio_address, width) = ramio_lane
    BY <1>6 DEF Emulator!lane, ramio_lane
  <2>2. ram_bytes[base + ramio_lane + 0] = w[ramio_lane]
    <3>1. base + ramio_lane + 0 = base + ramio_lane
      BY <1>2, <1>3
    <3> QED
      BY <1>2, <1>3, <3>1 DEF Lanes
  <2>3. Emulator!bus_load(ramio_address, width)
          = ram_bytes[base + ramio_lane + 0] + ByteCount * (0 + ByteCount * (0 + ByteCount * 0))
    <3> HIDE DEF base
    <3> QED
      BY <1>6, <2>1 DEF Emulator!bus_load, base
  <2>4. w[ramio_lane] \in Nat
    BY <1>2, <1>4 DEF Lanes
  <2>5. ByteCount * (0 + ByteCount * (0 + ByteCount * 0)) = 0
    BY <1>5
  <2> QED
    BY <1>6, <2>2, <2>3, <2>4, <2>5
<1>7. CASE width = 2
  <2>1. Emulator!lane(ramio_address, width) = ramio_lane
    BY <1>7 DEF Emulator!lane, ramio_lane
  <2>2. ramio_lane \in {0, 2}
    <3>1. ramio_address % 2 # 1
      BY <1>7 DEF Emulator!is_ignored
    <3> QED
      BY <1>1, <1>2, <3>1
  <2>3. ram_bytes[base + ramio_lane + 0] = w[ramio_lane] /\ ram_bytes[base + ramio_lane + 1] = w[ramio_lane + 1]
    <3>1. base + ramio_lane + 0 = base + ramio_lane /\ base + ramio_lane + 1 = base + (ramio_lane + 1)
      BY <1>2, <1>3
    <3>2. ramio_lane \in Lanes /\ ramio_lane + 1 \in Lanes
      BY <2>2 DEF Lanes
    <3> QED
      BY <1>3, <3>1, <3>2
  <2>4. Emulator!bus_load(ramio_address, width)
          = ram_bytes[base + ramio_lane + 0]
              + ByteCount * (ram_bytes[base + ramio_lane + 1] + ByteCount * (0 + ByteCount * 0))
    <3> HIDE DEF base
    <3> QED
      BY <1>7, <2>1 DEF Emulator!bus_load, base, Emulator!is_ignored
  <2>5. w[ramio_lane] \in Nat /\ w[ramio_lane + 1] \in Nat
    BY <1>4, <2>2 DEF Lanes
  <2>6. ByteCount * (0 + ByteCount * 0) = 0
    BY <1>5
  <2> QED
    BY <1>5, <1>7, <2>2, <2>3, <2>4, <2>5, <2>6
<1>8. CASE width = 4
  BY <1>1, <1>8, BusLoadsWord
<1> QED
  BY <1>6, <1>7, <1>8

LEMMA LoadIsBusLoad ==
  ASSUME Inv, state = "CpuLoad", ~Exit, ramio_address < RamBytes
  PROVE  /\ instr.funct3 \in LoadFunct3
         /\ data_out(memory[ram_word], ramio_read_type)
               = LoadedValue(Emulator!width_of(instr.funct3))
<1> DEFINE w == memory[ram_word]
           type == ramio_read_type
<1>1. /\ instr.funct3 \in LoadFunct3
      /\ type = CASE instr.funct3 = 0 -> [width |-> 1, signed |-> TRUE]
                  [] instr.funct3 = 1 -> [width |-> 2, signed |-> TRUE]
                  [] instr.funct3 = 4 -> [width |-> 1, signed |-> FALSE]
                  [] instr.funct3 = 5 -> [width |-> 2, signed |-> FALSE]
                  [] OTHER -> ReadWord
  <2>1. led = 1
    BY DEF Exit, Inv, TypeOK
  <2> QED
    BY <2>1 DEF Inv, Loading
<1>2. /\ type.width = Emulator!width_of(instr.funct3)
      /\ type.width \in {1, 2, 4}
      /\ type.width # 4 => (type.signed <=> instr.funct3 < 4)
  <2>1. CASE instr.funct3 = 0
    BY <1>1, <2>1 DEF Emulator!width_of
  <2>2. CASE instr.funct3 = 1
    BY <1>1, <2>2 DEF Emulator!width_of
  <2>3. CASE instr.funct3 = 2
    BY <1>1, <2>3 DEF Emulator!width_of, ReadWord
  <2>4. CASE instr.funct3 = 4
    BY <1>1, <2>4 DEF Emulator!width_of
  <2>5. CASE instr.funct3 = 5
    BY <1>1, <2>5 DEF Emulator!width_of
  <2> QED
    BY <1>1, <2>1, <2>2, <2>3, <2>4, <2>5 DEF LoadFunct3
<1>3. TypeOK /\ ramio_address \in Nat
  BY Sizes DEF Inv, TypeOK, Words
<1>4. /\ ByteCount \in Nat /\ ByteCount >= 2
      /\ ByteCount * ByteCount \in Nat /\ ByteCount * ByteCount >= 4
  BY Sizes
<1>5. Emulator!WordCount = WordCount /\ WordCount \in Nat
  BY SameInstructions, Sizes
<1> HIDE DEF type, w
<1>6. CASE type.width = 1
  <2>1. Emulator!bus_load(ramio_address, 1) = w[ramio_lane]
    BY <1>3, BusLoadsBytes DEF Emulator!is_ignored, w
  <2>2. LoadedValue(1) = IF type.signed /\ w[ramio_lane] >= ByteCount \div 2
                         THEN (WordCount - ByteCount) + w[ramio_lane] ELSE w[ramio_lane]
    BY <1>2, <1>5, <1>6, <2>1 DEF LoadedValue, Emulator!sign_extended
  <2>3. data_out(w, type) = IF type.signed /\ w[ramio_lane] >= ByteCount \div 2
                            THEN (WordCount - ByteCount) + w[ramio_lane] ELSE w[ramio_lane]
    BY <1>6 DEF data_out
  <2> QED
    BY <1>1, <1>2, <1>6, <2>2, <2>3 DEF w, type
<1>7. CASE type.width = 2 /\ Emulator!is_ignored(ramio_address, 2)
  <2>1. ramio_lane \notin {0, 2}
    BY <1>3, <1>7 DEF Emulator!is_ignored, ramio_lane
  <2>2. data_out(w, type) = 0
    BY <1>7, <2>1 DEF data_out
  <2>3. Emulator!bus_load(ramio_address, 2) = 0
    BY <1>7 DEF Emulator!bus_load
  <2>4. ~(0 >= (ByteCount * ByteCount) \div 2)
    <3> DEFINE h == ByteCount * ByteCount
    <3>1. h \in Nat /\ h >= 4
      BY <1>4
    <3> HIDE DEF h
    <3>2. ~(0 >= h \div 2)
      BY <3>1
    <3> QED
      BY <3>2 DEF h
  <2>5. LoadedValue(2) = 0
    BY <2>3, <2>4 DEF LoadedValue, Emulator!sign_extended
  <2> QED
    BY <1>1, <1>2, <1>7, <2>2, <2>5 DEF w, type
<1>8. CASE type.width = 2 /\ ~Emulator!is_ignored(ramio_address, 2)
  <2> DEFINE half == w[ramio_lane] + ByteCount * w[ramio_lane + 1]
  <2>1. Emulator!bus_load(ramio_address, 2) = half /\ ramio_lane \in {0, 2}
    BY <1>3, <1>8, BusLoadsBytes DEF w
  <2>2. data_out(w, type) = IF type.signed /\ half >= (ByteCount * ByteCount) \div 2
                            THEN (WordCount - ByteCount * ByteCount) + half ELSE half
    BY <1>8, <2>1 DEF data_out
  <2> HIDE DEF half
  <2>3. LoadedValue(2) = IF type.signed /\ half >= (ByteCount * ByteCount) \div 2
                         THEN (WordCount - ByteCount * ByteCount) + half ELSE half
    BY <1>2, <1>5, <1>8, <2>1 DEF LoadedValue, Emulator!sign_extended
  <2> QED
    BY <1>1, <1>2, <1>8, <2>2, <2>3 DEF w, type
<1>9. CASE type.width = 4
  <2>1. Emulator!bus_load(ramio_address, 4) = word_at(ramio_address)
    BY <1>3, BusLoadsWord
  <2>2. LoadedValue(4) = word_at(ramio_address)
    BY <2>1 DEF LoadedValue, Emulator!sign_extended
  <2>3. 0 + 1 = 1 /\ 2 + 1 = 3
    OBVIOUS
  <2>4. data_out(w, type) = word_at(ramio_address)
    BY <1>9, <2>3 DEF data_out, word_at, w, ram_word
  <2> QED
    BY <1>1, <1>2, <1>9, <2>2, <2>4 DEF w, type
<1> QED
  BY <1>2, <1>6, <1>7, <1>8, <1>9

-----------------------------------------------------------------------------
\* the edge that ends an access is the instruction's step
LEMMA AccessEnds ==
  ASSUME Inv, Next, state \in {"CpuStore", "CpuLoad"}, Fetch(pc), pc' = pc, ir' = ir, ~Exit, ~Exit'
  PROVE  /\ ramio_address < RamBytes
         /\ data' = data
         /\ Emulator!Continue
         /\ ramio_address = wrap(rs1_data_out + instr.imm)
         /\ ~Emulator!outside(ramio_address)
<1>1. ramio_enable /\ ramio_address = wrap(rs1_data_out + instr.imm)
  BY DEF Inv, Storing, Loading
<1>2. ramio_address \in Nat /\ RamBytes \in Nat
  BY Sizes, SizeAssumption DEF Inv, TypeOK, Words, RamBytes
<1>3. ramio_address < RamBytes
  <2>1. ~(ramio_enable /\ ramio_address >= RamBytes)
    BY Zenon DEF Exit, Next, Stray
  <2> QED
    BY <1>1, <1>2, <2>1
<1>4. data' = data
  BY DEF Inv, Settled, Next, CoreStep, RegisterWrite
<1>5. Emulator!Continue
  <2>1. retiring_pc' = pc
    BY DEF retiring_pc, Fetch
  <2>2. retiring_pc = wrap(pc - 4)
    BY DEF retiring_pc
  <2>3. wrap(retiring_pc + 4) = pc
    BY <2>2, WrapBack DEF Inv, TypeOK
  <2> QED
    BY <2>1, <2>3, SameInstructions DEF Emulator!Continue
<1> QED
  BY <1>1, <1>2, <1>3, <1>4, <1>5, OutsideIsBeyond

LEMMA StoreRefines ==
  ASSUME Inv, Next, CpuStore(busy), ~Exit
  PROVE  Emulator!Next \/ (Kept /\ (Exit' <=> Exit))
<1>1. state = "CpuStore" /\ pc' = pc /\ ir' = ir /\ NoWriteBack
  BY DEF CpuStore
<1>2. CASE Exit'
  BY <1>1, <1>2, StrayingAccess
<1>3. CASE ~Exit' /\ busy
  <2>1. memory' = memory
    BY <1>3 DEF busy, Next, Store
  <2>2. state' = state
    BY <1>3 DEF CpuStore
  <2>3. Kept
    BY <1>1, <2>1, <2>2, WaitingRefines DEF NoWriteBack
  <2> QED
    BY <1>3, <2>3
<1>4. CASE ~Exit' /\ ~busy
  <2>1. Fetch(pc)
    BY <1>4 DEF CpuStore
  <2>2. /\ ramio_address < RamBytes /\ data' = data /\ Emulator!Continue
        /\ ramio_address = wrap(rs1_data_out + instr.imm)
        /\ ~Emulator!outside(ramio_address)
    BY <1>1, <1>4, <2>1, AccessEnds
  <2>3. /\ instr.op = "store" /\ instr.funct3 \in StoreFunct3
        /\ ramio_write_type = Emulator!width_of(instr.funct3)
        /\ ramio_write_type \in {1, 2, 4}
        /\ ramio_data_in = rs2_data_out /\ ramio_enable
    <3>1. led = 1
      BY DEF Exit, Inv, TypeOK
    <3>2. instr.funct3 \in 0..2
      BY <1>1, <3>1 DEF Inv, Storing, StoreFunct3
    <3>3. CASE instr.funct3 = 0
      BY <1>1, <3>3 DEF Inv, Storing, StoreFunct3, Emulator!width_of
    <3>4. CASE instr.funct3 = 1
      BY <1>1, <3>4 DEF Inv, Storing, StoreFunct3, Emulator!width_of
    <3>5. CASE instr.funct3 = 2
      BY <1>1, <3>5 DEF Inv, Storing, StoreFunct3, Emulator!width_of
    <3> QED
      BY <3>2, <3>3, <3>4, <3>5
  <2>4. cache_enable /\ hit
    <3>1. cache_enable
      BY <2>3 DEF cache_enable
    <3> QED
      BY <1>4, <3>1 DEF busy
  <2>5. ram_bytes' = Emulator!bus_store(ramio_address, ramio_write_type, ramio_data_in)
    BY <2>2, <2>3, <2>4, StoreIsBusStore DEF Inv
  <2>6. registers' = registers
    BY <1>1, <2>2, NotWritingBack
  <2>7. /\ ~Emulator!outside(retiring_pc) /\ Emulator!instruction = instr
        /\ Emulator!rs2 = rs2_data_out
        /\ Emulator!store_address = ramio_address
    BY <1>1, <2>2, SameInstruction
  <2>8. Emulator!Execute("store")
    <3>1. instr.well_formed
      BY <1>1 DEF Inv, Storing, Exit
    <3> QED
      BY <1>4, <2>3, <2>7, <3>1 DEF Emulator!Execute, Exit
  <2>9. Emulator!TickStore
    BY <2>2, <2>3, <2>5, <2>6, <2>7, <2>8, SameInstructions DEF Emulator!TickStore
  <2> QED
    BY <2>9 DEF Emulator!Next, Emulator!Tick
<1> QED
  BY <1>2, <1>3, <1>4

LEMMA LoadRefines ==
  ASSUME Inv, Next, CpuLoad(ready, memory[ram_word]), ~Exit
  PROVE  Emulator!Next \/ (Kept /\ (Exit' <=> Exit))
<1>1. state = "CpuLoad" /\ pc' = pc /\ ir' = ir
  BY DEF CpuLoad
<1>2. memory' = memory
  BY <1>1, LoadReads
<1>3. CASE Exit'
  BY <1>1, <1>3, StrayingAccess
<1>4. CASE ~Exit' /\ ~ready
  <2>1. state' = state /\ NoWriteBack
    BY <1>4 DEF CpuLoad
  <2>2. Kept
    BY <1>1, <1>2, <2>1, WaitingRefines DEF NoWriteBack
  <2> QED
    BY <1>4, <2>2
<1>5. CASE ~Exit' /\ ready
  <2>1. Fetch(pc) /\ WriteBack(data_out(memory[ram_word], ramio_read_type))
    BY <1>5 DEF CpuLoad
  <2>2. /\ ramio_address < RamBytes /\ data' = data /\ Emulator!Continue
        /\ ramio_address = wrap(rs1_data_out + instr.imm)
        /\ ~Emulator!outside(ramio_address)
    BY <1>1, <1>5, <2>1, AccessEnds
  <2>3. /\ ~Emulator!outside(retiring_pc) /\ Emulator!instruction = instr
        /\ Emulator!load_address = ramio_address
    BY <1>1, <2>2, SameInstruction
  <2>4. instr.op = "load"
    BY <1>1 DEF Inv, Loading
  <2>5. /\ instr.funct3 \in LoadFunct3
        /\ data_out(memory[ram_word], ramio_read_type)
              = LoadedValue(Emulator!width_of(instr.funct3))
    BY <1>1, <2>2, LoadIsBusLoad
  <2>6. Emulator!Write(LoadedValue(Emulator!width_of(instr.funct3)))
    BY <1>1, <2>1, <2>2, <2>3, <2>5, WritingBack DEF Emulator!Write
  <2>7. Emulator!Execute("load")
    <3>1. instr.well_formed
      BY <1>1 DEF Inv, Loading, Exit
    <3> QED
      BY <1>5, <2>3, <2>4, <3>1 DEF Emulator!Execute, Exit
  <2>8. ram_bytes' = ram_bytes
    BY <1>2 DEF ram_bytes
  <2>9. Emulator!TickLoad
    BY <2>2, <2>3, <2>5, <2>6, <2>7, <2>8, SameInstructions
       DEF Emulator!TickLoad, LoadedValue
  <2> QED
    BY <2>9 DEF Emulator!Next, Emulator!Tick
<1> QED
  BY <1>3, <1>4, <1>5

LEMMA StepRefines == Inv /\ [Next]_vars => [Emulator!Next]_(Emulator!vars)
<1> SUFFICES ASSUME Inv, [Next]_vars
             PROVE  Emulator!Next \/ UNCHANGED Emulator!vars
  OBVIOUS
<1>1. ASSUME Kept, Exit' <=> Exit PROVE UNCHANGED Emulator!vars
  <2>1. (led = 0 \/ strayed)' = (led = 0 \/ strayed)
    BY <1>1 DEF Exit
  <2> QED
    BY <1>1, <2>1 DEF Kept, Emulator!vars
<1>2. CASE UNCHANGED vars
  BY <1>1, <1>2 DEF vars, coreVars, requestVars, Kept, Exit, retiring_pc, registers, instr, ram_bytes
<1>3. CASE Next /\ Exit
  BY <1>3, ExitIsFinal, OnceStopped
<1>4. CASE Next /\ ~Exit
  <2>1. CASE CpuFetch(ready, memory[ram_word])
    BY <1>1, <1>4, <2>1, FetchRefines
  <2>2. CASE CpuExecute
    BY <1>1, <1>4, <2>2, IllFormedRefines, JumpingRefines, StartAccessRefines
  <2>3. CASE CpuStore(busy)
    BY <1>1, <1>4, <2>3, StoreRefines
  <2>4. CASE CpuLoad(ready, memory[ram_word])
    BY <1>1, <1>4, <2>4, LoadRefines
  <2> QED
    BY <1>4, <2>1, <2>2, <2>3, <2>4 DEF Next, CoreStep
<1> QED
  BY <1>2, <1>3, <1>4

\* The core of core.sv, with registers.sv and the lanes of ramio.sv, executes
\* every program as rv32i::cpu::tick and the emulator's bus do: for every word
\* size, RAM size, encoding, arithmetic and timing of the memory.
THEOREM CoreIsEmulator == Spec => IsEmulator
<1>1. Init => Emulator!Init
  BY InitialEmulator
<1>2. Inv /\ [Next]_vars => [Emulator!Next]_(Emulator!vars)
  BY StepRefines
<1> QED
  BY <1>1, <1>2, CoreInvariantHolds, PTL DEF Spec, IsEmulator, Emulator!Spec

=============================================================================
