--------------------------- MODULE EmulatorIoProofs ---------------------------
(***************************************************************************)
(* Proofs about EmulatorIo: where the bytes of a sector are in the image,  *)
(* one lemma per access for the invariant, one per access for the store    *)
(* the card implements, then the theorems.                                 *)
(***************************************************************************)
EXTENDS EmulatorIo, TLAPS

\* The bytes of an addressable sector are bytes of the image, at an offset that
\* does not wrap.
LEMMA SectorInImage ==
  ASSUME NEW s \in Nat, s < sector_count, NEW k \in Indices
  PROVE  /\ offset(s) = s * SectorSize
         /\ s * SectorSize + k \in 0 .. ImageBytes - 1
         /\ (s * SectorSize + k) \div SectorSize = s
<1>1. s * SectorSize + SectorSize <= ImageBytes
  <2>1. /\ SectorSize \in Nat \ {0} /\ ImageBytes \in Nat
        /\ s < ImageBytes \div SectorSize
    BY SectorBufferAssumption, EmulatorIoAssumption DEF sector_count
  <2> HIDE DEF sector_count
  <2> QED
    BY <2>1
<1>2. s * SectorSize \in Nat
  BY SectorBufferAssumption
<1>3. offset(s) = s * SectorSize
  BY <1>1, <1>2, SectorBufferAssumption, EmulatorIoAssumption DEF offset
<1>4. s * SectorSize + k \in 0 .. ImageBytes - 1
  BY <1>1, <1>2, SectorBufferAssumption, EmulatorIoAssumption DEF Indices
<1>5. (s * SectorSize + k) \div SectorSize = s
  BY SectorBufferAssumption DEF Indices
<1> QED
  BY <1>3, <1>4, <1>5

\* Two sectors have no byte in common.
LEMMA OneSectorPerByte ==
  ASSUME NEW s \in Nat, NEW t \in Nat, NEW k \in Indices, NEW l \in Indices,
         s * SectorSize + k = t * SectorSize + l
  PROVE  s = t /\ k = l
<1>1. s = t
  BY SectorBufferAssumption DEF Indices
<1> QED
  BY <1>1, SectorBufferAssumption DEF Indices

LEMMA SectorTypes ==
  ASSUME image \in [0 .. ImageBytes - 1 -> Bytes], NEW s \in Sectors
  PROVE  sector_of(s) \in Contents
<1>1. CASE s < sector_count
  BY <1>1, SectorInImage, SectorBufferAssumption DEF sector_of, Contents
<1>2. CASE ~(s < sector_count)
  BY <1>2, SdProgramAssumption DEF sector_of, Contents
<1> QED
  BY <1>1, <1>2

\* A byte of the image after the first n bytes of the buffer were written.
LEMMA WrittenBytes ==
  ASSUME TypeOK, NEW s \in Nat, s < sector_count, NEW n \in 0 .. SectorSize
  PROVE  /\ written(s, n) \in [0 .. ImageBytes - 1 -> Bytes]
         /\ \A k \in Indices :
              written(s, n)[s * SectorSize + k]
                = IF k < n THEN buffer_[k] ELSE image[s * SectorSize + k]
         /\ \A b \in 0 .. ImageBytes - 1 : b \div SectorSize # s => written(s, n)[b] = image[b]
         /\ \A t \in Nat, k \in Indices : t # s /\ t < sector_count
              => written(s, n)[t * SectorSize + k] = image[t * SectorSize + k]
<1>a. SectorSize \in Nat \ {0} /\ ImageBytes \in Nat /\ s * SectorSize \in Nat
  BY SectorBufferAssumption, EmulatorIoAssumption
<1>b. offset(s) = s * SectorSize
  BY <1>a, SectorInImage DEF Indices
<1>c. DOMAIN image = 0 .. ImageBytes - 1
  BY DEF TypeOK
<1>1. ASSUME NEW b \in 0 .. ImageBytes - 1
      PROVE  written(s, n)[b] = IF b \in s * SectorSize .. s * SectorSize + n - 1
                                THEN buffer_[b - s * SectorSize] ELSE image[b]
  BY <1>b, <1>c DEF written
<1>2. ASSUME NEW b \in 0 .. ImageBytes - 1, b \in s * SectorSize .. s * SectorSize + n - 1
      PROVE  b - s * SectorSize \in Indices /\ b \div SectorSize = s
  <2>1. b - s * SectorSize \in Indices
    BY <1>a, <1>2 DEF Indices
  <2>2. b = s * SectorSize + (b - s * SectorSize)
    BY <1>a
  <2> QED
    BY <2>1, <2>2, SectorInImage
<1>3. written(s, n) \in [0 .. ImageBytes - 1 -> Bytes]
  <2>1. \A b \in 0 .. ImageBytes - 1 : written(s, n)[b] \in Bytes
    BY <1>1, <1>2 DEF TypeOK, Contents
  <2>2. written(s, n) = [b \in 0 .. ImageBytes - 1 |-> written(s, n)[b]]
    BY <1>c DEF written
  <2> QED
    BY <2>1, <2>2
<1>4. ASSUME NEW k \in Indices
      PROVE  written(s, n)[s * SectorSize + k]
               = IF k < n THEN buffer_[k] ELSE image[s * SectorSize + k]
  <2> DEFINE b == s * SectorSize + k
  <2>1. b \in 0 .. ImageBytes - 1
    BY SectorInImage
  <2>2. b \in s * SectorSize .. s * SectorSize + n - 1 <=> k < n
    BY <1>a DEF Indices
  <2>3. b - s * SectorSize = k
    BY <1>a DEF Indices
  <2> HIDE DEF b
  <2>4. written(s, n)[b] = IF k < n THEN buffer_[k] ELSE image[b]
    BY <1>1, <2>1, <2>2, <2>3
  <2> QED
    BY <2>4 DEF b
<1>5. ASSUME NEW b \in 0 .. ImageBytes - 1, b \div SectorSize # s
      PROVE  written(s, n)[b] = image[b]
  BY <1>1, <1>2, <1>5
<1>6. ASSUME NEW t \in Nat, NEW k \in Indices, t # s, t < sector_count
      PROVE  written(s, n)[t * SectorSize + k] = image[t * SectorSize + k]
  BY <1>5, <1>6, SectorInImage
<1> QED
  BY <1>3, <1>4, <1>5, <1>6

\* The index that both ends count around.
LEMMA NextIndex ==
  ASSUME NEW k \in Indices
  PROVE  /\ (k + 1) % SectorSize \in Indices
         /\ (k + 1) % SectorSize = IF k = SectorSize - 1 THEN 0 ELSE k + 1
<1>1. SectorSize \in Nat \ {0} /\ k \in 0 .. SectorSize - 1
  BY SectorBufferAssumption DEF Indices
<1>2. CASE k = SectorSize - 1
  BY <1>1, <1>2 DEF Indices
<1>3. CASE k + 1 < SectorSize
  BY <1>1, <1>3 DEF Indices
<1> QED
  BY <1>1, <1>2, <1>3

-----------------------------------------------------------------------------
(* What the bus does for the addresses the program uses, and for the others. *)

LEMMA BusOfProgram ==
  /\ loaded("sdcard_busy") = 0
  /\ loaded("sdcard_next_byte") = buffer_[buffer_index_]
  /\ bus_load("sdcard_busy") => status' = 0 /\ UNCHANGED cardVars
  /\ bus_load("sdcard_next_byte") => next_byte_load
  /\ \A d : /\ bus_store("sdcard_next_byte", d) => next_byte_store(d)
            /\ bus_store("sdcard_read_sector", d) => read_sector(d)
            /\ bus_store("sdcard_write_sector", d) => write_sector(d)
<1>1. /\ loaded("sdcard_busy") = 0
      /\ loaded("sdcard_next_byte") = buffer_[buffer_index_]
  BY DEF loaded
<1>2. /\ DOMAIN store_errors = {"sdcard_busy", "sdcard_status", "uart_in"}
      /\ DOMAIN load_errors = {"sdcard_read_sector", "sdcard_write_sector", "led"}
  BY DEF store_errors, load_errors
<1>3. /\ bus_load("sdcard_busy") => status' = 0 /\ UNCHANGED cardVars
      /\ bus_load("sdcard_next_byte") => next_byte_load
  BY <1>2 DEF bus_load
<1>4. ASSUME NEW d
      PROVE  /\ bus_store("sdcard_next_byte", d) => next_byte_store(d)
             /\ bus_store("sdcard_read_sector", d) => read_sector(d)
             /\ bus_store("sdcard_write_sector", d) => write_sector(d)
  BY <1>2 DEF bus_store
<1> QED
  BY <1>1, <1>3, <1>4

LEMMA BusOfOthers ==
  ASSUME OtherAccess
  PROVE  UNCHANGED <<programVars, cardVars>> /\ status' \in 0 .. 9
<1>1. /\ DOMAIN store_errors = {"sdcard_busy", "sdcard_status", "uart_in"}
      /\ DOMAIN load_errors = {"sdcard_read_sector", "sdcard_write_sector", "led"}
  BY DEF store_errors, load_errors
<1>2. ASSUME NEW address \in DOMAIN store_errors \cup {"led", "uart_out"},
             bus_store(address, 0)
      PROVE  UNCHANGED cardVars /\ status' \in 0 .. 9
  BY <1>1, <1>2 DEF bus_store, store_errors
<1>3. ASSUME NEW address \in DOMAIN load_errors \cup {"sdcard_status", "uart_in", "uart_out"},
             bus_load(address)
      PROVE  UNCHANGED cardVars /\ status' \in 0 .. 9
  BY <1>1, <1>3 DEF bus_load, load_errors
<1> QED
  BY <1>2, <1>3 DEF OtherAccess

LEMMA SectorUnchanged ==
  ASSUME UNCHANGED image
  PROVE  \A s : sector_of(s)' = sector_of(s)
BY DEF sector_of

-----------------------------------------------------------------------------
(* The invariant, one lemma per access. *)

LEMMA InitInv ==
  ASSUME Init
  PROVE  Inv
<1>1. TypeOK
  BY SectorBufferAssumption, SdProgramAssumption DEF Init, ProgramInit, TypeOK, Contents, Indices
<1> QED
  BY <1>1 DEF Init, ProgramInit, Inv, InCall, InStep, InImage, Reading, Writing

\* where the call is, from the line of the program
LEMMA CallOf ==
  ASSUME InCall, doing # "caller"
  PROVE  /\ call \in Calls /\ call # NoCall
         /\ call.sector \in Sectors /\ call.sector \in Nat
<1>1. call \in Calls
  BY DEF InCall
<1> QED
  BY <1>1, SdProgramAssumption, SectorBufferAssumption DEF Calls

LEMMA CallerInv ==
  ASSUME Inv, Caller, UNCHANGED <<cardVars, status>>
  PROVE  Inv'
<1>1. ASSUME NEW s \in Sectors, CallRead(s)
      PROVE  Inv'
  <2>0. i' = 0 /\ buffer' = buffer /\ result' = result /\ UNCHANGED <<cardVars, status>>
    BY <1>1 DEF CallRead
  <2>1. call' \in Calls /\ call'.op = "read" /\ doing' = "wait_to_read"
    BY <1>1 DEF CallRead, Calls
  <2>2. TypeOK'
    BY <2>0, SectorBufferAssumption DEF Inv, TypeOK, cardVars, Indices, Contents
  <2>3. InCall'
    BY <1>1, <2>1, SdProgramAssumption DEF InCall, CallRead, Reading, Writing
  <2> QED
    BY <1>1, <2>1, <2>2, <2>3 DEF Inv, InCall, InStep, InImage, CallRead, cardVars
<1>2. ASSUME NEW s \in Sectors, NEW d \in Contents, CallWrite(s, d)
      PROVE  Inv'
  <2>0. i' = 0 /\ buffer' \in Contents /\ result' = result /\ UNCHANGED <<cardVars, status>>
    BY <1>2 DEF CallWrite
  <2>1. /\ call' \in Calls /\ call'.op = "write" /\ call'.data = buffer'
        /\ doing' = "wait_to_write"
    BY <1>2 DEF CallWrite, Calls
  <2>2. TypeOK'
    BY <2>0, SectorBufferAssumption DEF Inv, TypeOK, cardVars, Indices, Contents
  <2>3. InCall'
    BY <1>2, <2>1, SdProgramAssumption DEF InCall, CallWrite, Reading, Writing
  <2> QED
    BY <1>2, <2>1, <2>2, <2>3 DEF Inv, InCall, InStep, InImage, CallWrite, cardVars
<1> QED
  BY <1>1, <1>2 DEF Caller

LEMMA OtherAccessInv ==
  ASSUME Inv, OtherAccess
  PROVE  Inv'
<1>1. UNCHANGED <<programVars, cardVars>> /\ status' \in 0 .. 9 /\ doing = "caller"
  BY BusOfOthers DEF OtherAccess
<1>2. TypeOK'
  BY <1>1 DEF Inv, TypeOK, programVars, cardVars
<1> QED
  BY <1>1, <1>2 DEF Inv, InCall, InStep, InImage, programVars, cardVars

LEMMA SeesBusyInv ==
  ASSUME Inv, Running, SeesBusy(loaded("sdcard_busy") # 0), bus_load("sdcard_busy")
  PROVE  Inv'
<1>1. status' = 0 /\ UNCHANGED cardVars /\ UNCHANGED <<i, buffer, result>>
  BY BusOfProgram DEF SeesBusy
<1>2. TypeOK'
  BY <1>1 DEF Inv, TypeOK, cardVars
<1>3. \/ doing = "wait_to_read" /\ doing' = "start_read" /\ call' = call
      \/ doing = "wait_for_read" /\ doing' = "read_bytes" /\ call' = call
      \/ doing = "wait_to_write" /\ doing' = "write_bytes" /\ call' = call
      \/ doing = "wait_for_write" /\ doing' = "caller" /\ call' = NoCall
  BY BusOfProgram DEF SeesBusy, after_wait
<1>4. call # NoCall
  BY <1>3, CallOf DEF Inv
<1>5. InCall'
  BY <1>1, <1>3, <1>4 DEF Inv, InCall, Reading, Writing
<1>6. InStep'
  <2>1. i = 0
    BY <1>3 DEF Inv, InCall
  <2>2. /\ doing' \in {"start_read", "read_bytes", "write_bytes", "caller"}
        /\ buffer_index_' = buffer_index_ /\ i' = i /\ buffer_index_ = i
    BY <1>1, <1>3 DEF Inv, InStep, cardVars
  <2> QED
    BY <2>1, <2>2 DEF InStep
<1>7. InImage'
  BY <1>1, <1>3 DEF Inv, InImage, Running, cardVars, sector_of
<1> QED
  BY <1>2, <1>5, <1>6, <1>7 DEF Inv

LEMMA StartsReadInv ==
  ASSUME Inv, Running, StartsRead, bus_store("sdcard_read_sector", call.sector)
  PROVE  Inv'
<1>1. /\ read_sector(call.sector)
      /\ UNCHANGED <<call, i, buffer, result, image, buffer_index_>>
      /\ doing = "start_read" /\ doing' = "wait_for_read"
  BY BusOfProgram DEF StartsRead, read_sector
<1>2. call.sector \in Nat
  BY <1>1, CallOf DEF Inv
<1>3. ASSUME NEW s \in Nat, read_sector(s)
      PROVE  /\ buffer_' \in Contents /\ status' \in {0, 5}
             /\ status' = 0 => s < sector_count /\ buffer_' = sector_of(s)
  <2>1. CASE /\ s < sector_count /\ status' = 0
             /\ buffer_' = [k \in Indices |-> image[offset(s) + k]]
    BY <2>1, SectorInImage DEF Inv, TypeOK, Contents, sector_of
  <2>2. CASE s >= sector_count /\ status' = 5 /\ UNCHANGED buffer_
    BY <2>2 DEF Inv, TypeOK
  <2>3. CASE /\ s < sector_count /\ status' = 5
             /\ \E n \in Indices :
                  buffer_' = [k \in Indices |-> IF k < n THEN image[offset(s) + k] ELSE buffer_[k]]
    BY <2>3, SectorInImage DEF Inv, TypeOK, Contents
  <2> QED
    BY <1>3, <2>1, <2>2, <2>3 DEF read_sector
<1>4. /\ buffer_' \in Contents /\ status' \in {0, 5}
      /\ status' = 0 => call.sector < sector_count /\ buffer_' = sector_of(call.sector)
  BY <1>1, <1>2, <1>3
<1>5. TypeOK'
  <2>1. /\ UNCHANGED <<i, buffer, result, image, buffer_index_>>
        /\ buffer_' \in Contents /\ status' \in {0, 5}
    BY <1>1, <1>4
  <2> QED
    BY <2>1 DEF Inv, TypeOK, Indices, Contents
<1>6. InCall'
  BY <1>1 DEF Inv, InCall, Reading, Writing
<1>7. InStep'
  BY <1>1 DEF Inv, InStep
<1>8. InImage'
  BY <1>1, <1>4 DEF Inv, InImage, Running, sector_of
<1> QED
  BY <1>5, <1>6, <1>7, <1>8 DEF Inv

LEMMA ReadsByteInv ==
  ASSUME Inv, Running, ReadsByte(loaded("sdcard_next_byte")), bus_load("sdcard_next_byte")
  PROVE  Inv'
<1>1. /\ status' = 0 /\ UNCHANGED <<image, buffer_>>
      /\ buffer_index_' = i' /\ i' = (i + 1) % SectorSize
      /\ buffer' = [buffer EXCEPT ![i] = buffer_[i]]
      /\ doing = "read_bytes"
  BY BusOfProgram DEF ReadsByte, next_byte_load, advance, Inv, InStep
<1>2. /\ i \in Indices /\ i' \in Indices /\ i \in Int
      /\ i' # 0 => i' = i + 1
  <2>1. i \in Indices /\ i' = (i + 1) % SectorSize
    BY <1>1 DEF Inv, TypeOK
  <2> QED
    BY <2>1, NextIndex, SectorBufferAssumption DEF Indices
<1>3. \/ i' # 0 /\ UNCHANGED <<doing, call, result>>
      \/ i' = 0 /\ doing' = "caller" /\ call' = NoCall /\ result' = buffer'
  BY DEF ReadsByte
<1>4. buffer' \in Contents /\ result' \in Contents
  BY <1>1, <1>2, <1>3 DEF Inv, TypeOK, Contents
<1>5. TypeOK'
  BY <1>1, <1>2, <1>4 DEF Inv, TypeOK, Contents, Indices
<1>6. InCall'
  BY <1>1, <1>3 DEF Inv, InCall, Reading, Writing
<1>7. \A k \in 0 .. i : buffer'[k] = buffer_[k]
  BY <1>1, <1>2 DEF Inv, TypeOK, InStep, Indices, Contents
<1>8. InStep'
  BY <1>1, <1>2, <1>3, <1>7 DEF InStep
<1>9. InImage'
  BY <1>1, <1>3 DEF Inv, InImage, Running, sector_of
<1> QED
  BY <1>5, <1>6, <1>8, <1>9 DEF Inv

LEMMA WritesByteInv ==
  ASSUME Inv, Running, WritesByte, bus_store("sdcard_next_byte", buffer[i])
  PROVE  Inv'
<1>1. /\ status' = 0 /\ UNCHANGED <<image, buffer, call, result>>
      /\ buffer_index_' = i' /\ i' = (i + 1) % SectorSize
      /\ buffer_' = [buffer_ EXCEPT ![i] = buffer[i]]
      /\ doing = "write_bytes" /\ doing' = IF i' = 0 THEN "start_write" ELSE doing
  BY BusOfProgram DEF WritesByte, next_byte_store, advance, Inv, InStep
<1>2. /\ i \in Indices /\ i' \in Indices /\ i \in Int
      /\ i' # 0 => i' = i + 1
      /\ i' = 0 => i = SectorSize - 1
  <2>1. i \in Indices /\ i' = (i + 1) % SectorSize
    BY <1>1 DEF Inv, TypeOK
  <2> QED
    BY <2>1, NextIndex, SectorBufferAssumption DEF Indices
<1>3. buffer_' \in Contents
  BY <1>1, <1>2 DEF Inv, TypeOK, Contents
<1>4. TypeOK'
  BY <1>1, <1>2, <1>3 DEF Inv, TypeOK, Contents, Indices
<1>5. InCall'
  BY <1>1 DEF Inv, InCall, Reading, Writing
<1>6. \A k \in 0 .. i : buffer_'[k] = buffer[k]
  BY <1>1, <1>2 DEF Inv, TypeOK, InStep, Indices, Contents
<1>7. i' = 0 => buffer_' = buffer
  BY <1>2, <1>3, <1>6 DEF Inv, TypeOK, Indices, Contents
<1>8. InStep'
  BY <1>1, <1>2, <1>6, <1>7 DEF InStep
<1>9. InImage'
  BY <1>1 DEF InImage
<1> QED
  BY <1>4, <1>5, <1>8, <1>9 DEF Inv

LEMMA WholeSectorWritten ==
  ASSUME TypeOK, NEW s \in Nat, s < sector_count, image' = written(s, SectorSize)
  PROVE  /\ sector_of(s)' = buffer_
         /\ \A t \in Nat : t # s => sector_of(t)' = sector_of(t)
<1>1. SectorSize \in 0 .. SectorSize /\ \A k \in Indices : k < SectorSize
  BY SectorBufferAssumption DEF Indices
<1>2. \A k \in Indices : image'[s * SectorSize + k] = buffer_[k]
  BY <1>1, WrittenBytes
<1>3. \A t \in Nat, k \in Indices : t # s /\ t < sector_count
        => image'[t * SectorSize + k] = image[t * SectorSize + k]
  BY <1>1, WrittenBytes
<1> QED
  BY <1>2, <1>3 DEF sector_of, TypeOK, Contents

LEMMA WriteSector ==
  ASSUME TypeOK, NEW s \in Nat, write_sector(s)
  PROVE  /\ UNCHANGED <<buffer_, buffer_index_>> /\ status' \in {0, 4}
         /\ image' \in [0 .. ImageBytes - 1 -> Bytes]
         /\ status' = 0 => s < sector_count /\ image' = written(s, SectorSize)
         /\ \A b \in 0 .. ImageBytes - 1 :
              image'[b] # image[b] => s < sector_count /\ b \div SectorSize = s
<1>1. Indices \subseteq 0 .. SectorSize /\ SectorSize \in 0 .. SectorSize
  BY SectorBufferAssumption DEF Indices
<1>2. CASE s < sector_count /\ \E n \in 0 .. SectorSize : image' = written(s, n)
  <2>1. PICK n \in 0 .. SectorSize : image' = written(s, n)
    BY <1>2
  <2> QED
    BY <1>2, <2>1, WrittenBytes DEF write_sector
<1>3. CASE s >= sector_count /\ status' = 4 /\ UNCHANGED image
  BY <1>3 DEF write_sector, TypeOK
<1> QED
  BY <1>1, <1>2, <1>3 DEF write_sector

LEMMA StartsWriteInv ==
  ASSUME Inv, Running, StartsWrite, bus_store("sdcard_write_sector", call.sector)
  PROVE  Inv'
<1>1. /\ write_sector(call.sector)
      /\ UNCHANGED <<call, i, buffer, result>>
      /\ doing = "start_write" /\ doing' = "wait_for_write"
  BY BusOfProgram DEF StartsWrite
<1>2. call.sector \in Nat
  BY <1>1, CallOf DEF Inv
<1>3. /\ UNCHANGED <<buffer_, buffer_index_>> /\ status' \in {0, 4}
      /\ image' \in [0 .. ImageBytes - 1 -> Bytes]
      /\ status' = 0 => call.sector < sector_count /\ image' = written(call.sector, SectorSize)
  BY <1>1, <1>2, WriteSector DEF Inv
<1>4. status' = 0 => sector_of(call.sector)' = buffer_
  BY <1>1, <1>2, <1>3, WholeSectorWritten DEF Inv
<1>5. TypeOK'
  <2>1. /\ UNCHANGED <<i, buffer, result, buffer_, buffer_index_>>
        /\ image' \in [0 .. ImageBytes - 1 -> Bytes] /\ status' \in {0, 4}
    BY <1>1, <1>3
  <2> QED
    BY <2>1 DEF Inv, TypeOK, Indices, Contents
<1>6. InCall'
  BY <1>1 DEF Inv, InCall, Reading, Writing
<1>7. InStep'
  BY <1>1, <1>3 DEF Inv, InStep
<1>8. InImage'
  BY <1>1, <1>3, <1>4 DEF InImage, Running
<1> QED
  BY <1>5, <1>6, <1>7, <1>8 DEF Inv

LEMMA StepInv ==
  ASSUME Inv, Next
  PROVE  Inv'
BY CallerInv, OtherAccessInv, SeesBusyInv, StartsReadInv, ReadsByteInv, WritesByteInv,
   StartsWriteInv
DEF Next, Access

LEMMA StutterInv ==
  ASSUME Inv, UNCHANGED vars
  PROVE  Inv'
<1>1. TypeOK'
  BY DEF Inv, TypeOK, vars, programVars, cardVars
<1>2. InCall' /\ InStep'
  BY DEF Inv, InCall, InStep, vars, programVars, cardVars
<1>3. InImage'
  BY DEF Inv, InImage, Running, sector_of, vars, programVars, cardVars
<1> QED
  BY <1>1, <1>2, <1>3 DEF Inv

-----------------------------------------------------------------------------
(* The store: the calls are the program's, a sector is what the image holds, *)
(* or zeros past its end, where no write ever arrives.                       *)

LEMMA InitialStore ==
  ASSUME Init
  PROVE  Store!Init
<1>1. image \in [0 .. ImageBytes - 1 -> Bytes]
  BY DEF Init
<1>2. [s \in Sectors |-> sector_of(s)] \in [Sectors -> Contents]
  BY <1>1, SectorTypes
<1> QED
  BY <1>2 DEF Init, ProgramInit, Store!Init

LEMMA SameStore ==
  ASSUME UNCHANGED image
  PROVE  [s \in Sectors |-> sector_of(s)]' = [s \in Sectors |-> sector_of(s)]
BY DEF sector_of

LEMMA CallerRefines ==
  ASSUME Caller, UNCHANGED <<cardVars, status>>, Inv
  PROVE  Store!Call
<1>1. call = NoCall /\ result' = result
  BY DEF Caller, CallRead, CallWrite, Inv, InCall
<1>2. call' \in Store!Calls
  BY DEF Caller, CallRead, CallWrite, Store!Calls
<1> QED
  BY <1>1, <1>2, SameStore DEF Store!Call, cardVars

LEMMA SeesBusyRefines ==
  ASSUME Inv, Running, SeesBusy(loaded("sdcard_busy") # 0), bus_load("sdcard_busy")
  PROVE  Store!ReturnWrite \/ UNCHANGED Store!vars
<1>1. UNCHANGED <<image, buffer_, result>>
  BY BusOfProgram DEF SeesBusy, cardVars
<1>2. CASE doing # "wait_for_write"
  <2>1. call' = call
    BY <1>2, BusOfProgram DEF SeesBusy, after_wait
  <2> QED
    BY <1>1, <2>1, SameStore DEF Store!vars
<1>3. CASE doing = "wait_for_write"
  <2>1. call' = NoCall
    BY <1>3, BusOfProgram DEF SeesBusy, after_wait
  <2>2. call # NoCall /\ call.op = "write" /\ call.sector \in Sectors /\ call.data = buffer
    BY <1>3, CallOf DEF Inv, InCall, Writing
  <2>3. sector_of(call.sector) = call.data
    BY <1>3, <2>2 DEF Inv, InStep, InImage
  <2> QED
    BY <1>1, <2>1, <2>2, <2>3, SameStore DEF Store!ReturnWrite
<1> QED
  BY <1>2, <1>3

LEMMA ReadsByteRefines ==
  ASSUME Inv, Inv', Running, ReadsByte(loaded("sdcard_next_byte")), bus_load("sdcard_next_byte")
  PROVE  Store!ReturnRead \/ UNCHANGED Store!vars
<1>1. UNCHANGED <<image, buffer_>> /\ doing = "read_bytes"
      /\ buffer' = [buffer EXCEPT ![i] = buffer_[i]] /\ i' = (i + 1) % SectorSize
  BY BusOfProgram DEF ReadsByte, next_byte_load, Inv, InStep
<1>2. CASE i' # 0
  BY <1>1, <1>2, SameStore DEF ReadsByte, Store!vars
<1>3. CASE i' = 0
  <2>1. call' = NoCall /\ result' = buffer'
    BY <1>3 DEF ReadsByte
  <2>2. call # NoCall /\ call.op = "read" /\ call.sector \in Sectors
    BY <1>1, CallOf DEF Inv, InCall, Reading
  <2>3. i \in Indices /\ i = SectorSize - 1
    BY <1>1, <1>3, NextIndex, SectorBufferAssumption DEF Inv, TypeOK, Indices
  <2>4. \A k \in 0 .. i - 1 : buffer[k] = buffer_[k]
    BY <1>1 DEF Inv, InStep
  <2>5. buffer' = buffer_
    BY <1>1, <2>3, <2>4 DEF Inv, TypeOK, Indices, Contents
  <2>6. buffer_ = sector_of(call.sector)
    BY <1>1 DEF Inv, InImage
  <2> QED
    BY <1>1, <2>1, <2>2, <2>5, <2>6, SameStore DEF Store!ReturnRead
<1> QED
  BY <1>2, <1>3

LEMMA StartsWriteRefines ==
  ASSUME Inv, Running', StartsWrite, bus_store("sdcard_write_sector", call.sector)
  PROVE  Store!Store
<1>1. /\ write_sector(call.sector) /\ doing = "start_write"
      /\ UNCHANGED <<call, result>>
  BY BusOfProgram DEF StartsWrite
<1>2. /\ call # NoCall /\ call.op = "write" /\ call.data = buffer
      /\ call.sector \in Sectors /\ call.sector \in Nat
  BY <1>1, CallOf DEF Inv, InCall, Writing
<1>3. call.sector < sector_count /\ image' = written(call.sector, SectorSize)
  BY <1>1, <1>2, WriteSector DEF Inv, Running
<1>4. /\ sector_of(call.sector)' = call.data
      /\ \A t \in Sectors : t # call.sector => sector_of(t)' = sector_of(t)
  BY <1>1, <1>2, <1>3, WholeSectorWritten, SectorBufferAssumption DEF Inv, InStep
<1>5. [s \in Sectors |-> sector_of(s)]'
        = [[s \in Sectors |-> sector_of(s)] EXCEPT ![call.sector] = call.data]
  BY <1>1, <1>2, <1>4
<1> QED
  BY <1>1, <1>2, <1>5 DEF Store!Store

LEMMA StepRefines ==
  ASSUME Inv, Inv', [Next]_vars, Running'
  PROVE  [Store!Next]_(Store!vars)
<1>1. CASE UNCHANGED vars
  BY <1>1, SameStore DEF vars, programVars, cardVars, Store!vars
<1>2. CASE Running /\ Caller /\ UNCHANGED <<cardVars, status>>
  BY <1>2, CallerRefines DEF Store!Next
<1>3. CASE Running /\ OtherAccess
  BY <1>3, BusOfOthers, SameStore DEF programVars, cardVars, Store!vars
<1>4. CASE Running /\ SeesBusy(loaded("sdcard_busy") # 0) /\ bus_load("sdcard_busy")
  BY <1>4, SeesBusyRefines DEF Store!Next
<1>5. CASE Running /\ StartsRead /\ bus_store("sdcard_read_sector", call.sector)
  BY <1>5, BusOfProgram, SameStore DEF StartsRead, read_sector, Store!vars
<1>6. CASE Running /\ ReadsByte(loaded("sdcard_next_byte")) /\ bus_load("sdcard_next_byte")
  BY <1>6, ReadsByteRefines DEF Store!Next
<1>7. CASE Running /\ WritesByte /\ bus_store("sdcard_next_byte", buffer[i])
  BY <1>7, BusOfProgram, SameStore DEF WritesByte, next_byte_store, Store!vars
<1>8. CASE Running /\ StartsWrite /\ bus_store("sdcard_write_sector", call.sector)
  BY <1>8, StartsWriteRefines DEF Store!Next
<1> QED
  BY <1>1, <1>2, <1>3, <1>4, <1>5, <1>6, <1>7, <1>8 DEF Next, Access

-----------------------------------------------------------------------------
(* The theorems. *)

\* Program, buffer and image agree in every state, whatever failed.
THEOREM EmulatedCardInvariant == Spec => []Inv
<1>1. Inv /\ [Next]_vars => Inv'
  BY StepInv, StutterInv
<1> QED
  BY <1>1, InitInv, PTL DEF Spec

\* The card of the emulator is the store the programs expect.
THEOREM EmulatedCardIsStore == Spec => ImplementsStore
<1>1. Inv /\ Inv' /\ [Next]_vars => [Running' => [Store!Next]_(Store!vars)]_vars
  BY StepRefines
<1> QED
  BY <1>1, InitialStore, EmulatedCardInvariant, PTL DEF Spec, ImplementsStore

\* No byte outside the sector of the call changes.
THEOREM EmulatedCardKeepsOthers == Spec => OnlyTheSectorChanges
<1>1. ASSUME Inv, Next, NEW b \in 0 .. ImageBytes - 1, image'[b] # image[b]
      PROVE  /\ call # NoCall /\ call.op = "write"
             /\ b \div SectorSize = call.sector
             /\ call.sector < sector_count
  <2>1. StartsWrite /\ bus_store("sdcard_write_sector", call.sector)
    <3>1. Caller /\ UNCHANGED <<cardVars, status>> => UNCHANGED image
      BY DEF cardVars
    <3>2. OtherAccess => UNCHANGED image
      BY BusOfOthers DEF cardVars
    <3>3. ~(StartsWrite /\ bus_store("sdcard_write_sector", call.sector)) /\ Access
            => UNCHANGED image
      BY BusOfProgram DEF Access, cardVars, read_sector, next_byte_load, next_byte_store
    <3> QED
      BY <1>1, <3>1, <3>2, <3>3 DEF Next
  <2>2. doing = "start_write" /\ write_sector(call.sector)
    BY <2>1, BusOfProgram DEF StartsWrite
  <2>3. call # NoCall /\ call.op = "write" /\ call.sector \in Nat
    BY <1>1, <2>2, CallOf DEF Inv, InCall, Writing
  <2> QED
    BY <1>1, <2>2, <2>3, WriteSector DEF Inv
<1>2. Inv /\ [Next]_vars
        => [\A b \in 0 .. ImageBytes - 1 :
              image'[b] # image[b] => /\ call # NoCall /\ call.op = "write"
                                      /\ b \div SectorSize = call.sector
                                      /\ call.sector < sector_count]_vars
  BY <1>1
<1> QED
  BY <1>2, EmulatedCardInvariant, PTL DEF Spec, OnlyTheSectorChanges
=============================================================================
