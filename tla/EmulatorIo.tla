------------------------------ MODULE EmulatorIo ------------------------------
(***************************************************************************)
(* The I/O addresses of the bus of the emulator (main.cpp) with its SD     *)
(* card, an image in a file (sdcard.hpp), and a program at the other end   *)
(* of the bus.  An access is done in one call of the bus, which returns    *)
(* zero or the number of what is wrong; then the emulator stops.           *)
(***************************************************************************)
EXTENDS SdProgram, FiniteSets

CONSTANTS ImageBytes,     \* bytes of the image file
          OffsetModulus,  \* 2 ^ 64: of a byte offset in the file
          FileFails       \* whether pread and pwrite may fail

ASSUME EmulatorIoAssumption ==
  /\ ImageBytes \in Nat /\ FileFails \in BOOLEAN
  /\ OffsetModulus \in Nat \ {0} /\ OffsetModulus >= ImageBytes

VARIABLES image,                 \* the bytes of the file
          buffer_, buffer_index_,
          status                 \* what the bus returned last

cardVars == <<image, buffer_, buffer_index_>>
vars     == <<programVars, cardVars, status>>

\* a partial sector at the end of the image is not addressable
sector_count == ImageBytes \div SectorSize

\* mutant: the offset has fewer bits
offset_narrow(sector) == (sector * SectorSize) % (OffsetModulus \div 4)

offset(sector) == (sector * SectorSize) % OffsetModulus

Init == /\ ProgramInit
        /\ image \in [0 .. ImageBytes - 1 -> Bytes]
        /\ buffer_ = [k \in Indices |-> 0] /\ buffer_index_ = 0
        /\ status = 0

-----------------------------------------------------------------------------
\* sdcard.hpp
advance == buffer_index_' = (buffer_index_ + 1) % SectorSize

next_byte_store(byte) == /\ buffer_' = [buffer_ EXCEPT ![buffer_index_] = byte]
                         /\ advance /\ UNCHANGED image /\ status' = 0

next_byte_load == advance /\ UNCHANGED <<image, buffer_>> /\ status' = 0

\* mutant: what pread returns is not looked at
read_sector_unchecked(sector) ==
  /\ IF sector < sector_count THEN status' = 0 ELSE status' = 5
  /\ \E n \in Indices \cup {SectorSize} :
       buffer_' = [k \in Indices |-> IF k < n /\ sector < sector_count
                                      THEN image[offset(sector) + k] ELSE buffer_[k]]
  /\ UNCHANGED <<image, buffer_index_>>

\* a transfer that fails may have moved the first bytes of the sector
read_sector(sector) ==
  /\ \/ /\ sector < sector_count /\ status' = 0
        /\ buffer_' = [k \in Indices |-> image[offset(sector) + k]]
     \/ /\ sector >= sector_count /\ status' = 5
        /\ UNCHANGED buffer_
     \/ /\ sector < sector_count /\ FileFails /\ status' = 5
        /\ \E n \in Indices :
             buffer_' = [k \in Indices |-> IF k < n THEN image[offset(sector) + k] ELSE buffer_[k]]
  /\ UNCHANGED <<image, buffer_index_>>

\* the image with the first n bytes of the buffer at the sector
written(sector, n) ==
  [b \in DOMAIN image |->
     IF b \in offset(sector) .. offset(sector) + n - 1 THEN buffer_[b - offset(sector)] ELSE image[b]]

\* mutant: a sector that begins in the image can be written
write_sector_partial(sector) ==
  /\ image' = [b \in 0 .. ImageBytes + SectorSize - 1 |->
                 IF b \in offset(sector) .. offset(sector) + SectorSize - 1
                   THEN buffer_[b - offset(sector)] ELSE IF b < ImageBytes THEN image[b] ELSE 0]
  /\ status' = 0
  /\ UNCHANGED <<buffer_, buffer_index_>>

write_sector(sector) ==
  /\ \/ sector < sector_count /\ status' = 0 /\ image' = written(sector, SectorSize)
     \/ sector >= sector_count /\ status' = 4 /\ UNCHANGED image
     \/ /\ sector < sector_count /\ FileFails /\ status' = 4
        /\ \E n \in Indices : image' = written(sector, n)
  /\ UNCHANGED <<buffer_, buffer_index_>>

-----------------------------------------------------------------------------
\* the addresses whose access is an error, with the status of the bus
store_errors == [sdcard_busy |-> 2, sdcard_status |-> 3, uart_in |-> 6]
load_errors  == [sdcard_read_sector |-> 7, sdcard_write_sector |-> 8, led |-> 9]

bus_store(address, data) ==
  CASE address \in DOMAIN store_errors    -> status' = store_errors[address] /\ UNCHANGED cardVars
    [] address = "sdcard_next_byte"    -> next_byte_store(data)
    [] address = "sdcard_write_sector" -> write_sector(data)
    [] address = "sdcard_read_sector"  -> read_sector(data)
    [] OTHER -> status' = 0 /\ UNCHANGED cardVars  \* led, uart_out

bus_load(address) ==
  CASE address \in DOMAIN load_errors  -> status' = load_errors[address] /\ UNCHANGED cardVars
    [] address = "sdcard_next_byte" -> next_byte_load
    [] OTHER -> status' = 0 /\ UNCHANGED cardVars  \* sdcard_busy, sdcard_status, uart_in, uart_out

\* mutant: the byte is returned for busy as well
loaded_byte(address) == CASE address \in {"sdcard_busy", "sdcard_next_byte"} -> buffer_[buffer_index_]

\* what a load returns: a transfer is over when the store that starts it is
loaded(address) == CASE address = "sdcard_busy"      -> 0
                     [] address = "sdcard_next_byte" -> buffer_[buffer_index_]

-----------------------------------------------------------------------------
\* main: an error of the bus is the end of the program
Running == status = 0

Caller == \/ \E s \in Sectors : CallRead(s)
          \/ \E s \in Sectors, d \in Contents : CallWrite(s, d)

\* an access of the program and the call of the bus it leads to
Access == \/ SeesBusy(loaded("sdcard_busy") # 0) /\ bus_load("sdcard_busy")
          \/ StartsRead  /\ bus_store("sdcard_read_sector", call.sector)
          \/ ReadsByte(loaded("sdcard_next_byte")) /\ bus_load("sdcard_next_byte")
          \/ WritesByte  /\ bus_store("sdcard_next_byte", buffer[i])
          \/ StartsWrite /\ bus_store("sdcard_write_sector", call.sector)

\* the other accesses of a program, by mistake or of another device
OtherAccess ==
  /\ doing = "caller"
  /\ \/ \E address \in DOMAIN store_errors \cup {"led", "uart_out"} : bus_store(address, 0)
     \/ \E address \in DOMAIN load_errors \cup {"sdcard_status", "uart_in", "uart_out"} : bus_load(address)
  /\ UNCHANGED programVars

Next == Running /\ (Access \/ OtherAccess \/ (Caller /\ UNCHANGED <<cardVars, status>>))

Spec == Init /\ [][Next]_vars /\ WF_vars(Running /\ Access)
-----------------------------------------------------------------------------
\* sector s of the image; what is past the end cannot be stored
sector_of(s) == IF s < sector_count THEN [k \in Indices |-> image[s * SectorSize + k]]
                                    ELSE [k \in Indices |-> 0]

Reading == {"wait_to_read", "start_read", "wait_for_read", "read_bytes"}
Writing == {"wait_to_write", "write_bytes", "start_write", "wait_for_write"}

Store == INSTANCE SectorStore WITH stored <- [s \in Sectors |-> sector_of(s)], Crashes <- FALSE

\* The image never grows, whatever is written (sdcard.hpp checks the sector,
\* not the offset), and the index stays in the buffer.
TypeOK == /\ image \in [0 .. ImageBytes - 1 -> Bytes]
          /\ buffer_ \in Contents /\ buffer_index_ \in Indices
          /\ buffer \in Contents /\ result \in Contents /\ i \in Indices
          /\ status \in 0 .. 9

\* where the program is in its call
InCall ==
  /\ call \in Calls \cup {NoCall}
  /\ doing \in {"caller"} \cup Reading \cup Writing
  /\ (doing = "caller") <=> (call = NoCall)
  /\ doing \in Reading => call.op = "read"
  /\ doing \in Writing => call.op = "write" /\ buffer = call.data
  /\ doing \notin {"read_bytes", "write_bytes"} => i = 0

\* how far the transfer between the two buffers has come
InStep ==
  /\ buffer_index_ = i
  /\ doing = "write_bytes" => \A k \in 0 .. i - 1 : buffer_[k] = buffer[k]
  /\ doing \in {"start_write", "wait_for_write"} => buffer_ = buffer
  /\ doing = "read_bytes"  => \A k \in 0 .. i - 1 : buffer[k] = buffer_[k]

\* what the image has to do with it
InImage ==
  Running /\ doing \in {"wait_for_read", "read_bytes", "wait_for_write"}
    => call.sector < sector_count /\ buffer_ = sector_of(call.sector)

\* The program and the card agree on where they are, whatever failures came
\* before and with accesses of other registers (none of sdcard_next_byte) between
\* those of a call: the index of the card is that of the loop, what is to be
\* written is in the buffer as far as the loop has come, and while the emulator
\* runs the buffer holds the sector that is read, the image the one written.
Inv == TypeOK /\ InCall /\ InStep /\ InImage

\* As long as the emulator runs its card is the store the programs expect: a
\* whole transfer brings the index of the card back to where the next one starts,
\* a read returns what the last write of the sector stored, a call for a sector
\* past the end never returns, and of a transfer that fails half way the program
\* sees nothing: the emulator has stopped before it can read the buffer.
ImplementsStore == Store!Init /\ [][Running' => [Store!Next]_(Store!vars)]_vars

\* Every call returns or stops the emulator.
EveryCallEnds == call # NoCall ~> call = NoCall \/ ~Running

\* A write changes bytes of its own sector only, also one that fails half
\* way; the bytes of the partial sector are never changed.
OnlyTheSectorChanges ==
  [][\A b \in 0 .. ImageBytes - 1 :
       image'[b] # image[b] => /\ call # NoCall /\ call.op = "write"
                               /\ b \div SectorSize = call.sector
                               /\ call.sector < sector_count]_vars
=============================================================================
