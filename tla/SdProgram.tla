------------------------------- MODULE SdProgram -------------------------------
(***************************************************************************)
(* sdcard_read_blocking and sdcard_write_blocking of os.cpp: what a        *)
(* program does with the registers of an SD card.  Every access is an      *)
(* action with what the register holds as a parameter; the modules that    *)
(* extend this one say what is behind the registers.                       *)
(***************************************************************************)
EXTENDS SectorBuffer

CONSTANTS Bytes,  \* what is in a buffer, among what a byte can be
          NoCall

Contents == [Indices -> Bytes]

Calls == [op : {"read"}, sector : Sectors]
         \cup [op : {"write"}, sector : Sectors, data : Contents]

ASSUME SdProgramAssumption == 0 \in Bytes /\ NoCall \notin Calls

VARIABLES doing,   \* the line of the program
          call,    \* the call, or NoCall
          i,       \* the loop variable
          buffer,  \* buffer512B of the caller
          result   \* what the last read left in it

programVars == <<doing, call, i, buffer, result>>

ProgramInit == /\ doing = "caller" /\ call = NoCall /\ i = 0
               /\ buffer \in Contents /\ result = buffer

CallRead(sector) ==
  /\ doing = "caller" /\ doing' = "wait_to_read"
  /\ call' = [op |-> "read", sector |-> sector] /\ i' = 0
  /\ UNCHANGED <<buffer, result>>

CallWrite(sector, data) ==
  /\ doing = "caller" /\ doing' = "wait_to_write"
  /\ call' = [op |-> "write", sector |-> sector, data |-> data] /\ i' = 0
  /\ buffer' = data
  /\ UNCHANGED result

-----------------------------------------------------------------------------
\* while (*SDCARD_BUSY): the loop is left for what comes after it
after_wait == [w \in {"wait_to_read", "wait_for_read", "wait_to_write", "wait_for_write"} |->
                 CASE w = "wait_to_read"  -> "start_read"
                   [] w = "wait_for_read" -> "read_bytes"
                   [] w = "wait_to_write" -> "write_bytes"
                   [] OTHER               -> "caller"]

SeesBusy(busy) ==
  /\ doing \in DOMAIN after_wait
  /\ doing' = IF busy THEN doing ELSE after_wait[doing]
  /\ call' = IF doing' = "caller" THEN NoCall ELSE call
  /\ UNCHANGED <<i, buffer, result>>

\* *SDCARD_READ_SECTOR = sector
StartsRead == /\ doing = "start_read" /\ doing' = "wait_for_read"
              /\ UNCHANGED <<call, i, buffer, result>>

\* *buffer512B = char(*SDCARD_NEXT_BYTE)
ReadsByte(byte) ==
  /\ doing = "read_bytes"
  /\ buffer' = [buffer EXCEPT ![i] = byte]
  /\ i' = (i + 1) % SectorSize
  /\ IF i' # 0 THEN UNCHANGED <<doing, call, result>>
               ELSE doing' = "caller" /\ call' = NoCall /\ result' = buffer'

\* *SDCARD_NEXT_BYTE = *buffer512B
WritesByte == /\ doing = "write_bytes"
              /\ i' = (i + 1) % SectorSize
              /\ doing' = IF i' = 0 THEN "start_write" ELSE doing
              /\ UNCHANGED <<call, buffer, result>>

\* *SDCARD_WRITE_SECTOR = sector
StartsWrite == /\ doing = "start_write" /\ doing' = "wait_for_write"
               /\ UNCHANGED <<call, i, buffer, result>>
=============================================================================
