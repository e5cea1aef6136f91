------------------------------ MODULE SectorStore ------------------------------
(***************************************************************************)
(* What the blocking calls of the programs promise about an SD card: a     *)
(* write is over when the sector holds the data, a read returns what the   *)
(* sector holds, and no other sector changes.  A crash ends a call; its    *)
(* sector then holds what it held or all of what was to be written.        *)
(***************************************************************************)
EXTENDS Integers

CONSTANTS Sectors, Contents, NoCall,
          Crashes  \* whether the program may be reset

VARIABLES stored,  \* sector to contents
          call,    \* the call that is not over, or NoCall
          result   \* what the last read returned

vars == <<stored, call, result>>

Calls == [op : {"read"}, sector : Sectors]
         \cup [op : {"write"}, sector : Sectors, data : Contents]

Init == stored \in [Sectors -> Contents] /\ call = NoCall /\ result \in Contents

Call == /\ call = NoCall /\ call' \in Calls
        /\ UNCHANGED <<stored, result>>

Store == /\ call # NoCall /\ call.op = "write"
         /\ stored' = [stored EXCEPT ![call.sector] = call.data]
         /\ UNCHANGED <<call, result>>

ReturnRead == /\ call # NoCall /\ call.op = "read" /\ call' = NoCall
              /\ result' = stored[call.sector]
              /\ UNCHANGED stored

ReturnWrite == /\ call # NoCall /\ call.op = "write" /\ call' = NoCall
               /\ stored[call.sector] = call.data
               /\ UNCHANGED <<stored, result>>

Crash == /\ Crashes /\ call # NoCall /\ call' = NoCall
         /\ UNCHANGED <<stored, result>>

Next == Call \/ Store \/ ReturnRead \/ ReturnWrite \/ Crash

Spec == Init /\ [][Next]_vars

\* every call is over some time
CallsReturn == call # NoCall ~> call = NoCall
=============================================================================
