------------------------------- MODULE Memory -------------------------------
(***************************************************************************)
(* What the memory system promises the CPU, with no cache in it: a memory  *)
(* of byte-addressable words.  A request is answered at once or kept       *)
(* waiting; a store changes the bytes of its mask and nothing else; a load *)
(* returns the word as the stores before it left it.                       *)
(***************************************************************************)
CONSTANTS Addresses,  \* the word addresses
          Bytes,      \* the byte lanes of a word
          Values,     \* what a byte holds
          Requests,   \* the requests the CPU makes
          NoData      \* no word is delivered in this cycle

Words == [Bytes -> Values]

\* the word 'old' after a store of 'new' through the byte mask 'mask'
Merge(old, new, mask) == [b \in Bytes |-> IF b \in mask THEN new[b] ELSE old[b]]

VARIABLES memory, request, data

vars == <<memory, request, data>>

\* A word delivered to the CPU is the one the memory holds at that address.
Answer == data # NoData => /\ request.enable
                           /\ request.write_enable = {}
                           /\ data = memory[request.address]

Init == /\ memory \in [Addresses -> Words]
        /\ request \in Requests
        /\ Answer

\* The request is not answered in this cycle: the CPU holds it.
Wait == /\ request.enable
        /\ UNCHANGED <<memory, request>>

Load == /\ data # NoData
        /\ UNCHANGED memory
        /\ request' \in Requests

Store == /\ request.enable
         /\ request.write_enable # {}
         /\ memory' = [memory EXCEPT ![request.address] =
                         Merge(@, request.data_in, request.write_enable)]
         /\ request' \in Requests

NoRequest == /\ ~request.enable
             /\ UNCHANGED memory
             /\ request' \in Requests

Next == (Wait \/ Load \/ Store \/ NoRequest) /\ Answer'

Spec == Init /\ [][Next]_vars
=============================================================================
