----------------------------- MODULE MCUartLink -----------------------------
(* UartLink on small instances. *)
EXTENDS UartLink

\* bytes as bits, the least significant first
bits(n) == [i \in BitIndices |-> (n \div 2 ^ i) % 2]

TwoBytes == {bits(1), bits(170)}
=============================================================================
