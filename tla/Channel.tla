-------------------------------- MODULE Channel --------------------------------
(***************************************************************************)
(* What a serial connection promises: the bytes that are written are read, *)
(* each once and in order, and no more than Capacity of them are under way.*)
(***************************************************************************)
EXTENDS Naturals, Sequences

CONSTANTS Data, Capacity, Nothing

VARIABLES queue,  \* bytes written and not yet read
          ch,     \* the byte read last
          parity  \* of the number of bytes read: tells equal bytes apart

channelVars == <<queue, ch, parity>>

ChannelInit == queue = <<>> /\ ch = Nothing /\ parity = 0

Write(byte) == /\ Len(queue) < Capacity
               /\ queue' = Append(queue, byte)
               /\ UNCHANGED <<ch, parity>>

Read == /\ queue # <<>>
        /\ ch' = Head(queue)
        /\ parity' = 1 - parity
        /\ queue' = Tail(queue)

WriteAndRead(byte) == /\ queue # <<>>
                      /\ ch' = Head(queue)
                      /\ parity' = 1 - parity
                      /\ queue' = Append(Tail(queue), byte)

AnyRead == Read \/ \E byte \in Data : WriteAndRead(byte)

ChannelNext == AnyRead \/ \E byte \in Data : Write(byte)

ChannelSafety == ChannelInit /\ [][ChannelNext]_channelVars

ChannelSpec == ChannelSafety /\ WF_channelVars(AnyRead)
=============================================================================
