------------------------------- MODULE UartLink -------------------------------
(***************************************************************************)
(* Two boards, the transmitter of one wired to the receiver of the other.  *)
(* The programs are the ones of os.cpp: uart_send_char writes when UartOut *)
(* reads -1, uart_read_char polls UartIn.                                  *)
(***************************************************************************)
EXTENDS RamioUart, Sequences

CONSTANTS Data,      \* the bytes the sender may write
          PollLimit  \* cycles from one read of UartIn to the next, at most

ASSUME LinkAssumption == Data \subseteq Bytes /\ PollLimit \in Nat \ {0}

VARIABLES ch,         \* the byte uart_read_char returned last
          parity,     \* of the number of bytes it has returned
          since_read  \* cycles since UartIn was read

vars == <<txVars, rxVars, ramioVars, ch, parity, since_read>>

Init == /\ TxInit /\ RxInit /\ RamioInit
        /\ ch = Nothing /\ parity = 0
        /\ since_read = 0

\* uart_send_char
SendChar == /\ uarttx_data_sending = Nothing
            /\ \E byte \in Data : Send(byte)

\* uart_read_char: a read of -1 is tried again
ReadUartIn == /\ Receive(TRUE)
              /\ since_read' = 0
              /\ IF uartrx_data_received = Nothing
                   THEN UNCHANGED <<ch, parity>>
                   ELSE ch' = uartrx_data_received /\ parity' = 1 - parity

LeaveUartIn == /\ since_read + 1 < PollLimit
               /\ Receive(FALSE)
               /\ since_read' = since_read + 1
               /\ UNCHANGED <<ch, parity>>

Next == /\ UartStep(uart_tx)
        /\ SendChar \/ Acknowledge
        /\ ReadUartIn \/ LeaveUartIn

Spec == Init /\ [][Next]_vars /\ WF_vars(Next)

-----------------------------------------------------------------------------
TypeOK ==
  /\ uarttx_state \in FrameStates /\ uartrx_state \in FrameStates
  /\ uarttx_bit_count \in BitIndices /\ uartrx_bit_count \in BitIndices
  /\ uarttx_bit_time_counter \in 0..(TxCounterModulus - 1)
  /\ uartrx_bit_counter \in 0..(RxCounterModulus - 1)
  /\ uartrx_data \in Bytes /\ uartrx_data_ready \in BOOLEAN
  /\ uarttx_data_sending \in Bytes \cup {Nothing} /\ uarttx_go \in BOOLEAN
  /\ uartrx_data_received \in Bytes \cup {Nothing} /\ uartrx_go \in BOOLEAN
  /\ ch \in Bytes \cup {Nothing} /\ parity \in {0, 1}
  /\ since_read \in 0..(PollLimit - 1)

\* Every byte is acknowledged: uart_send_char does not wait for ever.
SendEnds == []<>(uarttx_data_sending = Nothing)

-----------------------------------------------------------------------------
\* A byte that was written and not yet read is in one of three places, in this
\* order of age: the register of ramio.sv, the receiver, the transmitter.
tx_holds_byte == \/ uarttx_go /\ uarttx_state \in {"Idle", "StartBit"}
                 \/ uarttx_state = "DataBits" /\ ~rx_has_sampled_byte

under_way == place(uartrx_data_received # Nothing, uartrx_data_received)
             \o place(rx_holds_byte(uartrx_go), uartrx_data)
             \o place(tx_holds_byte, uarttx_data_sending)

Line == INSTANCE Channel WITH queue <- under_way, Capacity <- 3

\* What one board sends the other reads, every byte once, unchanged and in
\* order, when it reads UartIn once in the time of a frame.
IsChannel == Line!ChannelSpec

-----------------------------------------------------------------------------
(***************************************************************************)
(* The inductive invariant of UartLink for two boards of the same bit time:*)
(* the receiver follows the transmitter half a bit behind, what it has     *)
(* sampled are the bits that were sent, and a byte is read before the next *)
(* one arrives.                                                            *)
(***************************************************************************)
SameBitTime  == TX_BIT_TIME = RX_BIT_TIME
ReadsInTime  == PollLimit <= 10 * TX_BIT_TIME + 2
half_bit     == TX_BIT_TIME \div 2

\* the cycles of the current bit that are over; a stop bit goes on until the
\* transmitter is Idle again
elapsed == CASE uarttx_state = "WaitForGoLow" ->
                  IF uarttx_go THEN TX_BIT_TIME ELSE TX_BIT_TIME + 1
             [] OTHER -> TX_BIT_TIME - 1 - uarttx_bit_time_counter

TxRegisters ==
  /\ uarttx_go <=> uarttx_data_sending # Nothing
  /\ uarttx_state \in {"StartBit", "DataBits", "StopBit"} =>
       uarttx_go /\ uarttx_bit_time_counter < TX_BIT_TIME
  /\ uarttx_state = "StartBit" => elapsed >= 1

RxRegisters ==
  /\ uartrx_data_ready <=> uartrx_state = "WaitForGoLow"
  /\ ~uartrx_go => uartrx_state = "WaitForGoLow"
  /\ uartrx_state # "DataBits" => uartrx_bit_count = 0

-----------------------------------------------------------------------------
\* where the receiver is while the transmitter is in each of its states
Rx(state, ticks) == uartrx_state = state /\ uartrx_bit_counter = ticks

AtStartBit ==
  \/ elapsed <= half_bit /\ Rx("StartBit", half_bit - elapsed)
  \/ /\ elapsed > half_bit
     /\ Rx("DataBits", half_bit + TX_BIT_TIME - elapsed)
     /\ uartrx_bit_count = 0

AtDataBits ==
  \/ /\ elapsed <= half_bit
     /\ Rx("DataBits", half_bit - elapsed)
     /\ uartrx_bit_count = uarttx_bit_count
  \/ /\ elapsed > half_bit /\ uarttx_bit_count < 7
     /\ Rx("DataBits", half_bit + TX_BIT_TIME - elapsed)
     /\ uartrx_bit_count = uarttx_bit_count + 1
  \/ /\ elapsed > half_bit /\ uarttx_bit_count = 7
     /\ Rx("StopBit", half_bit + TX_BIT_TIME - elapsed)

AtStopBit ==
  \/ elapsed <= half_bit /\ Rx("StopBit", half_bit - elapsed)
  \/ elapsed = half_bit + 1 /\ uartrx_state = "WaitForGoLow" /\ uartrx_go
  \/ elapsed = half_bit + 2 /\ uartrx_state = "WaitForGoLow" /\ ~uartrx_go
  \/ elapsed > half_bit + 2 /\ uartrx_state = "Idle"

InStep ==
  /\ uarttx_state = "Idle" => uartrx_state = "Idle"
  /\ uarttx_state = "StartBit" => AtStartBit
  /\ uarttx_state = "DataBits" => AtDataBits
  /\ uarttx_state \in {"StopBit", "WaitForGoLow"} => AtStopBit

-----------------------------------------------------------------------------
Sampled ==
  /\ uartrx_state = "DataBits" =>
       \A i \in BitIndices : i < uartrx_bit_count =>
         uartrx_data[i] = uarttx_data_sending[i]
  /\ rx_holds_byte(uartrx_go) => uartrx_data = uarttx_data_sending

\* cycles since the byte in ramio.sv was copied there, at least
bit_start(k) == TX_BIT_TIME * (k + 1)

since_copied ==
  CASE uarttx_state = "Idle"     -> TX_BIT_TIME - half_bit
    [] uarttx_state = "StartBit" -> TX_BIT_TIME - half_bit + elapsed
    [] uarttx_state = "DataBits" ->
         TX_BIT_TIME - half_bit + bit_start(uarttx_bit_count) + elapsed
    [] OTHER -> IF elapsed < half_bit + 2
                THEN TX_BIT_TIME - half_bit + bit_start(8) + elapsed
                ELSE elapsed - (half_bit + 2)

ReadBeforeNext == uartrx_data_received # Nothing => since_read >= since_copied

Inv == /\ TypeOK
       /\ TxRegisters
       /\ RxRegisters
       /\ InStep
       /\ Sampled
       /\ ReadBeforeNext
=============================================================================
