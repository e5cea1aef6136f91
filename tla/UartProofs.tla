------------------------------ MODULE UartProofs ------------------------------
(***************************************************************************)
(* Proofs about UartLink.  First one cycle of each half, alone; then the   *)
(* two halves in step; then the ages of bytes and the invariant; last the  *)
(* refinement of Channel.                                                  *)
(***************************************************************************)
EXTENDS UartLink, SequenceTheorems, TLAPS

(* The arithmetic of half a bit and of counters that wrap. *)

LEMMA HalfBit ==
  ASSUME SameBitTime
  PROVE  /\ TX_BIT_TIME \in Nat /\ TX_BIT_TIME >= 1
         /\ RX_BIT_TIME = TX_BIT_TIME
         /\ half_bit \in Nat /\ half_bit < TX_BIT_TIME
         /\ TX_BIT_TIME # 1 => half_bit >= 1 /\ rx_half_bit = half_bit - 1
         /\ TX_BIT_TIME = 1 => half_bit = 0 /\ rx_half_bit = 0
<1>1. TX_BIT_TIME \in Nat /\ TX_BIT_TIME >= 1 /\ RX_BIT_TIME = TX_BIT_TIME
  BY TxAssumption DEF SameBitTime
<1>2. TX_BIT_TIME \div 2 \in Nat /\ 2 * (TX_BIT_TIME \div 2) <= TX_BIT_TIME
      /\ TX_BIT_TIME <= 2 * (TX_BIT_TIME \div 2) + 1
  BY <1>1
<1> QED
  BY <1>1, <1>2 DEF half_bit, rx_half_bit

LEMMA Predecessor ==
  ASSUME NEW m \in Nat, m >= 1, NEW c \in 0..(m - 1)
  PROVE  /\ (c - 1) % m \in 0..(m - 1)
         /\ c >= 1 => (c - 1) % m = c - 1
<1>1. CASE c >= 1
  <2>1. c - 1 \in 0..(m - 1)
    BY <1>1
  <2>2. (c - 1) % m = c - 1
    BY <2>1
  <2> QED
    BY <2>1, <2>2
<1>2. CASE c = 0
  <2>1. (c - 1) % m = m - 1
    BY <1>2
  <2> QED
    BY <1>2, <2>1
<1> QED
  BY <1>1, <1>2

LEMMA TxTick ==
  ASSUME uarttx_bit_time_counter \in 0..(TxCounterModulus - 1)
  PROVE  /\ tx_next_tick \in 0..(TxCounterModulus - 1)
         /\ uarttx_bit_time_counter >= 1 => tx_next_tick = uarttx_bit_time_counter - 1
BY Predecessor, TxAssumption DEF tx_next_tick

LEMMA RxTick ==
  ASSUME uartrx_bit_counter \in 0..(RxCounterModulus - 1)
  PROVE  /\ rx_next_tick \in 0..(RxCounterModulus - 1)
         /\ uartrx_bit_counter >= 1 => rx_next_tick = uartrx_bit_counter - 1
BY Predecessor, RxAssumption DEF rx_next_tick

-----------------------------------------------------------------------------
(* What one cycle does to the sending half: how elapsed moves on. *)

SendSide == TxStep(uarttx_go) /\ (SendChar \/ Acknowledge)

LEMMA TxTyped ==
  ASSUME TypeOK, SendSide
  PROVE  /\ uarttx_state' \in FrameStates
         /\ uarttx_bit_count' \in BitIndices
         /\ uarttx_bit_time_counter' \in 0..(TxCounterModulus - 1)
         /\ uarttx_data_sending' \in Bytes \cup {Nothing} /\ uarttx_go' \in BOOLEAN
<1> USE DEF TypeOK, FrameStates, BitIndices
<1>1. tx_next_tick \in 0..(TxCounterModulus - 1)
  BY TxTick
<1>2. TX_BIT_TIME - 1 \in 0..(TxCounterModulus - 1)
      /\ tx_start_ticks \in 0..(TxCounterModulus - 1)
  BY TxAssumption DEF tx_start_ticks
<1>3. uarttx_data_sending' \in Bytes \cup {Nothing}
  BY LinkAssumption DEF SendSide, SendChar, Send, Acknowledge
<1>4. uarttx_go' \in BOOLEAN
  BY DEF SendSide, SendChar, Send, Acknowledge
<1>5. CASE TxStart(uarttx_go)
  BY <1>2, <1>3, <1>4, <1>5 DEF TxStart
<1>6. CASE TxStartBit
  BY <1>1, <1>2, <1>3, <1>4, <1>6 DEF TxStartBit
<1>7. CASE TxDataBits
  BY <1>1, <1>2, <1>3, <1>4, <1>7 DEF TxDataBits
<1>8. CASE TxStopBit
  BY <1>1, <1>3, <1>4, <1>8 DEF TxStopBit
<1>9. CASE TxAcknowledged(uarttx_go)
  BY <1>3, <1>4, <1>9 DEF TxAcknowledged
<1>10. CASE TxWaits(uarttx_go)
  BY <1>3, <1>4, <1>10 DEF TxWaits, txVars
<1> QED
  BY <1>5, <1>6, <1>7, <1>8, <1>9, <1>10 DEF SendSide, TxStep

\* while the transmitter is busy nothing changes the byte it sends
LEMMA BusyKeepsByte ==
  ASSUME TypeOK, TxRegisters, SendSide, uarttx_busy(uarttx_go)
  PROVE  uarttx_go' /\ uarttx_data_sending' = uarttx_data_sending
BY DEF TypeOK, TxRegisters, SendSide, SendChar, Acknowledge, sent, uarttx_busy, FrameStates

LEMMA FromIdle ==
  ASSUME TypeOK, TxRegisters, SendSide, uarttx_state = "Idle"
  PROVE  /\ ~uarttx_go => uarttx_state' = "Idle"
         /\ uarttx_go /\ TX_BIT_TIME = 1 =>
              uarttx_state' = "DataBits" /\ uarttx_bit_count' = 0 /\ elapsed' = 0
                /\ uarttx_bit_time_counter' = 0
         /\ uarttx_go /\ TX_BIT_TIME # 1 =>
              uarttx_state' = "StartBit" /\ elapsed' = 1
                /\ uarttx_bit_time_counter' = TX_BIT_TIME - 2
BY TxAssumption
   DEF TypeOK, TxRegisters, SendSide, TxStep, TxStart, TxStartBit, TxDataBits,
       TxStopBit, TxAcknowledged, TxWaits, txVars, tx_start_ticks, elapsed

LEMMA FromStartBit ==
  ASSUME TypeOK, TxRegisters, SendSide, uarttx_state = "StartBit"
  PROVE  /\ elapsed < TX_BIT_TIME - 1 =>
              uarttx_state' = "StartBit" /\ elapsed' = elapsed + 1
                /\ uarttx_bit_time_counter' < TX_BIT_TIME
         /\ elapsed >= TX_BIT_TIME - 1 =>
              uarttx_state' = "DataBits" /\ uarttx_bit_count' = 0 /\ elapsed' = 0
                /\ uarttx_bit_time_counter' < TX_BIT_TIME
BY TxAssumption, TxTick
   DEF TypeOK, TxRegisters, SendSide, TxStep, TxStart, TxStartBit, TxDataBits,
       TxStopBit, TxAcknowledged, TxWaits, tx_tick_over, elapsed

LEMMA FromDataBits ==
  ASSUME TypeOK, TxRegisters, SendSide, uarttx_state = "DataBits"
  PROVE  /\ elapsed < TX_BIT_TIME - 1 =>
              uarttx_state' = "DataBits" /\ uarttx_bit_count' = uarttx_bit_count
                /\ elapsed' = elapsed + 1 /\ uarttx_bit_time_counter' < TX_BIT_TIME
         /\ elapsed >= TX_BIT_TIME - 1 /\ uarttx_bit_count < 7 =>
              uarttx_state' = "DataBits" /\ uarttx_bit_count' = uarttx_bit_count + 1
                /\ elapsed' = 0 /\ uarttx_bit_time_counter' < TX_BIT_TIME
         /\ elapsed >= TX_BIT_TIME - 1 /\ uarttx_bit_count = 7 =>
              uarttx_state' = "StopBit"
                /\ elapsed' = 0 /\ uarttx_bit_time_counter' < TX_BIT_TIME
<1>1. TxDataBits
  BY DEF SendSide, TxStep, TxStart, TxStartBit, TxStopBit, TxAcknowledged, TxWaits
<1>2. CASE tx_tick_over
  <2>1. elapsed = TX_BIT_TIME - 1
    BY <1>2, TxAssumption DEF tx_tick_over, elapsed
  <2> QED
    BY <1>1, <1>2, <2>1, TxAssumption DEF TxDataBits, elapsed, TypeOK, BitIndices
<1>3. CASE ~tx_tick_over
  <2>1. uarttx_bit_time_counter >= 1 /\ elapsed < TX_BIT_TIME - 1
    BY <1>3, TxAssumption DEF tx_tick_over, elapsed, TypeOK
  <2> QED
    BY <1>1, <1>3, <2>1, TxAssumption, TxTick DEF TxDataBits, elapsed, TypeOK, TxRegisters
<1> QED
  BY <1>2, <1>3

\* a frame ends, is acknowledged, and the transmitter is Idle
LEMMA FromStopBit ==
  ASSUME TypeOK, TxRegisters, SendSide, uarttx_state \in {"StopBit", "WaitForGoLow"}
  PROVE  /\ elapsed <= TX_BIT_TIME =>
              /\ uarttx_state' \in {"StopBit", "WaitForGoLow"}
              /\ elapsed' = elapsed + 1
              /\ uarttx_state' = "StopBit" => uarttx_bit_time_counter' < TX_BIT_TIME
         /\ elapsed > TX_BIT_TIME => uarttx_state' = "Idle"
<1>1. CASE uarttx_state = "StopBit"
  <2>1. TxStopBit
    BY <1>1 DEF SendSide, TxStep, TxStart, TxStartBit, TxDataBits, TxAcknowledged, TxWaits
  <2>2. uarttx_go'
    BY <1>1, BusyKeepsByte DEF uarttx_busy
  <2>3. CASE tx_tick_over
    BY <1>1, <2>1, <2>2, <2>3, TxAssumption DEF TxStopBit, elapsed, tx_tick_over
  <2>4. CASE ~tx_tick_over
    BY <1>1, <2>1, <2>2, <2>4, TxAssumption, TxTick
       DEF TxStopBit, elapsed, tx_tick_over, TypeOK, TxRegisters
  <2> QED
    BY <2>3, <2>4
<1>2. CASE uarttx_state = "WaitForGoLow" /\ uarttx_go
  <2>1. TxWaits(uarttx_go)
    BY <1>2 DEF SendSide, TxStep, TxStart, TxStartBit, TxDataBits, TxStopBit, TxAcknowledged
  <2>2. ~uarttx_go'
    BY <1>2 DEF SendSide, SendChar, Acknowledge, sent, uarttx_busy, TxRegisters
  <2> QED
    BY <1>2, <2>1, <2>2, TxAssumption DEF TxWaits, txVars, elapsed
<1>3. CASE uarttx_state = "WaitForGoLow" /\ ~uarttx_go
  <2>1. TxAcknowledged(uarttx_go)
    BY <1>3 DEF SendSide, TxStep, TxStart, TxStartBit, TxDataBits, TxStopBit, TxWaits
  <2> QED
    BY <1>3, <2>1, TxAssumption DEF TxAcknowledged, elapsed
<1> QED
  BY <1>1, <1>2, <1>3 DEF TypeOK

LEMMA TxRegistersKept ==
  ASSUME TypeOK, TxRegisters, SendSide
  PROVE  TxRegisters'
<1>1. (uarttx_go <=> uarttx_data_sending # Nothing)'
  BY NothingAssumption, LinkAssumption
     DEF TypeOK, TxRegisters, SendSide, SendChar, Send, Acknowledge, sent
<1>2. (uarttx_state \in {"StartBit", "DataBits", "StopBit"} => uarttx_go)'
  <2>1. CASE uarttx_busy(uarttx_go)
    BY <2>1, BusyKeepsByte
  <2>2. CASE ~uarttx_busy(uarttx_go)
    <3>1. CASE uarttx_state = "Idle"
      BY <2>2, <3>1, FromIdle DEF uarttx_busy
    <3>2. CASE uarttx_state = "WaitForGoLow"
      BY <3>2 DEF SendSide, TxStep, TxStart, TxStartBit, TxDataBits, TxStopBit,
                  TxAcknowledged, TxWaits, txVars
    <3> QED
      BY <2>2, <3>1, <3>2 DEF uarttx_busy, TypeOK, FrameStates
  <2> QED
    BY <2>1, <2>2
<1>3. (/\ uarttx_state \in {"StartBit", "DataBits", "StopBit"} =>
            uarttx_bit_time_counter < TX_BIT_TIME
       /\ uarttx_state = "StartBit" => elapsed >= 1)'
  <2>1. CASE uarttx_state = "Idle"
    BY <2>1, FromIdle, TxAssumption DEF TypeOK
  <2>2. CASE uarttx_state = "StartBit"
    <3>1. elapsed \in Int /\ elapsed >= 1
      BY <2>2, TxAssumption DEF elapsed, TxRegisters, TypeOK
    <3> QED
      BY <2>2, <3>1, FromStartBit, TxAssumption
  <2>3. CASE uarttx_state = "DataBits"
    <3>1. elapsed \in Int
      BY <2>3, TxAssumption DEF elapsed, TypeOK
    <3> QED
      BY <2>3, <3>1, FromDataBits, TxAssumption DEF TypeOK, BitIndices
  <2>4. CASE uarttx_state \in {"StopBit", "WaitForGoLow"}
    <3>1. elapsed \in Int
      BY <2>4, TxAssumption DEF elapsed, TypeOK
    <3> QED
      BY <2>4, <3>1, FromStopBit, TxAssumption
  <2> QED
    BY <2>1, <2>2, <2>3, <2>4 DEF TypeOK, FrameStates
<1> QED
  BY <1>1, <1>2, <1>3 DEF TxRegisters

-----------------------------------------------------------------------------
(* The receiving half. *)

LEMMA RxTyped ==
  ASSUME TypeOK, RxStep(uartrx_go, uart_tx), uart_tx \in {0, 1},
         ReadUartIn \/ LeaveUartIn
  PROVE  /\ uartrx_state' \in FrameStates
         /\ uartrx_bit_count' \in BitIndices
         /\ uartrx_bit_counter' \in 0..(RxCounterModulus - 1)
         /\ uartrx_data' \in Bytes /\ uartrx_data_ready' \in BOOLEAN
         /\ uartrx_data_received' \in Bytes \cup {Nothing} /\ uartrx_go' \in BOOLEAN
         /\ ch' \in Bytes \cup {Nothing} /\ parity' \in {0, 1}
         /\ since_read' \in 0..(PollLimit - 1)
<1>1. rx_next_tick \in 0..(RxCounterModulus - 1)
  BY RxTick DEF TypeOK
<1>2. rx_bit_ticks \in 0..(RxCounterModulus - 1)
      /\ rx_half_bit \in 0..(RxCounterModulus - 1)
  BY RxAssumption DEF rx_bit_ticks, rx_half_bit
<1>3. /\ uartrx_data_received' \in Bytes \cup {Nothing} /\ uartrx_go' \in BOOLEAN
      /\ ch' \in Bytes \cup {Nothing} /\ parity' \in {0, 1}
      /\ since_read' \in 0..(PollLimit - 1)
  <2>1. PICK read \in BOOLEAN : Receive(read)
    BY DEF ReadUartIn, LeaveUartIn
  <2>2. uartrx_data_received' \in Bytes \cup {Nothing}
    BY <2>1 DEF Receive, TypeOK
  <2>3. uartrx_go' \in BOOLEAN
    BY <2>1 DEF Receive
  <2>4. ch' \in Bytes \cup {Nothing} /\ parity' \in {0, 1}
    <3>1. CASE ReadUartIn
      BY <3>1 DEF ReadUartIn, TypeOK
    <3>2. CASE LeaveUartIn
      BY <3>2 DEF LeaveUartIn, TypeOK
    <3> QED
      BY <3>1, <3>2
  <2>5. since_read' \in 0..(PollLimit - 1)
    <3>1. CASE ReadUartIn
      BY <3>1, LinkAssumption DEF ReadUartIn
    <3>2. CASE LeaveUartIn
      BY <3>2, LinkAssumption DEF LeaveUartIn, TypeOK
    <3> QED
      BY <3>1, <3>2
  <2> QED
    BY <2>2, <2>3, <2>4, <2>5
<1>4. /\ uartrx_state' \in FrameStates
      /\ uartrx_bit_count' \in BitIndices
      /\ uartrx_bit_counter' \in 0..(RxCounterModulus - 1)
      /\ uartrx_data' \in Bytes /\ uartrx_data_ready' \in BOOLEAN
  <2> USE DEF TypeOK, FrameStates, BitIndices
  <2>1. CASE RxStart(uartrx_go, uart_tx)
    BY <1>2, <2>1 DEF RxStart
  <2>2. CASE RxStartBit
    BY <1>1, <1>2, <2>2 DEF RxStartBit
  <2>3. CASE RxDataBits(uart_tx)
    <3>1. uartrx_data' \in Bytes
      BY <2>3 DEF RxDataBits, Bytes
    <3> QED
      BY <1>1, <1>2, <2>3, <3>1 DEF RxDataBits
  <2>4. CASE RxStopBit
    BY <1>1, <2>4 DEF RxStopBit
  <2>5. CASE RxAcknowledged(uartrx_go)
    BY <2>5 DEF RxAcknowledged
  <2>6. CASE RxWaits(uartrx_go, uart_tx)
    BY <2>6 DEF RxWaits, rxVars
  <2> QED
    BY <2>1, <2>2, <2>3, <2>4, <2>5, <2>6 DEF RxStep
<1> QED
  BY <1>3, <1>4

LEMMA RxFromIdle ==
  ASSUME TypeOK, RxStep(uartrx_go, uart_tx), uartrx_state = "Idle"
  PROVE  /\ ~(uartrx_go /\ uart_tx = 0) => UNCHANGED rxVars
         /\ uartrx_go /\ uart_tx = 0 =>
              /\ uartrx_state' = IF RX_BIT_TIME = 1 THEN "DataBits" ELSE "StartBit"
              /\ uartrx_bit_counter' = rx_half_bit
              /\ UNCHANGED <<uartrx_data, uartrx_data_ready, uartrx_bit_count>>
BY DEF RxStep, RxStart, RxStartBit, RxDataBits, RxStopBit, RxAcknowledged, RxWaits

LEMMA RxFromStartBit ==
  ASSUME TypeOK, RxStep(uartrx_go, uart_tx), uartrx_state = "StartBit"
  PROVE  /\ UNCHANGED <<uartrx_data, uartrx_data_ready>>
         /\ uartrx_bit_counter >= 1 =>
              /\ uartrx_state' = "StartBit"
              /\ uartrx_bit_counter' = uartrx_bit_counter - 1
              /\ uartrx_bit_count' = uartrx_bit_count
         /\ uartrx_bit_counter = 0 =>
              /\ uartrx_state' = "DataBits"
              /\ uartrx_bit_counter' = RX_BIT_TIME - 1
              /\ uartrx_bit_count' = 0
<1>1. RxStartBit
  BY DEF RxStep, RxStart, RxDataBits, RxStopBit, RxAcknowledged, RxWaits
<1>2. uartrx_bit_counter >= 1 => rx_next_tick = uartrx_bit_counter - 1
  BY RxTick DEF TypeOK
<1> QED
  BY <1>1, <1>2 DEF RxStartBit, rx_tick_over, rx_bit_ticks, TypeOK

LEMMA RxFromDataBits ==
  ASSUME TypeOK, RxStep(uartrx_go, uart_tx), uartrx_state = "DataBits"
  PROVE  /\ uartrx_data_ready' = uartrx_data_ready
         /\ uartrx_bit_counter >= 1 =>
              /\ uartrx_state' = "DataBits"
              /\ uartrx_bit_counter' = uartrx_bit_counter - 1
              /\ UNCHANGED <<uartrx_data, uartrx_bit_count>>
         /\ uartrx_bit_counter = 0 =>
              /\ uartrx_data' = [uartrx_data EXCEPT ![uartrx_bit_count] = uart_tx]
              /\ uartrx_bit_counter' = RX_BIT_TIME - 1
              /\ uartrx_bit_count < 7 => /\ uartrx_state' = "DataBits"
                                         /\ uartrx_bit_count' = uartrx_bit_count + 1
              /\ uartrx_bit_count = 7 => /\ uartrx_state' = "StopBit"
                                         /\ uartrx_bit_count' = 0
<1>1. RxDataBits(uart_tx)
  BY DEF RxStep, RxStart, RxStartBit, RxStopBit, RxAcknowledged, RxWaits
<1>2. uartrx_bit_counter >= 1 => rx_next_tick = uartrx_bit_counter - 1
  BY RxTick DEF TypeOK
<1>3. /\ uartrx_bit_count < 7 => (uartrx_bit_count + 1) % 8 = uartrx_bit_count + 1
      /\ uartrx_bit_count = 7 => (uartrx_bit_count + 1) % 8 = 0
  BY DEF TypeOK, BitIndices
<1> QED
  BY <1>1, <1>2, <1>3 DEF RxDataBits, rx_tick_over, rx_bit_ticks, TypeOK, BitIndices

LEMMA RxFromStopBit ==
  ASSUME TypeOK, RxStep(uartrx_go, uart_tx), uartrx_state = "StopBit"
  PROVE  /\ UNCHANGED <<uartrx_data, uartrx_bit_count>>
         /\ uartrx_bit_counter >= 1 =>
              /\ uartrx_state' = "StopBit"
              /\ uartrx_bit_counter' = uartrx_bit_counter - 1
              /\ uartrx_data_ready' = uartrx_data_ready
         /\ uartrx_bit_counter = 0 =>
              uartrx_state' = "WaitForGoLow" /\ uartrx_data_ready' = TRUE
<1>1. RxStopBit
  BY DEF RxStep, RxStart, RxStartBit, RxDataBits, RxAcknowledged, RxWaits
<1>2. uartrx_bit_counter >= 1 => rx_next_tick = uartrx_bit_counter - 1
  BY RxTick DEF TypeOK
<1> QED
  BY <1>1, <1>2 DEF RxStopBit, rx_tick_over, TypeOK

LEMMA RxFromWait ==
  ASSUME TypeOK, RxStep(uartrx_go, uart_tx), uartrx_state = "WaitForGoLow"
  PROVE  /\ uartrx_go => UNCHANGED rxVars
         /\ ~uartrx_go => /\ uartrx_state' = "Idle" /\ uartrx_data_ready' = FALSE
                          /\ UNCHANGED <<uartrx_data, uartrx_bit_count>>
BY DEF RxStep, RxStart, RxStartBit, RxDataBits, RxStopBit, RxAcknowledged, RxWaits

LEMMA GoFollows ==
  ASSUME ReadUartIn \/ LeaveUartIn
  PROVE  uartrx_go' = ~(uartrx_go /\ uartrx_data_ready)
BY DEF ReadUartIn, LeaveUartIn, Receive, received

LEMMA RxRegistersKept ==
  ASSUME TypeOK, RxRegisters, RxStep(uartrx_go, uart_tx), ReadUartIn \/ LeaveUartIn
  PROVE  RxRegisters'
<1>1. uartrx_go' = ~(uartrx_go /\ uartrx_data_ready)
  BY GoFollows
<1>2. uartrx_bit_counter \in Nat
  BY RxAssumption DEF TypeOK
<1>3. CASE uartrx_state = "Idle"
  BY <1>1, <1>3, RxFromIdle DEF RxRegisters, rxVars, TypeOK
<1>4. CASE uartrx_state = "StartBit"
  BY <1>1, <1>2, <1>4, RxFromStartBit DEF RxRegisters, TypeOK
<1>5. CASE uartrx_state = "DataBits"
  BY <1>1, <1>2, <1>5, RxFromDataBits DEF RxRegisters, TypeOK, BitIndices
<1>6. CASE uartrx_state = "StopBit"
  <2>1. uartrx_go /\ uartrx_bit_count = 0 /\ uartrx_data_ready = FALSE
    BY <1>6 DEF RxRegisters, TypeOK
  <2>2. uartrx_go' /\ uartrx_bit_count' = 0
    BY <1>1, <1>6, <2>1, RxFromStopBit
  <2>3. uartrx_data_ready' <=> uartrx_state' = "WaitForGoLow"
    <3>1. CASE uartrx_bit_counter = 0
      <4>1. uartrx_state' = "WaitForGoLow" /\ uartrx_data_ready' = TRUE
        BY <1>6, <3>1, RxFromStopBit
      <4> QED
        BY <4>1
    <3>2. CASE uartrx_bit_counter >= 1
      <4>1. uartrx_state' = "StopBit" /\ uartrx_data_ready' = FALSE
        BY <1>6, <2>1, <3>2, RxFromStopBit
      <4> QED
        BY <4>1
    <3> QED
      BY <1>2, <3>1, <3>2
  <2> QED
    BY <2>2, <2>3 DEF RxRegisters
<1>7. CASE uartrx_state = "WaitForGoLow"
  BY <1>1, <1>7, RxFromWait DEF RxRegisters, rxVars, TypeOK
<1> QED
  BY <1>3, <1>4, <1>5, <1>6, <1>7 DEF TypeOK, FrameStates

-----------------------------------------------------------------------------
(* The receiver stays in step: one lemma per state of the transmitter. *)

Moves == SendSide /\ RxStep(uartrx_go, uart_tx) /\ (ReadUartIn \/ LeaveUartIn)

InPhase == TypeOK /\ TxRegisters /\ RxRegisters /\ InStep /\ Sampled

LEMMA ElapsedRange ==
  ASSUME TypeOK, TxRegisters
  PROVE  /\ elapsed \in Int
         /\ uarttx_state \in {"StartBit", "DataBits", "StopBit"} =>
              elapsed \in 0..(TX_BIT_TIME - 1)
         /\ uarttx_state = "WaitForGoLow" =>
              elapsed \in {TX_BIT_TIME, TX_BIT_TIME + 1}
BY TxAssumption DEF elapsed, TypeOK, TxRegisters

LEMMA LineLevel ==
  ASSUME TypeOK, TxRegisters
  PROVE  /\ uarttx_state = "Idle" => uart_tx = IF uarttx_go THEN 0 ELSE 1
         /\ uarttx_state = "StartBit" => uart_tx = 0
         /\ uarttx_state = "DataBits" => uart_tx = uarttx_data_sending[uarttx_bit_count]
         /\ uarttx_state \in {"StopBit", "WaitForGoLow"} => uart_tx = 1
         /\ uart_tx \in {0, 1}
<1>1. CASE uarttx_state = "Idle"
  BY <1>1 DEF uart_tx, tx
<1>2. CASE uarttx_state = "StartBit"
  BY <1>2 DEF uart_tx, tx
<1>3. CASE uarttx_state = "DataBits"
  <2>1. uart_tx = uarttx_data_sending[uarttx_bit_count]
    BY <1>3 DEF uart_tx, tx
  <2>2. uarttx_data_sending \in Bytes
    BY <1>3 DEF TypeOK, TxRegisters
  <2> QED
    BY <1>3, <2>1, <2>2 DEF TypeOK, Bytes
<1>4. CASE uarttx_state \in {"StopBit", "WaitForGoLow"}
  BY <1>4 DEF uart_tx, tx
<1> QED
  BY <1>1, <1>2, <1>3, <1>4 DEF TypeOK, FrameStates

LEMMA InStepFromIdle ==
  ASSUME SameBitTime, InPhase, Moves, uarttx_state = "Idle"
  PROVE  InStep' /\ Sampled'
<1>1. uartrx_state = "Idle" /\ uartrx_go /\ uartrx_bit_count = 0
  BY DEF InPhase, InStep, RxRegisters
<1>2. CASE ~uarttx_go
  <2>1. uarttx_state' = "Idle"
    BY <1>2, FromIdle DEF InPhase, Moves
  <2>2. uartrx_state' = "Idle"
    BY <1>1, <1>2, LineLevel, RxFromIdle DEF InPhase, Moves, rxVars
  <2> QED
    BY <2>1, <2>2 DEF InStep, Sampled, rx_holds_byte
<1>3. CASE uarttx_go
  <2>1. /\ uartrx_state' = IF RX_BIT_TIME = 1 THEN "DataBits" ELSE "StartBit"
        /\ uartrx_bit_counter' = rx_half_bit
        /\ uartrx_bit_count' = 0
    BY <1>1, <1>3, LineLevel, RxFromIdle DEF InPhase, Moves
  <2>2. CASE TX_BIT_TIME = 1
    <3>1. uarttx_state' = "DataBits" /\ uarttx_bit_count' = 0 /\ elapsed' = 0
      BY <1>3, <2>2, FromIdle DEF InPhase, Moves
    <3>2. uartrx_state' = "DataBits" /\ uartrx_bit_counter' = 0 /\ half_bit = 0
      BY <2>1, <2>2, HalfBit
    <3> QED
      BY <2>1, <3>1, <3>2 DEF InStep, AtDataBits, Rx, Sampled, rx_holds_byte, BitIndices
  <2>3. CASE TX_BIT_TIME # 1
    <3>1. uarttx_state' = "StartBit" /\ elapsed' = 1
      BY <1>3, <2>3, FromIdle DEF InPhase, Moves
    <3>2. uartrx_state' = "StartBit" /\ uartrx_bit_counter' = half_bit - 1 /\ half_bit >= 1
      BY <2>1, <2>3, HalfBit
    <3>3. AtStartBit'
      BY <3>1, <3>2, HalfBit DEF AtStartBit, Rx
    <3> QED
      BY <3>1, <3>2, <3>3 DEF InStep, Sampled, rx_holds_byte
  <2> QED
    BY <2>2, <2>3
<1> QED
  BY <1>2, <1>3

LEMMA InStepFromStartBit ==
  ASSUME SameBitTime, InPhase, Moves, uarttx_state = "StartBit"
  PROVE  InStep' /\ Sampled'
<1> DEFINE B == TX_BIT_TIME
           h == half_bit
           e == elapsed
           c == uartrx_bit_counter
<1>1. B \in Nat /\ B >= 1 /\ RX_BIT_TIME = B /\ h \in Nat /\ h < B
  BY HalfBit
<1>2. e \in 1..(B - 1)
  BY ElapsedRange DEF InPhase, TxRegisters
<1>3. /\ e < B - 1 => uarttx_state' = "StartBit" /\ elapsed' = e + 1
      /\ e = B - 1 => uarttx_state' = "DataBits" /\ uarttx_bit_count' = 0 /\ elapsed' = 0
  BY <1>1, <1>2, FromStartBit DEF InPhase, Moves
<1>4. \/ e <= h /\ uartrx_state = "StartBit" /\ c = h - e
      \/ e > h /\ uartrx_state = "DataBits" /\ c = h + B - e /\ uartrx_bit_count = 0
  BY DEF InPhase, InStep, AtStartBit, Rx
<1> HIDE DEF B, h, e, c
<1>5. CASE e < h /\ uartrx_state = "StartBit" /\ c = h - e
  <2>1. uartrx_state' = "StartBit" /\ c' = c - 1
    BY <1>1, <1>2, <1>5, RxFromStartBit DEF InPhase, Moves, c
  <2>2. uarttx_state' = "StartBit" /\ elapsed' = e + 1 /\ e + 1 <= h /\ c' = h - (e + 1)
    BY <1>1, <1>2, <1>3, <1>5, <2>1
  <2> QED
    BY <2>1, <2>2 DEF InStep, AtStartBit, Rx, Sampled, rx_holds_byte, h, c, half_bit
<1>6. CASE e = h /\ uartrx_state = "StartBit" /\ c = h - e
  <2>1. uartrx_state' = "DataBits" /\ c' = B - 1 /\ uartrx_bit_count' = 0
    BY <1>1, <1>2, <1>6, RxFromStartBit DEF InPhase, Moves, c
  <2>2. Sampled'
    BY <2>1 DEF Sampled, rx_holds_byte, BitIndices
  <2>3. CASE e < B - 1
    <3>1. uarttx_state' = "StartBit" /\ elapsed' = e + 1 /\ e + 1 > h /\ c' = h + B - (e + 1)
      BY <1>1, <1>2, <1>3, <1>6, <2>1, <2>3
    <3> QED
      BY <2>1, <2>2, <3>1 DEF InStep, AtStartBit, Rx, h, c, B, half_bit
  <2>4. CASE e = B - 1
    <3>1. /\ uarttx_state' = "DataBits" /\ elapsed' = 0 /\ uarttx_bit_count' = 0
          /\ 0 <= h /\ c' = h - 0
      BY <1>1, <1>2, <1>3, <1>6, <2>1, <2>4
    <3> QED
      BY <2>1, <2>2, <3>1 DEF InStep, AtDataBits, Rx, h, c, half_bit
  <2> QED
    BY <1>1, <1>2, <2>3, <2>4
<1>7. CASE e > h /\ uartrx_state = "DataBits" /\ c = h + B - e /\ uartrx_bit_count = 0
  <2>1. c >= 1
    BY <1>1, <1>2, <1>7
  <2>2. uartrx_state' = "DataBits" /\ c' = c - 1 /\ uartrx_bit_count' = 0
    BY <1>7, <2>1, RxFromDataBits DEF InPhase, Moves, c
  <2>3. Sampled'
    BY <2>2 DEF Sampled, rx_holds_byte, BitIndices
  <2>4. CASE e < B - 1
    <3>1. uarttx_state' = "StartBit" /\ elapsed' = e + 1 /\ e + 1 > h /\ c' = h + B - (e + 1)
      BY <1>1, <1>2, <1>3, <1>7, <2>2, <2>4
    <3> QED
      BY <2>2, <2>3, <3>1 DEF InStep, AtStartBit, Rx, h, c, B, half_bit
  <2>5. CASE e = B - 1
    <3>1. /\ uarttx_state' = "DataBits" /\ elapsed' = 0 /\ uarttx_bit_count' = 0
          /\ 0 <= h /\ c' = h - 0
      BY <1>1, <1>2, <1>3, <1>7, <2>2, <2>5
    <3> QED
      BY <2>2, <2>3, <3>1 DEF InStep, AtDataBits, Rx, h, c, half_bit
  <2> QED
    BY <1>1, <1>2, <2>4, <2>5
<1> QED
  BY <1>1, <1>2, <1>4, <1>5, <1>6, <1>7

LEMMA InStepFromDataBits ==
  ASSUME SameBitTime, InPhase, Moves, uarttx_state = "DataBits"
  PROVE  InStep' /\ Sampled'
<1> DEFINE B == TX_BIT_TIME
           h == half_bit
           e == elapsed
           c == uartrx_bit_counter
           k == uarttx_bit_count
<1>1. B \in Nat /\ B >= 1 /\ RX_BIT_TIME = B /\ h \in Nat /\ h < B
  BY HalfBit
<1>2. e \in 0..(B - 1) /\ k \in 0..7
  BY ElapsedRange DEF InPhase, TypeOK, BitIndices
<1>3. uarttx_data_sending' = uarttx_data_sending /\ uarttx_data_sending \in Bytes
  BY BusyKeepsByte DEF InPhase, Moves, uarttx_busy, TypeOK, TxRegisters
<1>4. /\ e < B - 1 => uarttx_state' = "DataBits" /\ k' = k /\ elapsed' = e + 1
      /\ e = B - 1 /\ k < 7 => uarttx_state' = "DataBits" /\ k' = k + 1 /\ elapsed' = 0
      /\ e = B - 1 /\ k = 7 => uarttx_state' = "StopBit" /\ elapsed' = 0
  BY <1>1, <1>2, FromDataBits DEF InPhase, Moves
<1>5. \/ e <= h /\ uartrx_state = "DataBits" /\ c = h - e /\ uartrx_bit_count = k
      \/ e > h /\ k < 7 /\ uartrx_state = "DataBits" /\ c = h + B - e
           /\ uartrx_bit_count = k + 1
      \/ e > h /\ k = 7 /\ uartrx_state = "StopBit" /\ c = h + B - e
  BY DEF InPhase, InStep, AtDataBits, Rx
<1>6. uartrx_state = "DataBits" =>
        \A i \in BitIndices : i < uartrx_bit_count => uartrx_data[i] = uarttx_data_sending[i]
  BY DEF InPhase, Sampled
<1>7. uartrx_data \in Bytes
  BY DEF InPhase, TypeOK
<1> HIDE DEF B, h, e, c, k
<1>8. CASE e < h /\ uartrx_state = "DataBits" /\ c = h - e /\ uartrx_bit_count = k
  <2>1. /\ uartrx_state' = "DataBits" /\ c' = c - 1
        /\ uartrx_data' = uartrx_data /\ uartrx_bit_count' = k
    BY <1>1, <1>2, <1>8, RxFromDataBits DEF InPhase, Moves, c
  <2>2. /\ uarttx_state' = "DataBits" /\ k' = k /\ elapsed' = e + 1
        /\ e + 1 <= h /\ c' = h - (e + 1)
    BY <1>1, <1>2, <1>4, <1>8, <2>1
  <2>3. Sampled'
    BY <1>3, <1>6, <1>8, <2>1 DEF Sampled, rx_holds_byte
  <2> QED
    BY <2>1, <2>2, <2>3 DEF InStep, AtDataBits, Rx, h, c, k, half_bit
<1>9. CASE e = h /\ uartrx_state = "DataBits" /\ c = h - e /\ uartrx_bit_count = k
  <2>1. c = 0
    BY <1>1, <1>2, <1>9
  <2>2. uart_tx = uarttx_data_sending[k]
    BY LineLevel DEF InPhase, k
  <2>3. /\ uartrx_data' = [uartrx_data EXCEPT ![k] = uarttx_data_sending[k]]
        /\ c' = B - 1
        /\ k < 7 => uartrx_state' = "DataBits" /\ uartrx_bit_count' = k + 1
        /\ k = 7 => uartrx_state' = "StopBit" /\ uartrx_bit_count' = 0
    BY <1>1, <1>9, <2>1, <2>2, RxFromDataBits DEF InPhase, Moves, c
  <2>4. \A i \in BitIndices : i <= k => uartrx_data'[i] = uarttx_data_sending'[i]
    BY <1>2, <1>3, <1>6, <1>7, <1>9, <2>3 DEF Bytes, BitIndices
  <2>5. CASE k < 7
    <3>1. uartrx_state' = "DataBits" /\ uartrx_bit_count' = k + 1
      BY <2>3, <2>5
    <3>2. Sampled'
      BY <1>2, <2>4, <3>1 DEF Sampled, rx_holds_byte, BitIndices
    <3>3. CASE e < B - 1
      <4>1. /\ uarttx_state' = "DataBits" /\ k' = k /\ elapsed' = e + 1
            /\ e + 1 > h /\ c' = h + B - (e + 1)
        BY <1>1, <1>2, <1>4, <1>9, <2>3, <3>3
      <4> QED
        BY <2>5, <3>1, <3>2, <4>1 DEF InStep, AtDataBits, Rx, h, c, k, B, half_bit
    <3>4. CASE e = B - 1
      <4>1. /\ uarttx_state' = "DataBits" /\ k' = k + 1 /\ elapsed' = 0
            /\ 0 <= h /\ c' = h - 0
        BY <1>1, <1>2, <1>4, <1>9, <2>3, <2>5, <3>4
      <4> QED
        BY <3>1, <3>2, <4>1 DEF InStep, AtDataBits, Rx, h, c, k, half_bit
    <3> QED
      BY <1>1, <1>2, <3>3, <3>4
  <2>6. CASE k = 7
    <3>1. uartrx_state' = "StopBit"
      BY <2>3, <2>6
    <3>2. uartrx_data' = uarttx_data_sending'
      <4>1. uartrx_data' \in Bytes /\ uarttx_data_sending' \in Bytes
        BY <1>2, <1>3, <1>7, <2>3 DEF Bytes, BitIndices
      <4> QED
        BY <2>4, <2>6, <4>1 DEF Bytes, BitIndices
    <3>3. Sampled'
      BY <3>1, <3>2 DEF Sampled
    <3>4. CASE e < B - 1
      <4>1. /\ uarttx_state' = "DataBits" /\ k' = 7 /\ elapsed' = e + 1
            /\ e + 1 > h /\ c' = h + B - (e + 1)
        BY <1>1, <1>2, <1>4, <1>9, <2>3, <2>6, <3>4
      <4> QED
        BY <3>1, <3>3, <4>1 DEF InStep, AtDataBits, Rx, h, c, k, B, half_bit
    <3>5. CASE e = B - 1
      <4>1. uarttx_state' = "StopBit" /\ elapsed' = 0 /\ 0 <= h /\ c' = h - 0
        BY <1>1, <1>2, <1>4, <1>9, <2>3, <2>6, <3>5
      <4> QED
        BY <3>1, <3>3, <4>1 DEF InStep, AtStopBit, Rx, h, c, half_bit
    <3> QED
      BY <1>1, <1>2, <3>4, <3>5
  <2> QED
    BY <1>2, <2>5, <2>6
<1>10. CASE e > h /\ k < 7 /\ uartrx_state = "DataBits" /\ c = h + B - e
            /\ uartrx_bit_count = k + 1
  <2>1. c >= 1
    BY <1>1, <1>2, <1>10
  <2>2. /\ uartrx_state' = "DataBits" /\ c' = c - 1
        /\ uartrx_data' = uartrx_data /\ uartrx_bit_count' = k + 1
    BY <1>10, <2>1, RxFromDataBits DEF InPhase, Moves, c
  <2>3. Sampled'
    BY <1>3, <1>6, <1>10, <2>2 DEF Sampled, rx_holds_byte
  <2>4. CASE e < B - 1
    <3>1. /\ uarttx_state' = "DataBits" /\ k' = k /\ elapsed' = e + 1
          /\ e + 1 > h /\ c' = h + B - (e + 1)
      BY <1>1, <1>2, <1>4, <1>10, <2>2, <2>4
    <3> QED
      BY <1>10, <2>2, <2>3, <3>1 DEF InStep, AtDataBits, Rx, h, c, k, B, half_bit
  <2>5. CASE e = B - 1
    <3>1. /\ uarttx_state' = "DataBits" /\ k' = k + 1 /\ elapsed' = 0
          /\ 0 <= h /\ c' = h - 0
      BY <1>1, <1>2, <1>4, <1>10, <2>2, <2>5
    <3> QED
      BY <2>2, <2>3, <3>1 DEF InStep, AtDataBits, Rx, h, c, k, half_bit
  <2> QED
    BY <1>1, <1>2, <2>4, <2>5
<1>11. CASE e > h /\ k = 7 /\ uartrx_state = "StopBit" /\ c = h + B - e
  <2>1. c >= 1
    BY <1>1, <1>2, <1>11
  <2>2. uartrx_state' = "StopBit" /\ c' = c - 1 /\ uartrx_data' = uartrx_data
    BY <1>11, <2>1, RxFromStopBit DEF InPhase, Moves, c
  <2>3. Sampled'
    BY <1>3, <1>11, <2>2 DEF Sampled, rx_holds_byte, InPhase
  <2>4. CASE e < B - 1
    <3>1. /\ uarttx_state' = "DataBits" /\ k' = 7 /\ elapsed' = e + 1
          /\ e + 1 > h /\ c' = h + B - (e + 1)
      BY <1>1, <1>2, <1>4, <1>11, <2>2, <2>4
    <3> QED
      BY <2>2, <2>3, <3>1 DEF InStep, AtDataBits, Rx, h, c, k, B, half_bit
  <2>5. CASE e = B - 1
    <3>1. uarttx_state' = "StopBit" /\ elapsed' = 0 /\ 0 <= h /\ c' = h - 0
      BY <1>1, <1>2, <1>4, <1>11, <2>2, <2>5
    <3> QED
      BY <2>2, <2>3, <3>1 DEF InStep, AtStopBit, Rx, h, c, half_bit
  <2> QED
    BY <1>1, <1>2, <2>4, <2>5
<1> QED
  BY <1>1, <1>2, <1>5, <1>8, <1>9, <1>10, <1>11

LEMMA InStepFromStopBit ==
  ASSUME SameBitTime, InPhase, Moves, uarttx_state \in {"StopBit", "WaitForGoLow"}
  PROVE  InStep' /\ Sampled'
<1> DEFINE B == TX_BIT_TIME
           h == half_bit
           e == elapsed
           c == uartrx_bit_counter
<1>1. B \in Nat /\ B >= 1 /\ RX_BIT_TIME = B /\ h \in Nat /\ h < B
  BY HalfBit
<1>2. e \in 0..(B + 1)
  BY <1>1, ElapsedRange DEF InPhase
<1>3. /\ e <= B => uarttx_state' \in {"StopBit", "WaitForGoLow"} /\ elapsed' = e + 1
      /\ e = B + 1 => uarttx_state' = "Idle"
  BY <1>1, FromStopBit DEF InPhase, Moves
<1>4. /\ uartrx_data_ready <=> uartrx_state = "WaitForGoLow"
      /\ uartrx_state # "WaitForGoLow" => uartrx_go
      /\ uartrx_go' = ~(uartrx_go /\ uartrx_data_ready)
  BY GoFollows DEF InPhase, RxRegisters, Moves
<1>5. e < B => /\ uarttx_data_sending' = uarttx_data_sending
  <2>1. SUFFICES ASSUME e < B PROVE uarttx_busy(uarttx_go)
    BY BusyKeepsByte DEF InPhase, Moves
  <2> QED
    BY <1>1, <2>1 DEF uarttx_busy, elapsed
<1>6. \/ e <= h /\ uartrx_state = "StopBit" /\ c = h - e
      \/ e = h + 1 /\ uartrx_state = "WaitForGoLow" /\ uartrx_go
      \/ e = h + 2 /\ uartrx_state = "WaitForGoLow" /\ ~uartrx_go
      \/ e > h + 2 /\ uartrx_state = "Idle"
  BY DEF InPhase, InStep, AtStopBit, Rx
<1>7. uart_tx = 1
  BY LineLevel DEF InPhase
<1> HIDE DEF B, h, e, c
<1>8. CASE e < h /\ uartrx_state = "StopBit" /\ c = h - e
  <2>1. uartrx_state' = "StopBit" /\ c' = c - 1 /\ uartrx_data' = uartrx_data
    BY <1>1, <1>2, <1>8, RxFromStopBit DEF InPhase, Moves, c
  <2>2. /\ uarttx_state' \in {"StopBit", "WaitForGoLow"} /\ elapsed' = e + 1
        /\ e + 1 <= h /\ c' = h - (e + 1) /\ e < B
    BY <1>1, <1>2, <1>3, <1>8, <2>1
  <2>3. Sampled'
    BY <1>5, <1>8, <2>1, <2>2 DEF Sampled, rx_holds_byte, InPhase
  <2> QED
    BY <2>1, <2>2, <2>3 DEF InStep, AtStopBit, Rx, h, c, half_bit
<1>9. CASE e = h /\ uartrx_state = "StopBit" /\ c = h - e
  <2>1. uartrx_state' = "WaitForGoLow" /\ uartrx_data' = uartrx_data
    BY <1>1, <1>2, <1>9, RxFromStopBit DEF InPhase, Moves, c
  <2>2. uartrx_go'
    BY <1>4, <1>9
  <2>3. /\ uarttx_state' \in {"StopBit", "WaitForGoLow"}
        /\ elapsed' = h + 1 /\ e < B
    BY <1>1, <1>2, <1>3, <1>9
  <2>4. Sampled'
    BY <1>5, <1>9, <2>1, <2>3 DEF Sampled, rx_holds_byte, InPhase
  <2> QED
    BY <2>1, <2>2, <2>3, <2>4 DEF InStep, AtStopBit, h, half_bit
<1>10. CASE e = h + 1 /\ uartrx_state = "WaitForGoLow" /\ uartrx_go
  <2>1. uartrx_state' = "WaitForGoLow"
    BY <1>10, RxFromWait DEF InPhase, Moves, rxVars
  <2>2. ~uartrx_go'
    BY <1>4, <1>10
  <2>3. uarttx_state' \in {"StopBit", "WaitForGoLow"} /\ elapsed' = h + 2
    BY <1>1, <1>2, <1>3, <1>10
  <2>4. Sampled'
    BY <2>1, <2>2 DEF Sampled, rx_holds_byte
  <2> QED
    BY <2>1, <2>2, <2>3, <2>4 DEF InStep, AtStopBit, h, half_bit
<1>11. CASE e >= h + 2 /\ (uartrx_state = "Idle" \/ ~uartrx_go)
  <2>1. uartrx_state' = "Idle"
    <3>1. CASE uartrx_state = "Idle"
      BY <1>7, <3>1, RxFromIdle DEF InPhase, Moves, rxVars
    <3>2. CASE ~uartrx_go
      BY <1>4, <3>2, RxFromWait DEF InPhase, Moves
    <3> QED
      BY <1>11, <3>1, <3>2
  <2>2. Sampled'
    BY <2>1 DEF Sampled, rx_holds_byte
  <2>3. CASE e <= B
    <3>1. uarttx_state' \in {"StopBit", "WaitForGoLow"} /\ elapsed' > h + 2
      BY <1>1, <1>2, <1>3, <1>11, <2>3
    <3> QED
      BY <2>1, <2>2, <3>1 DEF InStep, AtStopBit, h, half_bit
  <2>4. CASE e = B + 1
    BY <1>3, <2>1, <2>2, <2>4 DEF InStep
  <2> QED
    BY <1>1, <1>2, <2>3, <2>4
<1> QED
  BY <1>1, <1>2, <1>6, <1>8, <1>9, <1>10, <1>11

-----------------------------------------------------------------------------
(* A byte is read before the next one is copied over it. *)

LEMMA BitStarts ==
  /\ bit_start(0) = TX_BIT_TIME
  /\ bit_start(8) = 9 * TX_BIT_TIME
  /\ \A k \in 0..7 : bit_start(k) \in Nat /\ bit_start(k + 1) = bit_start(k) + TX_BIT_TIME
<1>1. TX_BIT_TIME \in Nat
  BY TxAssumption
<1>2. bit_start(0) = TX_BIT_TIME /\ bit_start(8) = 9 * TX_BIT_TIME
  BY <1>1 DEF bit_start
<1>3. ASSUME NEW k \in 0..7
      PROVE  bit_start(k) \in Nat /\ bit_start(k + 1) = bit_start(k) + TX_BIT_TIME
  <2>1. k \in {0, 1, 2, 3, 4, 5, 6, 7}
    OBVIOUS
  <2> QED
    BY <1>1, <2>1 DEF bit_start
<1> QED
  BY <1>2, <1>3

LEMMA Ages ==
  ASSUME SameBitTime, InPhase, Moves
  PROVE  /\ since_copied \in Int /\ since_copied' \in Int
         /\ received => since_copied = 10 * TX_BIT_TIME + 1 /\ since_copied' = 0
         /\ ~received => since_copied' <= since_copied + 1
<1> DEFINE B == TX_BIT_TIME
           h == half_bit
           e == elapsed
           k == uarttx_bit_count
<1>1. B \in Nat /\ B >= 1 /\ h \in Nat /\ h < B
  BY HalfBit
<1>2. e \in Int
  BY ElapsedRange DEF InPhase
<1>3. received <=> uartrx_state = "WaitForGoLow" /\ uartrx_go
  BY DEF received, InPhase, RxRegisters
<1>4. CASE uarttx_state = "Idle"
  <2>1. ~received /\ since_copied = B - h
    BY <1>3, <1>4 DEF InPhase, InStep, since_copied
  <2>2. CASE ~uarttx_go
    <3>1. uarttx_state' = "Idle"
      BY <1>4, <2>2, FromIdle DEF InPhase, Moves
    <3>2. since_copied' = B - h
      BY <3>1 DEF since_copied, half_bit
    <3> QED
      BY <1>1, <2>1, <3>2
  <2>3. CASE uarttx_go /\ B = 1
    <3>1. uarttx_state' = "DataBits" /\ k' = 0 /\ elapsed' = 0
      BY <1>4, <2>3, FromIdle DEF InPhase, Moves
    <3>2. since_copied' = B - h + B + 0
      BY <3>1, BitStarts DEF since_copied, half_bit, bit_start
    <3> QED
      BY <1>1, <2>1, <2>3, <3>2
  <2>4. CASE uarttx_go /\ B # 1
    <3>1. uarttx_state' = "StartBit" /\ elapsed' = 1
      BY <1>4, <2>4, FromIdle DEF InPhase, Moves
    <3>2. since_copied' = B - h + 1
      BY <3>1 DEF since_copied, half_bit
    <3> QED
      BY <1>1, <2>1, <3>2
  <2> QED
    BY <2>2, <2>3, <2>4
<1>5. CASE uarttx_state = "StartBit"
  <2>1. ~received /\ since_copied = B - h + e /\ e \in 1..(B - 1)
    BY <1>3, <1>5, ElapsedRange
       DEF InPhase, InStep, AtStartBit, Rx, since_copied, TxRegisters
  <2>2. CASE e < B - 1
    <3>1. uarttx_state' = "StartBit" /\ elapsed' = e + 1
      BY <1>5, <2>2, FromStartBit DEF InPhase, Moves
    <3>2. since_copied' = B - h + (e + 1)
      BY <3>1 DEF since_copied, half_bit
    <3> QED
      BY <1>1, <2>1, <3>2
  <2>3. CASE e = B - 1
    <3>1. uarttx_state' = "DataBits" /\ k' = 0 /\ elapsed' = 0
      BY <1>1, <1>5, <2>3, FromStartBit DEF InPhase, Moves
    <3>2. since_copied' = B - h + B + 0
      BY <3>1, BitStarts DEF since_copied, half_bit, bit_start
    <3> QED
      BY <1>1, <2>1, <2>3, <3>2
  <2> QED
    BY <1>1, <2>1, <2>2, <2>3
<1>6. CASE uarttx_state = "DataBits"
  <2>1. ~received /\ since_copied = B - h + bit_start(k) + e
        /\ e \in 0..(B - 1) /\ k \in 0..7
    BY <1>3, <1>6, ElapsedRange
       DEF InPhase, InStep, AtDataBits, Rx, since_copied, TypeOK, BitIndices
  <2>2. bit_start(k) \in Nat /\ bit_start(k + 1) = bit_start(k) + B
    BY <2>1, BitStarts
  <2>3. CASE e < B - 1
    <3>1. uarttx_state' = "DataBits" /\ k' = k /\ elapsed' = e + 1
      BY <1>6, <2>3, FromDataBits DEF InPhase, Moves
    <3>2. since_copied' = B - h + bit_start(k) + (e + 1)
      BY <3>1 DEF since_copied, half_bit, bit_start
    <3> QED
      BY <1>1, <2>1, <2>2, <3>2
  <2>4. CASE e = B - 1 /\ k < 7
    <3>1. uarttx_state' = "DataBits" /\ k' = k + 1 /\ elapsed' = 0
      BY <1>1, <1>6, <2>4, FromDataBits DEF InPhase, Moves
    <3>2. since_copied' = B - h + bit_start(k + 1) + 0
      BY <3>1 DEF since_copied, half_bit, bit_start
    <3> QED
      BY <1>1, <2>1, <2>2, <2>4, <3>2
  <2>5. CASE e = B - 1 /\ k = 7
    <3>1. uarttx_state' = "StopBit" /\ elapsed' = 0
      BY <1>1, <1>6, <2>5, FromDataBits DEF InPhase, Moves
    <3>2. since_copied' = B - h + bit_start(8) + 0
      BY <1>1, <3>1 DEF since_copied, half_bit, bit_start
    <3>3. bit_start(8) = bit_start(k) + B
      BY <2>2, <2>5
    <3> QED
      BY <1>1, <2>1, <2>2, <2>5, <3>2, <3>3
  <2> QED
    BY <1>1, <2>1, <2>3, <2>4, <2>5
<1>7. CASE uarttx_state \in {"StopBit", "WaitForGoLow"}
  <2>1. e \in 0..(B + 1) /\ bit_start(8) = 9 * B
    BY <1>1, <1>7, ElapsedRange, BitStarts DEF InPhase
  <2>2. /\ e < h + 2 => since_copied = B - h + 9 * B + e
        /\ e >= h + 2 => since_copied = e - (h + 2)
    BY <1>1, <1>7, <2>1 DEF since_copied
  <2>3. received <=> e = h + 1
    BY <1>1, <1>3, <1>7, <2>1 DEF InPhase, InStep, AtStopBit, Rx
  <2>4. CASE e <= B
    <3>1. uarttx_state' \in {"StopBit", "WaitForGoLow"} /\ elapsed' = e + 1
      BY <1>7, <2>4, FromStopBit DEF InPhase, Moves
    <3>2. /\ e + 1 < h + 2 => since_copied' = B - h + 9 * B + (e + 1)
          /\ e + 1 >= h + 2 => since_copied' = (e + 1) - (h + 2)
      BY <1>1, <2>1, <3>1 DEF since_copied, half_bit, bit_start
    <3> QED
      BY <1>1, <2>1, <2>2, <2>3, <3>2
  <2>5. CASE e = B + 1
    <3>1. uarttx_state' = "Idle"
      BY <1>1, <1>7, <2>5, FromStopBit DEF InPhase, Moves
    <3>2. since_copied' = B - h
      BY <3>1 DEF since_copied, half_bit
    <3> QED
      BY <1>1, <2>1, <2>2, <2>3, <2>5, <3>2
  <2> QED
    BY <1>1, <2>1, <2>4, <2>5
<1> QED
  BY <1>4, <1>5, <1>6, <1>7 DEF InPhase, TypeOK, FrameStates

LEMMA ReadInTime ==
  ASSUME SameBitTime, ReadsInTime, Inv, Moves, received, uartrx_data_received # Nothing
  PROVE  ReadUartIn
<1>1. since_read >= 10 * TX_BIT_TIME + 1
  BY Ages DEF Inv, InPhase, ReadBeforeNext
<1>2. ~(since_read + 1 < PollLimit)
  BY <1>1, TxAssumption, LinkAssumption DEF ReadsInTime, Inv, TypeOK
<1> QED
  BY <1>2 DEF Moves, LeaveUartIn

LEMMA ReadBeforeNextKept ==
  ASSUME SameBitTime, Inv, Moves
  PROVE  ReadBeforeNext'
<1> SUFFICES ASSUME uartrx_data_received' # Nothing
             PROVE  since_read' >= since_copied'
  BY DEF ReadBeforeNext
<1>1. since_copied \in Int /\ since_copied' \in Int /\ since_read \in Int
  BY Ages, LinkAssumption DEF Inv, InPhase, TypeOK
<1>2. CASE received
  <2>1. since_copied' = 0
    BY <1>2, Ages DEF Inv, InPhase
  <2>2. since_read' >= 0 /\ since_read' \in Int
    <3>1. CASE ReadUartIn
      BY <3>1 DEF ReadUartIn
    <3>2. CASE LeaveUartIn
      BY <3>2, LinkAssumption DEF LeaveUartIn, Inv, TypeOK
    <3> QED
      BY <3>1, <3>2 DEF Moves
  <2> QED
    BY <2>1, <2>2
<1>3. CASE ~received
  <2>1. LeaveUartIn /\ uartrx_data_received # Nothing
    BY <1>3 DEF Moves, ReadUartIn, LeaveUartIn, Receive
  <2>2. since_read' = since_read + 1 /\ since_read >= since_copied
    BY <2>1 DEF LeaveUartIn, Inv, ReadBeforeNext
  <2>3. since_copied' <= since_copied + 1
    BY <1>3, Ages DEF Inv, InPhase
  <2> QED
    BY <1>1, <2>2, <2>3
<1> QED
  BY <1>2, <1>3

-----------------------------------------------------------------------------
(* What holds for every pair of bit times, also where bytes are lost. *)

LEMMA TypedInit == Init => TypeOK /\ TxRegisters
<1> SUFFICES ASSUME Init PROVE TypeOK /\ TxRegisters
  OBVIOUS
<1>1. [i \in 0..7 |-> 0] \in Bytes
  BY DEF Bytes, BitIndices
<1>2. uarttx_state \in FrameStates /\ uartrx_state \in FrameStates
  BY DEF Init, TxInit, RxInit, FrameStates
<1>3. since_read \in 0..(PollLimit - 1) /\ parity \in {0, 1}
  BY LinkAssumption DEF Init
<1>4. /\ uartrx_bit_counter \in 0..(RxCounterModulus - 1)
      /\ uartrx_bit_count \in BitIndices
      /\ uartrx_data \in Bytes
      /\ uartrx_data_ready \in BOOLEAN
  <2>1. 0 \in 0..(RxCounterModulus - 1) /\ 0 \in BitIndices
    BY RxAssumption DEF BitIndices
  <2> QED
    BY <1>1, <2>1, Zenon DEF Init, RxInit
<1>5. uarttx_go \in BOOLEAN /\ uartrx_go \in BOOLEAN
  BY DEF Init, RamioInit
<1>6. TypeOK
  BY <1>2, <1>3, <1>4, <1>5 DEF Init, TxInit, RamioInit, TypeOK
<1> QED
  BY <1>6 DEF Init, TxInit, RamioInit, TxRegisters

LEMMA TypedStep == TypeOK /\ TxRegisters /\ [Next]_vars => (TypeOK /\ TxRegisters)'
<1> SUFFICES ASSUME TypeOK, TxRegisters, [Next]_vars
             PROVE  TypeOK' /\ TxRegisters'
  OBVIOUS
<1>1. CASE Next
  <2>1. Moves
    BY <1>1 DEF Next, UartStep, SendSide, Moves
  <2>2. uart_tx \in {0, 1}
    BY LineLevel
  <2> QED
    BY <2>1, <2>2, TxTyped, RxTyped, TxRegistersKept DEF Moves, TypeOK
<1>2. CASE UNCHANGED vars
  BY <1>2 DEF vars, txVars, rxVars, ramioVars, TypeOK, TxRegisters, elapsed
<1> QED
  BY <1>1, <1>2

\* Counters, registers and the bits sampled keep their ranges, and the counter of
\* the stop bit does not go below zero: for every pair of bit times.
THEOREM LinkTypeCorrect == Spec => []TypeOK
BY TypedInit, TypedStep, PTL DEF Spec

\* The byte does not change and 'go' is not withdrawn while the transmitter sends
\* it, whenever the program writes: like uart_send_char it does so only when it
\* reads -1.
THEOREM LinkSteady == Spec => Steady
<1>1. TypeOK /\ TxRegisters /\ [Next]_vars
        => [uarttx_busy(uarttx_go) =>
              uarttx_go' /\ UNCHANGED uarttx_data_sending]_<<txVars, ramioVars>>
  BY BusyKeepsByte DEF Next, UartStep, SendSide, vars
<1> QED
  BY <1>1, TypedInit, TypedStep, PTL DEF Spec, Steady

-----------------------------------------------------------------------------
LEMMA InvInit ==
  ASSUME SameBitTime, Init
  PROVE  Inv
<1>1. TypeOK
  BY TypedInit
<1> QED
  BY <1>1 DEF Init, TxInit, RxInit, RamioInit, Inv, TxRegisters, RxRegisters, InStep,
              Sampled, rx_holds_byte, ReadBeforeNext

LEMMA InvStep ==
  ASSUME SameBitTime, Inv, [Next]_vars
  PROVE  Inv'
<1>1. CASE Next
  <2>1. Moves /\ InPhase
    BY <1>1 DEF Next, UartStep, SendSide, Moves, Inv, InPhase
  <2>2. TypeOK'
    <3>1. uart_tx \in {0, 1}
      BY LineLevel DEF Inv
    <3> QED
      BY <2>1, <3>1, TxTyped, RxTyped DEF Moves, InPhase, TypeOK
  <2>3. TxRegisters'
    BY <2>1, TxRegistersKept DEF Moves, InPhase
  <2>4. RxRegisters'
    BY <2>1, RxRegistersKept DEF Moves, InPhase
  <2>5. InStep' /\ Sampled'
    BY <2>1, InStepFromIdle, InStepFromStartBit, InStepFromDataBits, InStepFromStopBit
       DEF InPhase, TypeOK, FrameStates
  <2>6. ReadBeforeNext'
    BY <2>1, ReadBeforeNextKept
  <2> QED
    BY <2>2, <2>3, <2>4, <2>5, <2>6 DEF Inv
<1>2. CASE UNCHANGED vars
  BY <1>2 DEF vars, txVars, rxVars, ramioVars, Inv, TypeOK, TxRegisters, RxRegisters,
     InStep, AtStartBit, AtDataBits, AtStopBit, Rx, elapsed, Sampled, rx_holds_byte,
     ReadBeforeNext, since_copied
<1> QED
  BY <1>1, <1>2

\* Two boards of the same bit time stay in step: the receiver follows half a bit
\* behind and has sampled what was sent.
THEOREM LinkInvariant == ASSUME SameBitTime PROVE Spec => []Inv
<1>1. Init => Inv
  BY InvInit
<1>2. Inv /\ [Next]_vars => Inv'
  BY InvStep
<1> QED
  BY <1>1, <1>2, PTL DEF Spec

(***************************************************************************)
(* Two boards of the same bit time, the reader in time, are a channel: the *)
(* safety part of IsChannel, for every bit time, counter width and set of  *)
(* bytes.                                                                  *)
(***************************************************************************)

\* a byte is in the receiver or in the transmitter, never in both
in_flight == rx_holds_byte(uartrx_go) \/ tx_holds_byte
arrived   == uartrx_data_received # Nothing

Phases ==
  /\ uarttx_state = "Idle" => (in_flight <=> uarttx_go)
  /\ uarttx_state \in {"StartBit", "DataBits"} => in_flight
  /\ uarttx_state \in {"StopBit", "WaitForGoLow"} =>
       /\ in_flight <=> elapsed <= half_bit + 1
       /\ received  <=> elapsed = half_bit + 1
  /\ received => uarttx_state \in {"StopBit", "WaitForGoLow"}

LEMMA InFlight == SameBitTime /\ InPhase => Phases
<1> SUFFICES ASSUME SameBitTime, InPhase PROVE Phases
  OBVIOUS
<1> DEFINE e == elapsed
           h == half_bit
<1>1. e \in Int /\ h \in Nat
  BY HalfBit, ElapsedRange DEF InPhase
<1>2. received <=> uartrx_state = "WaitForGoLow" /\ uartrx_go
  BY DEF received, InPhase, RxRegisters
<1>3. CASE uarttx_state = "Idle"
  BY <1>2, <1>3 DEF InPhase, InStep, Phases, in_flight, rx_holds_byte,
                    tx_holds_byte
<1>4. CASE uarttx_state = "StartBit"
  BY <1>2, <1>4 DEF InPhase, TxRegisters, InStep, AtStartBit, Rx, Phases,
                    in_flight, rx_holds_byte, tx_holds_byte
<1>5. CASE uarttx_state = "DataBits"
  BY <1>2, <1>5 DEF InPhase, InStep, AtDataBits, Rx, Phases, in_flight, rx_holds_byte,
                    tx_holds_byte, rx_has_sampled_byte
<1>6. CASE uarttx_state \in {"StopBit", "WaitForGoLow"}
  <2>1. AtStopBit /\ ~tx_holds_byte
    BY <1>6 DEF InPhase, InStep, tx_holds_byte
  <2> HIDE DEF e, h
  <2>2. \/ e <= h /\ uartrx_state = "StopBit"
        \/ e = h + 1 /\ uartrx_state = "WaitForGoLow" /\ uartrx_go
        \/ e = h + 2 /\ uartrx_state = "WaitForGoLow" /\ ~uartrx_go
        \/ e > h + 2 /\ uartrx_state = "Idle"
    BY <2>1 DEF AtStopBit, Rx, e, h
  <2>3. (rx_holds_byte(uartrx_go) <=> e <= h + 1) /\ (received <=> e = h + 1)
    BY <1>1, <1>2, <2>2 DEF rx_holds_byte
  <2> QED
    BY <1>6, <2>1, <2>3 DEF Phases, in_flight, e, h
<1> QED
  BY <1>3, <1>4, <1>5, <1>6 DEF InPhase, TypeOK, FrameStates

\* the register of ramio.sv, then what is in flight
InPlaces == under_way = place(arrived, uartrx_data_received)
                        \o place(in_flight, uarttx_data_sending)

LEMMA UnderWay == SameBitTime /\ InPhase => InPlaces
<1> SUFFICES ASSUME SameBitTime, InPhase PROVE InPlaces
  OBVIOUS
<1>1. ~(rx_holds_byte(uartrx_go) /\ tx_holds_byte)
  BY DEF InPhase, InStep, AtStartBit, Rx, rx_holds_byte, tx_holds_byte,
         rx_has_sampled_byte
<1>2. rx_holds_byte(uartrx_go) => uartrx_data = uarttx_data_sending
  BY DEF InPhase, Sampled
<1>3. CASE rx_holds_byte(uartrx_go)
  BY <1>1, <1>2, <1>3 DEF InPlaces, under_way, in_flight, arrived, place
<1>4. CASE ~rx_holds_byte(uartrx_go)
  BY <1>1, <1>4 DEF InPlaces, under_way, in_flight, arrived, place
<1> QED
  BY <1>3, <1>4

-----------------------------------------------------------------------------
(* What one cycle does to a byte in flight. *)

LEMMA Sends ==
  ASSUME SameBitTime, InPhase, Phases, Phases', Moves, SendChar
  PROVE  /\ ~in_flight /\ ~received
         /\ in_flight'
<1>1. ~uarttx_go /\ uarttx_go' /\ uarttx_state \in {"Idle", "WaitForGoLow"}
  BY DEF SendChar, Send, InPhase, TypeOK, FrameStates, TxRegisters
<1>2. CASE uarttx_state = "Idle"
  <2>1. uarttx_state' = "Idle"
    BY <1>1, <1>2, FromIdle DEF InPhase, Moves
  <2> QED
    BY <1>1, <1>2, <2>1 DEF Phases
<1>3. CASE uarttx_state = "WaitForGoLow"
  <2>1. elapsed = TX_BIT_TIME + 1
    BY <1>1, <1>3 DEF elapsed
  <2>2. elapsed > half_bit + 1 /\ elapsed > TX_BIT_TIME
    BY <2>1, HalfBit
  <2>3. uarttx_state' = "Idle"
    BY <1>3, <2>2, FromStopBit DEF InPhase, Moves
  <2>4. half_bit \in Nat /\ elapsed \in Int
    BY HalfBit, ElapsedRange DEF InPhase
  <2>5. ~(elapsed <= half_bit + 1) /\ elapsed # half_bit + 1
    BY <2>2, <2>4
  <2> QED
    BY <1>1, <1>3, <2>3, <2>5 DEF Phases
<1> QED
  BY <1>1, <1>2, <1>3

LEMMA Copies ==
  ASSUME SameBitTime, InPhase, Phases, Moves, received
  PROVE  /\ in_flight /\ ~in_flight'
         /\ uartrx_data_received' = uarttx_data_sending
         /\ uarttx_data_sending # Nothing
<1>1. /\ uarttx_state \in {"StopBit", "WaitForGoLow"}
      /\ elapsed = half_bit + 1
  BY DEF Phases
<1>2. in_flight /\ elapsed <= TX_BIT_TIME
  BY <1>1, HalfBit DEF Phases
<1>3. uarttx_state' \in {"StopBit", "WaitForGoLow"}
  BY <1>1, <1>2, FromStopBit DEF InPhase, Moves
<1>4. uartrx_go' = FALSE /\ uartrx_data_received' = uartrx_data
  BY DEF Moves, ReadUartIn, LeaveUartIn, Receive
<1>5. uartrx_state = "WaitForGoLow" /\ uartrx_go
  BY DEF received, InPhase, RxRegisters
<1>6. uartrx_state' = "WaitForGoLow"
  BY <1>5, RxFromWait DEF InPhase, Moves, rxVars
<1>7. ~in_flight'
  BY <1>3, <1>4, <1>6 DEF in_flight, tx_holds_byte, rx_holds_byte
<1>8. uartrx_data = uarttx_data_sending /\ uartrx_data # Nothing
  BY <1>5, NothingAssumption DEF InPhase, TypeOK, Sampled, rx_holds_byte
<1> QED
  BY <1>2, <1>4, <1>7, <1>8

LEMMA GoesOn ==
  ASSUME SameBitTime, InPhase, Phases, Phases', Moves, Acknowledge, ~received
  PROVE  /\ in_flight' <=> in_flight
         /\ in_flight => uarttx_data_sending' = uarttx_data_sending
<1> DEFINE B == TX_BIT_TIME
           h == half_bit
<1>1. elapsed \in Int /\ h \in Nat /\ B \in Nat /\ h < B
  BY HalfBit, ElapsedRange DEF InPhase
<1>2. CASE uarttx_state = "Idle" /\ ~uarttx_go
  <2>1. uarttx_state' = "Idle" /\ ~uarttx_go'
    BY <1>2, FromIdle DEF InPhase, Moves, Acknowledge
  <2> QED
    BY <1>2, <2>1 DEF Phases
<1>3. CASE \/ uarttx_state = "Idle" /\ uarttx_go
           \/ uarttx_state \in {"StartBit", "DataBits"}
  <2>1. in_flight
    BY <1>3 DEF Phases
  <2>2. uarttx_go' /\ uarttx_data_sending' = uarttx_data_sending
    BY <1>3, BusyKeepsByte DEF InPhase, Moves, uarttx_busy
  <2>3. CASE uarttx_state' = "StopBit"
    <3>1. elapsed' = 0
      BY <1>3, <2>3, FromIdle, FromStartBit, FromDataBits, ElapsedRange, HalfBit
         DEF InPhase, Moves, TypeOK, BitIndices
    <3>2. 0 <= h' + 1
      BY <1>1 DEF half_bit
    <3> QED
      BY <2>1, <2>2, <2>3, <3>1, <3>2 DEF Phases
  <2>4. CASE uarttx_state' \in {"Idle", "StartBit", "DataBits"}
    BY <2>1, <2>2, <2>4 DEF Phases
  <2>5. uarttx_state' \in {"StartBit", "DataBits", "StopBit"}
    BY <1>3, FromIdle, FromStartBit, FromDataBits, ElapsedRange, HalfBit
       DEF InPhase, Moves, TypeOK, BitIndices
  <2> QED
    BY <2>3, <2>4, <2>5
<1>4. CASE uarttx_state \in {"StopBit", "WaitForGoLow"}
  <2>1. (in_flight <=> elapsed <= h + 1) /\ elapsed # h + 1
    BY <1>4 DEF Phases
  <2>2. CASE elapsed <= B
    <3>1. uarttx_state' \in {"StopBit", "WaitForGoLow"} /\ elapsed' = elapsed + 1
      BY <1>4, <2>2, FromStopBit DEF InPhase, Moves
    <3>2. in_flight' <=> elapsed + 1 <= h + 1
      BY <3>1 DEF Phases, half_bit
    <3>3. ASSUME in_flight PROVE uarttx_data_sending' = uarttx_data_sending
      <4>1. elapsed < B
        BY <1>1, <2>1, <3>3
      <4>2. uarttx_state # "WaitForGoLow"
        BY <1>1, <4>1, ElapsedRange DEF InPhase
      <4> QED
        BY <1>4, <4>2, BusyKeepsByte DEF InPhase, Moves, uarttx_busy
    <3> QED
      BY <1>1, <2>1, <3>2, <3>3
  <2>3. CASE elapsed > B
    <3>1. uarttx_state' = "Idle"
      BY <1>4, <2>3, FromStopBit DEF InPhase, Moves
    <3>2. uarttx_state = "WaitForGoLow"
      BY <1>1, <1>4, <2>3, ElapsedRange DEF InPhase
    <3>3. ~uarttx_go
      BY <1>1, <2>3, <3>2 DEF elapsed
    <3>4. ~uarttx_go'
      BY <3>3 DEF Acknowledge
    <3>5. ~(elapsed <= h + 1)
      BY <1>1, <2>3
    <3> QED
      BY <2>1, <3>1, <3>4, <3>5 DEF Phases
  <2> QED
    BY <1>1, <2>2, <2>3
<1> QED
  BY <1>2, <1>3, <1>4 DEF InPhase, TypeOK, FrameStates

-----------------------------------------------------------------------------
LEMMA Places ==
  ASSUME NEW a, NEW b
  PROVE  /\ <<a>> \o <<b>> = <<a, b>> /\ <<a>> \o <<>> = <<a>>
         /\ <<>> \o <<b>> = <<b>> /\ <<>> \o <<>> = <<>>
         /\ Head(<<a, b>>) = a /\ Tail(<<a, b>>) = <<b>>
         /\ Head(<<a>>) = a /\ Tail(<<a>>) = <<>>
         /\ Append(<<a>>, b) = <<a, b>> /\ Append(<<>>, b) = <<b>>
         /\ Len(<<>>) = 0 /\ Len(<<a>>) = 1
         /\ <<a>> # <<>> /\ <<a, b>> # <<>>
<1> DEFINE S == {a, b}
<1>a. <<a>> \in Seq(S) /\ <<b>> \in Seq(S) /\ <<a, b>> \in Seq(S)
  OBVIOUS
<1>1. <<a>> \o <<b>> = <<a, b>>
  <2>1. /\ <<a>> \o <<b>> \in Seq(S) /\ Len(<<a>> \o <<b>>) = 2
        /\ (<<a>> \o <<b>>)[1] = a /\ (<<a>> \o <<b>>)[2] = b
    BY <1>a, ConcatProperties
  <2>2. \A i \in 1..2 : (<<a>> \o <<b>>)[i] = <<a, b>>[i]
    <3>1. \A i \in 1..2 : i = 1 \/ i = 2
      OBVIOUS
    <3> QED
      BY <2>1, <3>1
  <2>3. Len(<<a, b>>) = 2
    OBVIOUS
  <2> HIDE DEF S
  <2> QED
    BY <1>a, <2>1, <2>2, <2>3, SeqEqual
<1>2. <<a>> \o <<>> = <<a>>
  OBVIOUS
<1>3. <<>> \o <<b>> = <<b>> /\ <<>> \o <<>> = <<>>
  OBVIOUS
<1>4. Head(<<a, b>>) = a
  OBVIOUS
<1>5. Tail(<<a, b>>) = <<b>>
  OBVIOUS
<1>6. Head(<<a>>) = a
  OBVIOUS
<1>7. Tail(<<a>>) = <<>>
  OBVIOUS
<1>8. Append(<<a>>, b) = <<a, b>>
  <2>1. /\ Append(<<a>>, b) \in Seq(S) /\ Len(Append(<<a>>, b)) = 2
        /\ Append(<<a>>, b)[1] = a /\ Append(<<a>>, b)[2] = b
    BY <1>a, AppendProperties
  <2>2. \A i \in 1..2 : Append(<<a>>, b)[i] = <<a, b>>[i]
    <3>1. \A i \in 1..2 : i = 1 \/ i = 2
      OBVIOUS
    <3> QED
      BY <2>1, <3>1
  <2>3. Len(<<a, b>>) = 2
    OBVIOUS
  <2> HIDE DEF S
  <2> QED
    BY <1>a, <2>1, <2>2, <2>3, SeqEqual
<1>9. Append(<<>>, b) = <<b>>
  OBVIOUS
<1>10. Len(<<>>) = 0 /\ Len(<<a>>) = 1
  OBVIOUS
<1>11. <<a>> # <<>> /\ <<a, b>> # <<>>
  OBVIOUS
<1> QED
  BY <1>1, <1>2, <1>3, <1>4, <1>5, <1>6, <1>7, <1>8, <1>9, <1>10, <1>11

LEMMA ChannelStep ==
  ASSUME SameBitTime, ReadsInTime, Inv, Inv', Next
  PROVE  Line!ChannelNext \/ UNCHANGED Line!channelVars
<1> DEFINE held == uartrx_data_received
           sending == uarttx_data_sending
<1>1. InPhase /\ Moves /\ InPhase'
  BY DEF Inv, InPhase, Next, UartStep, SendSide, Moves
<1>2. Phases /\ InPlaces
  BY <1>1, InFlight, UnderWay
<1>3. Phases' /\ InPlaces'
  <2>1. SameBitTime'
    BY DEF SameBitTime
  <2> QED
    BY <1>1, <2>1, InFlight, UnderWay, PTL
<1>4. under_way = place(arrived, held) \o place(in_flight, sending)
  BY <1>2 DEF InPlaces
<1>5. under_way' = place(arrived', held') \o place(in_flight', sending')
  BY <1>3 DEF InPlaces, place
<1>6. /\ ~arrived => UNCHANGED <<ch, parity>>
      /\ LeaveUartIn => UNCHANGED <<ch, parity>>
      /\ ReadUartIn /\ arrived => ch' = held /\ parity' = 1 - parity
  BY <1>1 DEF Moves, ReadUartIn, LeaveUartIn, arrived
<1>7. ~received => /\ ReadUartIn => ~arrived'
                   /\ LeaveUartIn => held' = held /\ (arrived' <=> arrived)
  BY DEF ReadUartIn, LeaveUartIn, Receive, arrived
<1>8. CASE SendChar
  <2>1. ~in_flight /\ ~received /\ in_flight'
    BY <1>1, <1>2, <1>3, <1>8, Sends
  <2>2. PICK byte \in Data : sending' = byte
    BY <1>8 DEF SendChar, Send
  <2>3. CASE ReadUartIn /\ arrived
    <3>1. under_way = <<held>> /\ under_way' = <<byte>>
      BY <1>4, <1>5, <1>7, <2>1, <2>2, <2>3, Places DEF place
    <3>2. Line!WriteAndRead(byte)
      BY <1>6, <2>3, <3>1, Places DEF Line!WriteAndRead
    <3> QED
      BY <3>2 DEF Line!ChannelNext, Line!AnyRead
  <2>4. CASE LeaveUartIn /\ arrived
    <3>1. under_way = <<held>> /\ under_way' = <<held, byte>>
      BY <1>4, <1>5, <1>7, <2>1, <2>2, <2>4, Places DEF place
    <3>2. Line!Write(byte)
      BY <1>6, <2>4, <3>1, Places DEF Line!Write
    <3> QED
      BY <3>2 DEF Line!ChannelNext
  <2>5. CASE ~arrived
    <3>1. under_way = <<>> /\ under_way' = <<byte>>
      BY <1>1, <1>4, <1>5, <1>7, <2>1, <2>2, <2>5, Places DEF place, Moves
    <3>2. Line!Write(byte)
      BY <1>6, <2>5, <3>1, Places DEF Line!Write
    <3> QED
      BY <3>2 DEF Line!ChannelNext
  <2> QED
    BY <1>1, <2>3, <2>4, <2>5 DEF Moves
<1>9. CASE received
  <2>1. in_flight /\ ~in_flight' /\ held' = sending /\ sending # Nothing
    BY <1>1, <1>2, <1>9, Copies
  <2>2. under_way' = <<sending>>
    BY <1>5, <2>1, Places DEF place, arrived
  <2>3. CASE arrived
    <3>1. ReadUartIn
      BY <1>1, <1>9, <2>3, ReadInTime DEF arrived
    <3>2. under_way = <<held, sending>>
      BY <1>4, <2>1, <2>3, Places DEF place
    <3>3. Line!Read
      BY <1>6, <2>2, <2>3, <3>1, <3>2, Places DEF Line!Read
    <3> QED
      BY <3>3 DEF Line!ChannelNext, Line!AnyRead
  <2>4. CASE ~arrived
    <3>1. under_way = <<sending>>
      BY <1>4, <2>1, <2>4, Places DEF place
    <3> QED
      BY <1>6, <2>2, <2>4, <3>1 DEF Line!channelVars
  <2> QED
    BY <2>3, <2>4
<1>10. CASE Acknowledge /\ ~received
  <2>1. (in_flight' <=> in_flight) /\ (in_flight => sending' = sending)
    BY <1>1, <1>2, <1>3, <1>10, GoesOn
  <2>2. place(in_flight', sending') = place(in_flight, sending)
    BY <2>1 DEF place
  <2>3. CASE ReadUartIn /\ arrived
    <3>1. under_way = <<held>> \o place(in_flight, sending)
      BY <1>4, <2>3 DEF place
    <3>2. under_way' = <<>> \o place(in_flight, sending)
      BY <1>5, <1>7, <1>10, <2>2, <2>3 DEF place
    <3>3. /\ under_way # <<>> /\ Head(under_way) = held
          /\ Tail(under_way) = under_way'
      <4>1. CASE in_flight
        <5>1. under_way = <<held, sending>> /\ under_way' = <<sending>>
          BY <3>1, <3>2, <4>1, Places DEF place
        <5> QED
          BY <5>1, Places
      <4>2. CASE ~in_flight
        BY <3>1, <3>2, <4>2, Places DEF place
      <4> QED
        BY <4>1, <4>2
    <3>4. Line!Read
      BY <1>6, <2>3, <3>3 DEF Line!Read
    <3> QED
      BY <3>4 DEF Line!ChannelNext, Line!AnyRead
  <2>4. CASE LeaveUartIn \/ ~arrived
    <3>1. place(arrived', held') = place(arrived, held)
      BY <1>1, <1>7, <1>10, <2>4 DEF place, Moves
    <3> QED
      BY <1>1, <1>4, <1>5, <1>6, <2>2, <2>4, <3>1 DEF Line!channelVars
  <2> QED
    BY <1>1, <2>3, <2>4 DEF Moves
<1> QED
  BY <1>8, <1>9, <1>10 DEF Next

LEMMA EmptyAtFirst == Init => Line!ChannelInit
BY Places
   DEF Init, TxInit, RxInit, RamioInit, Line!ChannelInit, under_way, place,
       rx_holds_byte, tx_holds_byte

\* What one board writes the other reads, every byte once, unchanged and in order:
\* for every bit time the two have in common, when the reader reads UartIn once in
\* every 10 * TX_BIT_TIME + 2 cycles.
THEOREM ConnectionIsChannel ==
  ASSUME SameBitTime, ReadsInTime PROVE Spec => Line!ChannelSafety
<1>1. Inv /\ Inv' /\ [Next]_vars => [Line!ChannelNext]_(Line!channelVars)
  <2>1. UNCHANGED vars => UNCHANGED Line!channelVars
    BY DEF vars, txVars, rxVars, ramioVars, Line!channelVars, under_way, place,
           rx_holds_byte, tx_holds_byte, rx_has_sampled_byte
  <2> QED
    BY <2>1, ChannelStep
<1> QED
  BY <1>1, LinkInvariant, EmptyAtFirst, PTL DEF Spec, Line!ChannelSafety

=============================================================================
