-------------------------------- MODULE UartRx --------------------------------
(***************************************************************************)
(* uartrx.sv: the receiver.  It starts when the line goes low, samples     *)
(* every bit in its middle and waits for 'go' to be withdrawn.             *)
(***************************************************************************)
EXTENDS Integers

CONSTANTS RX_BIT_TIME,      \* ClockFrequencyHz / BaudRate
          RxCounterModulus  \* 2 ^ width of 'bit_counter'

ASSUME RxAssumption == /\ RX_BIT_TIME \in Nat \ {0}
                       /\ RxCounterModulus \in Nat \ {0, 1}
                       /\ RxCounterModulus >= RX_BIT_TIME

VARIABLES uartrx_state, uartrx_data, uartrx_data_ready,
          uartrx_bit_count, uartrx_bit_counter

rxVars == <<uartrx_state, uartrx_data, uartrx_data_ready,
            uartrx_bit_count, uartrx_bit_counter>>

RxInit == /\ uartrx_state = "Idle"
          /\ uartrx_data = [i \in 0..7 |-> 0]
          /\ uartrx_data_ready = FALSE
          /\ uartrx_bit_count = 0
          /\ uartrx_bit_counter = 0

\* mutant: the first sample is taken one cycle later
rx_half_bit_late == IF RX_BIT_TIME = 1 THEN 0 ELSE RX_BIT_TIME \div 2

\* from the first low level of the start bit to its middle
rx_half_bit == IF RX_BIT_TIME = 1 THEN 0 ELSE RX_BIT_TIME \div 2 - 1

RxStart(go, rx) ==
  /\ uartrx_state = "Idle"
  /\ go /\ rx = 0
  /\ uartrx_bit_counter' = rx_half_bit
  /\ uartrx_state' = IF RX_BIT_TIME = 1 THEN "DataBits" ELSE "StartBit"
  /\ UNCHANGED <<uartrx_data, uartrx_data_ready, uartrx_bit_count>>

rx_bit_ticks == RX_BIT_TIME - 1

rx_tick_over == uartrx_bit_counter = 0
rx_next_tick == (uartrx_bit_counter - 1) % RxCounterModulus

RxStartBit ==
  /\ uartrx_state = "StartBit"
  /\ IF rx_tick_over
       THEN /\ uartrx_bit_counter' = rx_bit_ticks
            /\ uartrx_bit_count' = 0
            /\ uartrx_state' = "DataBits"
       ELSE /\ uartrx_bit_counter' = rx_next_tick
            /\ UNCHANGED <<uartrx_state, uartrx_bit_count>>
  /\ UNCHANGED <<uartrx_data, uartrx_data_ready>>

RxDataBits(rx) ==
  /\ uartrx_state = "DataBits"
  /\ IF rx_tick_over
       THEN /\ uartrx_data' = [uartrx_data EXCEPT ![uartrx_bit_count] = rx]
            /\ uartrx_bit_counter' = rx_bit_ticks
            /\ uartrx_bit_count' = (uartrx_bit_count + 1) % 8
            /\ uartrx_state' = IF uartrx_bit_count = 7 THEN "StopBit" ELSE "DataBits"
       ELSE /\ uartrx_bit_counter' = rx_next_tick
            /\ UNCHANGED <<uartrx_state, uartrx_data, uartrx_bit_count>>
  /\ UNCHANGED uartrx_data_ready

RxStopBit ==
  /\ uartrx_state = "StopBit"
  /\ uartrx_bit_counter' = rx_next_tick
  /\ IF rx_tick_over
       THEN uartrx_data_ready' = TRUE /\ uartrx_state' = "WaitForGoLow"
       ELSE UNCHANGED <<uartrx_data_ready, uartrx_state>>
  /\ UNCHANGED <<uartrx_data, uartrx_bit_count>>

RxAcknowledged(go) ==
  /\ uartrx_state = "WaitForGoLow"
  /\ ~go
  /\ uartrx_data_ready' = FALSE
  /\ uartrx_state' = "Idle"
  /\ UNCHANGED <<uartrx_data, uartrx_bit_count, uartrx_bit_counter>>

\* Idle until the line goes low, WaitForGoLow until 'go' is withdrawn
RxWaits(go, rx) == /\ \/ uartrx_state = "Idle" /\ ~(go /\ rx = 0)
                      \/ uartrx_state = "WaitForGoLow" /\ go
                   /\ UNCHANGED rxVars

RxStep(go, rx) == \/ RxStart(go, rx) \/ RxStartBit \/ RxDataBits(rx) \/ RxStopBit
                  \/ RxAcknowledged(go) \/ RxWaits(go, rx)

-----------------------------------------------------------------------------
\* the whole byte has been sampled, ramio.sv has not copied it yet
rx_holds_byte(go) == \/ uartrx_state = "StopBit"
                     \/ uartrx_state = "WaitForGoLow" /\ go

rx_has_sampled_byte == uartrx_state \in {"StopBit", "WaitForGoLow"}
=============================================================================
