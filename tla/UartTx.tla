-------------------------------- MODULE UartTx --------------------------------
(***************************************************************************)
(* uarttx.sv: the transmitter.  The line and 'busy' are combinational; an  *)
(* action is what one clock edge does in one state of the state machine.   *)
(***************************************************************************)
EXTENDS Integers

CONSTANTS TX_BIT_TIME,      \* ClockFrequencyHz / BaudRate
          TxCounterModulus  \* 2 ^ width of 'bit_time_counter'

ASSUME TxAssumption == /\ TX_BIT_TIME \in Nat \ {0}
                       /\ TxCounterModulus \in Nat \ {0, 1}
                       /\ TxCounterModulus >= TX_BIT_TIME

VARIABLES uarttx_state, uarttx_bit_count, uarttx_bit_time_counter

txVars == <<uarttx_state, uarttx_bit_count, uarttx_bit_time_counter>>

FrameStates == {"Idle", "StartBit", "DataBits", "StopBit", "WaitForGoLow"}
BitIndices  == 0..7
Bytes       == [BitIndices -> {0, 1}]

\* a reset leaves the two counters as they power up
TxInit == /\ uarttx_state = "Idle"
          /\ uarttx_bit_count \in BitIndices
          /\ uarttx_bit_time_counter \in 0..(TxCounterModulus - 1)

\* the level of the line while 'data' and 'go' are on the port
tx(data, go) ==
  CASE uarttx_state = "Idle"     -> IF go THEN 0 ELSE 1
    [] uarttx_state = "StartBit" -> 0
    [] uarttx_state = "DataBits" -> data[uarttx_bit_count]
    [] OTHER                     -> 1

uarttx_busy(go) == \/ uarttx_state = "Idle" /\ go
                   \/ uarttx_state \in {"StartBit", "DataBits", "StopBit"}

-----------------------------------------------------------------------------
\* what is left of the start bit: one cycle of it is sent in Idle
tx_start_ticks == IF TX_BIT_TIME = 1 THEN 0 ELSE TX_BIT_TIME - 2

TxStart(go) == /\ uarttx_state = "Idle"
               /\ go
               /\ uarttx_bit_time_counter' = tx_start_ticks
               /\ IF TX_BIT_TIME = 1
                    THEN uarttx_state' = "DataBits" /\ uarttx_bit_count' = 0
                    ELSE uarttx_state' = "StartBit" /\ UNCHANGED uarttx_bit_count

tx_tick_over == uarttx_bit_time_counter = 0
tx_next_tick == (uarttx_bit_time_counter - 1) % TxCounterModulus

TxStartBit == /\ uarttx_state = "StartBit"
              /\ IF tx_tick_over
                   THEN /\ uarttx_bit_time_counter' = TX_BIT_TIME - 1
                        /\ uarttx_bit_count' = 0
                        /\ uarttx_state' = "DataBits"
                   ELSE /\ uarttx_bit_time_counter' = tx_next_tick
                        /\ UNCHANGED <<uarttx_state, uarttx_bit_count>>

TxDataBits == /\ uarttx_state = "DataBits"
              /\ IF tx_tick_over
                   THEN /\ uarttx_bit_time_counter' = TX_BIT_TIME - 1
                        /\ uarttx_bit_count' = (uarttx_bit_count + 1) % 8
                        /\ uarttx_state' = IF uarttx_bit_count = 7
                                           THEN "StopBit" ELSE "DataBits"
                   ELSE /\ uarttx_bit_time_counter' = tx_next_tick
                        /\ UNCHANGED <<uarttx_state, uarttx_bit_count>>

TxStopBit == /\ uarttx_state = "StopBit"
             /\ uarttx_bit_time_counter' = tx_next_tick
             /\ uarttx_state' = IF tx_tick_over THEN "WaitForGoLow" ELSE "StopBit"
             /\ UNCHANGED uarttx_bit_count

TxAcknowledged(go) == /\ uarttx_state = "WaitForGoLow"
                      /\ ~go
                      /\ uarttx_state' = "Idle"
                      /\ UNCHANGED <<uarttx_bit_count, uarttx_bit_time_counter>>

\* Idle until 'go', WaitForGoLow until it is withdrawn
TxWaits(go) == /\ uarttx_state = (IF go THEN "WaitForGoLow" ELSE "Idle")
               /\ UNCHANGED txVars

TxStep(go) == \/ TxStart(go) \/ TxStartBit \/ TxDataBits \/ TxStopBit
              \/ TxAcknowledged(go) \/ TxWaits(go)
=============================================================================
