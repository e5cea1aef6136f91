------------------------------- MODULE RamioUart -------------------------------
(***************************************************************************)
(* The registers of ramio.sv between the program and the two halves of the *)
(* UART: UartOut and UartIn hold a byte, or Nothing (-1).                  *)
(***************************************************************************)
EXTENDS UartTx, UartRx

CONSTANT Nothing
ASSUME NothingAssumption == Nothing \notin Bytes

VARIABLES uarttx_data_sending, uarttx_go, uartrx_data_received, uartrx_go

ramioVars == <<uarttx_data_sending, uarttx_go, uartrx_data_received, uartrx_go>>

RamioInit == /\ uarttx_data_sending = Nothing
             /\ uarttx_go = FALSE
             /\ uartrx_data_received = Nothing
             /\ uartrx_go = TRUE

received == uartrx_go /\ uartrx_data_ready

\* mutant: clearing what was read wins over the byte that arrives
Receive_loses_arrival(read) ==
  /\ uartrx_data_received' = IF read THEN Nothing
                             ELSE IF received THEN uartrx_data
                             ELSE uartrx_data_received
  /\ uartrx_go' = ~received

\* the program reads UartIn in this cycle, or does not
Receive(read) ==
  /\ uartrx_data_received' = IF received THEN uartrx_data
                             ELSE IF read THEN Nothing
                             ELSE uartrx_data_received
  /\ uartrx_go' = ~received

\* mutant: the byte is acknowledged when its last bit is on the line
sent_early == uarttx_go /\ uarttx_state \in {"StopBit", "WaitForGoLow"}

sent == uarttx_go /\ ~uarttx_busy(uarttx_go)

\* mutant: 'go' is withdrawn, the register is not set to -1
Acknowledge_keeps_data ==
  /\ uarttx_go' = (uarttx_go /\ ~sent)
  /\ UNCHANGED uarttx_data_sending

\* no write to UartOut in this cycle
Acknowledge ==
  /\ uarttx_go' = (uarttx_go /\ ~sent)
  /\ uarttx_data_sending' = IF sent THEN Nothing ELSE uarttx_data_sending

\* the program writes a byte to UartOut in this cycle
Send(byte) == uarttx_go' = TRUE /\ uarttx_data_sending' = byte

\* the line as the transmitter drives it; it looks at 'data' only while it sends
uart_tx == tx(uarttx_data_sending, uarttx_go)

\* for the places a byte can be in
place(holds, byte) == IF holds THEN <<byte>> ELSE <<>>

UartStep(rx) == TxStep(uarttx_go) /\ RxStep(uartrx_go, rx)

\* uarttx.sv reads 'data' bit by bit while it sends: until it is done the byte
\* must not change and 'go' must not be withdrawn, for every program that, as
\* uart_send_char does, writes UartOut only when it reads -1.
Steady == [][uarttx_busy(uarttx_go) =>
               uarttx_go' /\ UNCHANGED uarttx_data_sending]_<<txVars, ramioVars>>
=============================================================================
