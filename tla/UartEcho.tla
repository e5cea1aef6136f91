------------------------------- MODULE UartEcho -------------------------------
(***************************************************************************)
(* A board and a serial terminal.  The program echoes what is typed, as    *)
(* input() of os_common.hpp does at the end of a line: uart_read_char,     *)
(* then uart_send_char, which waits until the transmitter is done while    *)
(* the next byte is received.                                              *)
(***************************************************************************)
EXTENDS RamioUart, Sequences

CONSTANTS Data,               \* the bytes that are typed, as numbers
          TERMINAL_BIT_TIMES, \* of terminals, in clock cycles of the board
          Gap,                \* cycles the terminal leaves between two frames
          PollLimit           \* cycles from one access of the program to the next

ASSUME EchoAssumption == /\ Data \subseteq 0 .. 255
                         /\ TERMINAL_BIT_TIMES \subseteq Nat \ {0}
                         /\ Gap \in Nat /\ PollLimit \in Nat \ {0}

VARIABLES terminal_bit_time,  \* of the terminal that is connected
          frame, frame_time,  \* the byte the terminal sends and how far it is
          access,             \* what the program waits to do
          since_access,       \* for how many cycles
          ch,                 \* the byte it has read
          echoed, parity      \* the byte it has written last, and how many

programVars  == <<access, since_access, ch, echoed, parity>>
terminalVars == <<terminal_bit_time, frame, frame_time>>
vars == <<txVars, rxVars, ramioVars, terminalVars, programVars>>

frame_end == 10 * terminal_bit_time
quiet     == frame_end + Gap - 1

Init == /\ TxInit /\ RxInit /\ RamioInit
        /\ terminal_bit_time \in TERMINAL_BIT_TIMES
        /\ frame = Nothing /\ frame_time = quiet
        /\ access = "ReadUartIn" /\ since_access = 0
        /\ ch = Nothing /\ echoed = Nothing /\ parity = 0

-----------------------------------------------------------------------------
\* the bytes that are typed, the lowest bit first
typed == {[i \in BitIndices |-> (n \div 2 ^ i) % 2] : n \in Data}

\* The terminal: a start bit, eight bits, a stop bit, and Gap cycles of silence.
uart_rx == LET bit == frame_time \div terminal_bit_time
           IN CASE bit = 0     -> 0
                [] bit \in 1..8 -> frame[bit - 1]
                [] OTHER       -> 1

Type == /\ frame_time = quiet
        /\ frame' \in typed
        /\ frame_time' = 0
        /\ UNCHANGED terminal_bit_time

TerminalWaits == frame_time = quiet /\ UNCHANGED terminalVars

TerminalSends == /\ frame_time < quiet
                 /\ frame_time' = frame_time + 1
                 /\ UNCHANGED <<terminal_bit_time, frame>>

-----------------------------------------------------------------------------
\* The program: each access is one cycle, other instructions are in between.
Compute == /\ since_access + 1 < PollLimit
           /\ since_access' = since_access + 1
           /\ Receive(FALSE) /\ Acknowledge
           /\ UNCHANGED <<access, ch, echoed, parity>>

\* uart_read_char
ReadUartIn == /\ access = "ReadUartIn"
              /\ since_access' = 0
              /\ Receive(TRUE) /\ Acknowledge
              /\ IF uartrx_data_received = Nothing
                   THEN UNCHANGED <<access, ch>>
                   ELSE access' = "ReadUartOut" /\ ch' = uartrx_data_received
              /\ UNCHANGED <<echoed, parity>>

\* uart_send_char: wait until -1 is read, then write
ReadUartOut == /\ access = "ReadUartOut"
               /\ since_access' = 0
               /\ Receive(FALSE) /\ Acknowledge
               /\ access' = IF uarttx_data_sending = Nothing
                            THEN "WriteUartOut" ELSE "ReadUartOut"
               /\ UNCHANGED <<ch, echoed, parity>>

WriteUartOut == /\ access = "WriteUartOut"
                /\ since_access' = 0
                /\ Receive(FALSE) /\ Send(ch)
                /\ access' = "ReadUartIn"
                /\ echoed' = ch /\ parity' = 1 - parity
                /\ UNCHANGED ch

Next == /\ UartStep(uart_rx)
        /\ Type \/ TerminalWaits \/ TerminalSends
        /\ Compute \/ ReadUartIn \/ ReadUartOut \/ WriteUartOut

Spec == Init /\ [][Next]_vars /\ WF_vars(Next)

-----------------------------------------------------------------------------
\* The bytes typed and not yet echoed, oldest first: in the hands of the
\* program, in the register of ramio.sv, in the receiver, on the line.
on_the_line == \/ frame_time < 8 * terminal_bit_time
               \/ frame_time < 9 * terminal_bit_time /\ ~rx_has_sampled_byte

not_echoed == place(access # "ReadUartIn", ch)
              \o place(uartrx_data_received # Nothing, uartrx_data_received)
              \o place(rx_holds_byte(uartrx_go), uartrx_data)
              \o place(on_the_line, frame)

Echo == INSTANCE Channel WITH Data <- typed, queue <- not_echoed, ch <- echoed,
                         Capacity <- 4

\* Every byte typed is echoed, once and in order, if the terminal leaves enough
\* time between two frames for the program to see that the echo has been sent,
\* and its clock is as far from the board's as TERMINAL_BIT_TIMES says.
EchoesAll == Echo!ChannelSpec
=============================================================================
