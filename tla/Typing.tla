-------------------------------- MODULE Typing --------------------------------
(***************************************************************************)
(* LineEditor behind the serial port, in steps of the time of one frame.   *)
(* The keyboard sends the characters of a key one after the other and then *)
(* leaves Gap frames; ramio.sv keeps the last character that arrived, read *)
(* or not.  The program does not read while it waits to send: in one frame *)
(* time one character goes out and one may come in.  Nor does it read from *)
(* the end of a line to the next prompt, however long what it prints then  *)
(* takes; keys are typed all the same.                                     *)
(***************************************************************************)
EXTENDS LineEditor

CONSTANTS Typed,  \* the letters that are typed
          Gap     \* frame times the keyboard leaves after a key

ASSUME TypingAssumption == Gap \in Nat /\ Typed \subseteq Letters

VARIABLES key, pause,  \* what is left of the key that is sent, of the gap after it
          uart_in      \* <<the character in the register>>, or empty

typingVars == <<key, pause, uart_in>>

\* the keys of the keyboard and the characters they send: the arrows, delete,
\* home, and a letter with Alt
KeyStrokes == {<<ch>> : ch \in Typed \cup {"DEL", "CR"}}
              \cup {<<"ESC", "[", "D">>, <<"ESC", "[", "C">>, <<"ESC", "[", "A">>,
                    <<"ESC", "[", "3", "~">>, <<"ESC", "[", "1", "~">>, <<"ESC", "a">>}

TypingInit == /\ Init
              /\ key = <<>> /\ pause = 0 /\ uart_in = <<>>

\* at the prompt or while the program prints
Press == /\ key = <<>> /\ pause = 0
         /\ key' \in KeyStrokes
         /\ UNCHANGED <<vars, pause, uart_in>>

\* the program is much faster than a frame
can_read == uart_in # <<>> /\ entered = <<>> /\ Len(out) <= 1

Read == /\ can_read
        /\ Key(uart_in[1]) /\ uart_in' = <<>>
        /\ UNCHANGED <<key, pause>>

\* the register keeps what came last while the program printed
Prompt == NewLine /\ UNCHANGED typingVars

Arrive == IF key = <<>>
            THEN /\ pause' = IF pause = 0 THEN 0 ELSE pause - 1
                 /\ UNCHANGED <<key, uart_in>>
            ELSE /\ uart_in' = <<Head(key)>>
                 /\ key' = Tail(key)
                 /\ pause' = IF Tail(key) = <<>> THEN Gap ELSE 0

Frame == /\ ~can_read
         /\ key # <<>> \/ pause # 0 \/ out # <<>>
         /\ Arrive
         /\ Transmit \/ (out = <<>> /\ UNCHANGED vars)

TypingNext == Press \/ Read \/ Prompt \/ Frame

\* a command ends, and the program asks for the next
TypingSpec == /\ TypingInit /\ [][TypingNext]_<<vars, typingVars>>
              /\ WF_<<vars, typingVars>>(Read \/ Frame)
              /\ WF_<<vars, typingVars>>(Prompt)

-----------------------------------------------------------------------------
\* A character is written over one that was not read, in the register of ramio.sv
\* that holds only one, while a command prints and at no other time: input() loses
\* none, though the echo in the middle of a line is twice what follows and though
\* the line may begin with what is left of a key that came too early.
NoCharacterLost == [][key # <<>> /\ key' # key /\ uart_in # <<>> => entered # <<>>]_<<vars, typingVars>>

\* Every key is echoed before the keyboard has to wait for the next, and read, but
\* for those that come while a command prints: the echo does not pile up.
EchoSettles == key # <<>> ~> (key = <<>> /\ out = <<>> /\ (uart_in # <<>> => entered # <<>>))
=============================================================================
