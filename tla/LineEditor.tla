------------------------------ MODULE LineEditor ------------------------------
(***************************************************************************)
(* input() of os_common.hpp: it reads characters, edits the line and sends *)
(* what makes the terminal show it.  The terminal starts a line behind the *)
(* prompt, at column 0 here, and is as wide as the line; a DEL it receives *)
(* erases the character before the cursor, which the console build sends   *)
(* as backspace, blank, backspace.  Keys are the characters of the         *)
(* keyboard: letters, and the ends and parameters of escape sequences.     *)
(* When they come is in the module Typing.                                 *)
(***************************************************************************)
EXTENDS CursorBuffer, FiniteSets

CONSTANTS Size,            \* of the command buffer, 160 in the source
          Letters,         \* what is typed into the line
          Zero,            \* '\0'
          ParameterBound   \* no larger parameter of an escape sequence is typed

ASSUME LineEditorAssumption ==
  /\ Size \in Nat \ {0} /\ ParameterBound \in Nat
  /\ Letters \cap {"ESC", "DEL", "BS", "CR"} = {}

VARIABLES cmd_buf, state, escape_sequence_parameter,
          entered,   \* <<the line input() returned>>, or empty while it reads
          out,       \* what was given to uart_send_char and is not sent yet
          screen, column, seen  \* the terminal

editorVars   == <<cmd_buf, state, escape_sequence_parameter>>
terminalVars == <<screen, column, seen>>
vars == <<editorVars, entered, out, terminalVars>>

space == " "
Blank == [col \in 0 .. Size |-> space]

Init == /\ cmd_buf = [line |-> [i \in 0 .. Size - 1 |-> Zero], cursor |-> 0, end |-> 0]
        /\ state = "NORMAL" /\ escape_sequence_parameter = 0
        /\ entered = <<>> /\ out = <<>>
        /\ screen = Blank /\ column = 0 /\ seen = "text"

-----------------------------------------------------------------------------
\* The terminal: what it does with one character
Shows(t, ch) ==
  CASE t.seen = "ESC"                -> [t EXCEPT !.seen = "["]
    [] t.seen = "[" /\ ch = "D"      -> [t EXCEPT !.seen = "text", !.col = @ - 1]
    [] t.seen = "[" /\ ch = "C"      -> [t EXCEPT !.seen = "text", !.col = @ + 1]
    [] t.seen = "text" /\ ch = "ESC" -> [t EXCEPT !.seen = "ESC"]
    [] t.seen = "text" /\ ch = "BS"  -> [t EXCEPT !.col = @ - 1]
    [] t.seen = "text" /\ ch = "DEL" -> [t EXCEPT !.col = @ - 1, !.text[t.col - 1] = space]
    [] OTHER                         -> [t EXCEPT !.col = @ + 1, !.text[t.col] = ch]

\* the character that was given first arrives
Transmit == /\ out # <<>> /\ out' = Tail(out)
            /\ LET t == Shows([text |-> screen, col |-> column, seen |-> seen], Head(out))
               IN screen' = t.text /\ column' = t.col /\ seen' = t.seen
            /\ UNCHANGED <<editorVars, entered>>

uart_send_move_back(n) == [i \in 1 .. n |-> "BS"]

-----------------------------------------------------------------------------
\* What is sent for a key, given the buffer after it was carried out
rest_and_back(b) == from_cursor_to_end(b) \o uart_send_move_back(elements_after_cursor_count(b))

\* mutant: nothing is written over the last character
rest_and_back_only(b) == rest_and_back(b)

\* mutant: the rest of the line is sent once more to be sure
rest_blank_and_back_twice(b) == rest_and_back(b) \o from_cursor_to_end(b) \o <<space>>
                                \o uart_send_move_back(elements_after_cursor_count(b) + 1)

rest_blank_and_back(b) ==
  from_cursor_to_end(b) \o <<space>> \o uart_send_move_back(elements_after_cursor_count(b) + 1)

arrow(ch) == <<"ESC", "[", ch>>

digit       == <<"0", "1", "2", "3", "4", "5", "6", "7", "8", "9">>
Digits      == {digit[n] : n \in DOMAIN digit}
digit_value == [ch \in Digits |-> CHOOSE n \in 0 .. 9 : digit[n + 1] = ch]

\* the editor has done this to the buffer and sent that
Edits(b, sent) == cmd_buf' = b /\ out' = out \o sent

-----------------------------------------------------------------------------
Normal == UNCHANGED <<state, escape_sequence_parameter, entered>>

Backspace == /\ state = "NORMAL"
             /\ IF cmd_buf.cursor = 0
                  THEN UNCHANGED <<cmd_buf, out>>
                  ELSE Edits(backspace(cmd_buf),
                             <<"DEL">> \o rest_blank_and_back(backspace(cmd_buf)))
             /\ Normal

Return == /\ cmd_buf' = set_terminator(cmd_buf, Zero)
          /\ entered' = <<span(cmd_buf')>>
          /\ UNCHANGED <<state, escape_sequence_parameter, out>>

CarriageReturn == state = "NORMAL" /\ Return

Escape == /\ state = "NORMAL" /\ state' = "ESCAPE"
          /\ UNCHANGED <<cmd_buf, escape_sequence_parameter, entered, out>>

\* a full buffer ends the line, the letter that was typed is not in it
Letter(ch) == /\ state = "NORMAL"
              /\ IF is_full(cmd_buf, Size)
                   THEN Return
                   ELSE /\ Edits(insert(cmd_buf, ch), <<ch>> \o rest_and_back(insert(cmd_buf, ch)))
                        /\ Normal

Bracket == /\ state = "ESCAPE" /\ state' = "ESCAPE_BRACKET"
           /\ UNCHANGED <<cmd_buf, escape_sequence_parameter, entered, out>>

\* any other key after an escape is dropped
NoBracket == /\ state = "ESCAPE" /\ state' = "NORMAL"
             /\ UNCHANGED <<cmd_buf, escape_sequence_parameter, entered, out>>

Parameter(ch) ==
  /\ state = "ESCAPE_BRACKET"
  /\ escape_sequence_parameter' = escape_sequence_parameter * 10 + digit_value[ch]
  /\ escape_sequence_parameter' <= ParameterBound
  /\ UNCHANGED <<cmd_buf, state, entered, out>>

\* mutant: the parameter is kept for the next sequence
EndsSequence_keeps_parameter == /\ state = "ESCAPE_BRACKET" /\ state' = "NORMAL"
                                /\ UNCHANGED <<escape_sequence_parameter, entered>>

EndsSequence == /\ state = "ESCAPE_BRACKET" /\ state' = "NORMAL"
                /\ escape_sequence_parameter' = 0
                /\ UNCHANGED entered

ArrowLeft  == /\ Edits(move_cursor_left(cmd_buf),
                       IF cmd_buf.cursor = 0 THEN <<>> ELSE arrow("D"))
              /\ EndsSequence
ArrowRight == /\ Edits(move_cursor_right(cmd_buf), IF at_end(cmd_buf) THEN <<>> ELSE arrow("C"))
              /\ EndsSequence

\* the blank and the way back are sent at the end of the line as well
Delete == /\ IF escape_sequence_parameter = 3
               THEN Edits(del(cmd_buf), rest_blank_and_back(del(cmd_buf)))
               ELSE UNCHANGED <<cmd_buf, out>>
          /\ EndsSequence

Unknown == EndsSequence /\ UNCHANGED <<cmd_buf, out>>

-----------------------------------------------------------------------------
\* input() is called again by run(), behind a new prompt
NewLine == /\ entered # <<>> /\ entered' = <<>>
           /\ cmd_buf' = reset(cmd_buf)
           /\ state' = "NORMAL" /\ escape_sequence_parameter' = 0
           /\ out = <<>> /\ out' = <<>>
           /\ screen' = Blank /\ column' = 0 /\ seen' = "text"

\* uart_read_char has returned a key.  uart_send_char returns when the character
\* is given to the transmitter: only one can be on its way.
Key(ch) ==
  /\ entered = <<>> /\ Len(out) <= 1
  /\ \/ ch = "ESC" /\ Escape
     \/ ch = "DEL" /\ Backspace
     \/ ch = "CR"  /\ CarriageReturn
     \/ ch \in Letters /\ Letter(ch)
     \/ ch = "["   /\ Bracket
     \/ ch # "["   /\ NoBracket
     \/ ch \in Digits /\ Parameter(ch)
     \/ ch = "D"   /\ ArrowLeft
     \/ ch = "C"   /\ ArrowRight
     \/ ch = "~"   /\ Delete
     \/ ch \notin Digits \cup {"D", "C", "~"} /\ Unknown
  /\ UNCHANGED terminalVars

-----------------------------------------------------------------------------
TypeOK == /\ cmd_buf \in Buffers(Letters \cup {Zero}, Size)
          /\ state \in {"NORMAL", "ESCAPE", "ESCAPE_BRACKET"}
          /\ escape_sequence_parameter \in 0 .. ParameterBound
          /\ entered = <<>> \/ entered = <<span(cmd_buf)>>

\* a line as the terminal shows it
as_shown(line) == [col \in 0 .. Size |-> IF col < Len(line) THEN line[col + 1] ELSE space]

\* The buffer is well formed, and the terminal shows the line, with its cursor
\* where the next letter goes, after any keys, when what was sent for them has
\* arrived.
ScreenShowsLine ==
  /\ TypeOK
  /\ out = <<>> => screen = as_shown(span(cmd_buf)) /\ column = cmd_buf.cursor /\ seen = "text"

\* A parameter is of one escape sequence: the next does not begin with what is
\* left of an earlier one, whether that was known or not.
NoStaleParameter == state # "ESCAPE_BRACKET" => escape_sequence_parameter = 0

\* The array with its cursor is a text that is edited one letter at a time: no
\* key does anything else to it, and what is behind the end never comes back.
EditsLine == INSTANCE EditedLine WITH Room <- Size - 1, text <- span(cmd_buf),
                                      place <- cmd_buf.cursor
ImplementsEditedLine == EditsLine!Spec
=============================================================================
