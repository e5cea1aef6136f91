----------------------------- MODULE CursorBuffer -----------------------------
(***************************************************************************)
(* cursor_buffer.hpp: the line that is edited, in an array of Size         *)
(* elements, the last of which is for the terminator.  What was behind the *)
(* end stays in the array, also when the buffer is reset.                  *)
(***************************************************************************)
EXTENDS Integers, Sequences

Buffers(Elements, Size) ==
  {b \in [line : [0 .. Size - 1 -> Elements], cursor : 0 .. Size - 1, end : 0 .. Size - 1] :
     b.cursor <= b.end}

is_full(b, Size) == b.end = Size - 1

at_end(b) == b.cursor = b.end

\* mutant: the last element to shift is forgotten
insert_shifts_one_less(b, ch) ==
  [line   |-> [i \in DOMAIN b.line |->
                 IF i = b.cursor THEN ch
                 ELSE IF i \in b.cursor + 1 .. b.end - 1 THEN b.line[i - 1] ELSE b.line[i]],
   cursor |-> b.cursor + 1,
   end    |-> b.end + 1]

\* insert, when the buffer is not full
insert(b, ch) ==
  [line   |-> [i \in DOMAIN b.line |->
                 IF i = b.cursor THEN ch
                 ELSE IF ~at_end(b) /\ i \in b.cursor + 1 .. b.end + 1
                   THEN b.line[i - 1] ELSE b.line[i]],
   cursor |-> b.cursor + 1,
   end    |-> b.end + 1]

\* backspace, when the cursor is not at the beginning
backspace(b) ==
  [line   |-> IF at_end(b) THEN b.line
              ELSE [i \in DOMAIN b.line |->
                      IF i \in b.cursor - 1 .. b.end - 1 THEN b.line[i + 1] ELSE b.line[i]],
   cursor |-> b.cursor - 1,
   end    |-> b.end - 1]

\* it does nothing at the end
del(b) ==
  IF at_end(b) THEN b
  ELSE [b EXCEPT !.line = [i \in DOMAIN b.line |->
                             IF i \in b.cursor .. b.end - 2 THEN b.line[i + 1] ELSE b.line[i]],
                 !.end  = @ - 1]

reset(b) == [line |-> b.line, cursor |-> 0, end |-> 0]

set_terminator(b, zero) == [b EXCEPT !.line[b.end] = zero]

\* unchanged when they return false
move_cursor_left(b)  == IF b.cursor = 0 THEN b ELSE [b EXCEPT !.cursor = @ - 1]
move_cursor_right(b) == IF at_end(b) THEN b ELSE [b EXCEPT !.cursor = @ + 1]

from_cursor_to_end(b) == [i \in 1 .. b.end - b.cursor |-> b.line[b.cursor + i - 1]]

elements_after_cursor_count(b) == b.end - b.cursor

span(b) == [i \in 1 .. b.end |-> b.line[i - 1]]
=============================================================================
