------------------------------ MODULE EditedLine ------------------------------
(***************************************************************************)
(* What an editor of one line promises: a text and a place in it.  Letters *)
(* are put in at the place, the letter before it or behind it is taken     *)
(* out, the place moves by one; in the end the text is handed over as it   *)
(* is and a new one begins.                                                *)
(***************************************************************************)
EXTENDS Integers, SequencesExt

CONSTANTS Letters, Room

VARIABLES text, place, entered

vars == <<text, place, entered>>

Init == text = <<>> /\ place = 0 /\ entered = <<>>

Insert(ch) == /\ Len(text) < Room
              /\ text' = InsertAt(text, place + 1, ch) /\ place' = place + 1
Erase      == /\ place > 0
              /\ text' = RemoveAt(text, place) /\ place' = place - 1
Delete     == /\ place < Len(text)
              /\ text' = RemoveAt(text, place + 1) /\ place' = place
Left       == place > 0 /\ place' = place - 1 /\ text' = text
Right      == place < Len(text) /\ place' = place + 1 /\ text' = text

Edit  == /\ entered = <<>> /\ entered' = <<>>
         /\ (\E ch \in Letters : Insert(ch)) \/ Erase \/ Delete \/ Left \/ Right
Enter == /\ entered = <<>> /\ entered' = <<text>>
         /\ UNCHANGED <<text, place>>
Again == /\ entered # <<>> /\ entered' = <<>>
         /\ text' = <<>> /\ place' = 0

Spec == Init /\ [][Edit \/ Enter \/ Again]_vars
=============================================================================
