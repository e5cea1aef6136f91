-------------------------------- MODULE Words --------------------------------
(***************************************************************************)
(* The strings of os_common.hpp: spans of characters (span.hpp), the words *)
(* of a line, comparison with a C string, numbers in decimal.  A character  *)
(* is a string of length one, a string a sequence of them.                 *)
(***************************************************************************)
EXTENDS Integers, Sequences

CONSTANT UintModulus  \* 2 ^ 32: the numbers of a uint32_t

ASSUME WordsAssumption == UintModulus \in Nat \ {0}

digits == <<"0", "1", "2", "3", "4", "5", "6", "7", "8", "9">>

-----------------------------------------------------------------------------
\* span.hpp: the first position where the test fails, the end if it does not
for_each_until_false(str, Test(_)) ==
  CHOOSE pos \in 1 .. Len(str) + 1 :
    /\ pos <= Len(str) => ~Test(str[pos])
    /\ \A i \in 1 .. pos - 1 : Test(str[i])

subspan_ending_at(str, pos)   == SubSeq(str, 1, pos - 1)
subspan_starting_at(str, pos) == SubSeq(str, pos, Len(str))

\* mutant: only one blank is skipped
string_next_word_one_blank(str) ==
  LET NotBlank(ch) == ch # " "
      ce == for_each_until_false(str, NotBlank)
  IN [word |-> subspan_ending_at(str, ce), rem |-> subspan_starting_at(str, ce + 1)]

string_next_word(str) ==
  LET NotBlank(ch) == ch # " "
      IsBlank(ch)  == ch = " "
      ce  == for_each_until_false(str, NotBlank)
      rem == subspan_starting_at(str, ce)
  IN [word |-> subspan_ending_at(str, ce),
      rem  |-> subspan_starting_at(rem, for_each_until_false(rem, IsBlank))]

\* The word and the rest make up the string again: nothing is lost but the
\* blanks between them, and there is at least one if there is a rest.
makes_up(w, str) ==
  LET gap == Len(str) - Len(w.word) - Len(w.rem)
  IN /\ str = w.word \o [k \in 1 .. gap |-> " "] \o w.rem
     /\ \A k \in 1 .. Len(w.word) : w.word[k] # " "
     /\ w.rem # <<>> => gap > 0 /\ w.rem[1] # " "

\* the C string is followed as long as the characters are the same; they are
\* equal if both end where that stops
string_equals_cstr(str, s) ==
  LET stop == CHOOSE pos \in 1 .. Len(str) + 1 :
                /\ pos <= Len(str) => ~(pos <= Len(s) /\ s[pos] = str[pos])
                /\ \A i \in 1 .. pos - 1 : i <= Len(s) /\ s[i] = str[i]
  IN stop = Len(s) + 1 /\ stop = Len(str) + 1

-----------------------------------------------------------------------------
\* ch - '0' of a digit; another character is not in the table
digit_of(ch) == (CHOOSE d \in 1 .. 10 : digits[d] = ch) - 1

\* ch > '0' and ch < '9', as the code has it
is_digit(ch) == \E d \in 2 .. 9 : digits[d] = ch

\* the characters read so far have the value num[i]
value_of_digits(str) ==
  LET num[i \in 0 .. Len(str)] ==
        IF i = 0 THEN 0 ELSE (num[i - 1] * 10 + digit_of(str[i])) % UintModulus
  IN num[Len(str)]

\* mutant: what follows the digits is not left out
string_to_uint32_skips(str) == value_of_digits(SelectSeq(str, is_digit))

string_to_uint32(str) ==
  value_of_digits(subspan_ending_at(str, for_each_until_false(str, is_digit)))
=============================================================================
