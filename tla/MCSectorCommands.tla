---------------------------- MODULE MCSectorCommands ----------------------------
(***************************************************************************)
(* sdr and sdw on a card of three sectors and a byte.  A line is the text  *)
(* of a request, so that the properties know what was asked for and the    *)
(* program only the characters, or any line of a few characters.           *)
(***************************************************************************)
EXTENDS SectorCommands, SequencesExt

CONSTANTS a, b,               \* characters of the text and of the file
          Alphabet, MaxLine,  \* of the other lines
          MaxBlanks           \* between two words

\* the longest do not fit into a sector
Texts == BoundedSeq({a, " "}, SectorSize + 1)

\* no leading blanks: they are not of the text
Requests == [op : {"r"}, sector : 1 .. 3, text : {<<>>}]
            \cup [op : {"w"}, sector : 1 .. 3, text : {t \in Texts : t # <<>> => t[1] # " "}]

blanks(n) == [k \in 1 .. n |-> " "]

line_of(request, n) ==
  <<"s", "d", request.op>> \o blanks(n) \o <<digits[request.sector + 1]>>
  \o (IF request.text = <<>> THEN <<>> ELSE blanks(n) \o request.text)

RequestLines == {line_of(r, n) : r \in Requests, n \in 1 .. MaxBlanks}

MCLines == RequestLines \cup {<<"s", "d", "w">> \o blanks(1)} \cup BoundedSeq(Alphabet, MaxLine)

MCFiles == [opens : {TRUE}, reads : BOOLEAN, bytes : {<<>>, <<b>>, [k \in 1 .. CardBytes |-> b]}]
           \cup [opens : {TRUE}, reads : {TRUE}, bytes : {[k \in 1 .. CardBytes + 1 |-> b]}]
           \cup [opens : {FALSE}, reads : {FALSE}, bytes : {<<>>}]

\* the sectors as they are on the card
on_the_card(s) == [k \in 1 .. SectorSize |-> sdcard[s * SectorSize + k - 1]]
SectorsOnCard  == 0 .. (CardBytes \div SectorSize) - 1

\* what the line that is carried out asks for
asked == {r \in Requests : \E n \in 1 .. MaxBlanks : line = <<line_of(r, n)>>}

-----------------------------------------------------------------------------
writable(r) == r.op = "w" /\ r.sector \in SectorsOnCard /\ Len(r.text) <= SectorSize

written(r) == [p \in 0 .. CardBytes - 1 |->
                 IF p \div SectorSize # r.sector THEN sdcard[p]
                 ELSE IF p % SectorSize < Len(r.text) THEN r.text[(p % SectorSize) + 1]
                 ELSE Zero]

\* A request to write changes its sector to the text with zeros behind it and
\* nothing else, not the bytes past the last sector either, however many blanks
\* are between the words.  A text that is longer than a sector, a sector past
\* the end, or any other command changes nothing.
WritesWhatIsAsked ==
  [][program = "running" =>
       \/ \E r \in asked : writable(r) /\ sdcard' = written(r)
       \/ (\A r \in asked : ~writable(r)) /\ sdcard' = sdcard]_vars

\* What sdr shows is the sector of the card that was asked for, if the card has
\* it: the program does not see the difference.
ShowsTheSector ==
  [][\A r \in asked : r.op = "r" /\ r.sector \in SectorsOnCard
                      => shown' = on_the_card(r.sector)]_vars

-----------------------------------------------------------------------------
typed_line == IF line = <<>> THEN <<>> ELSE line[1]

\* The first word of a line and the rest make up the line again: nothing is lost
\* but the blanks between them, and there is at least one if there is a rest
\* (string_next_word, which handle_input and action_give rely on).
WordsMakeUpTheLine == makes_up(string_next_word(typed_line), typed_line)

\* the value in decimal of the digits a line begins with
DigitsOf(digit) ==
  CHOOSE n \in 0 .. Len(typed_line) : /\ \A k \in 1 .. n : typed_line[k] \in digit
                                      /\ n < Len(typed_line) => typed_line[n + 1] \notin digit
DecimalValue(n) ==
  FoldLeft(LAMBDA sum, k : sum + digit_of(typed_line[k]) * 10 ^ (n - k), 0, [k \in 1 .. n |-> k])

\* A number of digits that are read is their decimal value, modulo the width.
NumberIsDecimal ==
  LET n == DigitsOf({digits[d] : d \in 2 .. 9})
  IN string_to_uint32(typed_line) = DecimalValue(n) % UintModulus

\* "sdr <sector>", "sdw <sector> <text>" of the help text: the sector is the
\* number that was typed, whatever its digits are.
SectorIsTheNumberTyped ==
  LET n == DigitsOf(ToSet(digits))
  IN string_to_uint32(typed_line) = DecimalValue(n) % UintModulus
=============================================================================
