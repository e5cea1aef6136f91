----------------------------- MODULE SectorCommands -----------------------------
(***************************************************************************)
(* The commands sdr and sdw of os_common.hpp in the console build, whose   *)
(* SD card is an array that a file is loaded into                          *)
(* (console_application.cpp).                                              *)
(***************************************************************************)
EXTENDS Words

CONSTANTS SectorSize, CardBytes,  \* 512, 8 MB
          Characters,             \* what is typed or in the file
          Zero,                   \* '\0'
          Files,                  \* [opens, reads : BOOLEAN, bytes : Seq]
          Lines                   \* what is typed

ASSUME SectorCommandsAssumption ==
  /\ SectorSize \in Nat \ {0} /\ CardBytes \in Nat /\ Zero \notin Characters

VARIABLES program,  \* "starting", "running", or the exit code of main
          sdcard,   \* the bytes of the card
          line,     \* <<the line that input() has returned>>, or empty
          shown     \* what the last command has printed

vars == <<program, sdcard, line, shown>>

Indices  == 0 .. SectorSize - 1
Contents == [Indices -> Characters \cup {Zero}]

Init == /\ program = "starting"
        /\ sdcard = [b \in 0 .. CardBytes - 1 |-> Zero]
        /\ line = <<>> /\ shown = <<>>

-----------------------------------------------------------------------------
\* main: load_file refuses what it cannot open, read or hold
loads(file, size) == file.opens /\ Len(file.bytes) <= size /\ file.reads

load_file(file, data) ==
  [b \in DOMAIN data |-> IF b < Len(file.bytes) THEN file.bytes[b + 1] ELSE data[b]]

Start(file) ==
  /\ program = "starting"
  /\ IF loads(file, CardBytes)
       THEN program' = "running" /\ sdcard' = load_file(file, sdcard)
       ELSE program' = "2" /\ UNCHANGED sdcard
  /\ UNCHANGED <<line, shown>>

-----------------------------------------------------------------------------
\* the card of the console build: a sector past the end is not transferred
\* and the caller is not told
fits(sector) == sector * SectorSize + SectorSize <= CardBytes

sdcard_read_blocking(sector, buffer) ==
  IF ~fits(sector) THEN buffer
  ELSE [k \in Indices |-> sdcard[sector * SectorSize + k]]

sdcard_write_blocking(sector, buffer) ==
  sdcard' = IF ~fits(sector) THEN sdcard
            ELSE [b \in DOMAIN sdcard |->
                    IF b \div SectorSize = sector THEN buffer[b % SectorSize] ELSE sdcard[b]]

-----------------------------------------------------------------------------
sent(buffer) == [k \in 1 .. SectorSize |-> buffer[k - 1]]

\* the buffer is not initialised
action_sdcard_read(args) ==
  LET w1 == string_next_word(args)
  IN /\ IF w1.word = <<>>
          THEN shown' = <<"<sector>">>
          ELSE \E buf \in Contents :
                 shown' = sent(sdcard_read_blocking(string_to_uint32(w1.word), buf))
     /\ UNCHANGED sdcard

\* mutant: the buffer is not zeroed before the text is copied
padded_with_rest(text) ==
  [k \in Indices |-> IF k < Len(text) THEN text[k + 1] ELSE sdcard[k]]

padded(text) == [k \in Indices |-> IF k < Len(text) THEN text[k + 1] ELSE Zero]

action_sdcard_write(args) ==
  LET w1 == string_next_word(args)
  IN IF w1.word = <<>>
       THEN shown' = <<"<sector> <text>">> /\ UNCHANGED sdcard
     ELSE IF Len(w1.rem) > SectorSize
       THEN shown' = <<"<text> exceeds sector size">> /\ UNCHANGED sdcard
     ELSE /\ sdcard_write_blocking(string_to_uint32(w1.word), padded(w1.rem))
          /\ shown' = <<>>

\* handle_input: the other commands do not use the card
handle_input(input) ==
  LET w1    == string_next_word(input)
      Is(s) == string_equals_cstr(w1.word, s)
  IN \/ Is(<<"s", "d", "r">>) /\ action_sdcard_read(w1.rem)
     \/ Is(<<"s", "d", "w">>) /\ action_sdcard_write(w1.rem)
     \/ /\ ~Is(<<"s", "d", "r">>) /\ ~Is(<<"s", "d", "w">>)
        /\ shown' = <<"not understood">> /\ UNCHANGED sdcard

Type(typed) == /\ program = "running" /\ line = <<>>
               /\ line' = <<typed>> /\ shown' = <<>>
               /\ UNCHANGED <<program, sdcard>>

Command == /\ program = "running" /\ line # <<>> /\ line' = <<>>
           /\ handle_input(line[1])
           /\ UNCHANGED program

Next == \/ \E file \in Files : Start(file)
        \/ \E typed \in Lines : Type(typed)
        \/ Command

Spec == Init /\ [][Next]_vars
=============================================================================
