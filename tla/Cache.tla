-------------------------------- MODULE Cache --------------------------------
(***************************************************************************)
(* cache.sv: a direct mapped write-back cache in front of the SDRAM.  An   *)
(* action is what one clock edge does in one state of the state machine;   *)
(* BlockRams is what the same edge does to the tag and column memories.    *)
(***************************************************************************)
EXTENDS CacheInterface

CONSTANTS WaitsPriorToDataAtRead,
          AutoRefreshPeriodCycles,
          CounterModulus,        \* 2 ^ width of 'counter'
          RefreshCounterModulus  \* 2 ^ width of 'refresh_cycle_counter'

MAX_COUNTER_VALUE ==
  IF ColumnCount > WaitsPriorToDataAtRead + 1
    THEN ColumnCount ELSE WaitsPriorToDataAtRead + 1

\* both widths are $clog2 of the number of values the source counts on
ASSUME CacheAssumption ==
  /\ WaitsPriorToDataAtRead \in Nat \ {0}
  /\ AutoRefreshPeriodCycles \in Nat
  /\ CounterModulus \in Nat
  /\ CounterModulus >= MAX_COUNTER_VALUE
  /\ RefreshCounterModulus \in Nat
  /\ RefreshCounterModulus >= AutoRefreshPeriodCycles + 2

VARIABLES state, counter, refresh_cycle_counter,
          burst_is_reading, burst_data_in,
          burst_write_enable,      \* the set of columns enabled for writing
          burst_tag_write_enable,
          tag,     \* line -> tag, valid and dirty flags
          column   \* line -> column -> word

burstVars == <<burst_is_reading, burst_data_in, burst_write_enable,
               burst_tag_write_enable>>
cacheVars == <<state, counter, refresh_cycle_counter, burstVars, tag, column>>

States == {"Idle", "Refresh", "Write1", "Write2", "Write3",
           "Read1", "Read2", "Read3", "Read4"}

line_ix     == request.address.line
column_ix   == request.address.column
address_tag == request.address.tag
cached      == tag[line_ix]

burst_line_address  == [tag |-> address_tag, line |-> line_ix]
cached_line_address == [tag |-> cached.tag, line |-> line_ix]

cache_line_hit == cached.valid /\ cached.tag = address_tag
busy           == request.enable /\ ~cache_line_hit
data_out       == column[line_ix][column_ix]
data_out_ready == request.write_enable = {} /\ request.enable /\ cache_line_hit

-----------------------------------------------------------------------------
\* The write ports of the tag and column memories: the burst of a line that is
\* read from the SDRAM, or a store that hits.
store_hit == request.write_enable # {} /\ cache_line_hit

column_write_enable == IF burst_is_reading THEN burst_write_enable
                       ELSE IF store_hit THEN {column_ix} ELSE {}

column_data_in(c) ==
  IF burst_is_reading THEN burst_data_in
  ELSE Merge(column[line_ix][c], request.data_in, request.write_enable)

tag_write_enable == IF burst_is_reading THEN burst_tag_write_enable
                    ELSE store_hit

\* mutant: a store that hits does not set the dirty flag
tag_data_in_never_dirty ==
  [tag |-> address_tag, valid |-> TRUE, dirty |-> FALSE]

tag_data_in == [tag |-> address_tag, valid |-> TRUE, dirty |-> ~burst_is_reading]

BlockRams ==
  /\ column' = [column EXCEPT ![line_ix] =
                  [c \in Columns |-> IF c \in column_write_enable
                                     THEN column_data_in(c) ELSE @[c]]]
  /\ tag' = IF tag_write_enable THEN [tag EXCEPT ![line_ix] = tag_data_in]
            ELSE tag

-----------------------------------------------------------------------------
Command(cmd, addr) == /\ I_sdrc_cmd_en' = TRUE
                      /\ I_sdrc_cmd' = cmd
                      /\ I_sdrc_addr' = addr

NoCommand == /\ I_sdrc_cmd_en' = FALSE
             /\ UNCHANGED <<I_sdrc_cmd, I_sdrc_addr>>

KeepWires == UNCHANGED requestVars

increment(n) == (n + 1) % CounterModulus

\* mutant: the limit is one higher, for which the counter is too narrow when
\* the period is two less than a power of two
refresh_is_due_later == refresh_cycle_counter > AutoRefreshPeriodCycles + 1

refresh_is_due == refresh_cycle_counter > AutoRefreshPeriodCycles

CountIdleCycle == /\ state = "Idle"
                  /\ refresh_cycle_counter' =
                       (refresh_cycle_counter + 1) % RefreshCounterModulus
                  /\ UNCHANGED <<counter, burst_data_in, burst_write_enable,
                                 burst_tag_write_enable, I_sdrc_data>>

IdleRefresh == /\ CountIdleCycle
               /\ refresh_is_due
               /\ Command("refresh", I_sdrc_addr)
               /\ state' = "Refresh"
               /\ UNCHANGED burst_is_reading

IdleEvict == /\ CountIdleCycle
             /\ ~refresh_is_due
             /\ busy
             /\ cached.dirty
             /\ Command("activate", cached_line_address)
             /\ state' = "Write1"
             /\ UNCHANGED burst_is_reading

\* mutant: the line is replaced although it is dirty
IdleFill_drops_dirty == /\ CountIdleCycle
                        /\ ~refresh_is_due
                        /\ busy
                        /\ Command("activate", burst_line_address)
                        /\ burst_is_reading' = TRUE
                        /\ state' = "Read1"

IdleFill == /\ CountIdleCycle
            /\ ~refresh_is_due
            /\ busy
            /\ ~cached.dirty
            /\ Command("activate", burst_line_address)
            /\ burst_is_reading' = TRUE
            /\ state' = "Read1"

IdleStay == /\ CountIdleCycle
            /\ ~refresh_is_due
            /\ ~busy
            /\ UNCHANGED <<state, burst_is_reading, I_sdrc_cmd_en, I_sdrc_cmd,
                           I_sdrc_addr>>

\* mutant: the acknowledgement of the refresh is not waited for
Refresh_does_not_wait == /\ state = "Refresh"
                         /\ NoCommand
                         /\ refresh_cycle_counter' = 0
                         /\ state' = "Idle"
                         /\ UNCHANGED <<counter, burstVars, I_sdrc_data>>

Refresh == /\ state = "Refresh"
           /\ NoCommand
           /\ \/ /\ O_sdrc_cmd_ack
                 /\ refresh_cycle_counter' = 0
                 /\ state' = "Idle"
              \/ /\ ~O_sdrc_cmd_ack
                 /\ UNCHANGED <<refresh_cycle_counter, state>>
           /\ UNCHANGED <<counter, burstVars, I_sdrc_data>>

\* wait for ACTIVE to complete, then write the first column with the command
Write1 == /\ state = "Write1"
          /\ \/ /\ O_sdrc_cmd_ack
                /\ Command("write", cached_line_address)
                /\ I_sdrc_data' = column[line_ix][0]
                /\ counter' = 1
                /\ state' = "Write2"
             \/ /\ ~O_sdrc_cmd_ack
                /\ NoCommand
                /\ UNCHANGED <<I_sdrc_data, counter, state>>
          /\ UNCHANGED <<refresh_cycle_counter, burstVars>>

\* a column per cycle
Write2 == /\ state = "Write2"
          /\ NoCommand
          /\ I_sdrc_data' = column[line_ix][counter]
          /\ counter' = increment(counter)
          /\ state' = IF counter = ColumnCount - 1 THEN "Write3" ELSE state
          /\ UNCHANGED <<refresh_cycle_counter, burstVars>>

\* wait for the write to complete, then activate the line of the request
Write3 == /\ state = "Write3"
          /\ \/ /\ O_sdrc_cmd_ack
                /\ burst_is_reading' = TRUE
                /\ Command("activate", burst_line_address)
                /\ I_sdrc_data' = I_sdrc_data
                /\ state' = "Read1"
             \/ /\ ~O_sdrc_cmd_ack
                /\ KeepWires
                /\ UNCHANGED <<burst_is_reading, state>>
          /\ UNCHANGED <<refresh_cycle_counter, counter, burst_data_in,
                         burst_write_enable, burst_tag_write_enable>>

Read1 == /\ state = "Read1"
         /\ \/ /\ O_sdrc_cmd_ack
               /\ Command("read", burst_line_address)
               /\ counter' = 0
               /\ state' = "Read2"
            \/ /\ ~O_sdrc_cmd_ack
               /\ NoCommand
               /\ UNCHANGED <<counter, state>>
         /\ UNCHANGED <<refresh_cycle_counter, burstVars, I_sdrc_data>>

\* wait for the first column
Read2 == /\ state = "Read2"
         /\ NoCommand
         /\ \/ /\ counter = WaitsPriorToDataAtRead
               /\ burst_write_enable' = burst_write_enable \cup {0}
               /\ burst_data_in' = O_sdrc_data
               /\ counter' = 1
               /\ state' = "Read3"
            \/ /\ counter # WaitsPriorToDataAtRead
               /\ counter' = increment(counter)
               /\ UNCHANGED <<burst_write_enable, burst_data_in, state>>
         /\ UNCHANGED <<refresh_cycle_counter, burst_is_reading,
                        burst_tag_write_enable, I_sdrc_data>>

\* mutant: the tag is not written with the last column
Read3_without_tag ==
  /\ state = "Read3"
  /\ burst_write_enable' = (burst_write_enable \ {counter - 1}) \cup {counter}
  /\ burst_data_in' = O_sdrc_data
  /\ counter' = increment(counter)
  /\ state' = IF counter = ColumnCount - 1 THEN "Read4" ELSE state
  /\ KeepWires
  /\ UNCHANGED <<refresh_cycle_counter, burst_is_reading,
                 burst_tag_write_enable>>

\* a column per cycle; the tag is written together with the last column
Read3 == /\ state = "Read3"
         /\ burst_write_enable' =
              (burst_write_enable \ {counter - 1}) \cup {counter}
         /\ burst_data_in' = O_sdrc_data
         /\ counter' = increment(counter)
         /\ \/ /\ counter = ColumnCount - 1
               /\ burst_tag_write_enable' = TRUE
               /\ state' = "Read4"
            \/ /\ counter # ColumnCount - 1
               /\ UNCHANGED <<burst_tag_write_enable, state>>
         /\ KeepWires
         /\ UNCHANGED <<refresh_cycle_counter, burst_is_reading>>

\* mutant: the write of the last column stays enabled
Read4_keeps_column_enabled ==
  /\ state = "Read4"
  /\ burst_is_reading' = FALSE
  /\ burst_tag_write_enable' = FALSE
  /\ state' = "Idle"
  /\ KeepWires
  /\ UNCHANGED <<counter, refresh_cycle_counter, burst_data_in,
                 burst_write_enable>>

Read4 == /\ state = "Read4"
         /\ burst_write_enable' = burst_write_enable \ {ColumnCount - 1}
         /\ burst_is_reading' = FALSE
         /\ burst_tag_write_enable' = FALSE
         /\ state' = "Idle"
         /\ KeepWires
         /\ UNCHANGED <<counter, refresh_cycle_counter, burst_data_in>>

-----------------------------------------------------------------------------
\* rst_n is low: the registers the source resets, the others as at power-on
CacheInit ==
  /\ state = "Idle"
  /\ counter = 0
  /\ refresh_cycle_counter = AutoRefreshPeriodCycles + 1
  /\ burst_is_reading = FALSE
  /\ burst_data_in = Zero
  /\ burst_write_enable = {}
  /\ burst_tag_write_enable = FALSE
  /\ tag = [l \in Lines |-> [tag |-> 0, valid |-> FALSE, dirty |-> FALSE]]
  /\ column = [l \in Lines |-> [c \in Columns |-> Zero]]
  /\ I_sdrc_cmd_en = FALSE
  /\ I_sdrc_cmd = "none"
  /\ I_sdrc_addr = [tag |-> 0, line |-> 0]
  /\ I_sdrc_data = Zero

CacheStep == /\ \/ IdleRefresh \/ IdleEvict \/ IdleFill \/ IdleStay
                \/ Refresh
                \/ Write1 \/ Write2 \/ Write3
                \/ Read1 \/ Read2 \/ Read3 \/ Read4
             /\ BlockRams
=============================================================================
