----------------------------- MODULE CacheProofs -----------------------------
(***************************************************************************)
(* Proofs about CacheSystem: the types, then one lemma per state of the    *)
(* cache against every state its controller can be in, then the theorems,  *)
(* the refinement of Memory, and how late a refresh is.                    *)
(***************************************************************************)
EXTENDS CacheRefresh, TLAPS

LEMMA TypesOfRequest ==
  ASSUME request \in Requests
  PROVE  /\ request.enable \in BOOLEAN
         /\ request.address \in Addresses
         /\ request.write_enable \subseteq Bytes
         /\ request.data_in \in Words
BY SizeAssumption DEF Requests, Loads, Stores, Idles, Zero, Words

LEMMA TypesOfAddress ==
  ASSUME TypeOK
  PROVE  /\ line_ix \in Lines
         /\ column_ix \in Columns
         /\ address_tag \in Tags
         /\ burst_line_address \in LineAddresses
         /\ cached_line_address \in LineAddresses
         /\ cached \in [tag : Tags, valid : BOOLEAN, dirty : BOOLEAN]
         /\ column[line_ix] \in [Columns -> Words]
<1>1. request.address \in Addresses
  BY TypesOfRequest DEF TypeOK
<1>2. /\ line_ix \in Lines
      /\ column_ix \in Columns
      /\ address_tag \in Tags
  BY <1>1 DEF Addresses, line_ix, column_ix, address_tag
<1>3. /\ cached \in [tag : Tags, valid : BOOLEAN, dirty : BOOLEAN]
      /\ column[line_ix] \in [Columns -> Words]
  BY <1>2 DEF TypeOK, cached
<1> QED
  BY <1>2, <1>3 DEF burst_line_address, cached_line_address, LineAddresses

\* While a line is evicted the block RAMs keep what they hold.
LEMMA EvictingKeepsRams ==
  ASSUME TypeOK, BlockRams, ~burst_is_reading, ~cache_line_hit
  PROVE  column' = column /\ tag' = tag
<1>1. column_write_enable = {} /\ ~tag_write_enable
  BY DEF column_write_enable, tag_write_enable, store_hit
<1>2. column' = column
  BY <1>1, TypesOfAddress DEF BlockRams, TypeOK
<1> QED
  BY <1>1, <1>2 DEF BlockRams

-----------------------------------------------------------------------------
(* Type correctness: it needs what the machine's states mean, since the bus *)
(* carries NoWord outside a burst.                                          *)

LEMMA NextRequestTypes ==
  ASSUME TypeOK, Hold \/ Issue
  PROVE  request' \in Requests
BY DEF TypeOK, Hold, Issue

LEMMA ControllerTypes ==
  ASSUME TypeOK, ControllerStep
  PROVE  /\ sdram' \in [LineAddresses -> [Columns -> Words]]
         /\ row' \in LineAddresses \cup {NoRow}
         /\ op' \in Commands
         /\ age' \in Nat
         /\ target' \in LineAddresses
         /\ O_sdrc_cmd_ack' \in BOOLEAN
         /\ O_sdrc_data' \in Words \cup {NoWord}
<1>1. doing \in Commands /\ at \in Nat /\ where \in LineAddresses
  BY DEF TypeOK, doing, at, where, Commands
<1>2. ASSUME NEW n \in Nat, Acknowledge(n) \/ Proceed(n)
      PROVE  /\ op' \in Commands
             /\ age' \in Nat
             /\ target' \in LineAddresses
             /\ O_sdrc_cmd_ack' \in BOOLEAN
  <2>1. CASE Acknowledge(n)
    BY <1>1, <2>1 DEF Acknowledge, Done, Commands
  <2>2. CASE Proceed(n)
    <3>1. op' \in Commands
      BY <1>1, <2>2 DEF Proceed, Ongoing
    <3>2. age' \in Nat
      BY <1>1, <2>2 DEF Proceed, Ongoing
    <3>3. target' \in LineAddresses
      BY <1>1, <2>2 DEF Proceed, Ongoing
    <3>4. O_sdrc_cmd_ack' \in BOOLEAN
      BY <1>1, <2>2 DEF Proceed, Ongoing
    <3> QED
      BY <3>1, <3>2, <3>3, <3>4
  <2> QED
    BY <1>2, <2>1, <2>2
<1>3. CASE Nothing
  BY <1>1, <1>3 DEF TypeOK, Nothing, Done, Commands
<1>4. CASE RefreshRows
  BY <1>1, <1>2, <1>4 DEF TypeOK, RefreshRows
<1>5. CASE Activate
  BY <1>1, <1>2, <1>5 DEF TypeOK, Activate
<1>6. CASE WriteBurst
  <2>1. ColumnCount \in Nat
    BY SizeAssumption
  <2>2. sdram' \in [LineAddresses -> [Columns -> Words]]
    <3>1. CASE at < ColumnCount
      <4>1. at \in Columns
        BY <1>1, <2>1, <3>1 DEF Columns
      <4>2. sdram' = [sdram EXCEPT ![where][at] = I_sdrc_data]
        BY <1>6, <3>1 DEF WriteBurst
      <4> QED
        BY <1>1, <4>1, <4>2 DEF TypeOK
    <3>2. CASE ~(at < ColumnCount)
      BY <1>6, <3>2 DEF WriteBurst, TypeOK
    <3> QED
      BY <3>1, <3>2
  <2> QED
    BY <1>2, <1>6, <2>1, <2>2 DEF WriteBurst, TypeOK
<1>7. CASE ReadBurst
  <2>1. op' \in Commands /\ age' \in Nat /\ target' \in LineAddresses
    BY <1>1, <1>7 DEF ReadBurst, Done, Ongoing, Commands
  <2>2. O_sdrc_data' \in Words \cup {NoWord}
    BY <1>1, <1>7 DEF ReadBurst, TypeOK
  <2> QED
    BY <1>7, <2>1, <2>2 DEF ReadBurst, TypeOK
<1> QED
  BY <1>3, <1>4, <1>5, <1>6, <1>7 DEF ControllerStep

LEMMA BlockRamTypes ==
  ASSUME Inv, BlockRams
  PROVE  /\ tag' \in [Lines -> [tag : Tags, valid : BOOLEAN, dirty : BOOLEAN]]
         /\ column' \in [Lines -> [Columns -> Words]]
<1>1. TypeOK
  BY DEF Inv
<1>2. burst_write_enable # {} => burst_data_in \in Words
  <2>1. CASE state = "Read3"
    <3>1. counter - 1 \in Columns
      BY <2>1, SizeAssumption DEF Inv, InStep, AtRead3, Columns
    <3> QED
      BY <1>1, <2>1, <3>1, TypesOfAddress DEF Inv, InStep, AtRead3, TypeOK
  <2>2. CASE state = "Read4"
    <3>1. ColumnCount - 1 \in Columns
      BY SizeAssumption DEF Columns
    <3> QED
      BY <1>1, <2>2, <3>1, TypesOfAddress DEF Inv, InStep, AtRead4, TypeOK
  <2> QED
    BY <2>1, <2>2 DEF Inv, BurstRegisters
<1>3. ASSUME NEW c \in Columns, c \in column_write_enable
      PROVE  column_data_in(c) \in Words
  BY <1>1, <1>2, <1>3, TypesOfAddress, TypesOfRequest
     DEF column_write_enable, column_data_in, Merge, Words, TypeOK
<1>4. column' \in [Lines -> [Columns -> Words]]
  BY <1>1, <1>3, TypesOfAddress DEF BlockRams, TypeOK
<1>5. tag_data_in \in [tag : Tags, valid : BOOLEAN, dirty : BOOLEAN]
  BY <1>1, TypesOfAddress DEF tag_data_in, TypeOK
<1>6. tag' \in [Lines -> [tag : Tags, valid : BOOLEAN, dirty : BOOLEAN]]
  BY <1>1, <1>5, TypesOfAddress DEF BlockRams, TypeOK
<1> QED
  BY <1>4, <1>6

\* the registers of the state machine and the wires it drives
RegisterTypes ==
  /\ state \in States
  /\ counter \in 0..(CounterModulus - 1)
  /\ refresh_cycle_counter \in 0..(RefreshCounterModulus - 1)
  /\ burst_is_reading \in BOOLEAN
  /\ burst_data_in \in Words \cup {NoWord}
  /\ burst_write_enable \subseteq Columns
  /\ burst_tag_write_enable \in BOOLEAN
  /\ I_sdrc_cmd_en \in BOOLEAN
  /\ I_sdrc_cmd \in Commands
  /\ I_sdrc_addr \in LineAddresses
  /\ I_sdrc_data \in Words

LEMMA Bounds ==
  /\ ColumnCount \in Nat /\ ColumnCount >= 2
  /\ WaitsPriorToDataAtRead \in Nat /\ WaitsPriorToDataAtRead >= 1
  /\ CounterModulus \in Nat
  /\ CounterModulus >= ColumnCount
  /\ CounterModulus >= WaitsPriorToDataAtRead + 1
BY SizeAssumption, CacheAssumption DEF MAX_COUNTER_VALUE

LEMMA RegisterStepTypes ==
  ASSUME Inv, CacheStep
  PROVE  RegisterTypes'
<1> USE DEF States, Commands
<1>1. TypeOK /\ RegisterTypes
  BY DEF Inv, TypeOK, RegisterTypes
<1>2. \A n \in Nat : increment(n) \in 0..(CounterModulus - 1)
  BY Bounds DEF increment
<1>3. 0 \in 0..(CounterModulus - 1) /\ 1 \in 0..(CounterModulus - 1)
  BY Bounds
<1>4. counter \in Nat
  BY <1>1, Bounds DEF RegisterTypes
<1>5. (refresh_cycle_counter + 1) % RefreshCounterModulus
        \in 0..(RefreshCounterModulus - 1)
  BY <1>1, CacheAssumption DEF RegisterTypes
<1>6. 0 \in 0..(RefreshCounterModulus - 1)
  BY CacheAssumption
<1>7. 0 \in Columns
  BY Bounds DEF Columns
<1>8. CASE IdleRefresh
  BY <1>1, <1>5, <1>8 DEF IdleRefresh, CountIdleCycle, Command, RegisterTypes
<1>9. CASE IdleEvict
  BY <1>1, <1>5, <1>9, TypesOfAddress
     DEF IdleEvict, CountIdleCycle, Command, RegisterTypes
<1>10. CASE IdleFill
  BY <1>1, <1>5, <1>10, TypesOfAddress
     DEF IdleFill, CountIdleCycle, Command, RegisterTypes
<1>11. CASE IdleStay
  BY <1>1, <1>5, <1>11 DEF IdleStay, CountIdleCycle, RegisterTypes
<1>12. CASE Refresh
  BY <1>1, <1>6, <1>12 DEF Refresh, NoCommand, burstVars, RegisterTypes
<1>13. CASE Write1
  <2>1. column[line_ix][0] \in Words
    BY <1>1, <1>7, TypesOfAddress
  <2> QED
    BY <1>1, <1>3, <1>13, <2>1, TypesOfAddress
       DEF Write1, Command, NoCommand, burstVars, RegisterTypes
<1>14. CASE Write2
  <2>1. column[line_ix][counter] \in Words
    BY <1>1, <1>14, Bounds, TypesOfAddress
       DEF Write2, Inv, InStep, AtWrite2, Columns
  <2> QED
    BY <1>1, <1>2, <1>4, <1>14, <2>1
       DEF Write2, NoCommand, burstVars, RegisterTypes
<1>15. CASE Write3
  BY <1>1, <1>15, TypesOfAddress
     DEF Write3, Command, KeepWires, requestVars, RegisterTypes
<1>16. CASE Read1
  BY <1>1, <1>3, <1>16, TypesOfAddress
     DEF Read1, Command, NoCommand, burstVars, RegisterTypes
<1>17. CASE Read2
  BY <1>1, <1>2, <1>3, <1>4, <1>7, <1>17
     DEF Read2, NoCommand, RegisterTypes, TypeOK
<1>18. CASE Read3
  <2>1. counter \in Columns
    BY <1>18, Bounds DEF Read3, Inv, InStep, AtRead3, Columns
  <2> QED
    BY <1>1, <1>2, <1>4, <1>18, <2>1
       DEF Read3, KeepWires, requestVars, RegisterTypes, TypeOK
<1>19. CASE Read4
  BY <1>1, <1>19 DEF Read4, KeepWires, requestVars, RegisterTypes
<1> QED
  BY <1>8, <1>9, <1>10, <1>11, <1>12, <1>13, <1>14, <1>15, <1>16, <1>17,
     <1>18, <1>19 DEF CacheStep

LEMMA TypeStep ==
  ASSUME Inv, Next
  PROVE  TypeOK'
<1>1. TypeOK
  BY DEF Inv
<1>2. request' \in Requests
  BY <1>1, NextRequestTypes DEF Next
<1>3. RegisterTypes'
  BY RegisterStepTypes DEF Next
<1>4. BlockRams /\ ControllerStep
  BY DEF Next, CacheStep
<1> QED
  BY <1>1, <1>2, <1>3, <1>4, BlockRamTypes, ControllerTypes
     DEF TypeOK, RegisterTypes

-----------------------------------------------------------------------------
(* What the controller does in a step, by the command it works on.          *)

LEMMA ControllerWaits ==
  ASSUME ControllerStep, doing = "none"
  PROVE  /\ op' = "none"
         /\ ~O_sdrc_cmd_ack'
         /\ sdram' = sdram
         /\ row' = row
<1>1. Nothing
  BY DEF ControllerStep, RefreshRows, Activate, WriteBurst, ReadBurst
<1> QED
  BY <1>1 DEF Nothing, Done

LEMMA ControllerRefreshes ==
  ASSUME ControllerStep, doing = "refresh"
  PROVE  /\ sdram' = sdram
         /\ row' = row
         /\ Acknowledged' \/ (op' = "refresh" /\ ~O_sdrc_cmd_ack')
<1>1. RefreshRows
  BY DEF ControllerStep, Nothing, Activate, WriteBurst, ReadBurst
<1>2. CASE Acknowledge(0)
  BY <1>1, <1>2 DEF RefreshRows, Acknowledge, Done, Acknowledged
<1>3. CASE Proceed(0)
  BY <1>1, <1>3 DEF RefreshRows, Proceed, Ongoing
<1> QED
  BY <1>1, <1>2, <1>3 DEF RefreshRows

LEMMA ControllerActivates ==
  ASSUME ControllerStep, doing = "activate"
  PROVE  /\ sdram' = sdram
         /\ row' = where
         /\ \/ Acknowledged'
            \/ op' = "activate" /\ target' = where /\ ~O_sdrc_cmd_ack'
<1>1. Activate
  BY DEF ControllerStep, Nothing, RefreshRows, WriteBurst, ReadBurst
<1>2. CASE Acknowledge(0)
  BY <1>1, <1>2 DEF Activate, Acknowledge, Done, Acknowledged
<1>3. CASE Proceed(0)
  BY <1>1, <1>3 DEF Activate, Proceed, Ongoing
<1> QED
  BY <1>1, <1>2, <1>3 DEF Activate

LEMMA ControllerWrites ==
  ASSUME ControllerStep, doing = "write", at \in Nat
  PROVE  /\ at < ColumnCount => sdram' = [sdram EXCEPT ![where][at] = I_sdrc_data]
         /\ at >= ColumnCount => sdram' = sdram
         /\ \/ at >= ColumnCount /\ Acknowledged' /\ row' = NoRow
            \/ /\ op' = "write"
               /\ age' = at + 1
               /\ target' = where
               /\ row' = row
               /\ ~O_sdrc_cmd_ack'
<1>1. WriteBurst
  BY DEF ControllerStep, Nothing, RefreshRows, Activate, ReadBurst
<1>2. /\ at < ColumnCount => sdram' = [sdram EXCEPT ![where][at] = I_sdrc_data]
      /\ at >= ColumnCount => sdram' = sdram
  BY <1>1, Bounds DEF WriteBurst
<1>3. CASE Acknowledge(ColumnCount) /\ row' = NoRow
  BY <1>2, <1>3 DEF Acknowledge, Done, Acknowledged
<1>4. CASE Proceed(ColumnCount) /\ UNCHANGED row
  BY <1>1, <1>2, <1>4 DEF Proceed, Ongoing
<1> QED
  BY <1>1, <1>3, <1>4 DEF WriteBurst

LEMMA ControllerReads ==
  ASSUME ControllerStep, doing = "read"
  PROVE  /\ sdram' = sdram
         /\ at - (ReadLatency - 1) \in Columns =>
              O_sdrc_data' = sdram[where][at - (ReadLatency - 1)]
         /\ \/ at = LastReadCycle /\ op' = "none" /\ row' = NoRow
                 /\ ~O_sdrc_cmd_ack'
            \/ /\ at < LastReadCycle
               /\ op' = "read"
               /\ age' = at + 1
               /\ target' = where
               /\ row' = row
<1>1. ReadBurst
  BY DEF ControllerStep, Nothing, RefreshRows, Activate, WriteBurst
<1> QED
  BY <1>1 DEF ReadBurst, Done, Ongoing

-----------------------------------------------------------------------------
(* One lemma per state of the machine: the edge that leaves it keeps the    *)
(* invariant.                                                               *)

LEMMA Held ==
  ASSUME Inv, Next, state \notin Serving
  PROVE  request' = request
BY DEF Inv, Flags, Next, Hold, Issue

LEMMA EvictingFrame ==
  ASSUME Inv, Next, state \in Evicting
  PROVE  /\ request' = request
         /\ column' = column
         /\ tag' = tag
<1>1. state \notin Serving /\ state \notin Filling
  BY DEF Evicting, Serving, Filling
<1>2. TypeOK /\ BlockRams /\ ~burst_is_reading /\ ~cache_line_hit
  BY <1>1 DEF Inv, BurstRegisters, Flags, busy, Next, CacheStep
<1> QED
  BY <1>1, <1>2, Held, EvictingKeepsRams

\* what is said of the lines is about these variables only
LEMMA LinesFrame ==
  ASSUME Inv, request' = request, column' = column, tag' = tag,
         sdram' = sdram, burst_is_reading' = burst_is_reading
  PROVE  CleanLinesAgree'
BY DEF Inv, CleanLinesAgree, line_ix

LEMMA Write1Step ==
  ASSUME Inv, Next, state = "Write1"
  PROVE  BurstRegisters' /\ Flags' /\ InStep' /\ CleanLinesAgree'
<1>1. Write1
  BY DEF Next, CacheStep, CountIdleCycle, IdleRefresh, IdleEvict, IdleFill,
     IdleStay, Refresh, Write2, Write3, Read1, Read2, Read3, Read4
<1>2. state \in Evicting /\ state \notin Serving /\ state \notin Filling
  BY DEF Evicting, Serving, Filling
<1>3. request' = request /\ column' = column /\ tag' = tag
  BY <1>2, EvictingFrame
<1>4. /\ AtActivate(cached_line_address)
      /\ ~burst_is_reading /\ ~burst_tag_write_enable
      /\ burst_write_enable = {}
      /\ busy /\ cached.dirty
      /\ \A l \in Lines : tag[l].dirty => tag[l].valid
  BY <1>2 DEF Inv, InStep, BurstRegisters, Flags
<1>5. ControllerStep
  BY DEF Next
<1>6. /\ cached_line_address' = cached_line_address
      /\ (cached.dirty)' = cached.dirty
      /\ busy' = busy
      /\ line_ix' = line_ix
  BY <1>3 DEF cached_line_address, cached, busy, cache_line_hit, line_ix,
     address_tag
<1>7. UNCHANGED burstVars /\ state' \in {"Write1", "Write2"}
  BY <1>1 DEF Write1
<1>8. BurstRegisters' /\ Flags'
  BY <1>2, <1>3, <1>4, <1>6, <1>7
     DEF BurstRegisters, Flags, burstVars, Evicting, Serving, Filling
<1>9. CASE O_sdrc_cmd_ack
  <2>1. ~I_sdrc_cmd_en /\ op = "none" /\ row = cached_line_address
    BY <1>4, <1>9 DEF AtActivate, Given, Acknowledged, Working
  <2>2. doing = "none"
    BY <2>1 DEF doing
  <2>3. op' = "none" /\ ~O_sdrc_cmd_ack' /\ sdram' = sdram /\ row' = row
    BY <1>5, <2>2, ControllerWaits
  <2>4. AtWrite2'
    BY <1>1, <1>3, <1>6, <1>9, <2>1, <2>3, Bounds
       DEF Write1, Command, AtWrite2, Given, SameUpTo, Columns
  <2> QED
    BY <1>1, <1>3, <1>7, <1>8, <1>9, <2>3, <2>4, LinesFrame
       DEF Write1, InStep, burstVars
<1>10. CASE ~O_sdrc_cmd_ack
  <2>1. doing = "activate" /\ where = cached_line_address
    BY <1>4, <1>10 DEF AtActivate, Given, Acknowledged, Working, doing, where
  <2>2. /\ sdram' = sdram
        /\ row' = cached_line_address
        /\ Acknowledged' \/ Working("activate", cached_line_address)'
    BY <1>5, <1>6, <2>1, ControllerActivates DEF Working
  <2>3. AtActivate(cached_line_address)'
    BY <1>1, <1>6, <1>10, <2>2 DEF Write1, NoCommand, AtActivate
  <2> QED
    BY <1>1, <1>3, <1>7, <1>8, <1>10, <2>2, <2>3, LinesFrame
       DEF Write1, InStep, burstVars
<1> QED
  BY <1>9, <1>10

LEMMA Increment ==
  ASSUME NEW n \in Nat, n + 1 < CounterModulus
  PROVE  increment(n) = n + 1
BY Bounds DEF increment

\* a write back touches no line but the one that is evicted
LEMMA EvictingKeepsCleanLines ==
  ASSUME Inv, request' = request, column' = column, tag' = tag, cached.dirty,
         \A a \in LineAddresses : a.line # line_ix => sdram'[a] = sdram[a]
  PROVE  CleanLinesAgree'
<1> SUFFICES ASSUME NEW l \in Lines, tag[l].valid, ~tag[l].dirty
             PROVE  column[l] = sdram'[[tag |-> tag[l].tag, line |-> l]]
  BY DEF CleanLinesAgree
<1>1. l # line_ix
  BY DEF cached
<1>2. [tag |-> tag[l].tag, line |-> l] \in LineAddresses
  BY DEF Inv, TypeOK, LineAddresses
<1> QED
  BY <1>1, <1>2 DEF Inv, CleanLinesAgree

LEMMA Write2Step ==
  ASSUME Inv, Next, state = "Write2"
  PROVE  BurstRegisters' /\ Flags' /\ InStep' /\ CleanLinesAgree'
<1>1. Write2
  BY DEF Next, CacheStep, CountIdleCycle, IdleRefresh, IdleEvict, IdleFill,
     IdleStay, Refresh, Write1, Write3, Read1, Read2, Read3, Read4
<1>2. state \in Evicting /\ state \notin Serving /\ state \notin Filling
  BY DEF Evicting, Serving, Filling
<1>3. request' = request /\ column' = column /\ tag' = tag
  BY <1>2, EvictingFrame
<1>4. /\ AtWrite2
      /\ ~burst_is_reading /\ ~burst_tag_write_enable
      /\ burst_write_enable = {}
      /\ busy /\ cached.dirty
      /\ \A l \in Lines : tag[l].dirty => tag[l].valid
      /\ TypeOK
  BY <1>2 DEF Inv, InStep, BurstRegisters, Flags
<1>5. ControllerStep
  BY DEF Next
<1>6. /\ cached_line_address' = cached_line_address
      /\ (cached.dirty)' = cached.dirty
      /\ busy' = busy
      /\ line_ix' = line_ix
  BY <1>3 DEF cached_line_address, cached, busy, cache_line_hit, line_ix,
     address_tag
<1>7. UNCHANGED burstVars /\ state' \in {"Write2", "Write3"}
  BY <1>1, <1>4 DEF Write2
<1>8. BurstRegisters' /\ Flags'
  BY <1>2, <1>3, <1>4, <1>6, <1>7
     DEF BurstRegisters, Flags, burstVars, Evicting, Serving, Filling
<1>9. counter \in Nat /\ counter >= 1 /\ counter < ColumnCount
      /\ counter - 1 \in Columns
  BY <1>4, Bounds DEF AtWrite2, Columns
<1>10. doing = "write" /\ where = cached_line_address /\ at = counter - 1
  <2>1. CASE I_sdrc_cmd_en
    BY <1>4, <1>9, <2>1 DEF AtWrite2, Given, doing, where, at
  <2>2. CASE ~I_sdrc_cmd_en
    BY <1>4, <2>2 DEF AtWrite2, Working, doing, where, at
  <2> QED
    BY <2>1, <2>2
<1>11. /\ sdram' = [sdram EXCEPT ![cached_line_address][counter - 1] =
                                   column[line_ix][counter - 1]]
       /\ op' = "write"
       /\ age' = counter
       /\ target' = cached_line_address
       /\ row' = cached_line_address
       /\ ~O_sdrc_cmd_ack'
  <2>1. at \in Nat /\ at < ColumnCount /\ ~(at >= ColumnCount)
    BY <1>9, <1>10, Bounds
  <2>2. counter - 1 + 1 = counter
    BY <1>9
  <2> QED
    BY <1>4, <1>5, <1>10, <2>1, <2>2, ControllerWrites DEF AtWrite2
<1>12. cached_line_address \in LineAddresses
  BY <1>4, TypesOfAddress
<1>13. SameUpTo(counter - 1, cached_line_address)
  BY <1>4 DEF AtWrite2
<1>14. \A c \in Columns :
         c < counter => column'[line_ix'][c] = sdram'[cached_line_address'][c]
  <2>1. sdram'[cached_line_address] =
          [sdram[cached_line_address] EXCEPT ![counter - 1] =
             column[line_ix][counter - 1]]
    BY <1>4, <1>11, <1>12 DEF TypeOK
  <2>2. sdram[cached_line_address] \in [Columns -> Words]
    BY <1>4, <1>12 DEF TypeOK
  <2> SUFFICES ASSUME NEW c \in Columns, c < counter
               PROVE  column[line_ix][c] = sdram'[cached_line_address][c]
    BY <1>3, <1>6
  <2>3. CASE c = counter - 1
    BY <1>9, <2>1, <2>2, <2>3
  <2>4. CASE c # counter - 1
    <3>1. c < counter - 1
      BY <1>9, <2>4, Bounds DEF Columns
    <3> QED
      BY <1>13, <2>1, <2>2, <2>4, <3>1 DEF SameUpTo
  <2> QED
    BY <2>3, <2>4
<1>15. CleanLinesAgree'
  <2>1. \A a \in LineAddresses : a.line # line_ix => sdram'[a] = sdram[a]
    BY <1>4, <1>11, <1>12 DEF TypeOK, cached_line_address
  <2> QED
    BY <1>3, <1>4, <2>1, EvictingKeepsCleanLines
<1>16. CASE counter = ColumnCount - 1
  <2>1. /\ state' = "Write3"
        /\ ~I_sdrc_cmd_en'
        /\ I_sdrc_data' = column[line_ix][ColumnCount - 1]
    BY <1>1, <1>16 DEF Write2, NoCommand
  <2>2. age' >= ColumnCount - 1
    BY <1>9, <1>11, <1>16, Bounds
  <2>3. AtWrite3'
    BY <1>3, <1>6, <1>11, <1>14, <2>1, <2>2
       DEF AtWrite3, Working, SameUpTo
  <2> QED
    BY <1>8, <1>15, <2>1, <2>3 DEF InStep
<1>17. CASE counter # ColumnCount - 1
  <2>1. counter + 1 \in 1..(ColumnCount - 1) /\ counter + 1 < CounterModulus
        /\ counter + 1 # 1
    BY <1>9, <1>17, Bounds
  <2>2. /\ state' = "Write2"
        /\ ~I_sdrc_cmd_en'
        /\ I_sdrc_data' = column[line_ix][counter]
        /\ counter' = counter + 1
    BY <1>1, <1>4, <1>9, <1>17, <2>1, Increment DEF Write2, NoCommand
  <2>3. counter' - 1 = counter
    BY <1>9, <2>2
  <2>4. AtWrite2'
    BY <1>3, <1>6, <1>11, <1>14, <2>1, <2>2, <2>3
       DEF AtWrite2, Working, SameUpTo
  <2> QED
    BY <1>8, <1>15, <2>2, <2>4 DEF InStep
<1> QED
  BY <1>16, <1>17

LEMMA Write3Step ==
  ASSUME Inv, Next, state = "Write3"
  PROVE  BurstRegisters' /\ Flags' /\ InStep' /\ CleanLinesAgree'
<1>1. Write3
  BY DEF Next, CacheStep, CountIdleCycle, IdleRefresh, IdleEvict, IdleFill,
     IdleStay, Refresh, Write1, Write2, Read1, Read2, Read3, Read4
<1>2. state \in Evicting /\ state \notin Serving /\ state \notin Filling
  BY DEF Evicting, Serving, Filling
<1>3. request' = request /\ column' = column /\ tag' = tag
  BY <1>2, EvictingFrame
<1>4. /\ AtWrite3
      /\ ~burst_is_reading /\ ~burst_tag_write_enable
      /\ burst_write_enable = {}
      /\ busy /\ cached.dirty
      /\ \A l \in Lines : tag[l].dirty => tag[l].valid
      /\ TypeOK
  BY <1>2 DEF Inv, InStep, BurstRegisters, Flags
<1>5. ControllerStep
  BY DEF Next
<1>6. /\ cached_line_address' = cached_line_address
      /\ burst_line_address' = burst_line_address
      /\ (cached.dirty)' = cached.dirty
      /\ busy' = busy
      /\ line_ix' = line_ix
  BY <1>3 DEF cached_line_address, burst_line_address, cached, busy,
     cache_line_hit, line_ix, address_tag
<1>7. cached_line_address \in LineAddresses
  BY <1>4, TypesOfAddress
<1>8. CASE O_sdrc_cmd_ack
  <2>1. ~I_sdrc_cmd_en /\ op = "none" /\ row = NoRow
    BY <1>4, <1>8 DEF AtWrite3, Acknowledged, Working
  <2>2. op' = "none" /\ ~O_sdrc_cmd_ack' /\ sdram' = sdram /\ row' = row
    BY <1>5, <2>1, ControllerWaits DEF doing
  <2>3. AtActivate(burst_line_address)'
    BY <1>1, <1>6, <1>8, <2>1, <2>2 DEF Write3, Command, AtActivate, Given
  <2>4. /\ state' = "Read1"
        /\ burst_is_reading'
        /\ burst_tag_write_enable' = burst_tag_write_enable
        /\ burst_write_enable' = burst_write_enable
    BY <1>1, <1>8 DEF Write3
  <2>5. BurstRegisters' /\ Flags'
    BY <1>3, <1>4, <1>6, <2>4
       DEF BurstRegisters, Flags, Evicting, Serving, Filling
  <2>6. CleanLinesAgree'
    BY <1>3, <1>4, <2>2, EvictingKeepsCleanLines
  <2> QED
    BY <2>3, <2>4, <2>5, <2>6 DEF InStep
<1>9. CASE ~O_sdrc_cmd_ack
  <2>1. /\ ~I_sdrc_cmd_en
        /\ Working("write", cached_line_address)
        /\ row = cached_line_address
        /\ age >= ColumnCount - 1
        /\ age = ColumnCount - 1 =>
             I_sdrc_data = column[line_ix][ColumnCount - 1]
        /\ SameUpTo(age, cached_line_address)
    BY <1>4, <1>9 DEF AtWrite3, Acknowledged
  <2>2. doing = "write" /\ where = cached_line_address /\ at = age
    BY <2>1 DEF Working, doing, where, at
  <2>3. age \in Nat /\ at \in Nat
    BY <1>4, <2>2 DEF TypeOK
  <2>4. /\ age < ColumnCount =>
             sdram' = [sdram EXCEPT ![cached_line_address][age] = I_sdrc_data]
        /\ age >= ColumnCount => sdram' = sdram
        /\ \/ age >= ColumnCount /\ Acknowledged' /\ row' = NoRow
           \/ /\ op' = "write"
              /\ age' = age + 1
              /\ target' = cached_line_address
              /\ row' = row
              /\ ~O_sdrc_cmd_ack'
    BY <1>5, <2>2, <2>3, ControllerWrites
  <2>5. \A a \in LineAddresses : a.line # line_ix => sdram'[a] = sdram[a]
    BY <1>4, <1>7, <2>3, <2>4, Bounds DEF TypeOK, cached_line_address
  <2>6. CleanLinesAgree'
    BY <1>3, <1>4, <2>5, EvictingKeepsCleanLines
  <2>7. \A c \in Columns : c < age + 1 =>
          column'[line_ix'][c] = sdram'[cached_line_address'][c]
    <3> SUFFICES ASSUME NEW c \in Columns, c < age + 1
                 PROVE  column[line_ix][c] = sdram'[cached_line_address][c]
      BY <1>3, <1>6
    <3>1. CASE age >= ColumnCount
      <4>1. c < age
        BY <2>3, <3>1, Bounds DEF Columns
      <4> QED
        BY <2>1, <2>4, <3>1, <4>1 DEF SameUpTo
    <3>2. CASE ~(age >= ColumnCount)
      <4>1. age = ColumnCount - 1 /\ age < ColumnCount /\ age \in Columns
        BY <2>1, <2>3, <3>2, Bounds DEF Columns
      <4>2. sdram'[cached_line_address] =
              [sdram[cached_line_address] EXCEPT ![age] = I_sdrc_data]
        BY <1>4, <1>7, <2>4, <4>1 DEF TypeOK
      <4>3. sdram[cached_line_address] \in [Columns -> Words]
        BY <1>4, <1>7 DEF TypeOK
      <4>4. CASE c = age
        BY <2>1, <4>1, <4>2, <4>3, <4>4
      <4>5. CASE c # age
        <5>1. c < age
          BY <2>3, <4>5, Bounds DEF Columns
        <5> QED
          BY <2>1, <4>2, <4>3, <4>5, <5>1 DEF SameUpTo
      <4> QED
        BY <4>4, <4>5
    <3> QED
      BY <3>1, <3>2
  <2>8. /\ state' = "Write3"
        /\ ~I_sdrc_cmd_en'
        /\ I_sdrc_data' = I_sdrc_data
        /\ UNCHANGED burstVars
    BY <1>1, <1>9, <2>1 DEF Write3, KeepWires, requestVars, burstVars
  <2>9. BurstRegisters' /\ Flags'
    BY <1>3, <1>4, <1>6, <2>8
       DEF BurstRegisters, Flags, burstVars, Evicting, Serving, Filling
  <2>10. AtWrite3'
    <3>1. CASE age >= ColumnCount /\ Acknowledged' /\ row' = NoRow
      <4>1. \A c \in Columns : c < age + 1
        BY <2>3, <3>1, Bounds DEF Columns
      <4> QED
        BY <2>7, <2>8, <3>1, <4>1 DEF AtWrite3, SameUpTo
    <3>2. CASE /\ op' = "write"
               /\ age' = age + 1
               /\ target' = cached_line_address
               /\ row' = row
               /\ ~O_sdrc_cmd_ack'
      <4>1. age' >= ColumnCount - 1 /\ age' # ColumnCount - 1
        BY <2>1, <2>3, <3>2, Bounds
      <4> QED
        BY <1>6, <2>1, <2>7, <2>8, <3>2, <4>1
           DEF AtWrite3, Working, SameUpTo
    <3> QED
      BY <2>4, <3>1, <3>2
  <2> QED
    BY <2>6, <2>8, <2>9, <2>10 DEF InStep
<1> QED
  BY <1>8, <1>9

\* until the first column arrives the block RAMs keep what they hold
LEMMA FillingFrame ==
  ASSUME Inv, Next, state \in {"Read1", "Read2"}
  PROVE  /\ request' = request
         /\ column' = column
         /\ tag' = tag
<1>1. state \notin Serving /\ state \in Filling
  BY DEF Serving, Filling
<1>2. TypeOK /\ BlockRams
  BY DEF Inv, Next, CacheStep
<1>3. column_write_enable = {} /\ ~tag_write_enable
  BY <1>1 DEF Inv, BurstRegisters, column_write_enable, tag_write_enable
<1>4. column' = column
  BY <1>2, <1>3, TypesOfAddress DEF BlockRams, TypeOK
<1> QED
  BY <1>1, <1>2, <1>3, <1>4, Held DEF BlockRams

LEMMA Read1Step ==
  ASSUME Inv, Next, state = "Read1"
  PROVE  BurstRegisters' /\ Flags' /\ InStep' /\ CleanLinesAgree'
<1>1. Read1
  BY DEF Next, CacheStep, CountIdleCycle, IdleRefresh, IdleEvict, IdleFill,
     IdleStay, Refresh, Write1, Write2, Write3, Read2, Read3, Read4
<1>2. state \notin Evicting /\ state \notin Serving /\ state \in Filling
  BY DEF Evicting, Serving, Filling
<1>3. request' = request /\ column' = column /\ tag' = tag
  BY FillingFrame
<1>4. /\ AtActivate(burst_line_address)
      /\ burst_is_reading /\ ~burst_tag_write_enable
      /\ burst_write_enable = {}
      /\ busy
      /\ \A l \in Lines : tag[l].dirty => tag[l].valid
  BY <1>2 DEF Inv, InStep, BurstRegisters, Flags
<1>5. ControllerStep
  BY DEF Next
<1>6. burst_line_address' = burst_line_address /\ busy' = busy
  BY <1>3 DEF burst_line_address, cached, busy, cache_line_hit, line_ix,
     address_tag
<1>7. UNCHANGED burstVars /\ state' \in {"Read1", "Read2"}
  BY <1>1 DEF Read1
<1>8. BurstRegisters' /\ Flags'
  BY <1>2, <1>3, <1>4, <1>6, <1>7
     DEF BurstRegisters, Flags, burstVars, Evicting, Serving, Filling
<1>9. CASE O_sdrc_cmd_ack
  <2>1. ~I_sdrc_cmd_en /\ op = "none" /\ row = burst_line_address
    BY <1>4, <1>9 DEF AtActivate, Given, Acknowledged, Working
  <2>2. op' = "none" /\ ~O_sdrc_cmd_ack' /\ sdram' = sdram /\ row' = row
    BY <1>5, <2>1, ControllerWaits DEF doing
  <2>3. AtRead2'
    BY <1>1, <1>6, <1>9, <2>1, <2>2, Bounds
       DEF Read1, Command, AtRead2, Given
  <2> QED
    BY <1>1, <1>3, <1>7, <1>8, <1>9, <2>2, <2>3, LinesFrame
       DEF Read1, InStep, burstVars
<1>10. CASE ~O_sdrc_cmd_ack
  <2>1. doing = "activate" /\ where = burst_line_address
    BY <1>4, <1>10 DEF AtActivate, Given, Acknowledged, Working, doing, where
  <2>2. /\ sdram' = sdram
        /\ row' = burst_line_address
        /\ Acknowledged' \/ Working("activate", burst_line_address)'
    BY <1>5, <1>6, <2>1, ControllerActivates DEF Working
  <2>3. AtActivate(burst_line_address)'
    BY <1>1, <1>6, <1>10, <2>2 DEF Read1, NoCommand, AtActivate
  <2> QED
    BY <1>1, <1>3, <1>7, <1>8, <1>10, <2>2, <2>3, LinesFrame
       DEF Read1, InStep, burstVars
<1> QED
  BY <1>9, <1>10

LEMMA LastReadCycleBounds ==
  /\ LastReadCycle \in Nat
  /\ ReadLatency \in Nat /\ ReadLatency >= 1
  /\ ReadLatency + ColumnCount - 2 <= LastReadCycle
  /\ LastReadCycle <= ReadLatency + ColumnCount + 1
  /\ ReadLatency = WaitsPriorToDataAtRead
BY Bounds, ControllerAssumption, LatencyAssumption DEF LastReadCycle

LEMMA Read2Step ==
  ASSUME Inv, Next, state = "Read2"
  PROVE  BurstRegisters' /\ Flags' /\ InStep' /\ CleanLinesAgree'
<1>1. Read2
  BY DEF Next, CacheStep, CountIdleCycle, IdleRefresh, IdleEvict, IdleFill,
     IdleStay, Refresh, Write1, Write2, Write3, Read1, Read3, Read4
<1>2. state \notin Evicting /\ state \notin Serving /\ state \in Filling
  BY DEF Evicting, Serving, Filling
<1>3. request' = request /\ column' = column /\ tag' = tag
  BY FillingFrame
<1>4. /\ AtRead2
      /\ burst_is_reading /\ ~burst_tag_write_enable
      /\ burst_write_enable = {}
      /\ busy
      /\ \A l \in Lines : tag[l].dirty => tag[l].valid
  BY <1>2 DEF Inv, InStep, BurstRegisters, Flags
<1>5. ControllerStep
  BY DEF Next
<1>6. burst_line_address' = burst_line_address /\ busy' = busy
  BY <1>3 DEF burst_line_address, cached, busy, cache_line_hit, line_ix,
     address_tag
<1>7. /\ burst_is_reading' = burst_is_reading
      /\ burst_tag_write_enable' = burst_tag_write_enable
      /\ ~I_sdrc_cmd_en'
  BY <1>1 DEF Read2, NoCommand
<1>8. counter \in Nat /\ counter <= WaitsPriorToDataAtRead
  BY <1>4, Bounds DEF AtRead2
<1>9. doing = "read" /\ where = burst_line_address /\ at = counter
  <2>1. CASE I_sdrc_cmd_en
    BY <1>4, <2>1 DEF AtRead2, Given, doing, where, at
  <2>2. CASE ~I_sdrc_cmd_en
    BY <1>4, <2>2 DEF AtRead2, doing, where, at
  <2> QED
    BY <2>1, <2>2
<1>10. /\ sdram' = sdram
       /\ counter - (ReadLatency - 1) \in Columns =>
            O_sdrc_data' = sdram[burst_line_address][counter - (ReadLatency - 1)]
       /\ \/ counter = LastReadCycle /\ op' = "none" /\ row' = NoRow
          \/ /\ counter < LastReadCycle
             /\ op' = "read"
             /\ age' = counter + 1
             /\ target' = burst_line_address
             /\ row' = burst_line_address
  BY <1>4, <1>5, <1>9, ControllerReads DEF AtRead2
<1>11. CleanLinesAgree'
  BY <1>3, <1>7, <1>10, LinesFrame
<1>12. CASE counter = WaitsPriorToDataAtRead
  <2>1. /\ state' = "Read3"
        /\ burst_write_enable' = {0}
        /\ burst_data_in' = O_sdrc_data
        /\ counter' = 1
    BY <1>1, <1>4, <1>12 DEF Read2
  <2>2. counter' - 1 = 0
    BY <2>1
  <2>3. BurstRegisters' /\ Flags'
    BY <1>2, <1>3, <1>4, <1>6, <1>7, <2>1, <2>2
       DEF BurstRegisters, Flags, Evicting, Serving, Filling
  <2>4. burst_data_in' = sdram'[burst_line_address'][counter' - 1]
    BY <1>4, <1>6, <1>10, <1>12, <2>1, <2>2 DEF AtRead2
  <2>5. O_sdrc_data' = sdram'[burst_line_address'][counter']
    <3>1. counter - (ReadLatency - 1) = 1 /\ 1 \in Columns
      BY <1>8, <1>12, Bounds, LastReadCycleBounds DEF Columns
    <3> QED
      BY <1>6, <1>10, <2>1, <3>1
  <2>6. ReadingAt(ReadLatency + counter, burst_line_address)'
    <3>1. ReadLatency' + counter' = counter + 1
      BY <1>8, <1>12, <2>1, LastReadCycleBounds
    <3>2. CASE counter = LastReadCycle /\ op' = "none" /\ row' = NoRow
      BY <1>8, <3>1, <3>2, LastReadCycleBounds DEF ReadingAt
    <3>3. CASE /\ counter < LastReadCycle
               /\ op' = "read"
               /\ age' = counter + 1
               /\ target' = burst_line_address
               /\ row' = burst_line_address
      BY <1>6, <1>8, <3>1, <3>3, LastReadCycleBounds DEF ReadingAt
    <3> QED
      BY <1>10, <3>2, <3>3
  <2>7. SameUpTo(counter - 1, burst_line_address)'
    BY <2>2, Bounds DEF SameUpTo, Columns
  <2>8. counter' \in 1..(ColumnCount - 1)
    BY <2>1, Bounds
  <2>9. AtRead3'
    BY <1>7, <2>4, <2>5, <2>6, <2>7, <2>8 DEF AtRead3
  <2> QED
    BY <1>11, <2>1, <2>3, <2>9 DEF InStep
<1>13. CASE counter # WaitsPriorToDataAtRead
  <2>1. /\ counter + 1 \in 0..WaitsPriorToDataAtRead
        /\ counter + 1 < CounterModulus
        /\ counter < LastReadCycle
        /\ counter + 1 # 0
    BY <1>8, <1>13, Bounds, LastReadCycleBounds
  <2>2. /\ state' = "Read2"
        /\ burst_write_enable' = burst_write_enable
        /\ counter' = counter + 1
    BY <1>1, <1>8, <1>13, <2>1, Increment DEF Read2
  <2>3. BurstRegisters' /\ Flags'
    BY <1>2, <1>3, <1>4, <1>6, <1>7, <2>2
       DEF BurstRegisters, Flags, Evicting, Serving, Filling
  <2>4. /\ op' = "read"
        /\ target' = burst_line_address
        /\ age' = counter'
        /\ row' = burst_line_address
    BY <1>8, <1>10, <2>1, <2>2, LastReadCycleBounds
  <2>5. counter' = WaitsPriorToDataAtRead =>
          O_sdrc_data' = sdram'[burst_line_address'][0]
    <3> SUFFICES ASSUME counter + 1 = WaitsPriorToDataAtRead
                 PROVE  O_sdrc_data' = sdram[burst_line_address][0]
      BY <1>6, <1>10, <2>2
    <3>1. counter - (ReadLatency - 1) = 0 /\ 0 \in Columns
      BY <1>8, Bounds, LastReadCycleBounds DEF Columns
    <3> QED
      BY <1>10, <3>1
  <2>6. AtRead2'
    BY <1>6, <1>7, <2>1, <2>2, <2>4, <2>5 DEF AtRead2
  <2> QED
    BY <1>11, <2>2, <2>3, <2>6 DEF InStep
<1> QED
  BY <1>12, <1>13

\* the controller one cycle further in a burst that goes on or is over
LEMMA ReadingOn ==
  ASSUME ControllerStep, ~I_sdrc_cmd_en, burst_line_address' = burst_line_address,
         NEW cycle \in Nat, ReadingAt(cycle, burst_line_address)
  PROVE  /\ sdram' = sdram
         /\ \/ /\ op' = "read"
               /\ cycle + 1 <= LastReadCycle
               /\ age' = cycle + 1
               /\ target' = burst_line_address'
               /\ row' = burst_line_address'
            \/ /\ op' = "none"
               /\ cycle + 1 > LastReadCycle
               /\ row' = NoRow
         /\ /\ cycle <= LastReadCycle
            /\ cycle - (ReadLatency - 1) \in Columns
            => O_sdrc_data' =
                 sdram[burst_line_address][cycle - (ReadLatency - 1)]
<1>1. CASE /\ op = "read"
           /\ cycle <= LastReadCycle
           /\ age = cycle
           /\ target = burst_line_address
           /\ row = burst_line_address
  <2>1. doing = "read" /\ where = burst_line_address /\ at = cycle
    BY <1>1 DEF doing, where, at
  <2>2. /\ sdram' = sdram
        /\ cycle - (ReadLatency - 1) \in Columns =>
             O_sdrc_data' = sdram[burst_line_address][cycle - (ReadLatency - 1)]
    BY <2>1, ControllerReads
  <2>3. \/ cycle = LastReadCycle /\ op' = "none" /\ row' = NoRow
        \/ /\ cycle < LastReadCycle
           /\ op' = "read"
           /\ age' = cycle + 1
           /\ target' = burst_line_address
           /\ row' = row
    BY <2>1, ControllerReads
  <2>4. CASE cycle = LastReadCycle /\ op' = "none" /\ row' = NoRow
    BY <2>2, <2>4, LastReadCycleBounds
  <2>5. CASE /\ cycle < LastReadCycle
             /\ op' = "read"
             /\ age' = cycle + 1
             /\ target' = burst_line_address
             /\ row' = row
    BY <1>1, <2>2, <2>5, LastReadCycleBounds
  <2> QED
    BY <2>3, <2>4, <2>5
<1>2. CASE op = "none" /\ cycle > LastReadCycle /\ row = NoRow
  <2>1. op' = "none" /\ sdram' = sdram /\ row' = row
    BY <1>2, ControllerWaits DEF doing
  <2> QED
    BY <1>2, <2>1, LastReadCycleBounds
<1> QED
  BY <1>1, <1>2 DEF ReadingAt

LEMMA Read3Step ==
  ASSUME Inv, Next, state = "Read3"
  PROVE  BurstRegisters' /\ Flags' /\ InStep' /\ CleanLinesAgree'
<1>1. Read3
  BY DEF Next, CacheStep, CountIdleCycle, IdleRefresh, IdleEvict, IdleFill,
     IdleStay, Refresh, Write1, Write2, Write3, Read1, Read2, Read4
<1>2. state \notin Evicting /\ state \notin Serving /\ state \in Filling
  BY DEF Evicting, Serving, Filling
<1>3. request' = request
  BY <1>2, Held
<1>4. /\ AtRead3
      /\ burst_is_reading /\ ~burst_tag_write_enable
      /\ burst_write_enable = {counter - 1}
      /\ busy
      /\ \A l \in Lines : tag[l].dirty => tag[l].valid
      /\ TypeOK
  BY <1>2 DEF Inv, InStep, BurstRegisters, Flags
<1>5. BlockRams /\ ControllerStep
  BY DEF Next, CacheStep
<1>6. /\ tag' = tag
      /\ column' = [column EXCEPT ![line_ix] =
                      [c \in Columns |-> IF c = counter - 1 THEN burst_data_in
                                         ELSE column[line_ix][c]]]
  BY <1>4, <1>5, TypesOfAddress
     DEF BlockRams, column_write_enable, column_data_in, tag_write_enable, TypeOK
<1>7. /\ burst_line_address' = burst_line_address
      /\ busy' = busy
      /\ line_ix' = line_ix
  BY <1>3, <1>6 DEF burst_line_address, cached, busy, cache_line_hit, line_ix,
     address_tag
<1>8. /\ counter \in Nat /\ counter >= 1 /\ counter < ColumnCount
      /\ counter \in Columns
  BY <1>4, Bounds DEF AtRead3, Columns
<1>9. /\ ~I_sdrc_cmd_en'
      /\ burst_is_reading'
      /\ burst_write_enable' = {counter}
      /\ burst_data_in' = O_sdrc_data
  BY <1>1, <1>4 DEF AtRead3, Read3, KeepWires, requestVars
<1>10. ReadLatency + counter \in Nat
  BY <1>8, LastReadCycleBounds
<1>11. /\ sdram' = sdram
       /\ \/ /\ op' = "read"
             /\ ReadLatency + counter + 1 <= LastReadCycle
             /\ age' = ReadLatency + counter + 1
             /\ target' = burst_line_address'
             /\ row' = burst_line_address'
          \/ /\ op' = "none"
             /\ ReadLatency + counter + 1 > LastReadCycle
             /\ row' = NoRow
  BY <1>4, <1>5, <1>7, <1>10, ReadingOn DEF AtRead3
<1>12. burst_data_in' = sdram'[burst_line_address'][counter]
  BY <1>4, <1>7, <1>9, <1>11 DEF AtRead3
<1>13. \A c \in Columns :
         c < counter => column'[line_ix'][c] = sdram'[burst_line_address'][c]
  <2> SUFFICES ASSUME NEW c \in Columns, c < counter
               PROVE  column'[line_ix][c] = sdram[burst_line_address][c]
    BY <1>7, <1>11
  <2>1. column'[line_ix][c] = IF c = counter - 1 THEN burst_data_in
                              ELSE column[line_ix][c]
    BY <1>4, <1>6, TypesOfAddress DEF TypeOK
  <2>2. CASE c = counter - 1
    BY <1>4, <2>1, <2>2 DEF AtRead3
  <2>3. CASE c # counter - 1
    <3>1. c < counter - 1
      BY <1>8, <2>3, Bounds DEF Columns
    <3> QED
      BY <1>4, <2>1, <2>3, <3>1 DEF AtRead3, SameUpTo
  <2> QED
    BY <2>2, <2>3
<1>14. CleanLinesAgree'
  <2> SUFFICES ASSUME NEW l \in Lines, tag[l].valid, ~tag[l].dirty, l # line_ix
               PROVE  column'[l] = sdram[[tag |-> tag[l].tag, line |-> l]]
    BY <1>6, <1>7, <1>9, <1>11 DEF CleanLinesAgree
  <2>1. column'[l] = column[l]
    BY <1>4, <1>6, TypesOfAddress DEF TypeOK
  <2> QED
    BY <2>1 DEF Inv, CleanLinesAgree
<1>15. CASE counter = ColumnCount - 1
  <2>1. state' = "Read4" /\ burst_tag_write_enable'
    BY <1>1, <1>15 DEF Read3
  <2>2. BurstRegisters' /\ Flags'
    BY <1>2, <1>3, <1>4, <1>6, <1>7, <1>9, <1>15, <2>1
       DEF BurstRegisters, Flags, Evicting, Serving, Filling
  <2>3. ReadLatency + counter + 1 = ReadLatency + ColumnCount
    BY <1>15, Bounds, LastReadCycleBounds
  <2>4. ReadingAt(ReadLatency + ColumnCount, burst_line_address)'
    BY <1>11, <2>3, LastReadCycleBounds DEF ReadingAt, LastReadCycle
  <2>5. AtRead4'
    BY <1>9, <1>12, <1>13, <1>15, <2>4 DEF AtRead4, SameUpTo
  <2> QED
    BY <1>14, <2>1, <2>2, <2>5 DEF InStep
<1>16. CASE counter # ColumnCount - 1
  <2>1. counter + 1 \in 1..(ColumnCount - 1) /\ counter + 1 < CounterModulus
    BY <1>8, <1>16, Bounds
  <2>2. /\ state' = "Read3"
        /\ ~burst_tag_write_enable'
        /\ counter' = counter + 1
    BY <1>1, <1>4, <1>8, <1>16, <2>1, Increment DEF Read3
  <2>3. counter' - 1 = counter /\ counter' \in 1..(ColumnCount - 1)
    BY <1>8, <2>1, <2>2
  <2>4. BurstRegisters' /\ Flags'
    BY <1>2, <1>3, <1>4, <1>6, <1>7, <1>9, <2>2, <2>3
       DEF BurstRegisters, Flags, Evicting, Serving, Filling
  <2>5. ReadLatency + counter' = ReadLatency + counter + 1
    BY <1>8, <2>2, LastReadCycleBounds
  <2>6. ReadingAt(ReadLatency + counter, burst_line_address)'
    BY <1>11, <2>5 DEF ReadingAt, LastReadCycle
  <2>7. O_sdrc_data' = sdram'[burst_line_address'][counter']
    <3>1. /\ ReadLatency + counter <= LastReadCycle
          /\ ReadLatency + counter - (ReadLatency - 1) = counter + 1
          /\ counter + 1 \in Columns
      BY <1>8, <2>1, Bounds, LastReadCycleBounds DEF Columns
    <3> DEFINE n == ReadLatency + counter
    <3>2. n \in Nat /\ ReadingAt(n, burst_line_address)
      BY <1>4, <1>10 DEF AtRead3
    <3>3. n <= LastReadCycle /\ n - (ReadLatency - 1) = counter + 1
      BY <1>8, <3>1, LastReadCycleBounds
    <3> HIDE DEF n
    <3>4. O_sdrc_data' = sdram[burst_line_address][n - (ReadLatency - 1)]
      BY <1>4, <1>5, <1>7, <3>1, <3>2, <3>3, ReadingOn DEF AtRead3
    <3> QED
      BY <1>7, <1>11, <2>2, <3>3, <3>4
  <2>8. AtRead3'
    BY <1>9, <1>12, <1>13, <2>3, <2>6, <2>7 DEF AtRead3, SameUpTo
  <2> QED
    BY <1>14, <2>2, <2>4, <2>8 DEF InStep
<1> QED
  BY <1>15, <1>16

LEMMA Read4Step ==
  ASSUME Inv, Next, state = "Read4"
  PROVE  BurstRegisters' /\ Flags' /\ InStep' /\ CleanLinesAgree'
<1>1. Read4
  BY DEF Next, CacheStep, CountIdleCycle, IdleRefresh, IdleEvict, IdleFill,
     IdleStay, Refresh, Write1, Write2, Write3, Read1, Read2, Read3
<1>2. state \notin Evicting /\ state \notin Serving /\ state \in Filling
  BY DEF Evicting, Serving, Filling
<1>3. request' = request
  BY <1>2, Held
<1>4. /\ AtRead4
      /\ burst_is_reading /\ burst_tag_write_enable
      /\ burst_write_enable = {ColumnCount - 1}
      /\ \A l \in Lines : tag[l].dirty => tag[l].valid
      /\ TypeOK
  BY <1>2 DEF Inv, InStep, BurstRegisters, Flags
<1>5. BlockRams /\ ControllerStep
  BY DEF Next, CacheStep
<1>6. /\ tag' = [tag EXCEPT ![line_ix] =
                   [tag |-> address_tag, valid |-> TRUE, dirty |-> FALSE]]
      /\ column' = [column EXCEPT ![line_ix] =
                      [c \in Columns |-> IF c = ColumnCount - 1
                                         THEN burst_data_in
                                         ELSE column[line_ix][c]]]
  BY <1>4, <1>5, TypesOfAddress
     DEF BlockRams, column_write_enable, column_data_in, tag_write_enable,
         tag_data_in, TypeOK
<1>7. burst_line_address' = burst_line_address /\ line_ix' = line_ix
  BY <1>3 DEF burst_line_address, line_ix, address_tag
<1>8. /\ state' = "Idle"
      /\ ~I_sdrc_cmd_en'
      /\ ~burst_is_reading'
      /\ ~burst_tag_write_enable'
      /\ burst_write_enable' = {}
  BY <1>1, <1>4 DEF AtRead4, Read4, KeepWires, requestVars
<1>9. BurstRegisters'
  BY <1>8 DEF BurstRegisters, Filling
<1>10. Flags'
  <2>1. \A l \in Lines : tag'[l].dirty => tag'[l].valid
    BY <1>4, <1>6, TypesOfAddress DEF TypeOK
  <2> QED
    BY <1>8, <2>1 DEF Flags, Evicting, Serving
<1>11. /\ sdram' = sdram
       /\ \/ op' = "read" /\ age' = LastReadCycle
          \/ op' = "none" /\ row' = NoRow
  <2> DEFINE n == ReadLatency + ColumnCount
  <2>1. n \in Nat /\ n + 1 >= LastReadCycle
    BY Bounds, LastReadCycleBounds
  <2>2. ReadingAt(n, burst_line_address) /\ ~I_sdrc_cmd_en
    BY <1>4 DEF AtRead4
  <2> HIDE DEF n
  <2>3. /\ sdram' = sdram
        /\ \/ op' = "read" /\ n + 1 <= LastReadCycle /\ age' = n + 1
           \/ op' = "none" /\ row' = NoRow
    BY <1>5, <1>7, <2>1, <2>2, ReadingOn
  <2>4. n + 1 <= LastReadCycle => n + 1 = LastReadCycle
    BY <2>1, LastReadCycleBounds
  <2> QED
    BY <2>3, <2>4
<1>12. AtIdle'
  BY <1>8, <1>11 DEF AtIdle, LastReadCycle
<1>13. CleanLinesAgree'
  <2> SUFFICES ASSUME NEW l \in Lines, tag'[l].valid, ~tag'[l].dirty
               PROVE  column'[l] = sdram[[tag |-> tag'[l].tag, line |-> l]]
    BY <1>11 DEF CleanLinesAgree
  <2>1. CASE l = line_ix
    <3>1. [tag |-> tag'[l].tag, line |-> l] = burst_line_address
      BY <1>4, <1>6, <2>1, TypesOfAddress DEF TypeOK, burst_line_address
    <3>2. column'[l] = [c \in Columns |-> IF c = ColumnCount - 1
                                          THEN burst_data_in
                                          ELSE column[line_ix][c]]
      BY <1>4, <1>6, <2>1, TypesOfAddress DEF TypeOK
    <3>3. \A c \in Columns : column'[l][c] = sdram[burst_line_address][c]
      <4> SUFFICES ASSUME NEW c \in Columns
                   PROVE  column'[l][c] = sdram[burst_line_address][c]
        OBVIOUS
      <4>1. CASE c = ColumnCount - 1
        BY <1>4, <3>2, <4>1 DEF AtRead4
      <4>2. CASE c # ColumnCount - 1
        <5>1. c < ColumnCount - 1
          BY <4>2, Bounds DEF Columns
        <5> QED
          BY <1>4, <3>2, <4>2, <5>1 DEF AtRead4, SameUpTo
      <4> QED
        BY <4>1, <4>2
    <3>4. sdram[burst_line_address] \in [Columns -> Words]
      BY <1>4, TypesOfAddress DEF TypeOK
    <3> QED
      BY <3>1, <3>2, <3>3, <3>4
  <2>2. CASE l # line_ix
    <3>1. column'[l] = column[l] /\ tag'[l] = tag[l]
      BY <1>4, <1>6, <2>2, TypesOfAddress DEF TypeOK
    <3> QED
      BY <2>2, <3>1 DEF Inv, CleanLinesAgree
  <2> QED
    BY <2>1, <2>2
<1> QED
  BY <1>8, <1>9, <1>10, <1>12, <1>13 DEF InStep

\* In Idle and Refresh the cache answers requests: a store that hits makes the
\* line dirty, no other line changes, and the controller writes nothing.
LEMMA ServingFrame ==
  ASSUME Inv, Next, state \in Serving, sdram' = sdram
  PROVE  /\ busy => request' = request /\ column' = column /\ tag' = tag
         /\ \A l \in Lines : tag'[l].dirty => tag'[l].valid
         /\ CleanLinesAgree'
<1>1. state \notin Evicting /\ state \notin Filling
  BY DEF Serving, Evicting, Filling
<1>2. TypeOK /\ BlockRams /\ ~burst_is_reading
  BY <1>1 DEF Inv, BurstRegisters, Next, CacheStep
<1>3. busy => request' = request /\ column' = column /\ tag' = tag
  BY <1>2, EvictingKeepsRams DEF busy, Next, Hold, Issue
<1>4. ASSUME NEW l \in Lines
      PROVE  \/ tag'[l] = tag[l] /\ column'[l] = column[l]
             \/ tag'[l].valid /\ tag'[l].dirty
  <2>1. CASE store_hit /\ l = line_ix
    BY <1>2, <2>1, TypesOfAddress
       DEF BlockRams, tag_write_enable, tag_data_in, TypeOK
  <2>2. CASE l # line_ix
    BY <1>2, <2>2, TypesOfAddress DEF BlockRams, TypeOK
  <2>3. CASE ~store_hit
    <3>1. column_write_enable = {} /\ ~tag_write_enable
      BY <1>2, <2>3 DEF column_write_enable, tag_write_enable
    <3>2. column' = column
      BY <1>2, <3>1, TypesOfAddress DEF BlockRams, TypeOK
    <3> QED
      BY <1>2, <3>1, <3>2 DEF BlockRams
  <2> QED
    BY <2>1, <2>2, <2>3
<1>5. \A l \in Lines : tag'[l].dirty => tag'[l].valid
  BY <1>4 DEF Inv, Flags
<1>6. CleanLinesAgree'
  BY <1>2, <1>4 DEF Inv, CleanLinesAgree
<1> QED
  BY <1>3, <1>5, <1>6

LEMMA RefreshStep ==
  ASSUME Inv, Next, state = "Refresh"
  PROVE  BurstRegisters' /\ Flags' /\ InStep' /\ CleanLinesAgree'
<1>1. Refresh
  BY DEF Next, CacheStep, CountIdleCycle, IdleRefresh, IdleEvict, IdleFill,
     IdleStay, Write1, Write2, Write3, Read1, Read2, Read3, Read4
<1>2. state \notin Evicting /\ state \in Serving /\ state \notin Filling
  BY DEF Evicting, Serving, Filling
<1>3. /\ AtRefresh
      /\ ~burst_is_reading /\ ~burst_tag_write_enable
      /\ burst_write_enable = {}
  BY <1>2 DEF Inv, InStep, BurstRegisters
<1>4. ControllerStep
  BY DEF Next
<1>5. UNCHANGED burstVars /\ ~I_sdrc_cmd_en'
  BY <1>1 DEF Refresh, NoCommand
<1>6. CASE O_sdrc_cmd_ack
  <2>1. doing = "none"
    BY <1>3, <1>6 DEF AtRefresh, Given, Acknowledged, doing
  <2>2. op' = "none" /\ row' = NoRow /\ sdram' = sdram
    BY <1>3, <1>4, <2>1, ControllerWaits DEF AtRefresh
  <2>3. state' = "Idle"
    BY <1>1, <1>6 DEF Refresh
  <2>4. AtIdle'
    BY <1>5, <2>2 DEF AtIdle
  <2>5. CleanLinesAgree' /\ \A l \in Lines : tag'[l].dirty => tag'[l].valid
    BY <1>2, <2>2, ServingFrame
  <2> QED
    BY <1>3, <1>5, <2>3, <2>4, <2>5
       DEF InStep, BurstRegisters, Flags, burstVars, Serving, Evicting, Filling
<1>7. CASE ~O_sdrc_cmd_ack
  <2>1. doing = "refresh"
    BY <1>3, <1>7 DEF AtRefresh, Given, Acknowledged, doing
  <2>2. /\ sdram' = sdram
        /\ row' = NoRow
        /\ Acknowledged' \/ (op' = "refresh" /\ ~O_sdrc_cmd_ack')
    BY <1>3, <1>4, <2>1, ControllerRefreshes DEF AtRefresh
  <2>3. state' = "Refresh"
    BY <1>1, <1>7 DEF Refresh
  <2>4. AtRefresh'
    BY <1>5, <2>2 DEF AtRefresh
  <2>5. CleanLinesAgree' /\ \A l \in Lines : tag'[l].dirty => tag'[l].valid
    BY <1>2, <2>2, ServingFrame
  <2> QED
    BY <1>3, <1>5, <2>3, <2>4, <2>5
       DEF InStep, BurstRegisters, Flags, burstVars, Serving, Evicting, Filling
<1> QED
  BY <1>6, <1>7

LEMMA IdleStep ==
  ASSUME Inv, Next, state = "Idle"
  PROVE  BurstRegisters' /\ Flags' /\ InStep' /\ CleanLinesAgree'
<1>1. IdleRefresh \/ IdleEvict \/ IdleFill \/ IdleStay
  BY DEF Next, CacheStep, Refresh, Write1, Write2, Write3, Read1, Read2, Read3,
     Read4
<1>2. state \notin Evicting /\ state \in Serving /\ state \notin Filling
  BY DEF Evicting, Serving, Filling
<1>3. /\ AtIdle
      /\ ~burst_is_reading /\ ~burst_tag_write_enable
      /\ burst_write_enable = {}
  BY <1>2 DEF Inv, InStep, BurstRegisters
<1>4. /\ burst_write_enable' = burst_write_enable
      /\ burst_tag_write_enable' = burst_tag_write_enable
  BY <1>1 DEF IdleRefresh, IdleEvict, IdleFill, IdleStay, CountIdleCycle
<1>5. op' = "none" /\ row' = NoRow /\ ~O_sdrc_cmd_ack' /\ sdram' = sdram
  <2>1. ControllerStep /\ ~I_sdrc_cmd_en
    BY <1>3 DEF Next, AtIdle
  <2>2. CASE op = "none" /\ row = NoRow
    BY <2>1, <2>2, ControllerWaits DEF doing
  <2>3. CASE op = "read" /\ age = LastReadCycle
    <3>1. doing = "read" /\ at = LastReadCycle
      BY <2>3 DEF doing, at
    <3> QED
      BY <2>1, <3>1, ControllerReads, LastReadCycleBounds
  <2> QED
    BY <1>3, <2>2, <2>3 DEF AtIdle
<1>6. CleanLinesAgree' /\ \A l \in Lines : tag'[l].dirty => tag'[l].valid
  BY <1>2, <1>5, ServingFrame
<1>7. busy => request' = request /\ column' = column /\ tag' = tag
  BY <1>2, <1>5, ServingFrame
<1>8. busy => /\ busy'
              /\ cached_line_address' = cached_line_address
              /\ burst_line_address' = burst_line_address
              /\ (cached.dirty)' = cached.dirty
  BY <1>7 DEF busy, cache_line_hit, cached, line_ix, address_tag,
     cached_line_address, burst_line_address
<1>9. CASE IdleRefresh
  <2>1. state' = "Refresh" /\ burst_is_reading' = burst_is_reading
    BY <1>9 DEF IdleRefresh
  <2>2. AtRefresh'
    BY <1>5, <1>9 DEF IdleRefresh, Command, AtRefresh, Given
  <2> QED
    BY <1>3, <1>4, <1>6, <2>1, <2>2
       DEF InStep, BurstRegisters, Flags, Serving, Evicting, Filling
<1>10. CASE IdleEvict
  <2>1. /\ state' = "Write1" /\ burst_is_reading' = burst_is_reading
        /\ busy /\ cached.dirty
    BY <1>10 DEF IdleEvict
  <2>2. AtActivate(cached_line_address)'
    BY <1>5, <1>8, <1>10 DEF IdleEvict, Command, AtActivate, Given
  <2> QED
    BY <1>3, <1>4, <1>6, <1>8, <2>1, <2>2
       DEF InStep, BurstRegisters, Flags, Serving, Evicting, Filling
<1>11. CASE IdleFill
  <2>1. state' = "Read1" /\ burst_is_reading' /\ busy
    BY <1>11 DEF IdleFill
  <2>2. AtActivate(burst_line_address)'
    BY <1>5, <1>8, <1>11 DEF IdleFill, Command, AtActivate, Given
  <2> QED
    BY <1>3, <1>4, <1>6, <1>8, <2>1, <2>2
       DEF InStep, BurstRegisters, Flags, Serving, Evicting, Filling
<1>12. CASE IdleStay
  <2>1. /\ state' = "Idle" /\ burst_is_reading' = burst_is_reading
        /\ I_sdrc_cmd_en' = I_sdrc_cmd_en
    BY <1>12 DEF IdleStay
  <2>2. AtIdle'
    BY <1>3, <1>5, <2>1 DEF AtIdle
  <2> QED
    BY <1>3, <1>4, <1>6, <2>1, <2>2
       DEF InStep, BurstRegisters, Flags, Serving, Evicting, Filling
<1> QED
  BY <1>1, <1>9, <1>10, <1>11, <1>12

-----------------------------------------------------------------------------
LEMMA InitInv ==
  ASSUME Init
  PROVE  Inv
<1> USE SizeAssumption DEF Init, CacheInit, ControllerInit
<1>1. Zero \in Words
  BY DEF Zero, Words
<1>2. TypeOK
  <2>1. request \in Requests
    BY DEF Requests
  <2>2. /\ counter \in 0..(CounterModulus - 1)
        /\ refresh_cycle_counter \in 0..(RefreshCounterModulus - 1)
    BY Bounds, CacheAssumption
  <2>3. 0 \in Tags /\ 0 \in Lines
    BY DEF Tags, Lines
  <2>4. [tag |-> 0, line |-> 0] \in LineAddresses
    BY <2>3 DEF LineAddresses
  <2>5. /\ tag \in [Lines -> [tag : Tags, valid : BOOLEAN, dirty : BOOLEAN]]
        /\ column \in [Lines -> [Columns -> Words]]
    BY <1>1, <2>3
  <2>6. burst_write_enable \subseteq Columns
    OBVIOUS
  <2> QED
    BY <1>1, <2>1, <2>2, <2>4, <2>5, <2>6 DEF TypeOK, States, Commands
<1>3. BurstRegisters
  BY DEF BurstRegisters, Filling
<1>4. Flags
  BY DEF Flags, Serving, Evicting
<1>5. InStep
  BY DEF InStep, AtIdle
<1>6. CleanLinesAgree
  BY DEF CleanLinesAgree
<1> QED
  BY <1>2, <1>3, <1>4, <1>5, <1>6 DEF Inv

LEMMA StutterInv ==
  ASSUME Inv, UNCHANGED vars
  PROVE  Inv'
<1> USE DEF vars, cacheVars, burstVars, requestVars, controllerVars
<1>1. /\ line_ix' = line_ix
      /\ cached' = cached
      /\ busy' = busy
      /\ cached_line_address' = cached_line_address
      /\ burst_line_address' = burst_line_address
  BY DEF line_ix, cached, busy, cache_line_hit, address_tag,
     cached_line_address, burst_line_address
<1>2. TypeOK'
  BY DEF Inv, TypeOK
<1>3. BurstRegisters' /\ Flags'
  BY <1>1 DEF Inv, BurstRegisters, Flags
<1>4. CleanLinesAgree'
  BY LinesFrame
<1>5. InStep'
  BY <1>1 DEF Inv, InStep, AtIdle, AtRefresh, AtActivate, AtWrite2, AtWrite3,
     AtRead2, AtRead3, AtRead4, Given, Working, Acknowledged, ReadingAt,
     SameUpTo, LastReadCycle
<1> QED
  BY <1>2, <1>3, <1>4, <1>5 DEF Inv

LEMMA NextInv ==
  ASSUME Inv, [Next]_vars
  PROVE  Inv'
<1>1. CASE Next
  <2>1. state \in States
    BY DEF Inv, TypeOK
  <2>2. BurstRegisters' /\ Flags' /\ InStep' /\ CleanLinesAgree'
    BY <1>1, <2>1, IdleStep, RefreshStep, Write1Step, Write2Step, Write3Step,
       Read1Step, Read2Step, Read3Step, Read4Step DEF States
  <2> QED
    BY <1>1, <2>2, TypeStep DEF Inv
<1>2. CASE UNCHANGED vars
  BY <1>2, StutterInv
<1> QED
  BY <1>1, <1>2

\* The invariant is inductive: it holds in every state the system reaches,
\* for every geometry of the cache and every latency of the controller.
THEOREM CacheInvariantHolds == Spec => []Inv
<1>1. Init => Inv
  BY InitInv
<1>2. Inv /\ [Next]_vars => Inv'
  BY NextInv
<1> QED
  BY <1>1, <1>2, PTL DEF Spec

\* Every register and wire stays in its range: a column that is written to the
\* cache, or to the SDRAM, is a word, never the empty bus.
THEOREM TypeCorrect == Spec => []TypeOK
<1>1. Inv => TypeOK
  BY DEF Inv
<1> QED
  BY <1>1, CacheInvariantHolds, PTL

\* What a clean cached line holds is what the SDRAM holds: dropping it when
\* another line takes its place loses nothing.
THEOREM CleanLines == Spec => []CleanLinesAgree
<1>1. Inv => CleanLinesAgree
  BY DEF Inv
<1> QED
  BY <1>1, CacheInvariantHolds, PTL

\* The cache never gives a command to a busy controller, never moves a burst
\* on a row that is not open and never opens or refreshes over an open one.
THEOREM ProtocolKept == Spec => []SdramProtocol
<1>1. Inv => SdramProtocol
  <2> SUFFICES ASSUME Inv, I_sdrc_cmd_en
               PROVE  /\ op = "none"
                      /\ I_sdrc_cmd \in {"read", "write"} => row = I_sdrc_addr
                      /\ I_sdrc_cmd \in {"activate", "refresh"} => row = NoRow
    BY DEF SdramProtocol
  <2>1. state \in States
    BY DEF Inv, TypeOK
  <2> QED
    BY <2>1 DEF Inv, InStep, States, AtIdle, AtRefresh, AtActivate, AtWrite2,
       AtWrite3, AtRead2, AtRead3, AtRead4, Given
<1> QED
  BY <1>1, CacheInvariantHolds, PTL

(***************************************************************************)
(* The cache and the SDRAM implement Memory: the proof maps every clock    *)
(* edge to a step of the abstract memory, or to none.                      *)
(***************************************************************************)

\* the line of an address
LineOf(a) == [tag |-> a.tag, line |-> a.line]

LEMMA ContentOf ==
  ASSUME TypeOK, NEW a \in Addresses
  PROVE  /\ content[a] = IF holds_line(a) THEN column[a.line][a.column]
                         ELSE sdram[LineOf(a)][a.column]
         /\ a.tag \in Tags /\ a.line \in Lines /\ a.column \in Columns
         /\ LineOf(a) \in LineAddresses
         /\ content[a] \in Words
<1>1. /\ a.tag \in Tags /\ a.line \in Lines /\ a.column \in Columns
      /\ LineOf(a) \in LineAddresses
  BY DEF Addresses, LineAddresses, LineOf
<1>2. content[a] = IF holds_line(a) THEN column[a.line][a.column]
                   ELSE sdram[LineOf(a)][a.column]
  BY DEF content, LineOf
<1> QED
  BY <1>1, <1>2 DEF TypeOK

\* A word the cache delivers is the memory's word: a hit is never on a line
\* that is being replaced.
LEMMA AnswerHolds ==
  ASSUME Inv
  PROVE  M!Answer
<1> SUFFICES ASSUME delivered # NoWord
             PROVE  /\ request.enable
                    /\ request.write_enable = {}
                    /\ delivered = content[request.address]
  BY DEF M!Answer
<1>1. data_out_ready /\ delivered = data_out
  BY DEF delivered
<1>2. request.enable /\ request.write_enable = {} /\ cache_line_hit
  BY <1>1 DEF data_out_ready
<1>3. ~burst_is_reading
  BY <1>2 DEF Inv, BurstRegisters, Flags, busy, Serving, Filling
<1>4. TypeOK /\ request.address \in Addresses
  BY TypesOfRequest DEF Inv, TypeOK
<1>5. holds_line(request.address)
  BY <1>2, <1>3 DEF holds_line, cache_line_hit, cached, line_ix, address_tag
<1>6. data_out = content[request.address]
  BY <1>4, <1>5, ContentOf DEF data_out, line_ix, column_ix
<1> QED
  BY <1>1, <1>2, <1>6

LEMMA InitRefines ==
  ASSUME Init, Inv
  PROVE  M!Init
<1>1. TypeOK
  BY DEF Inv
<1>2. content \in [Addresses -> Words]
  <2>1. \A a \in Addresses : content[a] \in Words
    BY <1>1, ContentOf
  <2> QED
    BY <2>1 DEF content
<1>3. request \in Requests
  BY <1>1 DEF TypeOK
<1> QED
  BY <1>2, <1>3, AnswerHolds DEF M!Init, M!Words, Words

\* the memory is what it was if every word is
LEMMA ContentFrame ==
  ASSUME \A a \in Addresses : content'[a] = content[a]
  PROVE  content' = content
BY DEF content

\* The SDRAM changes only where a dirty line is written back.
LEMMA SdramFrame ==
  ASSUME Inv, Next, NEW a \in LineAddresses,
         state \in Evicting => a # cached_line_address
  PROVE  sdram'[a] = sdram[a]
<1>1. ControllerStep /\ TypeOK /\ at \in Nat
  BY DEF Next, Inv, TypeOK, at
<1>2. CASE state \in {"Write2", "Write3"}
  <2>1. a # cached_line_address
    BY <1>2 DEF Evicting
  <2>2. doing = "none" \/ (doing = "write" /\ where = cached_line_address)
    BY <1>2 DEF Inv, InStep, AtWrite2, AtWrite3, Given, Working, Acknowledged,
       doing, where
  <2>3. CASE doing = "none"
    BY <1>1, <2>3, ControllerWaits
  <2>4. CASE doing = "write" /\ where = cached_line_address
    <3>1. \/ sdram' = [sdram EXCEPT ![cached_line_address][at] = I_sdrc_data]
          \/ sdram' = sdram
      BY <1>1, <2>4, ControllerWrites, Bounds
    <3> QED
      BY <1>1, <2>1, <3>1 DEF TypeOK
  <2> QED
    BY <2>2, <2>3, <2>4
<1>3. CASE state \notin {"Write2", "Write3"}
  <2>1. doing \in {"none", "refresh", "activate", "read"}
    <3>1. state \in States
      BY <1>1 DEF TypeOK
    <3> QED
      BY <1>3, <3>1
         DEF Inv, States, InStep, AtIdle, AtRefresh, AtActivate, AtRead2,
             AtRead3, AtRead4, ReadingAt, Given, Working, Acknowledged, doing
  <2> QED
    BY <1>1, <2>1, ControllerWaits, ControllerRefreshes, ControllerActivates,
       ControllerReads
<1> QED
  BY <1>2, <1>3

\* While no line is being filled a miss leaves the memory as it is: a line that
\* starts to be replaced is the SDRAM's already.
LEMMA MissBeforeFill ==
  ASSUME Inv, Next, Inv', busy, state \notin Filling, NEW a \in Addresses
  PROVE  content'[a] = content[a]
<1>1. /\ TypeOK /\ TypeOK'
      /\ ~burst_is_reading
      /\ BlockRams
      /\ \A l \in Lines : tag[l].dirty => tag[l].valid
  BY DEF Inv, BurstRegisters, Flags, Next, CacheStep
<1>2. request' = request /\ column' = column /\ tag' = tag
  BY <1>1, EvictingKeepsRams DEF busy, Next, Hold, Issue
<1>3. line_ix' = line_ix
  BY <1>2 DEF line_ix
<1>4. state \in Evicting => cached.valid
  BY <1>1, TypesOfAddress DEF Inv, Flags, cached
<1>5. /\ a.tag \in Tags /\ a.line \in Lines /\ a.column \in Columns
      /\ LineOf(a) \in LineAddresses
  BY <1>1, ContentOf
<1>6. content[a] = IF holds_line(a) THEN column[a.line][a.column]
                   ELSE sdram[LineOf(a)][a.column]
  BY <1>1, ContentOf
<1>7. content'[a] = IF holds_line(a)' THEN column[a.line][a.column]
                    ELSE sdram'[LineOf(a)][a.column]
  BY <1>2 DEF content, LineOf
<1>8. ~holds_line(a) => sdram'[LineOf(a)] = sdram[LineOf(a)]
  <2> SUFFICES ASSUME ~holds_line(a)
               PROVE  sdram'[LineOf(a)] = sdram[LineOf(a)]
    OBVIOUS
  <2>1. state \in Evicting => LineOf(a) # cached_line_address
    BY <1>1, <1>4 DEF holds_line, cached, cached_line_address, LineOf
  <2> QED
    BY <1>5, <2>1, SdramFrame
<1>9. CASE ~holds_line(a)
  <2>1. ~holds_line(a)'
    BY <1>1, <1>2, <1>9 DEF holds_line
  <2> QED
    BY <1>6, <1>7, <1>8, <1>9, <2>1
<1>10. CASE holds_line(a) /\ holds_line(a)'
  BY <1>6, <1>7, <1>10
<1>11. CASE holds_line(a) /\ ~holds_line(a)'
  <2>1. /\ burst_is_reading'
        /\ a.line = line_ix
        /\ cached.valid
        /\ cached.tag = a.tag
    BY <1>2, <1>3, <1>11 DEF holds_line, cached
  <2>2. LineOf(a) = cached_line_address
    BY <2>1 DEF LineOf, cached_line_address
  <2>3. column[line_ix][a.column] = sdram[cached_line_address][a.column]
        /\ sdram' = sdram
    <3>1. IdleFill \/ (Write3 /\ O_sdrc_cmd_ack)
      BY <1>1, <2>1
         DEF Filling, Next, CacheStep, IdleRefresh, IdleEvict, IdleStay, Refresh,
             Write1, Write2, Write3, Read1, Read2, Read3, Read4, burstVars
    <3>2. CASE IdleFill
      <4>1. state = "Idle" /\ ~cached.dirty
        BY <3>2 DEF IdleFill, CountIdleCycle
      <4>2. column[line_ix] = sdram[cached_line_address]
        BY <1>1, <1>5, <2>1, <4>1
           DEF Inv, CleanLinesAgree, cached, cached_line_address
      <4>3. doing \in {"none", "read"} /\ ControllerStep
        BY <4>1 DEF Inv, InStep, AtIdle, doing, Next
      <4> QED
        BY <4>2, <4>3, ControllerWaits, ControllerReads
    <3>3. CASE Write3 /\ O_sdrc_cmd_ack
      <4>1. /\ doing = "none"
            /\ SameUpTo(ColumnCount, cached_line_address)
            /\ ControllerStep
        BY <3>3 DEF Write3, Inv, InStep, AtWrite3, Acknowledged, Working, doing,
           Next
      <4>2. a.column < ColumnCount
        BY <1>5, Bounds DEF Columns
      <4> QED
        BY <1>5, <4>1, <4>2, ControllerWaits DEF SameUpTo
    <3> QED
      BY <3>1, <3>2, <3>3
  <2> QED
    BY <1>6, <1>7, <1>11, <2>1, <2>2, <2>3
<1> QED
  BY <1>9, <1>10, <1>11

\* While a line is filled its words are the SDRAM's, and they still are when
\* the tag is written.
LEMMA MissDuringFill ==
  ASSUME Inv, Next, Inv', busy, state \in Filling, NEW a \in Addresses
  PROVE  content'[a] = content[a]
<1>1. /\ TypeOK /\ TypeOK'
      /\ burst_is_reading
      /\ burst_tag_write_enable <=> state = "Read4"
      /\ BlockRams
      /\ CleanLinesAgree'
  BY DEF Inv, BurstRegisters, Next, CacheStep
<1>2. state \notin Evicting /\ state \notin Serving /\ request' = request
  BY DEF Filling, Evicting, Serving, busy, Next, Hold, Issue
<1>3. line_ix' = line_ix /\ line_ix \in Lines
  BY <1>1, <1>2, TypesOfAddress DEF line_ix
<1>4. /\ a.tag \in Tags /\ a.line \in Lines /\ a.column \in Columns
      /\ LineOf(a) \in LineAddresses
  BY <1>1, ContentOf
<1>5. content[a] = IF holds_line(a) THEN column[a.line][a.column]
                   ELSE sdram[LineOf(a)][a.column]
  BY <1>1, ContentOf
<1>6. content'[a] = IF holds_line(a)' THEN column'[a.line][a.column]
                    ELSE sdram[LineOf(a)][a.column]
  <2>1. sdram'[LineOf(a)] = sdram[LineOf(a)]
    BY <1>2, <1>4, SdramFrame
  <2> QED
    BY <2>1 DEF content, LineOf
<1>7. CASE a.line # line_ix
  <2>1. tag'[a.line] = tag[a.line] /\ column'[a.line] = column[a.line]
    BY <1>1, <1>3, <1>4, <1>7 DEF BlockRams, TypeOK
  <2>2. holds_line(a)' <=> holds_line(a)
    BY <1>3, <1>7, <2>1 DEF holds_line
  <2> QED
    BY <1>5, <1>6, <2>1, <2>2
<1>8. CASE a.line = line_ix
  <2>1. ~holds_line(a)
    BY <1>1, <1>8 DEF holds_line
  <2>2. CASE ~holds_line(a)'
    BY <1>5, <1>6, <2>1, <2>2
  <2>3. CASE holds_line(a)'
    <3>1. ~burst_is_reading'
      BY <1>3, <1>8, <2>3 DEF holds_line
    <3>2. state = "Read4"
      <4>1. Read1 \/ Read2 \/ Read3 \/ Read4
        BY DEF Filling, Next, CacheStep, IdleRefresh, IdleEvict, IdleFill,
           IdleStay, CountIdleCycle, Refresh, Write1, Write2, Write3
      <4>2. Read1 \/ Read2 \/ Read3 => burst_is_reading' = burst_is_reading
        BY DEF Read1, Read2, Read3, burstVars
      <4> QED
        BY <1>1, <3>1, <4>1, <4>2 DEF Read4
    <3>3. ~tag'[a.line].dirty
      BY <1>1, <1>3, <1>8, <3>2
         DEF BlockRams, tag_write_enable, tag_data_in, TypeOK
    <3>4. column'[a.line] = sdram'[LineOf(a)]
      BY <1>1, <1>4, <2>3, <3>1, <3>3 DEF CleanLinesAgree, holds_line, LineOf
    <3>5. sdram'[LineOf(a)] = sdram[LineOf(a)]
      BY <1>2, <1>4, SdramFrame
    <3> QED
      BY <1>5, <1>6, <2>1, <2>3, <3>4, <3>5
  <2> QED
    BY <2>2, <2>3
<1> QED
  BY <1>7, <1>8

\* A request that misses is kept waiting.
LEMMA MissRefines ==
  ASSUME Inv, Next, Inv', busy
  PROVE  M!Wait
<1>1. request.enable /\ request' = request
  BY DEF busy, Next, Hold, Issue
<1>2. \A a \in Addresses : content'[a] = content[a]
  BY MissBeforeFill, MissDuringFill
<1> QED
  BY <1>1, <1>2, ContentFrame DEF M!Wait

\* A request that hits, or no request, is answered in this cycle: a store
\* writes its bytes to the memory, and nothing else changes a word.
LEMMA HitRefines ==
  ASSUME Inv, Next, Inv', ~busy
  PROVE  M!Load \/ M!Store \/ M!NoRequest
<1>1. /\ TypeOK /\ TypeOK'
      /\ BlockRams
      /\ request' \in Requests
  BY DEF Inv, Next, CacheStep, Hold, Issue
<1>2. /\ state \in Serving
      /\ state \notin Evicting /\ state \notin Filling
      /\ ~burst_is_reading
  BY DEF Inv, Flags, BurstRegisters, Serving, Evicting, Filling
<1>3. ~burst_is_reading'
  BY <1>2
     DEF Next, CacheStep, IdleRefresh, IdleEvict, IdleFill, IdleStay, Refresh,
         Write1, Write2, Write3, Read1, Read2, Read3, Read4, burstVars,
         Serving
<1>4. \A a \in Addresses :
        /\ a.tag \in Tags /\ a.line \in Lines /\ a.column \in Columns
        /\ LineOf(a) \in LineAddresses
        /\ sdram'[LineOf(a)] = sdram[LineOf(a)]
  BY <1>1, <1>2, ContentOf, SdramFrame
<1>5. \A a \in Addresses :
        content'[a] = IF tag'[a.line].valid /\ tag'[a.line].tag = a.tag
                        THEN column'[a.line][a.column]
                        ELSE sdram[LineOf(a)][a.column]
  BY <1>3, <1>4 DEF content, holds_line, LineOf
<1>6. \A a \in Addresses :
        content[a] = IF tag[a.line].valid /\ tag[a.line].tag = a.tag
                       THEN column[a.line][a.column]
                       ELSE sdram[LineOf(a)][a.column]
  BY <1>2 DEF content, holds_line, LineOf
<1>7. request.write_enable # {} => request.enable
  BY <1>1 DEF TypeOK, Requests, Loads, Stores, Idles
<1>8. CASE request.write_enable = {}
  <2>1. column_write_enable = {} /\ ~tag_write_enable
    BY <1>2, <1>8 DEF column_write_enable, tag_write_enable, store_hit
  <2>2. column' = column
    BY <1>1, <2>1, TypesOfAddress DEF BlockRams, TypeOK
  <2>3. tag' = tag
    BY <1>1, <2>1 DEF BlockRams
  <2>4. content' = content
    BY <1>5, <1>6, <2>2, <2>3, ContentFrame
  <2>5. CASE request.enable
    <3>1. delivered = data_out
      BY <1>8, <2>5 DEF busy, data_out_ready, delivered
    <3>2. data_out \in Words
      BY <1>1, TypesOfAddress DEF data_out
    <3> QED
      BY <1>1, <2>4, <3>1, <3>2, NoWordAssumption DEF M!Load
  <2>6. CASE ~request.enable
    BY <1>1, <2>4, <2>6 DEF M!NoRequest
  <2> QED
    BY <2>5, <2>6
<1>9. CASE request.write_enable # {}
  <2>1. request.enable /\ cache_line_hit /\ request.address \in Addresses
    BY <1>1, <1>7, <1>9, TypesOfRequest DEF busy, TypeOK
  <2> DEFINE word == Merge(column[line_ix][column_ix], request.data_in,
                           request.write_enable)
  <2>2. column_write_enable = {column_ix} /\ tag_write_enable
    BY <1>2, <1>9, <2>1 DEF column_write_enable, tag_write_enable, store_hit
  <2>3. column_data_in(column_ix) = word
    BY <1>2 DEF column_data_in
  <2>4. \A a \in Addresses : column'[a.line][a.column] =
          IF a.line = line_ix /\ a.column = column_ix
            THEN word ELSE column[a.line][a.column]
    <3> HIDE DEF word
    <3>1. column' = [column EXCEPT ![line_ix] =
                      [c \in Columns |-> IF c = column_ix THEN word
                                         ELSE column[line_ix][c]]]
      BY <1>1, <2>2, <2>3, TypesOfAddress DEF BlockRams, TypeOK
    <3> QED
      BY <1>1, <1>4, <3>1, TypesOfAddress DEF TypeOK
  <2>5. \A l \in Lines : tag'[l].valid = tag[l].valid /\ tag'[l].tag = tag[l].tag
    BY <1>1, <1>2, <2>1, <2>2, TypesOfAddress
       DEF BlockRams, tag_data_in, TypeOK, cache_line_hit, cached
  <2>6. content[request.address] = column[line_ix][column_ix]
    BY <1>6, <2>1
       DEF cache_line_hit, cached, line_ix, column_ix, address_tag
  <2>7. ASSUME NEW a \in Addresses
        PROVE  content'[a] = IF a = request.address THEN word ELSE content[a]
    <3> HIDE DEF word
    <3>1. CASE a = request.address
      BY <1>4, <1>5, <2>1, <2>4, <2>5, <3>1
         DEF cache_line_hit, cached, line_ix, column_ix, address_tag
    <3>2. CASE a # request.address
      <4>1. CASE tag[a.line].valid /\ tag[a.line].tag = a.tag
        <5>1. ~(a.line = line_ix /\ a.column = column_ix)
          BY <2>1, <3>2, <4>1
             DEF cache_line_hit, cached, line_ix, column_ix, address_tag,
                 Addresses
        <5> QED
          BY <1>4, <1>5, <1>6, <2>4, <2>5, <3>2, <4>1, <5>1
      <4>2. CASE ~(tag[a.line].valid /\ tag[a.line].tag = a.tag)
        BY <1>4, <1>5, <1>6, <2>5, <3>2, <4>2
      <4> QED
        BY <4>1, <4>2
    <3> QED
      BY <3>1, <3>2
  <2>8. word = M!Merge(content[request.address], request.data_in,
                       request.write_enable)
    BY <2>6 DEF Merge, M!Merge
  <2>9. content' = [content EXCEPT ![request.address] = word]
    <3> HIDE DEF word
    <3> QED
      BY <2>7 DEF content
  <2> QED
    BY <1>1, <1>9, <2>1, <2>8, <2>9 DEF M!Store
<1> QED
  BY <1>8, <1>9

LEMMA StepRefines ==
  ASSUME Inv, [Next]_vars, Inv'
  PROVE  [M!Next]_(M!vars)
<1>1. M!Answer'
  BY AnswerHolds, PTL
<1>2. CASE Next
  BY <1>1, <1>2, MissRefines, HitRefines DEF M!Next
<1>3. CASE UNCHANGED vars
  <2>1. request' = request /\ content' = content /\ delivered' = delivered
    BY <1>3
       DEF vars, cacheVars, burstVars, requestVars, controllerVars, content,
           holds_line, line_ix, delivered, data_out, data_out_ready,
           cache_line_hit, cached, address_tag, column_ix
  <2> QED
    BY <2>1 DEF M!vars
<1> QED
  BY <1>2, <1>3

\* The cache and the SDRAM are a memory: for the CPU, no sequence of loads and
\* stores, evictions, refreshes and late acknowledgements tells them from one.
THEOREM CacheIsMemory == Spec => IsMemory
<1>1. Init => M!Init
  BY InitInv, InitRefines
<1>2. Inv /\ Inv' /\ [Next]_vars => [M!Next]_(M!vars)
  BY StepRefines
<1> QED
  BY <1>1, <1>2, CacheInvariantHolds, PTL DEF Spec, IsMemory, M!Spec

-----------------------------------------------------------------------------
(* How late a refresh is: the invariant, then one lemma per group of states *)
(* of the machine.                                                          *)

\* the cycles of the misses that fit in n counted cycles
CyclesBefore(n) == (n \div 2) * LongestMiss

\* A controller that has a command is at most MaxAckDelay late with it.
AgeBound == /\ op \in {"refresh", "activate"} => age <= MaxAckDelay
            /\ op = "write" => age <= ColumnCount + MaxAckDelay

\* cycles since the command that is given or worked on
elapsed == IF I_sdrc_cmd_en THEN 0
           ELSE IF op = "none" THEN MaxAckDelay + 1 ELSE age

\* cycles since Idle, at most: since the miss, or since the refresh was due
EvictionCycles == AckWait + (ColumnCount - 1) + (AckWait + 1)

since_idle ==
  CASE state = "Refresh" -> elapsed
    [] state = "Write1"  -> elapsed
    [] state = "Write2"  -> AckWait + counter - 1
    [] state = "Write3"  -> AckWait + IF op = "none" THEN ColumnCount + MaxAckDelay + 1 ELSE age
    [] state = "Read1"   -> EvictionCycles + elapsed
    [] state = "Read2"   -> EvictionCycles + AckWait + counter
    [] state = "Read3"   -> EvictionCycles + AckWait + WaitsPriorToDataAtRead + counter
    [] state = "Read4"   -> EvictionCycles + AckWait + WaitsPriorToDataAtRead + ColumnCount
    [] OTHER -> 0

\* The Idle cycles are counted; a miss takes two of them, the one it starts in and
\* the one in which the request is answered.
Punctual ==
  /\ since_refresh \in Nat
  /\ AgeBound
  /\ state \in {"Idle"} \cup Evicting \cup Filling =>
       refresh_cycle_counter <= AutoRefreshPeriodCycles + 1
  /\ state \in Evicting \cup Filling => refresh_cycle_counter >= 1
  /\ state = "Idle" =>
       since_refresh <= refresh_cycle_counter
                        + CyclesBefore(IF busy THEN refresh_cycle_counter ELSE refresh_cycle_counter + 1)
  /\ state \in Evicting \cup Filling =>
       since_refresh <= refresh_cycle_counter
                        + CyclesBefore(refresh_cycle_counter - 1) + since_idle
  /\ state = "Refresh" =>
       since_refresh <= AutoRefreshPeriodCycles + 2
                        + CyclesBefore(AutoRefreshPeriodCycles + 2) + since_idle

LEMMA WaitBounds ==
  /\ MaxAckDelay \in Nat /\ AutoRefreshPeriodCycles \in Nat
  /\ RefreshCounterModulus \in Nat /\ RefreshCounterModulus >= AutoRefreshPeriodCycles + 2
  /\ AckWait = MaxAckDelay + 2
  /\ EvictionCycles = AckWait + AckWait + ColumnCount
  /\ LongestMiss = EvictionCycles + AckWait + WaitsPriorToDataAtRead + ColumnCount + 1
BY Bounds, CacheAssumption, ControllerAssumption DEF AckWait, EvictionCycles, LongestMiss

LEMMA MissesCounted ==
  /\ \A n \in Nat : CyclesBefore(n) \in Nat
  /\ \A n \in Nat : CyclesBefore(n + 2) = CyclesBefore(n) + LongestMiss
  /\ \A m, n \in Nat : m <= n => CyclesBefore(m) <= CyclesBefore(n)
  /\ MostMisses * LongestMiss = CyclesBefore(AutoRefreshPeriodCycles + 2)
<1>1. LongestMiss \in Nat
  BY WaitBounds, Bounds
<1>2. \A n \in Nat : n \div 2 \in Nat /\ (n + 2) \div 2 = (n \div 2) + 1
  OBVIOUS
<1>3. \A q \in Nat : q * LongestMiss \in Nat /\ (q + 1) * LongestMiss = q * LongestMiss + LongestMiss
  BY <1>1
<1>4. ASSUME NEW m \in Nat, NEW n \in Nat, m <= n
      PROVE  CyclesBefore(m) <= CyclesBefore(n)
  <2>1. m \div 2 \in Nat /\ n \div 2 \in Nat /\ m \div 2 <= n \div 2
    BY <1>4
  <2>2. \A q, r \in Nat : q <= r => q * LongestMiss <= r * LongestMiss
    BY <1>1
  <2> QED
    BY <2>1, <2>2 DEF CyclesBefore
<1>5. ASSUME NEW n \in Nat
      PROVE  CyclesBefore(n) \in Nat /\ CyclesBefore(n + 2) = CyclesBefore(n) + LongestMiss
  BY <1>2, <1>3 DEF CyclesBefore
<1> QED
  BY <1>4, <1>5 DEF CyclesBefore, MostMisses

LEMMA AgeStep ==
  ASSUME TypeOK, AgeBound, ControllerStep
  PROVE  /\ AgeBound'
         /\ doing \in {"refresh", "activate", "write"} =>
              \/ op' = doing /\ age' = at + 1
              \/ op' = "none"
<1>1. MaxAckDelay \in Nat /\ ColumnCount \in Nat /\ age \in Nat
  BY WaitBounds, Bounds DEF TypeOK
<1>2. CASE Nothing
  BY <1>2 DEF Nothing, Done, AgeBound
<1>3. CASE ReadBurst
  BY <1>3 DEF ReadBurst, Done, Ongoing, AgeBound
<1>4. CASE RefreshRows
  BY <1>1, <1>4 DEF RefreshRows, Acknowledge, Proceed, Done, Ongoing, AgeBound, at
<1>5. CASE Activate
  BY <1>1, <1>5 DEF Activate, Acknowledge, Proceed, Done, Ongoing, AgeBound, at
<1>6. CASE WriteBurst
  BY <1>1, <1>6 DEF WriteBurst, Acknowledge, Proceed, Done, Ongoing, AgeBound, at
<1> QED
  BY <1>2, <1>3, <1>4, <1>5, <1>6 DEF ControllerStep

\* a cycle in which the cache waits for the controller
LEMMA CycleElapses ==
  ASSUME TypeOK, AgeBound, ControllerStep, ~I_sdrc_cmd_en',
         doing \in {"refresh", "activate"}, I_sdrc_cmd_en => op = "none"
  PROVE  elapsed \in Nat /\ elapsed' >= elapsed + 1
<1>1. MaxAckDelay \in Nat /\ age \in Nat /\ op \in Commands
  BY WaitBounds DEF TypeOK
<1>2. at = elapsed /\ at \in 0 .. MaxAckDelay
  <2>1. CASE op = "none"
    BY <1>1, <2>1 DEF at, elapsed, doing
  <2>2. CASE op # "none"
    <3>1. op \in {"refresh", "activate"} /\ ~I_sdrc_cmd_en
      BY <2>2 DEF doing
    <3> QED
      BY <1>1, <3>1 DEF at, elapsed, AgeBound
  <2> QED
    BY <2>1, <2>2
<1>3. \/ op' = doing /\ age' = at + 1
      \/ op' = "none"
  BY AgeStep
<1>4. elapsed' = IF op' = "none" THEN MaxAckDelay + 1 ELSE age'
  BY DEF elapsed
<1>5. elapsed' = at + 1 \/ elapsed' = MaxAckDelay + 1
  BY <1>3, <1>4
<1>6. \A m, n, e \in Nat : m \in 0 .. n /\ (e = m + 1 \/ e = n + 1) => e >= m + 1
  OBVIOUS
<1>7. at \in Nat /\ elapsed' \in Nat
  BY <1>1, <1>2, <1>5
<1> QED
  BY <1>1, <1>2, <1>5, <1>6, <1>7

LEMMA Ticks ==
  ASSUME Punctual, RefreshNext
  PROVE  /\ Next /\ AgeBound
         /\ since_refresh \in Nat /\ since_refresh' \in Nat
         /\ since_refresh' <= since_refresh + 1
         /\ RefreshDone => since_refresh' = 0
BY DEF Punctual, RefreshNext

\* What Punctual says in a state of the machine.
LEMMA InMiss ==
  ASSUME state \in Evicting \cup Filling
  PROVE  Punctual <=>
           /\ since_refresh \in Nat
           /\ AgeBound
           /\ refresh_cycle_counter <= AutoRefreshPeriodCycles + 1
           /\ refresh_cycle_counter >= 1
           /\ since_refresh <= refresh_cycle_counter
                               + CyclesBefore(refresh_cycle_counter - 1) + since_idle
<1>1. state # "Idle" /\ state # "Refresh"
  BY DEF Evicting, Filling
<1> QED
  BY <1>1 DEF Punctual

\* One cycle of a miss: the bound is met if what it allows grows by one.
LEMMA MissCycle ==
  ASSUME Inv, Punctual, RefreshNext, state \in Evicting \cup Filling,
         state' \in Evicting \cup Filling, refresh_cycle_counter' = refresh_cycle_counter,
         since_idle \in Nat, since_idle' \in Nat, since_idle' >= since_idle + 1
  PROVE  Punctual'
<1>1. TypeOK /\ ControllerStep
  BY Ticks DEF Inv, Next
<1>2. AgeBound'
  BY <1>1, Ticks, AgeStep
<1>3. refresh_cycle_counter \in Nat /\ refresh_cycle_counter - 1 \in Nat
  BY <1>1, InMiss, WaitBounds DEF TypeOK
<1> DEFINE base == refresh_cycle_counter + CyclesBefore(refresh_cycle_counter - 1)
<1>4. base \in Nat
  BY <1>3, MissesCounted
<1>5. since_refresh <= base + since_idle
  BY InMiss
<1>6. since_refresh' <= base + since_idle'
  <2> HIDE DEF base
  <2> QED
    BY <1>4, <1>5, Ticks
<1>7. since_refresh' <= refresh_cycle_counter' + CyclesBefore(refresh_cycle_counter' - 1) + since_idle'
  BY <1>6
<1>8. state' # "Idle" /\ state' # "Refresh"
  BY DEF Evicting, Filling
<1>9. /\ refresh_cycle_counter' <= AutoRefreshPeriodCycles + 1
      /\ refresh_cycle_counter' >= 1
  BY InMiss
<1> HIDE DEF base
<1> QED
  BY <1>2, <1>7, <1>8, <1>9, Ticks DEF Punctual

LEMMA IdleIsPunctual ==
  ASSUME Inv, Punctual, RefreshNext, state = "Idle"
  PROVE  Punctual'
<1>1. TypeOK /\ ControllerStep /\ CacheStep /\ AtIdle
  BY Ticks DEF Inv, InStep, Next
<1>2. AgeBound'
  BY <1>1, Ticks, AgeStep
<1> DEFINE rc == refresh_cycle_counter
<1>3. /\ rc \in Nat /\ rc <= AutoRefreshPeriodCycles + 1
      /\ since_refresh <= rc + CyclesBefore(IF busy THEN rc ELSE rc + 1)
  BY <1>1, WaitBounds DEF Punctual, TypeOK
<1>4. rc' = rc + 1 \/ rc = AutoRefreshPeriodCycles + 1
  <2>1. rc' = (rc + 1) % RefreshCounterModulus
    BY <1>1 DEF CacheStep, IdleRefresh, IdleEvict, IdleFill, IdleStay, CountIdleCycle,
          Refresh, Write1, Write2, Write3, Read1, Read2, Read3, Read4
  <2> QED
    BY <1>3, <2>1, WaitBounds
<1>5. CASE refresh_is_due
  <2>1. IdleRefresh
    BY <1>1, <1>5 DEF CacheStep, IdleEvict, IdleFill, IdleStay,
          Refresh, Write1, Write2, Write3, Read1, Read2, Read3, Read4
  <2>2. state' = "Refresh" /\ I_sdrc_cmd_en'
    BY <2>1 DEF IdleRefresh, Command
  <2>3. since_idle' = 0
    BY <2>2 DEF since_idle, elapsed
  <2>4. rc = AutoRefreshPeriodCycles + 1
    BY <1>3, <1>5, WaitBounds DEF refresh_is_due
  <2>5. /\ CyclesBefore(rc) \in Nat /\ CyclesBefore(rc + 1) \in Nat
        /\ CyclesBefore(rc) <= CyclesBefore(rc + 1)
        /\ rc + 1 = AutoRefreshPeriodCycles + 2
    BY <1>3, <2>4, MissesCounted, WaitBounds
  <2>6. since_refresh <= rc + CyclesBefore(rc + 1)
    <3>1. \A a, b, s \in Nat : a <= b /\ s <= rc + a => s <= rc + b
      BY <1>3
    <3>2. since_refresh <= rc + CyclesBefore(rc) \/ since_refresh <= rc + CyclesBefore(rc + 1)
      BY <1>3
    <3> HIDE DEF rc
    <3> QED
      BY <2>5, <3>1, <3>2, Ticks
  <2>7. since_refresh' <= AutoRefreshPeriodCycles + 2
                          + CyclesBefore(AutoRefreshPeriodCycles + 2) + since_idle'
    BY <1>3, <2>3, <2>5, <2>6, Ticks
  <2>8. state' \notin {"Idle"} \cup Evicting \cup Filling
    BY <2>2 DEF Evicting, Filling
  <2> QED
    BY <1>2, <2>2, <2>7, <2>8, Ticks DEF Punctual
<1>6. CASE ~refresh_is_due /\ busy
  <2>1. IdleEvict \/ IdleFill
    BY <1>1, <1>6 DEF CacheStep, IdleRefresh, IdleStay,
          Refresh, Write1, Write2, Write3, Read1, Read2, Read3, Read4
  <2>2. state' \in {"Write1", "Read1"} /\ I_sdrc_cmd_en'
    BY <2>1 DEF IdleEvict, IdleFill, Command
  <2>3. since_idle' >= 0 /\ since_idle' \in Nat
    BY <2>2, WaitBounds, Bounds DEF since_idle, elapsed
  <2>4. rc <= AutoRefreshPeriodCycles /\ rc' = rc + 1
    BY <1>3, <1>4, <1>6, WaitBounds DEF refresh_is_due
  <2>5. since_refresh <= rc + CyclesBefore(rc) /\ CyclesBefore(rc) \in Nat
    BY <1>3, <1>6, MissesCounted
  <2>6. since_refresh' <= rc' + CyclesBefore(rc' - 1) + since_idle'
    <3>1. rc' - 1 = rc
      BY <1>3, <2>4
    <3>2. since_refresh' <= rc + 1 + CyclesBefore(rc) + since_idle'
      BY <1>3, <2>3, <2>5, Ticks
    <3> QED
      BY <2>4, <3>1, <3>2
  <2>7. state' # "Idle" /\ state' # "Refresh" /\ rc' >= 1 /\ rc' <= AutoRefreshPeriodCycles + 1
    BY <1>3, <2>2, <2>4, WaitBounds
  <2> QED
    BY <1>2, <2>6, <2>7, Ticks DEF Punctual
<1>7. CASE ~refresh_is_due /\ ~busy
  <2>1. IdleStay
    BY <1>1, <1>7 DEF CacheStep, IdleRefresh, IdleEvict, IdleFill,
          Refresh, Write1, Write2, Write3, Read1, Read2, Read3, Read4
  <2>2. state' = "Idle"
    BY <2>1 DEF IdleStay
  <2>3. rc <= AutoRefreshPeriodCycles /\ rc' = rc + 1
    BY <1>3, <1>4, <1>7, WaitBounds DEF refresh_is_due
  <2>4. since_refresh <= rc + CyclesBefore(rc')
    BY <1>3, <1>7, <2>3
  <2>5. /\ CyclesBefore(rc') \in Nat /\ CyclesBefore(rc' + 1) \in Nat
        /\ CyclesBefore(rc') <= CyclesBefore(rc' + 1)
    BY <1>3, <2>3, MissesCounted
  <2>6. since_refresh' <= rc' + CyclesBefore(rc')
    BY <1>3, <2>3, <2>4, <2>5, Ticks
  <2>7. since_refresh' <= rc' + CyclesBefore(IF busy' THEN rc' ELSE rc' + 1)
    BY <1>3, <2>3, <2>5, <2>6, Ticks
  <2>8. state' \notin Evicting \cup Filling /\ state' # "Refresh"
        /\ rc' <= AutoRefreshPeriodCycles + 1
    BY <1>3, <2>2, <2>3, WaitBounds DEF Evicting, Filling
  <2> QED
    BY <1>2, <2>2, <2>7, <2>8, Ticks DEF Punctual
<1> QED
  BY <1>5, <1>6, <1>7

LEMMA RefreshIsPunctual ==
  ASSUME Inv, Punctual, RefreshNext, state = "Refresh"
  PROVE  Punctual'
<1>1. TypeOK /\ ControllerStep /\ AtRefresh
  BY Ticks DEF Inv, InStep, Next
<1>2. AgeBound'
  BY <1>1, Ticks, AgeStep
<1>3. Refresh
  BY Ticks DEF Next, CacheStep, CountIdleCycle, IdleRefresh, IdleEvict, IdleFill,
     IdleStay, Write1, Write2, Write3, Read1, Read2, Read3, Read4
<1>4. CASE O_sdrc_cmd_ack
  <2>1. state' = "Idle" /\ refresh_cycle_counter' = 0 /\ since_refresh' = 0
    BY <1>3, <1>4, Ticks DEF Refresh, RefreshDone
  <2>2. CyclesBefore(0) \in Nat /\ CyclesBefore(1) \in Nat
    BY MissesCounted
  <2>3. state' \notin Evicting \cup Filling /\ state' # "Refresh"
    BY <2>1 DEF Evicting, Filling
  <2>4. since_refresh' <= refresh_cycle_counter'
                        + CyclesBefore(IF busy' THEN refresh_cycle_counter' ELSE refresh_cycle_counter' + 1)
    BY <2>1, <2>2
  <2>5. refresh_cycle_counter' <= AutoRefreshPeriodCycles + 1
    BY <2>1, WaitBounds
  <2> QED
    BY <1>2, <2>1, <2>3, <2>4, <2>5, Ticks DEF Punctual
<1>5. CASE ~O_sdrc_cmd_ack
  <2>1. state' = "Refresh" /\ ~I_sdrc_cmd_en'
    BY <1>3, <1>5 DEF Refresh, NoCommand
  <2>2. doing = "refresh" /\ (I_sdrc_cmd_en => op = "none")
    BY <1>1, <1>5 DEF AtRefresh, Given, Acknowledged, doing
  <2>3. elapsed \in Nat /\ elapsed' >= elapsed + 1
    BY <1>1, <2>1, <2>2, Ticks, CycleElapses
  <2>4. elapsed' \in Nat
    BY <1>1, WaitBounds, NextInv, Ticks DEF elapsed, Inv, TypeOK
  <2>5. since_idle = elapsed /\ since_idle' = elapsed'
    BY <2>1 DEF since_idle
  <2> DEFINE base == AutoRefreshPeriodCycles + 2 + CyclesBefore(AutoRefreshPeriodCycles + 2)
  <2>6. base \in Nat /\ since_refresh <= base + elapsed
    <3>1. AutoRefreshPeriodCycles + 2 \in Nat
      BY WaitBounds
    <3>2. base \in Nat
      BY <3>1, MissesCounted
    <3>3. since_refresh <= base + since_idle
      BY DEF Punctual
    <3> QED
      BY <2>5, <3>2, <3>3
  <2>7. since_refresh' <= base + since_idle'
    <3> HIDE DEF base
    <3> QED
      BY <2>3, <2>4, <2>5, <2>6, Ticks
  <2>8. state' \notin {"Idle"} \cup Evicting \cup Filling
    BY <2>1 DEF Evicting, Filling
  <2> QED
    BY <1>2, <2>7, <2>8, Ticks DEF Punctual
<1> QED
  BY <1>4, <1>5

\* Write1 and Read1: the row is being activated, or the next burst begins.
LEMMA ActivationCycle ==
  ASSUME Inv, Punctual, RefreshNext, NEW addr, AtActivate(addr),
         ~O_sdrc_cmd_ack, ~I_sdrc_cmd_en'
  PROVE  elapsed \in Nat /\ elapsed' \in Nat /\ elapsed' >= elapsed + 1
<1>1. TypeOK /\ ControllerStep
  BY Ticks DEF Inv, Next
<1>2. doing = "activate" /\ (I_sdrc_cmd_en => op = "none")
  BY DEF AtActivate, Given, Working, Acknowledged, doing
<1>3. elapsed' \in Nat
  BY <1>1, WaitBounds, NextInv, Ticks DEF elapsed, Inv, TypeOK
<1> QED
  BY <1>1, <1>2, <1>3, Ticks, CycleElapses

LEMMA Activated ==
  ASSUME NEW addr, AtActivate(addr), O_sdrc_cmd_ack
  PROVE  elapsed = MaxAckDelay + 1
BY DEF AtActivate, Given, Working, Acknowledged, elapsed

LEMMA EvictingIsPunctual ==
  ASSUME Inv, Punctual, RefreshNext, state \in Evicting
  PROVE  Punctual'
<1> USE DEF Evicting, Filling
<1>1. TypeOK /\ ControllerStep /\ Next
  BY Ticks DEF Inv, Next
<1>2. TypeOK' /\ InStep'
  BY <1>1, NextInv DEF Inv
<1>3. /\ MaxAckDelay \in Nat /\ ColumnCount \in Nat /\ counter \in Nat /\ age \in Nat
      /\ AckWait = MaxAckDelay + 2 /\ EvictionCycles = AckWait + AckWait + ColumnCount
      /\ age' \in Nat
  BY <1>1, <1>2, WaitBounds, Bounds DEF TypeOK
<1>4. CASE state = "Write1"
  <2>1. Write1 /\ AtActivate(cached_line_address)
    BY <1>1, <1>4 DEF Next, CacheStep, CountIdleCycle, IdleRefresh, IdleEvict, IdleFill,
       IdleStay, Refresh, Write2, Write3, Read1, Read2, Read3, Read4, Inv, InStep
  <2>2. since_idle = elapsed
    BY <1>4 DEF since_idle
  <2>3. CASE O_sdrc_cmd_ack
    <3>1. /\ state' = "Write2" /\ counter' = 1
          /\ refresh_cycle_counter' = refresh_cycle_counter
      BY <2>1, <2>3 DEF Write1
    <3>2. since_idle' = AckWait + 1 - 1
      BY <3>1 DEF since_idle
    <3> QED
      BY <1>3, <2>1, <2>2, <2>3, <3>1, <3>2, Activated, MissCycle
  <2>4. CASE ~O_sdrc_cmd_ack
    <3>1. /\ state' = "Write1" /\ ~I_sdrc_cmd_en'
          /\ refresh_cycle_counter' = refresh_cycle_counter
      BY <1>4, <2>1, <2>4 DEF Write1, NoCommand
    <3>2. since_idle' = elapsed'
      BY <3>1 DEF since_idle
    <3> QED
      BY <2>1, <2>2, <2>4, <3>1, <3>2, ActivationCycle, MissCycle
  <2> QED
    BY <2>3, <2>4
<1>5. CASE state = "Write2"
  <2>1. Write2 /\ counter \in 1 .. ColumnCount - 1
    BY <1>1, <1>5 DEF Next, CacheStep, CountIdleCycle, IdleRefresh, IdleEvict, IdleFill,
       IdleStay, Refresh, Write1, Write3, Read1, Read2, Read3, Read4, Inv, InStep, AtWrite2
  <2>2. since_idle = AckWait + counter - 1
    BY <1>5 DEF since_idle
  <2>3. refresh_cycle_counter' = refresh_cycle_counter
    BY <2>1 DEF Write2
  <2>4. CASE counter = ColumnCount - 1
    <3>1. state' = "Write3"
      BY <2>1, <2>4 DEF Write2
    <3>2. op' = "none" \/ age' >= ColumnCount - 1
      BY <1>2, <3>1 DEF InStep, AtWrite3, Acknowledged
    <3>3. since_idle' = AckWait + IF op' = "none" THEN ColumnCount + MaxAckDelay + 1 ELSE age'
      BY <3>1 DEF since_idle
    <3>4. \/ since_idle' = AckWait + (ColumnCount + MaxAckDelay + 1)
          \/ since_idle' = AckWait + age' /\ age' >= ColumnCount - 1
      BY <3>2, <3>3
    <3>5. since_idle' \in Nat /\ since_idle' >= since_idle + 1 /\ since_idle \in Nat
      BY <1>3, <2>1, <2>2, <2>4, <3>4
    <3> QED
      BY <2>3, <3>1, <3>5, MissCycle
  <2>5. CASE counter # ColumnCount - 1
    <3>1. state' = "Write2"
      BY <1>5, <2>1, <2>5 DEF Write2
    <3>2. since_idle' = AckWait + counter' - 1
      BY <3>1 DEF since_idle
    <3>3. counter' = counter + 1
      BY <1>3, <2>1, <2>5, Bounds, Increment DEF Write2
    <3> QED
      BY <1>3, <2>1, <2>2, <2>3, <3>1, <3>2, <3>3, MissCycle
  <2> QED
    BY <2>4, <2>5
<1>6. CASE state = "Write3"
  <2>1. Write3 /\ AtWrite3
    BY <1>1, <1>6 DEF Next, CacheStep, CountIdleCycle, IdleRefresh, IdleEvict, IdleFill,
       IdleStay, Refresh, Write1, Write2, Read1, Read2, Read3, Read4, Inv, InStep
  <2>2. since_idle = AckWait + IF op = "none" THEN ColumnCount + MaxAckDelay + 1 ELSE age
    BY <1>6 DEF since_idle
  <2>3. refresh_cycle_counter' = refresh_cycle_counter
    BY <2>1 DEF Write3
  <2>4. CASE O_sdrc_cmd_ack
    <3>1. state' = "Read1" /\ I_sdrc_cmd_en'
      BY <2>1, <2>4 DEF Write3, Command
    <3>2. op = "none"
      BY <2>1, <2>4 DEF AtWrite3, Acknowledged, Working
    <3>3. since_idle' = EvictionCycles + 0
      BY <3>1 DEF since_idle, elapsed
    <3> QED
      BY <1>3, <2>2, <2>3, <3>1, <3>2, <3>3, MissCycle
  <2>5. CASE ~O_sdrc_cmd_ack
    <3>1. state' = "Write3"
      BY <1>6, <2>1, <2>5 DEF Write3
    <3>2. op = "write" /\ doing = "write" /\ at = age
      BY <2>1, <2>5 DEF AtWrite3, Acknowledged, Working, doing, at
    <3>3. op' = "none" \/ age' = age + 1
      BY <1>1, <3>2, AgeStep, Ticks
    <3>4. age <= ColumnCount + MaxAckDelay
      BY <3>2, Ticks DEF AgeBound
    <3>5. since_idle' = AckWait + IF op' = "none" THEN ColumnCount + MaxAckDelay + 1 ELSE age'
      BY <3>1 DEF since_idle
    <3>6. since_idle = AckWait + age
      BY <2>2, <3>2
    <3>7. \/ since_idle' = AckWait + (ColumnCount + MaxAckDelay + 1)
          \/ since_idle' = AckWait + (age + 1)
      BY <3>3, <3>5
    <3>8. since_idle' \in Nat /\ since_idle' >= since_idle + 1 /\ since_idle \in Nat
      BY <1>3, <3>4, <3>6, <3>7
    <3> QED
      BY <2>3, <3>1, <3>8, MissCycle
  <2> QED
    BY <2>4, <2>5
<1> QED
  BY <1>4, <1>5, <1>6

\* The line of a miss is there when the machine is back in Idle.
LEMMA MissServed ==
  ASSUME Inv, Next, state = "Read4"
  PROVE  ~busy'
<1>1. /\ TypeOK /\ burst_is_reading /\ burst_tag_write_enable /\ BlockRams
      /\ request' = request
  BY Held DEF Inv, BurstRegisters, Filling, Serving, Next, CacheStep
<1>2. tag' = [tag EXCEPT ![line_ix] = [tag |-> address_tag, valid |-> TRUE, dirty |-> FALSE]]
  BY <1>1 DEF BlockRams, tag_write_enable, tag_data_in
<1>3. tag'[line_ix] = [tag |-> address_tag, valid |-> TRUE, dirty |-> FALSE]
  BY <1>1, <1>2, TypesOfAddress DEF TypeOK
<1>4. line_ix' = line_ix /\ address_tag' = address_tag
  BY <1>1 DEF line_ix, address_tag
<1>5. cached'.valid /\ cached'.tag = address_tag'
  BY <1>3, <1>4 DEF cached
<1> QED
  BY <1>5 DEF busy, cache_line_hit

LEMMA FillingIsPunctual ==
  ASSUME Inv, Punctual, RefreshNext, state \in Filling
  PROVE  Punctual'
<1> USE DEF Evicting, Filling
<1>1. TypeOK /\ ControllerStep /\ Next
  BY Ticks DEF Inv, Next
<1>2. /\ MaxAckDelay \in Nat /\ ColumnCount \in Nat /\ counter \in Nat
      /\ WaitsPriorToDataAtRead \in Nat
      /\ AckWait = MaxAckDelay + 2 /\ EvictionCycles \in Nat
  BY <1>1, WaitBounds, Bounds DEF TypeOK
<1>3. CASE state = "Read1"
  <2>1. Read1 /\ AtActivate(burst_line_address)
    BY <1>1, <1>3 DEF Next, CacheStep, CountIdleCycle, IdleRefresh, IdleEvict, IdleFill,
       IdleStay, Refresh, Write1, Write2, Write3, Read2, Read3, Read4, Inv, InStep
  <2>2. since_idle = EvictionCycles + elapsed
    BY <1>3 DEF since_idle
  <2>3. refresh_cycle_counter' = refresh_cycle_counter
    BY <2>1 DEF Read1
  <2>4. CASE O_sdrc_cmd_ack
    <3>1. state' = "Read2" /\ counter' = 0
      BY <2>1, <2>4 DEF Read1
    <3>2. since_idle' = EvictionCycles + AckWait + 0
      BY <3>1 DEF since_idle
    <3> QED
      BY <1>2, <2>1, <2>2, <2>3, <2>4, <3>1, <3>2, Activated, MissCycle
  <2>5. CASE ~O_sdrc_cmd_ack
    <3>1. state' = "Read1" /\ ~I_sdrc_cmd_en'
      BY <1>3, <2>1, <2>5 DEF Read1, NoCommand
    <3>2. since_idle' = EvictionCycles + elapsed'
      BY <3>1 DEF since_idle
    <3>3. elapsed \in Nat /\ elapsed' \in Nat /\ elapsed' >= elapsed + 1
      BY <2>1, <2>5, <3>1, ActivationCycle
    <3>4. \A e, k, l \in Nat : l >= k + 1 =>
            e + k \in Nat /\ e + l \in Nat /\ e + l >= e + k + 1
      OBVIOUS
    <3>5. since_idle' \in Nat /\ since_idle' >= since_idle + 1 /\ since_idle \in Nat
      BY <1>2, <2>2, <3>2, <3>3, <3>4
    <3> QED
      BY <2>3, <3>1, <3>5, MissCycle
  <2> QED
    BY <2>4, <2>5
<1>4. CASE state = "Read2"
  <2>1. Read2 /\ counter \in 0 .. WaitsPriorToDataAtRead
    BY <1>1, <1>4 DEF Next, CacheStep, CountIdleCycle, IdleRefresh, IdleEvict, IdleFill,
       IdleStay, Refresh, Write1, Write2, Write3, Read1, Read3, Read4, Inv, InStep, AtRead2
  <2>2. since_idle = EvictionCycles + AckWait + counter
    BY <1>4 DEF since_idle
  <2>3. refresh_cycle_counter' = refresh_cycle_counter
    BY <2>1 DEF Read2
  <2>4. CASE counter = WaitsPriorToDataAtRead
    <3>1. state' = "Read3" /\ counter' = 1
      BY <2>1, <2>4 DEF Read2
    <3>2. since_idle' = EvictionCycles + AckWait + WaitsPriorToDataAtRead + 1
      BY <3>1 DEF since_idle
    <3> QED
      BY <1>2, <2>2, <2>3, <2>4, <3>1, <3>2, MissCycle
  <2>5. CASE counter # WaitsPriorToDataAtRead
    <3>1. state' = "Read2" /\ counter' = increment(counter)
      BY <1>4, <2>1, <2>5 DEF Read2
    <3>2. counter' = counter + 1
      BY <1>2, <2>1, <2>5, <3>1, Bounds, Increment
    <3>3. since_idle' = EvictionCycles + AckWait + counter'
      BY <3>1 DEF since_idle
    <3> QED
      BY <1>2, <2>2, <2>3, <3>1, <3>2, <3>3, MissCycle
  <2> QED
    BY <2>4, <2>5
<1>5. CASE state = "Read3"
  <2>1. Read3 /\ counter \in 1 .. ColumnCount - 1
    BY <1>1, <1>5 DEF Next, CacheStep, CountIdleCycle, IdleRefresh, IdleEvict, IdleFill,
       IdleStay, Refresh, Write1, Write2, Write3, Read1, Read2, Read4, Inv, InStep, AtRead3
  <2>2. since_idle = EvictionCycles + AckWait + WaitsPriorToDataAtRead + counter
    BY <1>5 DEF since_idle
  <2>3. refresh_cycle_counter' = refresh_cycle_counter
    BY <2>1 DEF Read3
  <2>4. CASE counter = ColumnCount - 1
    <3>1. state' = "Read4"
      BY <2>1, <2>4 DEF Read3
    <3>2. since_idle' = EvictionCycles + AckWait + WaitsPriorToDataAtRead + ColumnCount
      BY <3>1 DEF since_idle
    <3> QED
      BY <1>2, <2>1, <2>2, <2>3, <2>4, <3>1, <3>2, MissCycle
  <2>5. CASE counter # ColumnCount - 1
    <3>1. state' = "Read3" /\ counter' = increment(counter)
      BY <1>5, <2>1, <2>5 DEF Read3
    <3>2. counter' = counter + 1
      BY <1>2, <2>1, <2>5, <3>1, Bounds, Increment
    <3>3. since_idle' = EvictionCycles + AckWait + WaitsPriorToDataAtRead + counter'
      BY <3>1 DEF since_idle
    <3> QED
      BY <1>2, <2>2, <2>3, <3>1, <3>2, <3>3, MissCycle
  <2> QED
    BY <2>4, <2>5
<1>6. CASE state = "Read4"
  <2>1. Read4
    BY <1>1, <1>6 DEF Next, CacheStep, CountIdleCycle, IdleRefresh, IdleEvict, IdleFill,
       IdleStay, Refresh, Write1, Write2, Write3, Read1, Read2, Read3
  <2>2. state' = "Idle" /\ refresh_cycle_counter' = refresh_cycle_counter /\ ~busy'
    BY <1>1, <1>6, <2>1, MissServed DEF Read4
  <2>3. since_idle = EvictionCycles + AckWait + WaitsPriorToDataAtRead + ColumnCount
    BY <1>6 DEF since_idle
  <2> DEFINE rc == refresh_cycle_counter
  <2>4. /\ rc \in Nat /\ rc >= 1 /\ rc <= AutoRefreshPeriodCycles + 1
        /\ since_refresh <= rc + CyclesBefore(rc - 1) + since_idle
    BY <1>1, InMiss, WaitBounds DEF TypeOK
  <2>5. /\ CyclesBefore(rc + 1) = CyclesBefore(rc - 1) + LongestMiss
        /\ CyclesBefore(rc - 1) \in Nat /\ LongestMiss \in Nat /\ since_idle \in Nat
        /\ LongestMiss = since_idle + 1
    <3>1. rc - 1 \in Nat /\ (rc - 1) + 2 = rc + 1
      BY <2>4
    <3>2. LongestMiss = since_idle + 1 /\ since_idle \in Nat
      BY <1>2, <2>3, WaitBounds
    <3> QED
      BY <3>1, <3>2, MissesCounted
  <2>6. since_refresh' <= rc + CyclesBefore(rc + 1)
    <3> HIDE DEF rc
    <3> QED
      BY <2>4, <2>5, Ticks
  <2>7. since_refresh' <= rc' + CyclesBefore(IF busy' THEN rc' ELSE rc' + 1)
    BY <2>2, <2>6
  <2>8. AgeBound'
    BY <1>1, Ticks, AgeStep
  <2> QED
    BY <2>2, <2>4, <2>7, <2>8, Ticks DEF Punctual
<1> QED
  BY <1>3, <1>4, <1>5, <1>6

LEMMA PunctualBounds ==
  ASSUME Inv, Punctual
  PROVE  RefreshBound
<1>1. TypeOK /\ since_refresh \in Nat /\ state \in States
  BY DEF Inv, TypeOK, Punctual
<1>2. /\ MaxAckDelay \in Nat /\ ColumnCount \in Nat /\ counter \in Nat /\ age \in Nat
      /\ WaitsPriorToDataAtRead \in Nat /\ refresh_cycle_counter \in Nat
      /\ AutoRefreshPeriodCycles \in Nat
  BY <1>1, WaitBounds, Bounds DEF TypeOK
<1> DEFINE P  == AutoRefreshPeriodCycles
           rc == refresh_cycle_counter
           late == P + 1 + CyclesBefore(P + 2) + AckWait
<1>3. /\ LatestRefresh = late
      /\ CyclesBefore(P) \in Nat /\ CyclesBefore(P + 2) = CyclesBefore(P) + LongestMiss
      /\ AckWait = MaxAckDelay + 2 /\ LongestMiss \in Nat
  <2>1. P \in Nat /\ P + 2 \in Nat
    BY <1>2
  <2>2. LatestRefresh = P + 1 + MostMisses * LongestMiss + AckWait
    BY DEF LatestRefresh
  <2>3. LongestMiss \in Nat /\ AckWait = MaxAckDelay + 2
    BY <1>2, WaitBounds
  <2> QED
    BY <2>1, <2>2, <2>3, MissesCounted
<1>4. CASE state = "Idle"
  <2>1. /\ rc <= P + 1
        /\ since_refresh <= rc + CyclesBefore(IF busy THEN rc ELSE rc + 1)
    BY <1>4 DEF Punctual
  <2>2. CyclesBefore(IF busy THEN rc ELSE rc + 1) <= CyclesBefore(P + 2)
    <3> DEFINE n == IF busy THEN rc ELSE rc + 1
    <3>1. n \in Nat /\ n <= P + 2 /\ P + 2 \in Nat
      BY <1>2, <2>1
    <3> HIDE DEF n
    <3>2. CyclesBefore(n) <= CyclesBefore(P + 2)
      BY <3>1, MissesCounted
    <3> QED
      BY <3>2 DEF n
  <2>3. CyclesBefore(IF busy THEN rc ELSE rc + 1) \in Nat
    BY <1>2, MissesCounted
  <2> QED
    BY <1>1, <1>2, <1>3, <2>1, <2>2, <2>3 DEF RefreshBound
<1>5. CASE state = "Refresh"
  <2>1. since_refresh <= P + 2 + CyclesBefore(P + 2) + since_idle /\ since_idle = elapsed
    BY <1>5 DEF Punctual, since_idle
  <2>2. elapsed \in Nat /\ elapsed <= MaxAckDelay + 1
    BY <1>2, <1>5 DEF elapsed, Punctual, AgeBound, Inv, InStep, AtRefresh, Acknowledged, Given
  <2> QED
    BY <1>1, <1>2, <1>3, <2>1, <2>2 DEF RefreshBound
<1>6. CASE state \in Evicting \cup Filling
  <2>1. /\ rc <= P + 1 /\ rc >= 1
        /\ since_refresh <= rc + CyclesBefore(rc - 1) + since_idle
    BY <1>6, InMiss
  <2>2. CyclesBefore(rc - 1) <= CyclesBefore(P) /\ CyclesBefore(rc - 1) \in Nat
    <3>1. rc - 1 \in Nat /\ rc - 1 <= P
      BY <1>2, <2>1
    <3> QED
      BY <1>2, <3>1, MissesCounted
  <2>3. since_idle \in Nat /\ since_idle <= LongestMiss
    <3>1. LongestMiss = 3 * AckWait + WaitsPriorToDataAtRead + ColumnCount + ColumnCount + 1
      BY <1>2, WaitBounds
    <3>2. EvictionCycles = 2 * AckWait + ColumnCount
      BY <1>2, WaitBounds
    <3>3. /\ state = "Write1" => elapsed \in Nat /\ elapsed <= MaxAckDelay + 1
          /\ state = "Read1"  => elapsed \in Nat /\ elapsed <= MaxAckDelay + 1
      BY <1>2 DEF elapsed, Punctual, AgeBound, Inv, InStep, AtActivate, Acknowledged, Given, Working
    <3>4. /\ state = "Write2" => counter <= ColumnCount - 1 /\ counter >= 1
          /\ state = "Read2"  => counter <= WaitsPriorToDataAtRead
          /\ state = "Read3"  => counter <= ColumnCount - 1
      BY <1>2 DEF Inv, InStep, AtWrite2, AtRead2, AtRead3
    <3>5. state = "Write3" /\ op # "none" => age <= ColumnCount + MaxAckDelay
      BY DEF Punctual, AgeBound, Inv, InStep, AtWrite3, Acknowledged, Working
    <3> QED
      BY <1>2, <1>3, <1>6, <3>1, <3>2, <3>3, <3>4, <3>5 DEF since_idle, Evicting, Filling
  <2> QED
    BY <1>1, <1>2, <1>3, <2>1, <2>2, <2>3 DEF RefreshBound
<1> QED
  BY <1>1, <1>4, <1>5, <1>6 DEF States, Evicting, Filling

LEMMA PunctualNext ==
  ASSUME Inv, Punctual, [RefreshNext]_<<vars, since_refresh>>
  PROVE  Punctual'
<1>1. state \in States
  BY DEF Inv, TypeOK
<1>2. CASE RefreshNext
  BY <1>1, <1>2, IdleIsPunctual, RefreshIsPunctual, EvictingIsPunctual, FillingIsPunctual
     DEF States, Evicting, Filling
<1>3. CASE UNCHANGED <<vars, since_refresh>>
  BY <1>3 DEF vars, cacheVars, requestVars, controllerVars, burstVars, Punctual, AgeBound,
     since_idle, elapsed, busy, cache_line_hit, cached, line_ix, address_tag
<1> QED
  BY <1>2, <1>3

LEMMA PunctualInit == RefreshInit => Punctual
<1> SUFFICES ASSUME RefreshInit PROVE Punctual
  OBVIOUS
<1>1. /\ state = "Idle" /\ since_refresh = 0 /\ op = "none"
      /\ refresh_cycle_counter = AutoRefreshPeriodCycles + 1
  BY DEF RefreshInit, Init, CacheInit, ControllerInit
<1>2. AutoRefreshPeriodCycles \in Nat
  BY WaitBounds
<1>3. /\ CyclesBefore(refresh_cycle_counter) \in Nat
      /\ CyclesBefore(refresh_cycle_counter + 1) \in Nat
  BY <1>1, <1>2, MissesCounted
<1>4. since_refresh <= refresh_cycle_counter
                       + CyclesBefore(IF busy THEN refresh_cycle_counter ELSE refresh_cycle_counter + 1)
  BY <1>1, <1>2, <1>3
<1>5. state \notin Evicting \cup Filling /\ state # "Refresh"
  BY <1>1 DEF Evicting, Filling
<1> QED
  BY <1>1, <1>2, <1>4, <1>5 DEF Punctual, AgeBound

\* However many misses there are, and however late the controller is, the SDRAM is
\* refreshed: cache.sv counts Idle cycles only, and a miss needs two of them.
THEOREM RefreshInTime == RefreshSpec => []RefreshBound
<1>1. RefreshInit => Init /\ Inv /\ Punctual
  BY InitInv, PunctualInit DEF RefreshInit
<1>2. [RefreshNext]_<<vars, since_refresh>> => [Next]_vars
  BY DEF RefreshNext
<1>3. Inv /\ [Next]_vars => Inv'
  BY NextInv
<1>4. Inv /\ Punctual /\ [RefreshNext]_<<vars, since_refresh>> => Punctual'
  BY PunctualNext
<1>5. Inv /\ Punctual => RefreshBound
  BY PunctualBounds
<1> QED
  BY <1>1, <1>2, <1>3, <1>4, <1>5, PTL DEF RefreshSpec
=============================================================================
