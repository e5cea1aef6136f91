----------------------------- MODULE CacheSystem -----------------------------
(***************************************************************************)
(* The cache between the CPU and the SDRAM controller, all on one clock: a *)
(* step is one clock edge for the three of them.                           *)
(***************************************************************************)
EXTENDS Cache, SdramController

\* the cache is configured for the latency of the controller
ASSUME LatencyAssumption == ReadLatency = WaitsPriorToDataAtRead

vars == <<request, cacheVars, requestVars, controllerVars>>

\* core.sv and ramio.sv: the request is held while the cache is busy
Hold  == busy /\ UNCHANGED request
Issue == ~busy /\ request' \in Requests

Init == /\ request \in Idles
        /\ CacheInit
        /\ ControllerInit

Next == CacheStep /\ ControllerStep /\ (Hold \/ Issue)

\* the clock does not stop
Spec == Init /\ [][Next]_vars /\ WF_vars(Next)

\* the same cache with the controller of the manual
ManualNext == CacheStep /\ ManualControllerStep /\ (Hold \/ Issue)
ManualSpec == Init /\ [][ManualNext]_vars /\ WF_vars(ManualNext)

-----------------------------------------------------------------------------
TypeOK ==
  /\ request \in Requests
  /\ state \in States
  /\ counter \in 0..(CounterModulus - 1)
  /\ refresh_cycle_counter \in 0..(RefreshCounterModulus - 1)
  /\ burst_is_reading \in BOOLEAN
  /\ burst_data_in \in Words \cup {NoWord}
  /\ burst_write_enable \subseteq Columns
  /\ burst_tag_write_enable \in BOOLEAN
  /\ tag \in [Lines -> [tag : Tags, valid : BOOLEAN, dirty : BOOLEAN]]
  /\ column \in [Lines -> [Columns -> Words]]
  /\ I_sdrc_cmd_en \in BOOLEAN
  /\ I_sdrc_cmd \in Commands
  /\ I_sdrc_addr \in LineAddresses
  /\ I_sdrc_data \in Words
  /\ O_sdrc_cmd_ack \in BOOLEAN
  /\ O_sdrc_data \in Words \cup {NoWord}
  /\ sdram \in [LineAddresses -> [Columns -> Words]]
  /\ row \in LineAddresses \cup {NoRow}
  /\ op \in Commands
  /\ age \in Nat
  /\ target \in LineAddresses

\* What the SDRAM asks of whoever commands it: a command only when the last
\* one is over, a burst only on the row that is open, an ACTIVATE or a REFRESH
\* only when no row is.
SdramProtocol ==
  I_sdrc_cmd_en =>
    /\ op = "none"
    /\ I_sdrc_cmd \in {"read", "write"} => row = I_sdrc_addr
    /\ I_sdrc_cmd \in {"activate", "refresh"} => row = NoRow

\* A line that is cached and not dirty is the line in the SDRAM, unless it is
\* the one being replaced: what the cache may drop without writing it back.
CleanLinesAgree ==
  \A l \in Lines :
    tag[l].valid /\ ~tag[l].dirty /\ ~(burst_is_reading /\ l = line_ix)
      => column[l] = sdram[[tag |-> tag[l].tag, line |-> l]]

-----------------------------------------------------------------------------
\* Where the word of an address is: in the cache if its line is cached there,
\* in the SDRAM otherwise, and while the line is being replaced.
holds_line(a) == /\ tag[a.line].valid
                 /\ tag[a.line].tag = a.tag
                 /\ ~(burst_is_reading /\ a.line = line_ix)

content == [a \in Addresses |->
              IF holds_line(a) THEN column[a.line][a.column]
              ELSE sdram[[tag |-> a.tag, line |-> a.line]][a.column]]

delivered == IF data_out_ready THEN data_out ELSE NoWord

M == INSTANCE Memory WITH memory <- content,
                          data   <- delivered,
                          NoData <- NoWord

\* The CPU cannot tell the cache and the SDRAM from a plain memory: loads
\* return the last store, whatever was evicted and fetched in between.
IsMemory == M!Spec

\* Every request is served: with acknowledgements as late as they can be, none of
\* the burst, the tag write and the refresh leaves the machine waiting for ever.
\* A WRITE is acknowledged after its data here.
EveryRequestServed == busy ~> ~busy

\* The same of the controller of the manual, whose acknowledgement of a WRITE,
\* "2 cycles after command issued" (cache.sv:375), may come before Write3 waits
\* for it: then it has gone by.
ServedWithTheManual == busy ~> ~busy

-----------------------------------------------------------------------------
(***************************************************************************)
(* Why the cache is right: what holds between two clock edges in each      *)
(* state of its machine, of the controller it drives and of the line it    *)
(* moves.  The conjunction is inductive.                                   *)
(***************************************************************************)
Serving   == {"Idle", "Refresh"}
Evicting  == {"Write1", "Write2", "Write3"}
Filling   == {"Read1", "Read2", "Read3", "Read4"}

\* the first 'n' columns of the line in the cache are those of the line in
\* the SDRAM
SameUpTo(n, addr) == \A c \in Columns : c < n => column[line_ix][c] = sdram[addr][c]

\* The burst registers are functions of the state.
BurstRegisters ==
  /\ burst_is_reading <=> state \in Filling
  /\ burst_tag_write_enable <=> state = "Read4"
  /\ state \notin {"Read3", "Read4"} => burst_write_enable = {}
  /\ state = "Read3" => burst_write_enable = {counter - 1}
  /\ state = "Read4" => burst_write_enable = {ColumnCount - 1}

\* A line moves only for a request that missed, and is evicted only if dirty.
Flags ==
  /\ \A l \in Lines : tag[l].dirty => tag[l].valid
  /\ state \notin Serving => busy
  /\ state \in Evicting => cached.dirty

\* the controller is waiting for a command, or has just been given 'cmd'
Given(cmd, addr) == /\ op = "none"
                    /\ I_sdrc_cmd = cmd
                    /\ I_sdrc_addr = addr
                    /\ ~O_sdrc_cmd_ack

\* the controller works on 'cmd'
Working(cmd, addr) == /\ op = cmd
                      /\ target = addr
                      /\ ~O_sdrc_cmd_ack

Acknowledged == op = "none" /\ O_sdrc_cmd_ack

\* the burst of a READ is still going on in the given cycle, or it is over
ReadingAt(cycle, addr) ==
  \/ /\ op = "read"
     /\ cycle <= LastReadCycle
     /\ age = cycle
     /\ target = addr
     /\ row = addr
  \/ /\ op = "none"
     /\ cycle > LastReadCycle
     /\ row = NoRow

AtIdle == /\ ~I_sdrc_cmd_en
          /\ \/ op = "none" /\ row = NoRow
             \/ op = "read" /\ age = LastReadCycle

AtRefresh == /\ row = NoRow
             /\ IF I_sdrc_cmd_en THEN Given("refresh", I_sdrc_addr)
                ELSE Acknowledged \/ (op = "refresh" /\ ~O_sdrc_cmd_ack)

\* Write1 and Read1: the row of 'addr' is being activated
AtActivate(addr) ==
  IF I_sdrc_cmd_en THEN Given("activate", addr) /\ row = NoRow
  ELSE (Acknowledged \/ Working("activate", addr)) /\ row = addr

AtWrite2 == /\ counter \in 1..(ColumnCount - 1)
            /\ I_sdrc_cmd_en <=> counter = 1
            /\ row = cached_line_address
            /\ IF I_sdrc_cmd_en THEN Given("write", cached_line_address)
               ELSE Working("write", cached_line_address) /\ age = counter - 1
            /\ I_sdrc_data = column[line_ix][counter - 1]
            /\ SameUpTo(counter - 1, cached_line_address)

AtWrite3 == /\ ~I_sdrc_cmd_en
            /\ \/ /\ Acknowledged
                  /\ row = NoRow
                  /\ SameUpTo(ColumnCount, cached_line_address)
               \/ /\ Working("write", cached_line_address)
                  /\ row = cached_line_address
                  /\ age >= ColumnCount - 1
                  /\ age = ColumnCount - 1 =>
                       I_sdrc_data = column[line_ix][ColumnCount - 1]
                  /\ SameUpTo(age, cached_line_address)

AtRead2 == /\ counter \in 0..WaitsPriorToDataAtRead
           /\ I_sdrc_cmd_en <=> counter = 0
           /\ row = burst_line_address
           /\ IF I_sdrc_cmd_en THEN Given("read", burst_line_address)
              ELSE op = "read" /\ target = burst_line_address /\ age = counter
           /\ counter = WaitsPriorToDataAtRead =>
                O_sdrc_data = sdram[burst_line_address][0]

AtRead3 == /\ counter \in 1..(ColumnCount - 1)
           /\ ~I_sdrc_cmd_en
           /\ ReadingAt(ReadLatency + counter, burst_line_address)
           /\ O_sdrc_data = sdram[burst_line_address][counter]
           /\ burst_data_in = sdram[burst_line_address][counter - 1]
           /\ SameUpTo(counter - 1, burst_line_address)

AtRead4 == /\ ~I_sdrc_cmd_en
           /\ ReadingAt(ReadLatency + ColumnCount, burst_line_address)
           /\ burst_data_in = sdram[burst_line_address][ColumnCount - 1]
           /\ SameUpTo(ColumnCount - 1, burst_line_address)

\* Cache and controller are at the same point of the same command.
InStep == /\ state = "Idle"    => AtIdle
          /\ state = "Refresh" => AtRefresh
          /\ state = "Write1"  => AtActivate(cached_line_address)
          /\ state = "Write2"  => AtWrite2
          /\ state = "Write3"  => AtWrite3
          /\ state = "Read1"   => AtActivate(burst_line_address)
          /\ state = "Read2"   => AtRead2
          /\ state = "Read3"   => AtRead3
          /\ state = "Read4"   => AtRead4

Inv == TypeOK /\ BurstRegisters /\ Flags /\ InStep /\ CleanLinesAgree
=============================================================================
