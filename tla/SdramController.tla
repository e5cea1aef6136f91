--------------------------- MODULE SdramController ---------------------------
(***************************************************************************)
(* The SDRAM controller and the SDRAM behind it, a vendor's closed IP,     *)
(* modelled from how cache.sv drives it: a command is taken when nothing   *)
(* is going on; a burst moves one column per cycle from a fixed cycle on;  *)
(* ACTIVATE, WRITE and REFRESH end with one cycle of O_sdrc_cmd_ack after  *)
(* a delay the cache does not know; READ and WRITE close the row           *)
(* (I_sdrc_precharge_ctrl is 1).  cache.sv:375 knows of two times at which *)
(* a WRITE is acknowledged: after its data, as in simulation, which is     *)
(* what cache.sv relies on and WriteBurst does, and two cycles after the   *)
(* command, as in the manual, which is ManualWriteBurst.                   *)
(***************************************************************************)
EXTENDS CacheInterface

CONSTANTS ReadLatency,      \* cycles from a READ to its first column
          MaxAckDelay,      \* most cycles a finished command is late
          PrechargeCycles,  \* cycles busy after the last column of a READ
          NoRow             \* no row is open

\* The cache issues its next command three cycles after a burst at the earliest.
ASSUME ControllerAssumption ==
  /\ ReadLatency \in Nat \ {0}
  /\ MaxAckDelay \in Nat
  /\ PrechargeCycles \in 0..3
  /\ NoRow \notin LineAddresses

VARIABLES sdram,  \* line address -> column -> word
          row,    \* the open row
          op,     \* the command being carried out
          age,    \* cycles since it was given
          target  \* the address given with it

controllerVars == <<sdram, row, op, age, target, O_sdrc_cmd_ack, O_sdrc_data>>

\* the command at work in this cycle, a new one included
doing == IF op = "none" /\ I_sdrc_cmd_en THEN I_sdrc_cmd ELSE op
at    == IF op = "none" THEN 0 ELSE age
where == IF op = "none" THEN I_sdrc_addr ELSE target

Done    == /\ op' = "none"
           /\ age' = 0
           /\ target' = where
Ongoing == /\ op' = doing
           /\ age' = at + 1
           /\ target' = where

\* after 'cycles' cycles of work the command is acknowledged, perhaps late
Acknowledge(cycles) ==
  /\ at >= cycles
  /\ O_sdrc_cmd_ack' = TRUE
  /\ Done
Proceed(cycles) ==
  /\ at < cycles + MaxAckDelay
  /\ O_sdrc_cmd_ack' = FALSE
  /\ Ongoing

Nothing == /\ doing = "none"
           /\ O_sdrc_cmd_ack' = FALSE
           /\ O_sdrc_data' = NoWord
           /\ Done
           /\ UNCHANGED <<sdram, row>>

RefreshRows == /\ doing = "refresh"
               /\ Acknowledge(0) \/ Proceed(0)
               /\ O_sdrc_data' = NoWord
               /\ UNCHANGED <<sdram, row>>

Activate == /\ doing = "activate"
            /\ Acknowledge(0) \/ Proceed(0)
            /\ row' = where
            /\ O_sdrc_data' = NoWord
            /\ UNCHANGED sdram

WriteBurst == /\ doing = "write"
              /\ sdram' = IF at < ColumnCount
                            THEN [sdram EXCEPT ![where][at] = I_sdrc_data]
                            ELSE sdram
              /\ \/ Acknowledge(ColumnCount) /\ row' = NoRow
                 \/ Proceed(ColumnCount) /\ UNCHANGED row
              /\ O_sdrc_data' = NoWord

\* the acknowledgement is there two cycles after the command, the burst goes on
ManualWriteBurst == /\ doing = "write"
                    /\ sdram' = IF at < ColumnCount
                                  THEN [sdram EXCEPT ![where][at] = I_sdrc_data]
                                  ELSE sdram
                    /\ O_sdrc_cmd_ack' = (at = 1)
                    /\ \/ at >= ColumnCount /\ row' = NoRow /\ Done
                       \/ at < ColumnCount /\ UNCHANGED row /\ Ongoing
                    /\ O_sdrc_data' = NoWord

\* the cycle in which the burst is over and the row is closed
LastReadCycle == ReadLatency + ColumnCount - 2 + PrechargeCycles

\* The controller acknowledges a READ too, in a cycle nobody waits for it.
ReadBurst == /\ doing = "read"
             /\ O_sdrc_data' = IF at - (ReadLatency - 1) \in Columns
                                 THEN sdram[where][at - (ReadLatency - 1)]
                                 ELSE NoWord
             /\ \/ /\ at = LastReadCycle
                   /\ O_sdrc_cmd_ack' = FALSE
                   /\ row' = NoRow
                   /\ Done
                \/ /\ at < LastReadCycle
                   /\ O_sdrc_cmd_ack' \in BOOLEAN
                   /\ UNCHANGED row
                   /\ Ongoing
             /\ UNCHANGED sdram

ControllerInit == /\ sdram \in [LineAddresses -> [Columns -> Words]]
                  /\ row = NoRow
                  /\ op = "none"
                  /\ age = 0
                  /\ target = [tag |-> 0, line |-> 0]
                  /\ O_sdrc_cmd_ack = FALSE
                  /\ O_sdrc_data = NoWord

ControllerStep == Nothing \/ RefreshRows \/ Activate \/ WriteBurst \/ ReadBurst

ManualControllerStep ==
  Nothing \/ RefreshRows \/ Activate \/ ManualWriteBurst \/ ReadBurst
=============================================================================
