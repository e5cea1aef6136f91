----------------------------- MODULE CacheRefresh -----------------------------
(***************************************************************************)
(* How long the SDRAM goes without a refresh.  cache.sv counts the cycles  *)
(* it spends in Idle; the history variable counts every cycle.             *)
(***************************************************************************)
EXTENDS CacheSystem

VARIABLE since_refresh  \* cycles since the last refresh was acknowledged

\* cycles from a command that is acknowledged as late as can be
AckWait == MaxAckDelay + 2

\* cycles outside Idle of a miss that evicts a dirty line:
\* Write1, Write2, Write3, Read1, Read2, Read3 and Read4
LongestMiss == AckWait + (ColumnCount - 1) + (AckWait + 1)
               + AckWait + (WaitsPriorToDataAtRead + 1) + (ColumnCount - 1) + 1

\* A miss can start in every second of the Idle cycles that are counted: in the
\* one after it the request is answered.
MostMisses == (AutoRefreshPeriodCycles + 2) \div 2

\* How late a refresh can be: the counter stands still during misses, so the
\* interval is bounded by the misses that fit between the Idle cycles.
LatestRefresh ==
  (AutoRefreshPeriodCycles + 1) + MostMisses * LongestMiss + AckWait

-----------------------------------------------------------------------------
RefreshDone == state = "Refresh" /\ O_sdrc_cmd_ack

\* it stops one cycle past the latest refresh, so that a refresh that never
\* comes leaves finitely many states
RefreshInit == Init /\ since_refresh = 0

RefreshNext == /\ Next
               /\ since_refresh' = IF RefreshDone THEN 0
                                   ELSE IF since_refresh > LatestRefresh
                                        THEN since_refresh ELSE since_refresh + 1

RefreshSpec == /\ RefreshInit
               /\ [][RefreshNext]_<<vars, since_refresh>>
               /\ WF_vars(Next)

-----------------------------------------------------------------------------
\* However many misses there are, a refresh is at most so late.
RefreshBound == since_refresh <= LatestRefresh

-----------------------------------------------------------------------------
(* For TLC: both columns of one line and one column of the line it competes with. *)
ThreeAddresses == {a \in Addresses : a.tag = 0 \/ a.column = ColumnCount - 1}
=============================================================================
