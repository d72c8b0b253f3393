------------------------------- MODULE Ticker -------------------------------
(***************************************************************************)
(* The ticker (ticker/runner.py, queue/delayed.py): a single process that  *)
(* promotes due jobs, hands orphaned rows to Redis again and reaps the     *)
(* messages of dead workers, one after the other.  Every pass but          *)
(* promotion waits for its interval, so the passes may follow each other   *)
(* in any order.                                                           *)
(***************************************************************************)
EXTENDS Store

tickRest == <<pull, task, req>>

Left == {j \in Jobs : tick.todo[j] # "none"}

(***************************************************************************)
(* promote_due: read the due ids, XADD each, ZREM them all, flip the rows. *)
(* The ids are not looked at again in between.  Every id in the ZSET has a *)
(* row: nothing deletes rows.                                              *)
(***************************************************************************)
(* Mutant: ZRANGEBYSCORE without the upper bound.                          *)
StartPromoteAll ==
  LET due == {j \in Jobs : zset[j] # "none"} IN
  /\ tick.pc = "idle"
  /\ due # {}
  /\ tick' = [IdleTicker EXCEPT !.pc = "xadd", !.ids = due,
                !.todo = [j \in Jobs |-> IF j \in due THEN "stream" ELSE "none"]]
  /\ UNCHANGED <<row, redis, used, tickRest>>

StartPromote ==
  LET due == {j \in Jobs : zset[j] = "due"} IN
  /\ tick.pc = "idle"
  /\ due # {}
  /\ tick' = [IdleTicker EXCEPT !.pc = "xadd", !.ids = due,
                !.todo = [j \in Jobs |-> IF j \in due THEN "stream" ELSE "none"]]
  /\ UNCHANGED <<row, redis, used, tickRest>>

PromoteXadd(j) ==
  /\ tick.pc = "xadd"
  /\ j \in Left
  /\ enqueue(j)
  /\ tick' = [tick EXCEPT !.todo[j] = "none",
                          !.pc = IF Left = {j} THEN "zrem" ELSE "xadd"]
  /\ UNCHANGED <<row, pel, zset, used, tickRest>>

PromoteZrem ==
  /\ tick.pc = "zrem"
  /\ zset' = [j \in Jobs |-> IF j \in tick.ids THEN "none" ELSE zset[j]]
  /\ tick' = [tick EXCEPT !.pc = "flip"]
  /\ UNCHANGED <<row, stream, pel, used, tickRest>>

PromoteFlip ==
  /\ tick.pc = "flip"
  /\ row' = [j \in Jobs |-> IF j \in tick.ids
                            THEN promote_scheduled_to_pending(row[j]) ELSE row[j]]
  /\ tick' = IdleTicker
  /\ UNCHANGED <<redis, used, tickRest>>

(***************************************************************************)
(* reconcile_orphans: hand over every row that list_unsynced returned, as  *)
(* the row was when it was listed.                                         *)
(***************************************************************************)
StartReconcile ==
  LET orphans == {j \in Jobs : IsUnsynced(row[j]) /\ PastGrace(j)} IN
  /\ tick.pc = "idle"
  /\ orphans # {}
  /\ tick' = [IdleTicker EXCEPT !.pc = "reconcile",
                !.todo = [j \in Jobs |-> IF j \in orphans THEN HandoffOf(row[j])
                                                          ELSE "none"]]
  /\ UNCHANGED <<row, redis, used, tickRest>>

ReconcileHandoff(j) ==
  /\ tick.pc = "reconcile"
  /\ j \in Left
  /\ HandOver(j, tick.todo[j])
  /\ tick' = [tick EXCEPT !.pc = "resync", !.job = j, !.todo[j] = "none"]
  /\ UNCHANGED <<row, pel, used, tickRest>>

ReconcileSync ==
  /\ tick.pc = "resync"
  /\ Update(tick.job, mark_synced(row[tick.job]))
  /\ tick' = IF Left = {} THEN IdleTicker
             ELSE [tick EXCEPT !.pc = "reconcile", !.job = NoJob]
  /\ UNCHANGED <<redis, used, tickRest>>

(***************************************************************************)
(* reap_stale and _reap_one: take a message that has been idle too long,   *)
(* look at its row, act on what was seen, and acknowledge in every case.   *)
(***************************************************************************)
ReapClaim(m) ==
  /\ tick.pc = "idle"
  /\ Stale(m)
  /\ tick' = [IdleTicker EXCEPT !.pc = "reap", !.msg = m, !.job = JobOf(m)]
  /\ UNCHANGED <<row, redis, used, tickRest>>

StartReap == \E m \in Msgs : ReapClaim(m)

(* Mutants: a processing row is left to its worker; a terminal row is left *)
(* without the XACK.                                                       *)
ReapReadTrusting ==
  LET r == row[tick.job] IN
  /\ tick.pc = "reap"
  /\ tick' = [tick EXCEPT !.pc = IF IsUnsynced(r) THEN "handoff" ELSE "ack",
                          !.h = IF IsUnsynced(r) THEN HandoffOf(r) ELSE "none"]
  /\ UNCHANGED <<row, redis, used, tickRest>>

ReapReadNoGhosts ==
  LET r == row[tick.job] IN
  /\ tick.pc = "reap"
  /\ tick' = IF r.status \in Final THEN IdleTicker
             ELSE [tick EXCEPT
                     !.pc  = IF IsProcessing(r) THEN "retry"
                             ELSE IF IsUnsynced(r) THEN "handoff" ELSE "ack",
                     !.att = r.attempts,
                     !.h   = IF IsUnsynced(r) THEN HandoffOf(r) ELSE "none"]
  /\ UNCHANGED <<row, redis, used, tickRest>>

ReapRead ==
  LET r == row[tick.job] IN
  /\ tick.pc = "reap"
  /\ tick' = [tick EXCEPT
                !.pc  = IF IsProcessing(r) THEN "retry"
                        ELSE IF IsUnsynced(r) THEN "handoff" ELSE "ack",
                !.att = IF IsProcessing(r) THEN r.attempts ELSE 0,
                !.h   = IF IsUnsynced(r) THEN HandoffOf(r) ELSE "none"]
  /\ UNCHANGED <<row, redis, used, tickRest>>

(* schedule_retry_or_fail with the attempts just read.                     *)
ReapRetry ==
  LET j == tick.job
      won == IsProcessing(row[j])
      h == RetryHandoff(j, tick.att)
  IN
  /\ tick.pc = "retry"
  /\ Update(j, IF won THEN RetryRow(j, tick.att, row[j]) ELSE row[j])
  /\ tick' = [tick EXCEPT !.pc = IF won /\ h # "none" THEN "handoff" ELSE "ack",
                          !.h = IF won THEN h ELSE "none"]
  /\ UNCHANGED <<redis, used, tickRest>>

ReapHandoff ==
  /\ tick.pc = "handoff"
  /\ HandOver(tick.job, tick.h)
  /\ tick' = [tick EXCEPT !.pc = "sync"]
  /\ UNCHANGED <<row, pel, used, tickRest>>

ReapSync ==
  /\ tick.pc = "sync"
  /\ Update(tick.job, mark_synced(row[tick.job]))
  /\ tick' = [tick EXCEPT !.pc = "ack"]
  /\ UNCHANGED <<redis, used, tickRest>>

ReapAck ==
  /\ tick.pc = "ack"
  /\ ack(tick.msg)
  /\ tick' = IdleTicker
  /\ UNCHANGED <<row, stream, zset, used, tickRest>>

(* An exception ends the pass where it is (run_forever catches it and      *)
(* starts over at the next tick); a restarted process does the same.       *)
TickerFail ==
  /\ "ticker" \in Faults
  /\ used.crashes < MaxCrashes
  /\ tick.pc # "idle"
  /\ tick' = IdleTicker
  /\ used' = [used EXCEPT !.crashes = @ + 1]
  /\ UNCHANGED <<row, redis, tickRest>>

TickerStep ==
  \/ \E j \in Jobs : PromoteXadd(j) \/ ReconcileHandoff(j)
  \/ PromoteZrem
  \/ PromoteFlip
  \/ ReconcileSync
  \/ ReapRead
  \/ ReapRetry
  \/ ReapHandoff
  \/ ReapSync
  \/ ReapAck

TickerNext ==
  \/ StartPromote
  \/ StartReconcile
  \/ StartReap
  \/ TickerStep
  \/ TickerFail
=============================================================================
