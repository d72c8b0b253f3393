------------------------------- MODULE Group -------------------------------
(***************************************************************************)
(* The consumer group and the loss of Redis: processes that create the     *)
(* group at "$" before they serve, the handoff of a row in the steps of    *)
(* the code (commit, XADD or ZADD, mark_synced), a Redis that comes back   *)
(* empty at any moment, and the repair of                                  *)
(* docs/runbooks/redis-total-loss-recovery.md.                             *)
(*                                                                         *)
(* The question here is where handoffs go, so entries are not counted: a   *)
(* job of which the group has had an entry may be read and reaped again.   *)
(* What becomes of an entry after that is in JobProcessor.                 *)
(***************************************************************************)
EXTENDS Naturals

CONSTANTS
  Jobs,
  NumStreams,
  StreamOf,     \* settings.stream_for_priority(job.priority)
  Apis, Consumers, Tickers,   \* processes: API, worker, ticker
  MaxLosses     \* bound: how often Redis loses its data

Streams == 1..NumStreams
Hosts   == Apis \cup Consumers \cup Tickers

ASSUME GroupAssumption ==
  NumStreams \in Nat /\ MaxLosses \in Nat /\ StreamOf \in [Jobs -> Streams]

VARIABLES
  row,      \* the jobs table
  group,    \* streams that have the consumer group
  zset,     \* jobs in the delayed ZSET
  given,    \* jobs of which the group has had an entry
  host,     \* per process, the stream whose group it ensures next; 0: it is down
  hand,     \* per process and job, what the process does next about it
  lost,     \* history: streams whose group Redis has lost
  reach,    \* history: jobs handed over where the group delivers or in the ZSET
  owed,     \* history: jobs that a loss has cost their place in Redis
  late,     \* history: jobs only a mark_synced of an older handoff calls synced
  losses

redis   == <<group, zset, given>>
history == <<lost, reach, owed, late>>
groupVars == <<row, redis, host, hand, history, losses>>

Waiting == {"pending", "scheduled"}
Active  == Waiting \cup {"running"}
Rows    == [st : Active \cup {"none", "failed", "ended"}, synced : BOOLEAN]
Hands   == {"none", "xadd", "zadd", "mark", "late",   \* a handoff; late: overtaken
            "claim", "run",                           \* a message
            "promote", "zrem", "flip",                \* a due job
            "drop"}                                   \* a cancelled job

GroupInit ==
  /\ row = [j \in Jobs |-> [st |-> "none", synced |-> FALSE]]
  /\ group = {} /\ zset = {} /\ given = {}
  /\ host = [x \in Hosts |-> 0]
  /\ hand = [x \in Hosts |-> [j \in Jobs |-> "none"]]
  /\ lost = {} /\ reach = {} /\ owed = {} /\ late = {} /\ losses = 0

Serving(x) == host[x] = NumStreams + 1
Free(x, j) == Serving(x) /\ hand[x][j] = "none"
Does(x, j, what) == hand' = [hand EXCEPT ![x][j] = what]

-----------------------------------------------------------------------------
(* Mutant of ensure_group: a group that is there is moved to the end too,  *)
(* behind the entries not yet delivered.                                   *)
ensure_group_again(k) ==
  /\ group' = group \cup {k}
  /\ lost' = lost \ {k}
  /\ reach' = {j \in reach : StreamOf[j] # k \/ j \in zset}

(* XGROUP CREATE ... $ MKSTREAM: the group starts behind the entries that  *)
(* are there, which were out of its reach and stay so (XAdd).  BUSYGROUP   *)
(* leaves a group as it is.                                                *)
ensure_group(k) ==
  /\ group' = group \cup {k}
  /\ lost' = lost \ {k}
  /\ UNCHANGED reach

(* A process starts, ensures the group stream by stream, and serves.       *)
Boot(x) ==
  /\ host[x] = 0
  /\ host' = [host EXCEPT ![x] = 1]
  /\ UNCHANGED <<row, redis, hand, history, losses>>

BootEnsure(x) ==
  /\ host[x] \in Streams
  /\ ensure_group(host[x])
  /\ host' = [host EXCEPT ![x] = @ + 1]
  /\ UNCHANGED <<row, zset, given, hand, owed, late, losses>>

(* It stops, or dies with all it has in hand; NOGROUP ends a worker too.   *)
Fall(x) ==
  /\ host[x] # 0
  /\ host' = [host EXCEPT ![x] = 0]
  /\ hand' = [hand EXCEPT ![x] = [j \in Jobs |-> "none"]]
  /\ UNCHANGED <<row, redis, history, losses>>

-----------------------------------------------------------------------------
(* Process x makes row j wait as st, unsynced: whoever is about to mark an *)
(* earlier handoff of it as done is late now.                              *)
Overtake(j) == [y \in Hosts |-> [hand[y] EXCEPT ![j] = IF @ = "mark" THEN "late" ELSE @]]
Handoff(st) == IF st = "scheduled" THEN "zadd" ELSE "xadd"

Commit(x, j, st) ==
  /\ row' = [row EXCEPT ![j] = [st |-> st, synced |-> FALSE]]
  /\ hand' = [Overtake(j) EXCEPT ![x][j] = Handoff(st)]
  /\ reach' = reach \ {j} /\ late' = late \ {j}
  /\ UNCHANGED <<redis, host, lost, owed, losses>>

(* An entry of j: in a stream without the group nobody will be given it.   *)
XAdd(j) ==
  /\ IF StreamOf[j] \in group
     THEN /\ given' = given \cup {j} /\ reach' = reach \cup {j}
          /\ owed' = owed \ {j} /\ late' = late \ {j}
     ELSE /\ reach' = reach \ {j}
          /\ owed' = IF StreamOf[j] \in lost THEN owed \cup {j} ELSE owed
          /\ UNCHANGED <<given, late>>
  /\ UNCHANGED <<row, group, zset, host, lost, losses>>

ZAdd(j) ==
  /\ zset' = zset \cup {j} /\ reach' = reach \cup {j}
  /\ owed' = owed \ {j} /\ late' = late \ {j}
  /\ UNCHANGED <<row, group, given, host, lost, losses>>

(* The second and third step of every handoff.  mark_synced is unguarded.  *)
Send(x, j) ==
  /\ Does(x, j, "mark")
  /\ \/ hand[x][j] = "xadd" /\ XAdd(j)
     \/ hand[x][j] = "zadd" /\ ZAdd(j)

mark_synced(x, j) ==
  /\ hand[x][j] \in {"mark", "late"}
  /\ row' = [row EXCEPT ![j].synced = TRUE]
  /\ late' = IF hand[x][j] = "late" /\ ~row[j].synced THEN late \cup ({j} \ reach) ELSE late
  /\ Does(x, j, "none")
  /\ UNCHANGED <<redis, host, lost, reach, owed, losses>>

-----------------------------------------------------------------------------
(* The API: submission, manual retry of a failed job, cancellation of a    *)
(* waiting one and its ZREM.                                               *)
Submit(x, j, st) == Free(x, j) /\ row[j].st = "none" /\ Commit(x, j, st)
Retry(x, j)      == Free(x, j) /\ row[j].st = "failed" /\ Commit(x, j, "pending")

Cancel(x, j) ==
  /\ Free(x, j) /\ row[j].st \in Waiting
  /\ row' = [row EXCEPT ![j].st = "ended"]
  /\ Does(x, j, "drop")
  /\ UNCHANGED <<redis, host, history, losses>>

CancelZrem(x, j) ==
  /\ hand[x][j] = "drop"
  /\ zset' = zset \ {j}
  /\ Does(x, j, "none")
  /\ UNCHANGED <<row, group, given, host, history, losses>>

(* A worker: XREADGROUP, the claim, the end of the attempt.                *)
Read(x, j) ==
  /\ Free(x, j) /\ j \in given /\ StreamOf[j] \in group
  /\ Does(x, j, "claim")
  /\ UNCHANGED <<row, redis, host, history, losses>>

Claim(x, j) ==
  /\ hand[x][j] = "claim"
  /\ IF row[j].st \in Waiting
     THEN row' = [row EXCEPT ![j].st = "running"] /\ Does(x, j, "run")
     ELSE UNCHANGED row /\ Does(x, j, "none")
  /\ UNCHANGED <<redis, host, history, losses>>

RunEnds(x, j, st) ==
  /\ hand[x][j] = "run"
  /\ row' = IF row[j].st = "running" THEN [row EXCEPT ![j].st = st] ELSE row
  /\ Does(x, j, "none")
  /\ UNCHANGED <<redis, host, history, losses>>

RunFails(x, j, st) == hand[x][j] = "run" /\ row[j].st = "running" /\ Commit(x, j, st)

(* The ticker: promotion by XADD, ZREM and flip; reconciliation; and       *)
(* reaping, which ensures the group before each XAUTOCLAIM, retries or     *)
(* fails a row that runs, and hands over an unsynced one as reconciliation *)
(* does.                                                                   *)
Promote(x, j) ==
  /\ Free(x, j) /\ j \in zset
  /\ Does(x, j, "promote")
  /\ UNCHANGED <<row, redis, host, history, losses>>

PromoteXadd(x, j) == hand[x][j] = "promote" /\ XAdd(j) /\ Does(x, j, "zrem")

PromoteZrem(x, j) ==
  /\ hand[x][j] = "zrem"
  /\ zset' = zset \ {j}
  /\ Does(x, j, "flip")
  /\ UNCHANGED <<row, group, given, host, history, losses>>

PromoteFlip(x, j) ==
  /\ hand[x][j] = "flip"
  /\ row' = IF row[j].st = "scheduled" THEN [row EXCEPT ![j].st = "pending"] ELSE row
  /\ Does(x, j, "none")
  /\ UNCHANGED <<redis, host, history, losses>>

reconcile_orphans(x, j) ==
  /\ Free(x, j) /\ row[j].st \in Waiting /\ ~row[j].synced
  /\ Does(x, j, Handoff(row[j].st))
  /\ UNCHANGED <<row, redis, host, history, losses>>

ReapEnsure(x, k) ==
  /\ Serving(x)
  /\ ensure_group(k)
  /\ UNCHANGED <<row, zset, given, host, hand, owed, late, losses>>

reap_one(x, j, st) ==
  /\ Free(x, j) /\ j \in given /\ StreamOf[j] \in group
  /\ row[j].st = "running"
  /\ \/ st \in Waiting /\ Commit(x, j, st)
     \/ /\ st = "failed"
        /\ row' = [row EXCEPT ![j].st = st]
        /\ UNCHANGED <<redis, host, hand, history, losses>>

-----------------------------------------------------------------------------
(* Redis comes back without streams, ZSET, pending entries and groups.     *)
RedisLoss ==
  /\ losses < MaxLosses
  /\ losses' = losses + 1
  /\ group' = {} /\ zset' = {} /\ given' = {}
  /\ lost' = lost \cup group
  /\ reach' = {}
  /\ owed' = {j \in Jobs : row[j].st \in Active}
  /\ UNCHANGED <<row, host, hand, late>>

(* The runbook.  Step 2: the group, by hand.  Step 3: all waiting rows are *)
(* re-armed.  Step 4: a processing row that no living worker has is reset. *)
CreateGroup(k) ==
  /\ losses > 0
  /\ ensure_group(k)
  /\ UNCHANGED <<row, zset, given, host, hand, owed, late, losses>>

Recovered == losses > 0 /\ Streams \subseteq group

Rearm ==
  LET rearmed == {j \in Jobs : row[j].st \in Waiting} IN
  /\ Recovered
  /\ row' = [j \in Jobs |-> IF j \in rearmed THEN [row[j] EXCEPT !.synced = FALSE]
                            ELSE row[j]]
  /\ hand' = [x \in Hosts |-> [j \in Jobs |-> IF j \in rearmed /\ hand[x][j] = "mark"
                                              THEN "late" ELSE hand[x][j]]]
  /\ owed' = owed \ rearmed /\ late' = late \ rearmed
  /\ UNCHANGED <<redis, host, lost, reach, losses>>

Reset(j) ==
  /\ Recovered
  /\ row[j].st = "running" /\ \A x \in Consumers : hand[x][j] # "run"
  /\ row' = [row EXCEPT ![j] = [st |-> "pending", synced |-> FALSE]]
  /\ hand' = Overtake(j)
  /\ reach' = reach \ {j} /\ owed' = owed \ {j} /\ late' = late \ {j}
  /\ UNCHANGED <<redis, host, lost, losses>>

-----------------------------------------------------------------------------
ApiDoes(x, j) ==
  \/ \E st \in Waiting : Submit(x, j, st)
  \/ Retry(x, j) \/ Cancel(x, j) \/ CancelZrem(x, j)

ConsumerDoes(x, j) ==
  \/ Read(x, j) \/ Claim(x, j)
  \/ \E st \in {"failed", "ended"} : RunEnds(x, j, st)
  \/ \E st \in Waiting : RunFails(x, j, st)

TickerDoes(x, j) ==
  \/ Promote(x, j) \/ PromoteXadd(x, j) \/ PromoteZrem(x, j) \/ PromoteFlip(x, j)
  \/ reconcile_orphans(x, j)
  \/ \E st \in Waiting \cup {"failed"} : reap_one(x, j, st)

GroupNext ==
  \/ \E x \in Hosts : Boot(x) \/ BootEnsure(x) \/ Fall(x)
  \/ \E x \in Hosts, j \in Jobs : Send(x, j) \/ mark_synced(x, j)
  \/ \E x \in Apis, j \in Jobs : ApiDoes(x, j)
  \/ \E x \in Consumers, j \in Jobs : ConsumerDoes(x, j)
  \/ \E x \in Tickers, j \in Jobs : TickerDoes(x, j)
  \/ \E x \in Tickers, k \in Streams : ReapEnsure(x, k)
  \/ RedisLoss \/ Rearm
  \/ \E k \in Streams : CreateGroup(k)
  \/ \E j \in Jobs : Reset(j)

GroupSpec == GroupInit /\ [][GroupNext]_groupVars

-----------------------------------------------------------------------------
GroupTypeOK ==
  /\ row \in [Jobs -> Rows]
  /\ group \subseteq Streams /\ zset \subseteq Jobs /\ given \subseteq Jobs
  /\ host \in [Hosts -> 0..(NumStreams + 1)]
  /\ hand \in [Hosts -> [Jobs -> Hands]]
  /\ lost \subseteq Streams
  /\ reach \subseteq Jobs /\ owed \subseteq Jobs /\ late \subseteq Jobs
  /\ losses \in 0..MaxLosses

(* A waiting row that is marked synced, and that reconcile_orphans leaves  *)
(* alone for it, was handed over to the ZSET or to a stream where the      *)
(* group delivers it, since it last came to wait and since Redis last lost *)
(* its data.  Excepted are the jobs an outage has cost their place, until  *)
(* the runbook or another handoff has seen to them, and those that only a  *)
(* mark_synced of an older handoff, overtaken by a retry or by the         *)
(* runbook, calls synced.                                                  *)
SyncedIsInReach ==
  \A j \in Jobs \ (owed \cup late) :
    row[j].st \in Waiting /\ row[j].synced => j \in reach
=============================================================================
