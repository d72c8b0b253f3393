------------------------------- MODULE Worker -------------------------------
(***************************************************************************)
(* Worker processes (worker/runner.py, queue/consumer.py, retry.py): each  *)
(* has one read loop, which hands every message it reads to a task of its  *)
(* own, and a fixed number of task slots.                                  *)
(***************************************************************************)
EXTENDS Store

workerRest == <<req, tick>>

SlotsOf(p) == {p} \X Slots
Free(p) == {t \in SlotsOf(p) : task[t].pc = "idle"}

(***************************************************************************)
(* run_forever and read_priority.                                          *)
(***************************************************************************)

(* tg.create_task(_run_one(...)) for message m, in the slot that           *)
(* sem.acquire reserved before the read.                                   *)
Spawn(p, m) ==
  /\ Free(p) # {}
  /\ task' = [task EXCEPT ![CHOOSE t \in Free(p) : TRUE] =
                [IdleTask EXCEPT !.pc = "claim", !.msg = m]]

(* A non-blocking XREADGROUP of one stream, COUNT 1.                       *)
Probe(p) ==
  LET k == pull[p].at IN
  /\ pull[p].up
  /\ k \in Streams
  /\ Free(p) # {}                                    \* sem.acquire
  /\ \/ /\ stream[k] # << >>
        /\ Spawn(p, Head(stream[k]))
        /\ stream' = [stream EXCEPT ![k] = Tail(@)]
        /\ pel' = pel \cup {Head(stream[k])}
        /\ pull' = [pull EXCEPT ![p].at = 1]
     \/ /\ stream[k] = << >>
        /\ pull' = [pull EXCEPT ![p].at = k + 1]
        /\ UNCHANGED <<stream, pel, task>>
  /\ UNCHANGED <<row, zset, used, workerRest>>

(* The blocking XREADGROUP over all streams: COUNT 1 holds per stream, so  *)
(* every non-empty stream delivers its head to the group, and the loop     *)
(* takes batch[0] only.  With nothing to read it times out.                *)
BlockingRead(p) ==
  LET ready == {k \in Streams : stream[k] # << >>} IN
  /\ pull[p].up
  /\ pull[p].at = NumStreams + 1
  /\ \/ /\ \E first \in ready : /\ \A k \in ready : first <= k
                                /\ Spawn(p, Head(stream[first]))
        /\ stream' = [k \in Streams |-> IF k \in ready THEN Tail(stream[k])
                                                       ELSE stream[k]]
        /\ pel' = pel \cup {Head(stream[k]) : k \in ready}
     \/ /\ ready = {}
        /\ UNCHANGED <<task, stream, pel>>
  /\ pull' = [pull EXCEPT ![p].at = 1]
  /\ UNCHANGED <<row, zset, used, workerRest>>

(* SIGTERM or the memory recycler, both tested at the top of the loop: no  *)
(* further message is read, the tasks in flight run to their end.          *)
Stop(p) ==
  /\ "stop" \in Faults
  /\ pull[p].up
  /\ pull[p].at = 1
  /\ pull' = [pull EXCEPT ![p].up = FALSE]
  /\ UNCHANGED <<row, redis, task, used, workerRest>>

(* The drained (or crashed) process is replaced by a new one.              *)
Restart(p) ==
  /\ ~pull[p].up
  /\ Free(p) = SlotsOf(p)
  /\ pull' = [pull EXCEPT ![p] = [up |-> TRUE, at |-> 1]]
  /\ UNCHANGED <<row, redis, task, used, workerRest>>

(* The process is gone, with every task it had: killed, or a database or   *)
(* Redis error in one task that cancelled its siblings.                    *)
Crash(p) ==
  /\ used.crashes < MaxCrashes
  /\ Free(p) # SlotsOf(p)
  /\ \A t \in SlotsOf(p) : task[t].pc \in Faults \cup {"idle"}
  /\ task' = [t \in Tasks |-> IF t \in SlotsOf(p) THEN IdleTask ELSE task[t]]
  /\ pull' = [pull EXCEPT ![p] = [up |-> FALSE, at |-> 1]]
  /\ used' = [used EXCEPT !.crashes = @ + 1]
  /\ UNCHANGED <<row, redis, workerRest>>

(***************************************************************************)
(* handle_message and process_job, for the message of task t.              *)
(***************************************************************************)
MyJob(t) == JobOf(task[t].msg)

taskRest == <<pull, used, workerRest>>

(* Mutant: the message is acknowledged as soon as its job is claimed.      *)
ClaimAndAck(t) ==
  LET j == MyJob(t) IN
  /\ task[t].pc = "claim"
  /\ CanClaim(row[j])
  /\ Update(j, claim_job(row[j]))
  /\ task' = [task EXCEPT ![t].pc = "load"]
  /\ ack(task[t].msg)
  /\ UNCHANGED <<stream, zset, taskRest>>

(* claim_job decides who runs a job; a message whose job is not claimable  *)
(* is acknowledged and skipped.                                            *)
Claim(t) ==
  LET j == MyJob(t) IN
  /\ task[t].pc = "claim"
  /\ \/ /\ CanClaim(row[j])
        /\ Update(j, claim_job(row[j]))
        /\ task' = [task EXCEPT ![t].pc = "load"]
     \/ /\ ~CanClaim(row[j])
        /\ task' = [task EXCEPT ![t].pc = "ack"]
        /\ UNCHANGED row
  /\ UNCHANGED <<redis, taskRest>>

(* Outcome(ack=won): the winner of the guarded update acknowledges, the    *)
(* loser leaves its message pending for the reaper.                        *)
AckIff(won, t) == task' = [task EXCEPT ![t] = IF won THEN [@ EXCEPT !.pc = "ack"]
                                                     ELSE IdleTask]

Finish(t, r) ==
  LET won == IsProcessing(row[MyJob(t)]) IN
  /\ Update(MyJob(t), IF won THEN r ELSE row[MyJob(t)])
  /\ AckIff(won, t)
  /\ UNCHANGED <<redis, taskRest>>

(* get_job after the claim; att is the attempts column the task keeps.     *)
Load(t) ==
  /\ task[t].pc = "load"
  /\ MyJob(t) \notin Ownerless
  /\ task' = [task EXCEPT ![t].pc = "run", ![t].att = row[MyJob(t)].attempts]
  /\ UNCHANGED <<row, redis, taskRest>>

DropOwnerless(t) ==
  /\ task[t].pc = "load"
  /\ MyJob(t) \in Ownerless
  /\ Finish(t, fail_job(row[MyJob(t)]))

(* The handler returned: complete_job.                                     *)
Complete(t) ==
  /\ task[t].pc = "run"
  /\ Finish(t, complete_job(row[MyJob(t)]))

(* PayloadPolicyError: failed at once, never retried.                      *)
Reject(t) ==
  /\ task[t].pc = "run"
  /\ Finish(t, fail_job(row[MyJob(t)]))

(* Any other exception, or HandlerTimeout: schedule_retry_or_fail with the *)
(* attempts loaded before the handler ran.                                 *)
RetryOrFail(t) ==
  LET j == MyJob(t)
      h == RetryHandoff(j, task[t].att)
      won == IsProcessing(row[j])
  IN
  /\ task[t].pc = "run"
  /\ \/ /\ won /\ h # "none"
        /\ Update(j, RetryRow(j, task[t].att, row[j]))
        /\ task' = [task EXCEPT ![t].pc = "handoff", ![t].h = h]
        /\ UNCHANGED <<redis, taskRest>>
     \/ /\ ~(won /\ h # "none")
        /\ Finish(t, RetryRow(j, task[t].att, row[j]))

TaskHandoff(t) ==
  /\ task[t].pc = "handoff"
  /\ HandOver(MyJob(t), task[t].h)
  /\ task' = [task EXCEPT ![t].pc = "sync"]
  /\ UNCHANGED <<row, pel, taskRest>>

TaskSync(t) ==
  /\ task[t].pc = "sync"
  /\ Update(MyJob(t), mark_synced(row[MyJob(t)]))
  /\ task' = [task EXCEPT ![t].pc = "ack"]
  /\ UNCHANGED <<redis, taskRest>>

(* Mutant: the poll takes a live, uncancelled row for a cancelled one.     *)
PollAlways(t) ==
  /\ task[t].pc = "run"
  /\ MyJob(t) \in Batch
  /\ task' = [task EXCEPT ![t].pc = "cancel"]
  /\ UNCHANGED <<row, redis, taskRest>>

(* Between two items a batch handler polls its row, and stops when a       *)
(* cancellation was requested or the row is no longer processing.          *)
PollCancelled(t) ==
  LET r == row[MyJob(t)] IN
  /\ task[t].pc = "run"
  /\ MyJob(t) \in Batch
  /\ r.cancelReq \/ ~IsProcessing(r)
  /\ task' = [task EXCEPT ![t].pc = "cancel"]
  /\ UNCHANGED <<row, redis, taskRest>>

CancelJob(t) ==
  /\ task[t].pc = "cancel"
  /\ Finish(t, cancel_job(row[MyJob(t)]))

Ack(t) ==
  /\ task[t].pc = "ack"
  /\ ack(task[t].msg)
  /\ task' = [task EXCEPT ![t] = IdleTask]
  /\ UNCHANGED <<row, stream, zset, taskRest>>

TaskStep(t) ==
  \/ Claim(t)
  \/ Load(t)
  \/ DropOwnerless(t)
  \/ Complete(t)
  \/ Reject(t)
  \/ RetryOrFail(t)
  \/ TaskHandoff(t)
  \/ TaskSync(t)
  \/ PollCancelled(t)
  \/ CancelJob(t)
  \/ Ack(t)

PullStep(p) == Probe(p) \/ BlockingRead(p) \/ Restart(p)

WorkerNext ==
  \/ \E p \in Procs : PullStep(p) \/ Stop(p) \/ Crash(p)
  \/ \E t \in Tasks : TaskStep(t)
=============================================================================
