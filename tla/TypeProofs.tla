----------------------------- MODULE TypeProofs -----------------------------
(***************************************************************************)
(* Type correctness of the job processor, and that a final status is       *)
(* final, for every number of jobs, workers, slots, streams and requests   *)
(* and every set of faults, timely or not.                                 *)
(***************************************************************************)
EXTENDS JobProcessor, TLAPS

Reaping == {"reap", "retry", "handoff", "sync", "ack"}

(* What TypeOK needs to be inductive: a process in the middle of its work  *)
(* knows the job, the message and the number of rounds left.               *)
LocalOK ==
  /\ \A c \in Clients :
       /\ req[c].pc # "idle" => req[c].job \in Jobs
       /\ req[c].pc \in {"cancel", "request", "read"} => req[c].left \in 1..3
  /\ \A t \in Tasks : IF task[t].pc = "idle" THEN task[t].msg = NoMsg
                                             ELSE task[t].msg \in Msgs
  /\ tick.pc = "resync" => tick.job \in Jobs
  /\ IF tick.pc \in Reaping
     THEN tick.msg \in Msgs /\ tick.job = JobOf(tick.msg)
     ELSE tick.msg = NoMsg

TypeInv == TypeOK /\ LocalOK

USE JobRowAssumption, StoreAssumption

(* Every value repository.py writes into a row is a row again.             *)
LEMMA RowUpdates ==
  ASSUME NEW r \in Row
  PROVE  /\ claim_job(r) \in Row
         /\ complete_job(r) \in Row
         /\ fail_job(r) \in Row
         /\ cancel_job(r) \in Row
         /\ request_cancel(r) \in Row
         /\ retry_to_pending(r) \in Row
         /\ retry_to_scheduled(r) \in Row
         /\ reset_failed_to_pending(r) \in Row
         /\ cancel_pending_or_scheduled(r) \in Row
         /\ promote_scheduled_to_pending(r) \in Row
         /\ mark_synced(r) \in Row
         /\ [r EXCEPT !.wait = FALSE] \in Row
<1> USE DEF Row, Status, Waiting, Final
<1>0. r.attempts + 1 \in Nat
  OBVIOUS
<1>1. claim_job(r) \in Row
  BY DEF claim_job
<1>2. complete_job(r) \in Row
  BY <1>0, Zenon DEF complete_job
<1>3. fail_job(r) \in Row
  BY <1>0, Zenon DEF fail_job
<1>4. cancel_job(r) \in Row
  BY DEF cancel_job
<1>5. request_cancel(r) \in Row
  BY DEF request_cancel
<1>6. retry_to_pending(r) \in Row
  BY <1>0, Zenon DEF retry_to_pending
<1>7. retry_to_scheduled(r) \in Row
  BY <1>0, Zenon DEF retry_to_scheduled
<1>8. reset_failed_to_pending(r) \in Row
  BY DEF reset_failed_to_pending
<1>9. cancel_pending_or_scheduled(r) \in Row
  BY DEF cancel_pending_or_scheduled
<1>10. promote_scheduled_to_pending(r) \in Row
  BY DEF promote_scheduled_to_pending
<1>11. mark_synced(r) \in Row
  BY DEF mark_synced
<1>12. [r EXCEPT !.wait = FALSE] \in Row
  OBVIOUS
<1> QED
  BY <1>1, <1>2, <1>3, <1>4, <1>5, <1>6, <1>7, <1>8, <1>9, <1>10, <1>11, <1>12

(* create_job inserts a row.                                               *)
LEMMA NewRow == \A h : create_job(h) \in Row
BY DEF create_job, NoRow, Row, Status, Waiting, Final

(* schedule_retry_or_fail writes a row.                                    *)
LEMMA RetryRowType ==
  ASSUME NEW r \in Row, NEW j, NEW att
  PROVE  RetryRow(j, att, r) \in Row
BY RowUpdates DEF RetryRow

(* The message of an entry belongs to a job.                               *)
LEMMA MsgJob == \A m \in Msgs : JobOf(m) \in Jobs
BY DEF Msgs, JobOf

(* An XADD appends one unused message of its job to the job's stream.      *)
LEMMA EnqueueType ==
  ASSUME stream \in [Streams -> Seq(Msgs)], NEW j \in Jobs, enqueue(j)
  PROVE  \E m \in Msgs :
           /\ JobOf(m) = j
           /\ Unused(m)
           /\ stream' = [stream EXCEPT ![StreamOf[j]] = Append(@, m)]
           /\ stream' \in [Streams -> Seq(Msgs)]
<1> DEFINE m == CHOOSE x \in Fresh(j) : TRUE
<1>1. m \in Fresh(j)
  BY DEF enqueue
<1>2. m \in Msgs /\ JobOf(m) = j /\ Unused(m)
  BY <1>1 DEF Fresh, Msgs, JobOf
<1>3. stream' = [stream EXCEPT ![StreamOf[j]] = Append(@, m)]
  BY DEF enqueue
<1>4. stream' \in [Streams -> Seq(Msgs)]
  BY <1>2, <1>3 DEF Streams
<1> QED
  BY <1>2, <1>3, <1>4

(* A handoff leaves the stream and the ZSET well typed.                    *)
LEMMA HandOverType ==
  ASSUME TypeOK, NEW j \in Jobs, NEW h \in Handoff, HandOver(j, h)
  PROVE  /\ stream' \in [Streams -> Seq(Msgs)]
         /\ zset' \in [Jobs -> Handoff \ {"stream"}]
<1>1. CASE h = "stream" /\ enqueue(j) /\ UNCHANGED zset
  BY <1>1, EnqueueType DEF TypeOK
<1>2. CASE h \in {"wait", "due"} /\ zset' = [zset EXCEPT ![j] = h] /\ UNCHANGED stream
  BY <1>2 DEF TypeOK, Handoff
<1> QED
  BY <1>1, <1>2 DEF HandOver

(* The counters of crashes and retries stay within their bounds.           *)
LEMMA UsedTypes ==
  ASSUME used \in Used
  PROVE  /\ used.retries < MaxRetries => [used EXCEPT !.retries = @ + 1] \in Used
         /\ used.crashes < MaxCrashes => [used EXCEPT !.crashes = @ + 1] \in Used
<1>1. ASSUME used.retries < MaxRetries
      PROVE  [used EXCEPT !.retries = @ + 1] \in Used
  <2>1. used.retries + 1 \in 0..MaxRetries
    BY <1>1 DEF Used
  <2> QED
    BY <2>1, Zenon DEF Used
<1>2. ASSUME used.crashes < MaxCrashes
      PROVE  [used EXCEPT !.crashes = @ + 1] \in Used
  <2>1. used.crashes + 1 \in 0..MaxCrashes
    BY <1>2 DEF Used
  <2> QED
    BY <2>1, Zenon DEF Used
<1> QED
  BY <1>1, <1>2

(* What a request reads of its own record.                                 *)
LEMMA ReqTypes ==
  ASSUME TypeInv, NEW c \in Clients
  PROVE  /\ req[c] \in Req
         /\ req[c].pc # "idle" => req[c].job \in Jobs /\ row[req[c].job] \in Row
         /\ req[c].h \in Handoff
         /\ req[c].obj \in Status
         /\ req[c].left \in 0..3
BY DEF TypeInv, TypeOK, LocalOK, Req

(* A request that writes a row, and its own record, stays well typed.      *)
LEMMA ReqWrite ==
  ASSUME TypeInv, NEW c \in Clients, NEW q \in Req,
         q.pc # "idle" => q.job \in Jobs,
         q.pc \in {"cancel", "request", "read"} => q.left \in 1..3,
         req' = [req EXCEPT ![c] = q],
         UNCHANGED <<pel, pull, task, tick>>,
         row' \in [Jobs -> Row],
         stream' \in [Streams -> Seq(Msgs)],
         zset' \in [Jobs -> Handoff \ {"stream"}],
         used' \in Used
  PROVE  TypeInv'
<1>1. TypeOK'
  BY DEF TypeInv, TypeOK
<1>2. \A d \in Clients : req'[d] = IF d = c THEN q ELSE req[d]
  BY DEF TypeInv, TypeOK
<1>3. LocalOK'
  BY <1>2 DEF TypeInv, LocalOK
<1> QED
  BY <1>1, <1>3 DEF TypeInv

(* Every step of the API keeps the types.                                  *)
LEMMA ApiTypes ==
  ASSUME TypeInv, NEW c \in Clients, ApiCall(c) \/ ApiStep(c) \/ ApiCrash(c)
  PROVE  TypeInv'
<1> USE DEF apiRest
<1>0. /\ req \in [Clients -> Req] /\ row \in [Jobs -> Row]
      /\ stream \in [Streams -> Seq(Msgs)]
      /\ zset \in [Jobs -> Handoff \ {"stream"}]
      /\ used \in Used
  BY DEF TypeInv, TypeOK
<1>4. IdleReq \in Req /\ IdleReq.pc = "idle"
  BY DEF IdleReq, Req, ReqPc, Handoff, Status
<1>1. ASSUME NEW j \in Jobs, NEW h \in {"stream", "wait"}, submit_job(c, j, h)
      PROVE  TypeInv'
  <2> DEFINE q == [IdleReq EXCEPT !.pc = "handoff", !.op = "submit", !.job = j, !.h = h]
  <2>1. q \in Req /\ q.pc = "handoff" /\ q.job = j
    BY <1>4 DEF Req, ReqPc, Handoff
  <2>2. row' \in [Jobs -> Row]
    BY <1>0, <1>1, NewRow DEF submit_job, Update
  <2> HIDE DEF q
  <2>3. req' = [req EXCEPT ![c] = q]
    BY <1>1 DEF submit_job, q
  <2> QED
    BY <1>0, <1>1, <2>1, <2>2, <2>3, ReqWrite DEF submit_job
<1>2. ASSUME NEW j \in Jobs, retry_job(c, j)
      PROVE  TypeInv'
  <2> DEFINE q == [IdleReq EXCEPT !.pc = "handoff", !.op = "retry", !.job = j,
                                  !.h = "stream"]
  <2>1. q \in Req /\ q.pc = "handoff" /\ q.job = j
    BY <1>4 DEF Req, ReqPc, Handoff
  <2>2. row' \in [Jobs -> Row]
    BY <1>0, <1>2, RowUpdates DEF retry_job, Update
  <2> HIDE DEF q
  <2>3. req' = [req EXCEPT ![c] = q]
    BY <1>2 DEF retry_job, q
  <2>4. used' \in Used
    BY <1>0, <1>2, UsedTypes DEF retry_job
  <2> QED
    BY <1>0, <1>2, <2>1, <2>2, <2>3, <2>4, ReqWrite DEF retry_job
<1>3. ASSUME NEW j \in Jobs, cancel_job_route(c, j)
      PROVE  TypeInv'
  <2> DEFINE q == [IdleReq EXCEPT !.pc = "cancel", !.op = "cancel", !.job = j,
                                  !.left = 3]
  <2>0. 3 \in 0..3 /\ 3 \in 1..3
    OBVIOUS
  <2>1. q \in Req /\ q.pc = "cancel" /\ q.job = j /\ q.left \in 1..3
    BY <1>4, <2>0, Zenon DEF Req, ReqPc
  <2> HIDE DEF q
  <2>2. req' = [req EXCEPT ![c] = q]
    BY <1>3 DEF cancel_job_route, q
  <2> QED
    BY <1>0, <1>3, <2>1, <2>2, ReqWrite DEF cancel_job_route
<1>5. /\ req[c] \in Req
      /\ req[c].pc # "idle" => req[c].job \in Jobs /\ row[req[c].job] \in Row
      /\ req[c].pc \in {"cancel", "request", "read"} => req[c].left \in 1..3
  BY ReqTypes DEF TypeInv, LocalOK
<1>6. \A pc \in ReqPc : [req[c] EXCEPT !.pc = pc] \in Req
  BY <1>5 DEF Req
<1>7. CASE ApiHandoff(c)
  <2>1. HandOver(req[c].job, req[c].h)
    BY <1>7 DEF ApiHandoff
  <2>2. /\ stream' \in [Streams -> Seq(Msgs)]
        /\ zset' \in [Jobs -> Handoff \ {"stream"}]
    BY <1>5, <1>7, <2>1, HandOverType, ReqTypes DEF ApiHandoff, TypeInv
  <2> DEFINE q == [req[c] EXCEPT !.pc = "sync"]
  <2>3. q \in Req /\ q.job \in Jobs /\ q.pc = "sync"
    BY <1>5, <1>6, <1>7 DEF ApiHandoff, ReqPc, Req
  <2>4. req' = [req EXCEPT ![c] = q]
    BY <1>7 DEF ApiHandoff
  <2> HIDE DEF q
  <2> QED
    BY <1>0, <1>7, <2>2, <2>3, <2>4, ReqWrite DEF ApiHandoff
<1>8. CASE ApiSync(c)
  <2>1. row' \in [Jobs -> Row]
    BY <1>0, <1>5, <1>8, RowUpdates DEF ApiSync, Update
  <2> QED
    BY <1>0, <1>4, <1>8, <2>1, ReqWrite DEF ApiSync
<1>9. CASE CancelWaiting(c)
  <2>0. \/ row' = row
        \/ row' = [row EXCEPT ![req[c].job] = cancel_pending_or_scheduled(row[req[c].job])]
    BY <1>9 DEF CancelWaiting, Update
  <2>a. req[c].job \in Jobs /\ row[req[c].job] \in Row
    BY <1>5, <1>9 DEF CancelWaiting
  <2>1. row' \in [Jobs -> Row]
    BY <1>0, <2>0, <2>a, RowUpdates
  <2>2. PICK q \in Req : /\ req' = [req EXCEPT ![c] = q]
                         /\ q.job = req[c].job
                         /\ q.left = req[c].left
    <3>1. CASE req' = [req EXCEPT ![c].pc = "zrem"]
      <4>1. [req[c] EXCEPT !.pc = "zrem"] \in Req
        BY <1>6 DEF ReqPc
      <4> QED
        BY <3>1, <4>1, <1>5 DEF Req
    <3>2. CASE req' = [req EXCEPT ![c].pc = "request",
                                  ![c].obj = IF @ \in Waiting THEN "cancelled" ELSE @]
      <4> DEFINE q == [req[c] EXCEPT !.pc = "request",
                         !.obj = IF @ \in Waiting THEN "cancelled" ELSE @]
      <4>1. q \in Req
        BY <1>5 DEF Req, ReqPc, Status, Final, Waiting
      <4>2. req' = [req EXCEPT ![c] = q]
        BY <3>2, <1>0
      <4> QED
        BY <4>1, <4>2, <1>5 DEF Req
    <3> QED
      BY <1>9, <3>1, <3>2 DEF CancelWaiting
  <2> QED
    BY <1>0, <1>5, <1>9, <2>1, <2>2, ReqWrite DEF CancelWaiting
<1>10. CASE CancelZrem(c)
  <2> DEFINE q == [req[c] EXCEPT !.pc = "ok"]
  <2>1. q \in Req /\ q.job \in Jobs /\ q.pc = "ok"
    BY <1>5, <1>6, <1>10 DEF CancelZrem, ReqPc, Req
  <2>2. req' = [req EXCEPT ![c] = q]
    BY <1>10 DEF CancelZrem
  <2>3. zset' \in [Jobs -> Handoff \ {"stream"}]
    BY <1>0, <1>10 DEF CancelZrem, Handoff
  <2> HIDE DEF q
  <2> QED
    BY <1>0, <1>10, <2>1, <2>2, <2>3, ReqWrite DEF CancelZrem
<1>11. CASE CancelRunning(c)
  <2>0. \/ row' = row
        \/ row' = [row EXCEPT ![req[c].job] = request_cancel(row[req[c].job])]
    BY <1>11 DEF CancelRunning, Update
  <2>a. req[c].job \in Jobs /\ row[req[c].job] \in Row
    BY <1>5, <1>11 DEF CancelRunning
  <2>1. row' \in [Jobs -> Row]
    BY <1>0, <2>0, <2>a, RowUpdates
  <2>2. CASE req' = [req EXCEPT ![c] = IdleReq]
    BY <1>0, <1>4, <1>11, <2>1, <2>2, ReqWrite DEF CancelRunning
  <2>3. CASE req' = [req EXCEPT ![c].pc = "read"]
    <3> DEFINE q == [req[c] EXCEPT !.pc = "read"]
    <3>1. q \in Req /\ q.job \in Jobs /\ q.left \in 1..3
      BY <1>5, <1>6, <1>11 DEF CancelRunning, ReqPc, Req
    <3>2. req' = [req EXCEPT ![c] = q]
      BY <2>3
    <3> HIDE DEF q
    <3> QED
      BY <1>0, <1>11, <2>1, <3>1, <3>2, ReqWrite DEF CancelRunning
  <2> QED
    BY <1>11, <2>2, <2>3 DEF CancelRunning
<1>12. CASE CancelRead(c)
  <2> DEFINE seen == IF req[c].obj = "absent" THEN row[req[c].job].status
                                              ELSE req[c].obj
  <2>1. seen \in Status
    BY <1>5, <1>12, ReqTypes DEF CancelRead, Row
  <2>2. CASE req' = [req EXCEPT ![c].pc = "ok"]
    <3> DEFINE q == [req[c] EXCEPT !.pc = "ok"]
    <3>1. q \in Req /\ q.job \in Jobs /\ q.pc = "ok"
      BY <1>5, <1>6, <1>12 DEF CancelRead, ReqPc, Req
    <3>2. req' = [req EXCEPT ![c] = q]
      BY <2>2
    <3> HIDE DEF q
    <3> QED
      BY <1>0, <1>12, <3>1, <3>2, ReqWrite DEF CancelRead
  <2>3. CASE req' = [req EXCEPT ![c] = IdleReq]
    BY <1>0, <1>4, <1>12, <2>3, ReqWrite DEF CancelRead
  <2>4. CASE /\ req[c].left # 1
             /\ req' = [req EXCEPT ![c] = [@ EXCEPT !.pc = "cancel", !.obj = seen,
                                                    !.left = req[c].left - 1]]
    <3> DEFINE q == [req[c] EXCEPT !.pc = "cancel", !.obj = seen,
                                 !.left = req[c].left - 1]
    <3>1. req[c].left - 1 \in 1..3 /\ req[c].left - 1 \in 0..3
      BY <1>5, <1>12, <2>4 DEF CancelRead
    <3> HIDE DEF seen
    <3>2. q \in Req /\ q.job \in Jobs /\ q.left \in 1..3
      BY <1>5, <1>12, <2>1, <3>1 DEF CancelRead, ReqPc, Req
    <3>3. req' = [req EXCEPT ![c] = q]
      BY <2>4
    <3> HIDE DEF q
    <3> QED
      BY <1>0, <1>12, <3>2, <3>3, ReqWrite DEF CancelRead
  <2> QED
    BY <1>0, <1>12, <2>2, <2>3, <2>4 DEF CancelRead
<1>13. CASE CancelAnswer(c)
  BY <1>0, <1>4, <1>13, ReqWrite DEF CancelAnswer
<1>14. CASE ApiCrash(c)
  <2>1. used' \in Used
    BY <1>0, <1>14, UsedTypes DEF ApiCrash
  <2> QED
    BY <1>0, <1>4, <1>14, <2>1, ReqWrite DEF ApiCrash
<1> QED
  BY <1>1, <1>2, <1>3, <1>7, <1>8, <1>9, <1>10, <1>11, <1>12, <1>13, <1>14
     DEF ApiCall, ApiStep

(* What a task reads of its own record.                                    *)
LEMMA TaskTypes ==
  ASSUME TypeInv, NEW t \in Tasks, task[t].pc # "idle"
  PROVE  /\ task[t] \in Task
         /\ task[t].msg \in Msgs
         /\ MyJob(t) \in Jobs
         /\ row[MyJob(t)] \in Row
         /\ task[t].h \in Handoff
         /\ task[t].att \in Nat
BY MsgJob DEF TypeInv, TypeOK, LocalOK, Task, MyJob

(* A task that writes its own record stays well typed.                     *)
LEMMA TaskWrite ==
  ASSUME TypeInv, NEW t \in Tasks, NEW u \in Task,
         IF u.pc = "idle" THEN u.msg = NoMsg ELSE u.msg \in Msgs,
         task' = [task EXCEPT ![t] = u],
         UNCHANGED <<req, tick, used>>,
         row' \in [Jobs -> Row],
         stream' \in [Streams -> Seq(Msgs)],
         pel' \subseteq Msgs,
         zset' \in [Jobs -> Handoff \ {"stream"}],
         pull' \in [Procs -> Pull]
  PROVE  TypeInv'
<1>1. TypeOK'
  BY DEF TypeInv, TypeOK
<1>2. \A d \in Tasks : task'[d] = IF d = t THEN u ELSE task[d]
  BY DEF TypeInv, TypeOK
<1>3. LocalOK'
  BY <1>2 DEF TypeInv, LocalOK
<1> QED
  BY <1>1, <1>3 DEF TypeInv

(* The conditional update that ends an attempt, and the choice whether to  *)
(* acknowledge, keep the types.                                            *)
LEMMA FinishTypes ==
  ASSUME TypeInv, NEW t \in Tasks, task[t].pc # "idle",
         NEW r \in Row, Finish(t, r)
  PROVE  TypeInv'
<1> DEFINE won == IsProcessing(row[MyJob(t)])
           u == IF won THEN [task[t] EXCEPT !.pc = "ack"] ELSE IdleTask
<1>1. IdleTask \in Task /\ IdleTask.pc = "idle" /\ IdleTask.msg = NoMsg
  BY DEF IdleTask, Task, TaskPc, Handoff
<1>2. /\ [task[t] EXCEPT !.pc = "ack"] \in Task
      /\ [task[t] EXCEPT !.pc = "ack"].pc = "ack"
      /\ [task[t] EXCEPT !.pc = "ack"].msg \in Msgs
  BY TaskTypes DEF Task, TaskPc
<1>3. u \in Task /\ IF u.pc = "idle" THEN u.msg = NoMsg ELSE u.msg \in Msgs
  BY <1>1, <1>2
<1>4. task' = [task EXCEPT ![t] = u]
  BY DEF Finish, AckIff
<1>5. row' \in [Jobs -> Row]
  BY TaskTypes DEF Finish, Update, TypeInv, TypeOK
<1> HIDE DEF u
<1> QED
  BY <1>3, <1>4, <1>5, TaskWrite DEF Finish, redis, taskRest, workerRest, TypeInv, TypeOK

(* Every step of a task keeps the types.                                   *)
LEMMA TaskStepTypes ==
  ASSUME TypeInv, NEW t \in Tasks, TaskStep(t)
  PROVE  TypeInv'
<1> USE DEF redis, taskRest, workerRest
<1>0. /\ row \in [Jobs -> Row] /\ pel \subseteq Msgs
      /\ stream \in [Streams -> Seq(Msgs)]
      /\ zset \in [Jobs -> Handoff \ {"stream"}]
      /\ pull \in [Procs -> Pull]
  BY DEF TypeInv, TypeOK
<1>1. task[t].pc # "idle"
  BY DEF TaskStep, Claim, Load, DropOwnerless, Complete, Reject, RetryOrFail,
         TaskHandoff, TaskSync, PollCancelled, CancelJob, Ack
<1>2. /\ task[t] \in Task /\ task[t].msg \in Msgs /\ MyJob(t) \in Jobs
      /\ row[MyJob(t)] \in Row /\ task[t].h \in Handoff
  BY <1>1, TaskTypes
<1>3. \A pc \in TaskPc : /\ [task[t] EXCEPT !.pc = pc] \in Task
                         /\ [task[t] EXCEPT !.pc = pc].pc = pc
                         /\ [task[t] EXCEPT !.pc = pc].msg \in Msgs
  BY <1>2 DEF Task
<1>4. ASSUME NEW pc \in TaskPc \ {"idle"}, task' = [task EXCEPT ![t].pc = pc],
             UNCHANGED <<pull, used, req, tick>>,
             row' \in [Jobs -> Row], stream' \in [Streams -> Seq(Msgs)],
             pel' = pel, zset' \in [Jobs -> Handoff \ {"stream"}]
      PROVE  TypeInv'
  BY <1>0, <1>3, <1>4, TaskWrite
<1>5. CASE Claim(t)
  <2>1. row' = row \/ row' = [row EXCEPT ![MyJob(t)] = claim_job(row[MyJob(t)])]
    BY <1>5 DEF Claim, Update
  <2>2. row' \in [Jobs -> Row]
    BY <1>0, <1>2, <2>1, RowUpdates
  <2>3. \/ task' = [task EXCEPT ![t].pc = "load"]
        \/ task' = [task EXCEPT ![t].pc = "ack"]
    BY <1>5 DEF Claim
  <2>4. UNCHANGED <<pull, used, req, tick, stream, pel, zset>>
    BY <1>5 DEF Claim
  <2> QED
    BY <1>0, <1>4, <2>2, <2>3, <2>4 DEF TaskPc
<1>6. CASE Load(t)
  <2> DEFINE u == [task[t] EXCEPT !.pc = "run", !.att = row[MyJob(t)].attempts]
  <2>1. row[MyJob(t)].attempts \in Nat
    BY <1>2 DEF Row
  <2>2. u \in Task /\ u.pc = "run" /\ u.msg \in Msgs
    BY <1>2, <2>1 DEF Task, TaskPc
  <2>3. task' = [task EXCEPT ![t] = u]
    BY <1>6 DEF Load
  <2> HIDE DEF u
  <2> QED
    BY <1>0, <1>6, <2>2, <2>3, TaskWrite DEF Load
<1>7. CASE DropOwnerless(t) \/ Complete(t) \/ Reject(t) \/ CancelJob(t)
  BY <1>1, <1>2, <1>7, FinishTypes, RowUpdates
     DEF DropOwnerless, Complete, Reject, CancelJob
<1>8. CASE RetryOrFail(t)
  <2> DEFINE h == RetryHandoff(MyJob(t), task[t].att)
             r == RetryRow(MyJob(t), task[t].att, row[MyJob(t)])
  <2>1. r \in Row /\ h \in Handoff
    BY <1>2, RetryRowType DEF RetryHandoff, Handoff
  <2> HIDE DEF h, r
  <2>2. CASE Finish(t, r)
    BY <1>1, <2>1, <2>2, FinishTypes
  <2>3. CASE /\ Update(MyJob(t), r)
             /\ task' = [task EXCEPT ![t].pc = "handoff", ![t].h = h]
             /\ UNCHANGED <<stream, pel, zset, pull, used, req, tick>>
    <3> DEFINE u == [task[t] EXCEPT !.pc = "handoff", !.h = h]
    <3>1. u \in Task /\ u.pc = "handoff" /\ u.msg \in Msgs
      BY <1>2, <2>1 DEF Task, TaskPc
    <3>2. task' = [task EXCEPT ![t] = u]
      BY <2>3 DEF TypeInv, TypeOK
    <3>3. row' \in [Jobs -> Row]
      BY <1>0, <1>2, <2>1, <2>3 DEF Update
    <3> HIDE DEF u
    <3> QED
      BY <1>0, <2>3, <3>1, <3>2, <3>3, TaskWrite
  <2> QED
    BY <1>8, <2>2, <2>3 DEF RetryOrFail, h, r
<1>9. CASE TaskHandoff(t)
  <2>1. /\ stream' \in [Streams -> Seq(Msgs)]
        /\ zset' \in [Jobs -> Handoff \ {"stream"}]
    BY <1>2, <1>9, HandOverType DEF TaskHandoff, TypeInv
  <2> QED
    BY <1>0, <1>4, <1>9, <2>1 DEF TaskHandoff, TaskPc
<1>10. CASE TaskSync(t)
  <2>1. row' \in [Jobs -> Row]
    BY <1>0, <1>2, <1>10, RowUpdates DEF TaskSync, Update
  <2> QED
    BY <1>0, <1>4, <1>10, <2>1 DEF TaskSync, TaskPc
<1>11. CASE PollCancelled(t)
  BY <1>0, <1>4, <1>11 DEF PollCancelled, TaskPc
<1>12. CASE Ack(t)
  <2>1. IdleTask \in Task /\ IdleTask.pc = "idle" /\ IdleTask.msg = NoMsg
    BY DEF IdleTask, Task, TaskPc, Handoff
  <2> QED
    BY <1>0, <1>12, <2>1, TaskWrite DEF Ack, ack
<1> QED
  BY <1>5, <1>6, <1>7, <1>8, <1>9, <1>10, <1>11, <1>12 DEF TaskStep

(* The task that takes a new message is one of the process, and was idle.  *)
LEMMA SpawnTypes ==
  ASSUME TypeInv, NEW p \in Procs, NEW m \in Msgs, Spawn(p, m)
  PROVE  \E t \in Free(p) :
           /\ t \in Tasks
           /\ task[t].pc = "idle"
           /\ task' = [task EXCEPT ![t] = [IdleTask EXCEPT !.pc = "claim", !.msg = m]]
<1> DEFINE t == CHOOSE x \in Free(p) : TRUE
<1>1. t \in Free(p)
  BY DEF Spawn
<1>2. t \in Tasks /\ task[t].pc = "idle"
  BY <1>1 DEF Free, SlotsOf, Tasks
<1> QED
  BY <1>1, <1>2 DEF Spawn

(* The record of a task that starts on message m.                          *)
LEMMA NewTask ==
  ASSUME NEW m \in Msgs
  PROVE  LET u == [IdleTask EXCEPT !.pc = "claim", !.msg = m]
         IN  u \in Task /\ u.pc = "claim" /\ u.msg = m
<1>1. IdleTask \in Task
  BY DEF IdleTask, Task, TaskPc, Handoff
<1> QED
  BY <1>1 DEF Task, TaskPc

(* Reading messages keeps the types.                                       *)
LEMMA SpawnWrite ==
  ASSUME TypeInv, NEW p \in Procs, NEW m \in Msgs, Spawn(p, m),
         UNCHANGED <<row, zset, used, req, tick>>,
         stream' \in [Streams -> Seq(Msgs)],
         pel' \subseteq Msgs,
         pull' \in [Procs -> Pull]
  PROVE  TypeInv'
<1> DEFINE u == [IdleTask EXCEPT !.pc = "claim", !.msg = m]
<1>1. PICK t \in Tasks : task' = [task EXCEPT ![t] = u]
  BY SpawnTypes
<1>2. u \in Task /\ u.pc = "claim" /\ u.msg = m
  BY NewTask
<1>3. row' \in [Jobs -> Row] /\ zset' \in [Jobs -> Handoff \ {"stream"}]
  BY DEF TypeInv, TypeOK
<1> HIDE DEF u
<1> QED
  BY <1>1, <1>2, <1>3, TaskWrite

(* A step that leaves the tasks alone.                                     *)
LEMMA PullWrite ==
  ASSUME TypeInv, pull' \in [Procs -> Pull],
         UNCHANGED <<row, stream, pel, zset, task, req, tick, used>>
  PROVE  TypeInv'
<1>1. TypeOK'
  BY DEF TypeInv, TypeOK
<1>2. LocalOK'
  BY DEF TypeInv, LocalOK
<1> QED
  BY <1>1, <1>2 DEF TypeInv

(* Every step of a worker process keeps the types.                         *)
LEMMA ProcTypes ==
  ASSUME TypeInv, NEW p \in Procs, PullStep(p) \/ Stop(p) \/ Crash(p)
  PROVE  TypeInv'
<1> USE DEF redis, workerRest
<1>0. /\ stream \in [Streams -> Seq(Msgs)] /\ pel \subseteq Msgs
      /\ pull \in [Procs -> Pull] /\ used \in Used /\ task \in [Tasks -> Task]
  BY DEF TypeInv, TypeOK
<1>1. /\ \A k \in 1..(NumStreams + 1) : [pull EXCEPT ![p].at = k] \in [Procs -> Pull]
      /\ [pull EXCEPT ![p].up = FALSE] \in [Procs -> Pull]
      /\ \A b \in BOOLEAN : [pull EXCEPT ![p] = [up |-> b, at |-> 1]] \in [Procs -> Pull]
      /\ 1 \in 1..(NumStreams + 1)
      /\ \A k \in Streams : k + 1 \in 1..(NumStreams + 1)
  <2>1. 1 \in 1..(NumStreams + 1)
    OBVIOUS
  <2>2. \A k \in Streams : k + 1 \in 1..(NumStreams + 1)
    BY DEF Streams
  <2> QED
    BY <1>0, <2>1, <2>2, Zenon DEF Pull
<1>2. CASE Probe(p)
  <2> DEFINE k == pull[p].at
  <2>1. k \in Streams
    BY <1>2 DEF Probe
  <2>2. CASE stream[k] # << >>
    <3>1. /\ Head(stream[k]) \in Msgs
          /\ [stream EXCEPT ![k] = Tail(@)] \in [Streams -> Seq(Msgs)]
      BY <1>0, <2>1, <2>2
    <3>2. /\ Spawn(p, Head(stream[k]))
          /\ stream' = [stream EXCEPT ![k] = Tail(@)]
          /\ pel' = pel \cup {Head(stream[k])}
          /\ pull' = [pull EXCEPT ![p].at = 1]
          /\ UNCHANGED <<row, zset, used, req, tick>>
      BY <1>2, <2>2 DEF Probe
    <3> QED
      BY <1>0, <1>1, <3>1, <3>2, SpawnWrite
  <2>3. CASE stream[k] = << >>
    BY <1>1, <1>2, <2>1, <2>3, PullWrite DEF Probe
  <2> QED
    BY <2>2, <2>3
<1>3. CASE BlockingRead(p)
  <2> DEFINE ready == {k \in Streams : stream[k] # << >>}
  <2>1. pull' \in [Procs -> Pull]
    BY <1>1, <1>3 DEF BlockingRead
  <2>2. ASSUME NEW first \in ready, Spawn(p, Head(stream[first])),
               stream' = [k \in Streams |-> IF k \in ready THEN Tail(stream[k])
                                                           ELSE stream[k]],
               pel' = pel \cup {Head(stream[k]) : k \in ready}
        PROVE  TypeInv'
    <3>1. \A k \in ready : Head(stream[k]) \in Msgs /\ Tail(stream[k]) \in Seq(Msgs)
      BY <1>0
    <3>2. stream' \in [Streams -> Seq(Msgs)] /\ pel' \subseteq Msgs
      BY <1>0, <2>2, <3>1
    <3>3. UNCHANGED <<row, zset, used, req, tick>>
      BY <1>3 DEF BlockingRead
    <3> HIDE DEF ready
    <3> QED
      BY <2>1, <2>2, <3>1, <3>2, <3>3, SpawnWrite
  <2>3. ASSUME UNCHANGED <<task, stream, pel>>
        PROVE  TypeInv'
    BY <1>3, <2>1, <2>3, PullWrite DEF BlockingRead
  <2> QED
    BY <1>3, <2>2, <2>3 DEF BlockingRead
<1>4. CASE Restart(p) \/ Stop(p)
  BY <1>1, <1>4, PullWrite DEF Restart, Stop
<1>5. CASE Crash(p)
  <2>1. IdleTask \in Task /\ IdleTask.pc = "idle" /\ IdleTask.msg = NoMsg
    BY DEF IdleTask, Task, TaskPc, Handoff
  <2>2. task' \in [Tasks -> Task]
    BY <1>0, <1>5, <2>1 DEF Crash
  <2>3. used' \in Used /\ pull' \in [Procs -> Pull]
    BY <1>0, <1>1, <1>5, UsedTypes DEF Crash
  <2>4. TypeOK'
    BY <1>5, <2>2, <2>3 DEF Crash, TypeInv, TypeOK
  <2>5. \A t \in Tasks : task'[t] = IdleTask \/ task'[t] = task[t]
    BY <1>5 DEF Crash
  <2>6. LocalOK'
    BY <1>5, <2>1, <2>5 DEF Crash, TypeInv, LocalOK
  <2> QED
    BY <2>4, <2>6 DEF TypeInv
<1> QED
  BY <1>2, <1>3, <1>4, <1>5 DEF PullStep

TickOK(q) ==
  /\ q \in Ticker
  /\ q.pc = "resync" => q.job \in Jobs
  /\ IF q.pc \in Reaping THEN q.msg \in Msgs /\ q.job = JobOf(q.msg)
                         ELSE q.msg = NoMsg

(* A step of the ticker that leaves a well-formed ticker stays well typed. *)
LEMMA TickWrite ==
  ASSUME TypeInv, TickOK(tick'),
         UNCHANGED <<pull, task, req>>,
         row' \in [Jobs -> Row],
         stream' \in [Streams -> Seq(Msgs)],
         pel' \subseteq Msgs,
         zset' \in [Jobs -> Handoff \ {"stream"}],
         used' \in Used
  PROVE  TypeInv'
<1>1. TypeOK'
  BY DEF TypeInv, TypeOK, TickOK
<1>2. LocalOK'
  BY DEF TypeInv, LocalOK, TickOK
<1> QED
  BY <1>1, <1>2 DEF TypeInv

(* The idle ticker, and one that starts a pass over the ids in S.          *)
LEMMA TickStart ==
  /\ TickOK(IdleTicker)
  /\ \A S \in SUBSET Jobs, f \in [Jobs -> Handoff], pc \in {"xadd", "reconcile"} :
       TickOK([IdleTicker EXCEPT !.pc = pc, !.ids = S, !.todo = f])
  /\ \A f \in [Jobs -> Handoff], pc \in {"xadd", "reconcile"} :
       TickOK([IdleTicker EXCEPT !.pc = pc, !.todo = f])
<1>1. /\ IdleTicker \in Ticker /\ IdleTicker.pc = "idle" /\ IdleTicker.msg = NoMsg
      /\ IdleTicker.job = NoJob
  BY DEF IdleTicker, Ticker, TickPc, Handoff
<1>2. TickOK(IdleTicker)
  BY <1>1 DEF TickOK, Reaping
<1>3. ASSUME NEW S \in SUBSET Jobs, NEW f \in [Jobs -> Handoff],
             NEW pc \in {"xadd", "reconcile"}
      PROVE  TickOK([IdleTicker EXCEPT !.pc = pc, !.ids = S, !.todo = f])
  BY <1>1 DEF TickOK, Reaping, Ticker, TickPc
<1>4. ASSUME NEW f \in [Jobs -> Handoff], NEW pc \in {"xadd", "reconcile"}
      PROVE  TickOK([IdleTicker EXCEPT !.pc = pc, !.todo = f])
  BY <1>1 DEF TickOK, Reaping, Ticker, TickPc
<1> QED
  BY <1>2, <1>3, <1>4

(* Every step of the ticker keeps the types.                               *)
LEMMA TickerTypes ==
  ASSUME TypeInv, TickerNext
  PROVE  TypeInv'
<1> USE DEF redis, tickRest
<1>0. /\ row \in [Jobs -> Row] /\ stream \in [Streams -> Seq(Msgs)]
      /\ pel \subseteq Msgs /\ zset \in [Jobs -> Handoff \ {"stream"}]
      /\ used \in Used /\ TickOK(tick)
  BY DEF TypeInv, TypeOK, LocalOK, TickOK
<1>1. /\ tick \in Ticker /\ tick.ids \subseteq Jobs /\ tick.todo \in [Jobs -> Handoff]
      /\ tick.h \in Handoff
      /\ tick.pc \in Reaping => /\ tick.msg \in Msgs /\ tick.job = JobOf(tick.msg)
                                /\ tick.job \in Jobs /\ row[tick.job] \in Row
      /\ tick.pc = "resync" => tick.job \in Jobs /\ row[tick.job] \in Row
  BY <1>0, MsgJob DEF TickOK, Ticker
<1>2. CASE StartPromote
  <2> DEFINE due == {j \in Jobs : zset[j] = "due"}
             f == [j \in Jobs |-> IF j \in due THEN "stream" ELSE "none"]
  <2>1. due \in SUBSET Jobs /\ f \in [Jobs -> Handoff]
    BY DEF Handoff
  <2>2. tick' = [IdleTicker EXCEPT !.pc = "xadd", !.ids = due, !.todo = f]
    BY <1>2 DEF StartPromote
  <2> HIDE DEF due, f
  <2>3. TickOK(tick')
    BY <2>1, <2>2, TickStart
  <2> QED
    BY <1>0, <1>2, <2>3, TickWrite DEF StartPromote
<1>3. CASE StartReconcile
  <2> DEFINE orphans == {j \in Jobs : IsUnsynced(row[j]) /\ PastGrace(j)}
             f == [j \in Jobs |-> IF j \in orphans THEN HandoffOf(row[j]) ELSE "none"]
  <2>1. f \in [Jobs -> Handoff]
    BY DEF Handoff, HandoffOf
  <2>2. tick' = [IdleTicker EXCEPT !.pc = "reconcile", !.todo = f]
    BY <1>3 DEF StartReconcile
  <2> HIDE DEF f
  <2>3. TickOK(tick')
    BY <2>1, <2>2, TickStart
  <2> QED
    BY <1>0, <1>3, <2>3, TickWrite DEF StartReconcile
<1>4. CASE StartReap
  <2>1. PICK m \in Msgs : ReapClaim(m)
    BY <1>4 DEF StartReap
  <2>2. IdleTicker \in Ticker
    BY TickStart DEF TickOK
  <2>3. TickOK([IdleTicker EXCEPT !.pc = "reap", !.msg = m, !.job = JobOf(m)])
    BY <2>2, MsgJob DEF TickOK, Reaping, Ticker, TickPc
  <2> QED
    BY <1>0, <2>1, <2>3, TickWrite DEF ReapClaim
<1>5. ASSUME NEW j \in Jobs, PromoteXadd(j)
      PROVE  TypeInv'
  <2> DEFINE f == [tick.todo EXCEPT ![j] = "none"]
             pc == IF Left = {j} THEN "zrem" ELSE "xadd"
  <2>1. f \in [Jobs -> Handoff] /\ pc \in {"zrem", "xadd"}
    BY <1>1 DEF Handoff
  <2>2. tick.pc = "xadd" /\ tick' = [tick EXCEPT !.todo = f, !.pc = pc]
    BY <1>5 DEF PromoteXadd
  <2> HIDE DEF f, pc
  <2>3. TickOK(tick')
    BY <1>0, <2>1, <2>2 DEF TickOK, Ticker, TickPc, Reaping
  <2>4. stream' \in [Streams -> Seq(Msgs)]
    BY <1>0, <1>5, EnqueueType DEF PromoteXadd
  <2> QED
    BY <1>0, <1>5, <2>3, <2>4, TickWrite DEF PromoteXadd
<1>6. CASE PromoteZrem
  <2>1. TickOK(tick')
    BY <1>0, <1>6 DEF PromoteZrem, TickOK, Ticker, TickPc, Reaping
  <2>2. zset' \in [Jobs -> Handoff \ {"stream"}]
    BY <1>0, <1>6 DEF PromoteZrem, Handoff
  <2> QED
    BY <1>0, <1>6, <2>1, <2>2, TickWrite DEF PromoteZrem
<1>7. CASE PromoteFlip
  <2>1. row' \in [Jobs -> Row]
    BY <1>0, <1>7, RowUpdates DEF PromoteFlip
  <2> QED
    BY <1>0, <1>7, <2>1, TickStart, TickWrite DEF PromoteFlip
<1>8. ASSUME NEW j \in Jobs, ReconcileHandoff(j)
      PROVE  TypeInv'
  <2> DEFINE f == [tick.todo EXCEPT ![j] = "none"]
  <2>1. f \in [Jobs -> Handoff] /\ tick.todo[j] \in Handoff
    BY <1>1 DEF Handoff
  <2>2. tick.pc = "reconcile" /\ tick' = [tick EXCEPT !.pc = "resync", !.job = j, !.todo = f]
    BY <1>8 DEF ReconcileHandoff
  <2> HIDE DEF f
  <2>3. TickOK(tick')
    BY <1>0, <2>1, <2>2 DEF TickOK, Ticker, TickPc, Reaping
  <2>4. /\ stream' \in [Streams -> Seq(Msgs)]
        /\ zset' \in [Jobs -> Handoff \ {"stream"}]
    BY <1>8, <2>1, HandOverType DEF ReconcileHandoff, TypeInv
  <2> QED
    BY <1>0, <1>8, <2>3, <2>4, TickWrite DEF ReconcileHandoff
<1>9. CASE ReconcileSync
  <2>1. row' \in [Jobs -> Row]
    BY <1>0, <1>1, <1>9, RowUpdates DEF ReconcileSync, Update
  <2>2. CASE tick' = IdleTicker
    BY <1>0, <1>9, <2>1, <2>2, TickStart, TickWrite DEF ReconcileSync
  <2>3. CASE tick' = [tick EXCEPT !.pc = "reconcile", !.job = NoJob]
    <3>1. TickOK(tick')
      BY <1>0, <1>9, <2>3 DEF ReconcileSync, TickOK, Ticker, TickPc, Reaping
    <3> QED
      BY <1>0, <1>9, <2>1, <3>1, TickWrite DEF ReconcileSync
  <2> QED
    BY <1>9, <2>2, <2>3 DEF ReconcileSync
<1>10. CASE ReapRead
  <2> DEFINE r == row[tick.job]
             pc == IF IsProcessing(r) THEN "retry"
                   ELSE IF IsUnsynced(r) THEN "handoff" ELSE "ack"
             att == IF IsProcessing(r) THEN r.attempts ELSE 0
             h == IF IsUnsynced(r) THEN HandoffOf(r) ELSE "none"
  <2>1. pc \in Reaping /\ pc \in TickPc /\ pc # "resync"
    BY DEF Reaping, TickPc
  <2>2. att \in Nat
    BY <1>1, <1>10 DEF ReapRead, Reaping, Row
  <2>3. h \in Handoff
    BY DEF Handoff, HandoffOf
  <2>4. tick.pc = "reap" /\ tick' = [tick EXCEPT !.pc = pc, !.att = att, !.h = h]
    BY <1>10 DEF ReapRead
  <2> HIDE DEF pc, att, h
  <2>5. TickOK(tick')
    BY <1>0, <2>1, <2>2, <2>3, <2>4 DEF TickOK, Ticker, Reaping
  <2> QED
    BY <1>0, <1>10, <2>5, TickWrite DEF ReapRead
<1>11. CASE ReapRetry
  <2> DEFINE won == IsProcessing(row[tick.job])
             r == RetryRow(tick.job, tick.att, row[tick.job])
             h == RetryHandoff(tick.job, tick.att)
             pc == IF won /\ h # "none" THEN "handoff" ELSE "ack"
             g == IF won THEN h ELSE "none"
  <2>1. pc \in Reaping /\ pc \in TickPc /\ pc # "resync" /\ g \in Handoff
    BY DEF Reaping, TickPc, Handoff, RetryHandoff
  <2>2. /\ tick.pc = "retry"
        /\ tick' = [tick EXCEPT !.pc = pc, !.h = g]
        /\ row' = [row EXCEPT ![tick.job] = IF won THEN r ELSE row[tick.job]]
    BY <1>11 DEF ReapRetry, Update
  <2>3. r \in Row
    BY <1>1, <2>2, RetryRowType DEF Reaping
  <2> HIDE DEF won, r, h, pc, g
  <2>4. TickOK(tick')
    BY <1>0, <2>1, <2>2 DEF TickOK, Ticker, Reaping
  <2>5. row' \in [Jobs -> Row]
    BY <1>0, <1>1, <2>2, <2>3
  <2> QED
    BY <1>0, <1>11, <2>4, <2>5, TickWrite DEF ReapRetry
<1>12. CASE ReapHandoff
  <2>1. TickOK(tick')
    BY <1>0, <1>12 DEF ReapHandoff, TickOK, Ticker, TickPc, Reaping
  <2>2. tick.pc \in Reaping
    BY <1>12 DEF ReapHandoff, Reaping
  <2>3. /\ stream' \in [Streams -> Seq(Msgs)]
        /\ zset' \in [Jobs -> Handoff \ {"stream"}]
    BY <1>1, <1>12, <2>2, HandOverType DEF ReapHandoff, TypeInv
  <2> QED
    BY <1>0, <1>12, <2>1, <2>3, TickWrite DEF ReapHandoff
<1>13. CASE ReapSync
  <2>1. TickOK(tick')
    BY <1>0, <1>13 DEF ReapSync, TickOK, Ticker, TickPc, Reaping
  <2>2. tick.pc \in Reaping
    BY <1>13 DEF ReapSync, Reaping
  <2>3. row' \in [Jobs -> Row]
    BY <1>0, <1>1, <1>13, <2>2, RowUpdates DEF ReapSync, Update
  <2> QED
    BY <1>0, <1>13, <2>1, <2>3, TickWrite DEF ReapSync
<1>14. CASE ReapAck
  BY <1>0, <1>14, TickStart, TickWrite DEF ReapAck, ack
<1>15. CASE TickerFail
  <2>1. used' \in Used
    BY <1>0, <1>15, UsedTypes DEF TickerFail
  <2> QED
    BY <1>0, <1>15, <2>1, TickStart, TickWrite DEF TickerFail
<1> QED
  BY <1>2, <1>3, <1>4, <1>5, <1>6, <1>7, <1>8, <1>9, <1>10, <1>11, <1>12, <1>13,
     <1>14, <1>15 DEF TickerNext, TickerStep

(* The passing of a scheduled_at changes no local state but the kind of    *)
(* ZSET entry a process is about to write.                                 *)
LEMMA ClockLocal ==
  ASSUME TypeInv, NEW j \in Jobs, ClockPasses(j)
  PROVE  /\ \A t \in Tasks : \E h \in Handoff : task'[t] = [task[t] EXCEPT !.h = h]
         /\ \A c \in Clients : \E h \in Handoff : req'[c] = [req[c] EXCEPT !.h = h]
         /\ \E h \in Handoff, f \in [Jobs -> Handoff] :
              tick' = [tick EXCEPT !.todo = f, !.h = h]
<1>0. task \in [Tasks -> Task] /\ req \in [Clients -> Req] /\ tick \in Ticker
  BY DEF TypeInv, TypeOK
<1>1. \A h \in Handoff : Passed(h) \in Handoff
  BY DEF Passed, Handoff
<1>2. ASSUME NEW t \in Tasks
      PROVE  \E h \in Handoff : task'[t] = [task[t] EXCEPT !.h = h]
  <2>1. task[t].h \in Handoff /\ task[t] = [task[t] EXCEPT !.h = task[t].h]
    BY <1>0 DEF Task
  <2>2. task'[t] = [task[t] EXCEPT !.h = Passed(task[t].h)] \/ task'[t] = task[t]
    BY DEF ClockPasses
  <2> QED
    BY <1>1, <2>1, <2>2
<1>3. ASSUME NEW c \in Clients
      PROVE  \E h \in Handoff : req'[c] = [req[c] EXCEPT !.h = h]
  <2>1. req[c].h \in Handoff /\ req[c] = [req[c] EXCEPT !.h = req[c].h]
    BY <1>0 DEF Req
  <2>2. req'[c] = [req[c] EXCEPT !.h = Passed(req[c].h)] \/ req'[c] = req[c]
    BY DEF ClockPasses
  <2> QED
    BY <1>1, <2>1, <2>2
<1>4. \E h \in Handoff, f \in [Jobs -> Handoff] : tick' = [tick EXCEPT !.todo = f, !.h = h]
  <2> DEFINE f == [tick.todo EXCEPT ![j] = Passed(tick.todo[j])]
             h == IF tick.job = j THEN Passed(tick.h) ELSE tick.h
  <2>1. f \in [Jobs -> Handoff] /\ h \in Handoff
    BY <1>0, <1>1 DEF Ticker
  <2>2. tick' = [tick EXCEPT !.todo = f, !.h = h]
    BY DEF ClockPasses
  <2> HIDE DEF f, h
  <2> QED
    BY <2>1, <2>2
<1> QED
  BY <1>2, <1>3, <1>4

(* The passing of a scheduled_at keeps the types.                          *)
LEMMA ClockTypes ==
  ASSUME TypeInv, NEW j \in Jobs, ClockPasses(j)
  PROVE  TypeInv'
<1>0. task \in [Tasks -> Task] /\ req \in [Clients -> Req] /\ TickOK(tick)
      /\ row \in [Jobs -> Row] /\ zset \in [Jobs -> Handoff \ {"stream"}]
  BY DEF TypeInv, TypeOK, LocalOK, TickOK
<1>1. ASSUME NEW t \in Tasks
      PROVE  /\ task'[t] \in Task /\ task'[t].pc = task[t].pc
             /\ task'[t].msg = task[t].msg
  <2>1. PICK h \in Handoff : task'[t] = [task[t] EXCEPT !.h = h]
    BY ClockLocal
  <2>2. task[t] \in Task
    BY <1>0
  <2> QED
    BY <2>1, <2>2 DEF Task
<1>2. ASSUME NEW c \in Clients
      PROVE  /\ req'[c] \in Req /\ req'[c].pc = req[c].pc
             /\ req'[c].job = req[c].job /\ req'[c].left = req[c].left
  <2>1. PICK h \in Handoff : req'[c] = [req[c] EXCEPT !.h = h]
    BY ClockLocal
  <2>2. req[c] \in Req
    BY <1>0
  <2> QED
    BY <2>1, <2>2 DEF Req
<1>3. TickOK(tick')
  BY <1>0, ClockLocal DEF TickOK, Ticker
<1>4. row' \in [Jobs -> Row]
  <2>1. row' = [row EXCEPT ![j] = [row[j] EXCEPT !.wait = FALSE]]
    BY DEF ClockPasses
  <2> QED
    BY <1>0, <2>1, RowUpdates
<1>5. zset' \in [Jobs -> Handoff \ {"stream"}]
  <2>1. Passed(zset[j]) \in Handoff \ {"stream"}
    BY <1>0 DEF Passed, Handoff
  <2> QED
    BY <1>0, <2>1 DEF ClockPasses
<1>6. task' \in [Tasks -> Task] /\ req' \in [Clients -> Req]
  BY <1>1, <1>2 DEF ClockPasses
<1>7. TypeOK'
  BY <1>3, <1>4, <1>5, <1>6 DEF ClockPasses, TypeInv, TypeOK, TickOK
<1>8. LocalOK'
  BY <1>1, <1>2, <1>3 DEF TypeInv, LocalOK, TickOK
<1> QED
  BY <1>7, <1>8 DEF TypeInv

(* The initial state is well typed.                                        *)
LEMMA InitTypes == Init => TypeInv
<1> SUFFICES ASSUME Init PROVE TypeInv
  OBVIOUS
<1>1. NoRow \in Row
  BY DEF NoRow, Row, Status
<1>2. IdleTask \in Task /\ IdleTask.pc = "idle" /\ IdleTask.msg = NoMsg
  BY DEF IdleTask, Task, TaskPc, Handoff
<1>3. IdleReq \in Req /\ IdleReq.pc = "idle"
  BY DEF IdleReq, Req, ReqPc, Handoff, Status
<1>4. [up |-> TRUE, at |-> 1] \in Pull
  <2>1. 1 \in 1..(NumStreams + 1)
    OBVIOUS
  <2> QED
    BY <2>1, Zenon DEF Pull
<1>5. [crashes |-> 0, retries |-> 0] \in Used
  <2>1. 0 \in 0..MaxCrashes /\ 0 \in 0..MaxRetries
    OBVIOUS
  <2> QED
    BY <2>1, Zenon DEF Used
<1>6. TypeOK
  <2>1. stream \in [Streams -> Seq(Msgs)] /\ pel \subseteq Msgs
    BY DEF Init
  <2>2. row \in [Jobs -> Row] /\ zset \in [Jobs -> Handoff \ {"stream"}]
    BY <1>1 DEF Init, Handoff
  <2>3. /\ pull \in [Procs -> Pull] /\ task \in [Tasks -> Task]
        /\ req \in [Clients -> Req] /\ tick \in Ticker /\ used \in Used
    BY <1>2, <1>3, <1>4, <1>5, TickStart, Zenon DEF Init, TickOK
  <2> QED
    BY <2>1, <2>2, <2>3 DEF TypeOK
<1>7. LocalOK
  BY <1>2, <1>3, TickStart DEF Init, LocalOK, TickOK
<1> QED
  BY <1>6, <1>7 DEF TypeInv

(* TypeInv is inductive.                                                   *)
LEMMA NextTypes == TypeInv /\ [Next]_vars => TypeInv'
<1> SUFFICES ASSUME TypeInv, [Next]_vars PROVE TypeInv'
  OBVIOUS
<1>1. CASE ApiNext
  BY <1>1, ApiTypes DEF ApiNext
<1>2. CASE WorkerNext
  BY <1>2, ProcTypes, TaskStepTypes DEF WorkerNext
<1>3. CASE TickerNext
  BY <1>3, TickerTypes
<1>4. CASE \E j \in Jobs : ClockPasses(j)
  BY <1>4, ClockTypes
<1>5. CASE UNCHANGED vars
  BY <1>5 DEF vars, TypeInv, TypeOK, LocalOK
<1> QED
  BY <1>1, <1>2, <1>3, <1>4, <1>5 DEF Next

(* Every variable keeps its type, and every process that is in the middle  *)
(* of its work knows its job and its message, for every configuration.     *)
THEOREM TypesHold == Spec => []TypeInv
<1> QED
  BY InitTypes, NextTypes, PTL DEF Spec

(* The run of the type invariant, for every value of the constants.        *)
THEOREM TypeCorrect == Spec => []TypeOK
<1>1. TypeInv => TypeOK
  BY DEF TypeInv
<1> QED
  BY <1>1, TypesHold, PTL

-----------------------------------------------------------------------------
(***************************************************************************)
(* A final status is final.                                                *)
(***************************************************************************)
(* No row leaves a final status.                                           *)
FinalKept == \A i \in Jobs : row[i].status \in Final => row'[i].status = row[i].status

(* A write of one row that keeps its status, or finds it not final.        *)
LEMMA RowFinal ==
  ASSUME TypeInv, NEW j \in Jobs, NEW r, row' = [row EXCEPT ![j] = r],
         r.status = row[j].status \/ row[j].status \notin Final
  PROVE  FinalKept
<1>1. row \in [Jobs -> Row]
  BY DEF TypeInv, TypeOK
<1> QED
  BY <1>1 DEF FinalKept

(* The writes of repository.py that leave the status alone.                *)
LEMMA SameStatus ==
  ASSUME NEW r \in Row
  PROVE  /\ mark_synced(r).status = r.status
         /\ request_cancel(r).status = r.status
         /\ [r EXCEPT !.wait = FALSE].status = r.status
BY DEF mark_synced, request_cancel, Row

(* Rows that wait to run or are being processed are not final.             *)
LEMMA NotFinal ==
  ASSUME NEW r
  PROVE  /\ CanClaim(r) \/ CanCancel(r) \/ IsProcessing(r) => r.status \notin Final
         /\ r.status = "absent" => r.status \notin Final
BY DEF CanClaim, CanCancel, IsProcessing, Waiting, Final

(* The API leaves a final status only by a manual retry.                   *)
LEMMA ApiFinal ==
  ASSUME TypeInv, NEW c \in Clients, ApiCall(c) \/ ApiStep(c) \/ ApiCrash(c)
  PROVE  FinalStep
<1>0. row \in [Jobs -> Row]
  BY DEF TypeInv, TypeOK
<1>a. FinalKept => FinalStep
  BY DEF FinalKept, FinalStep
<1>1. ASSUME NEW j \in Jobs, NEW h, submit_job(c, j, h)
      PROVE  FinalStep
  BY <1>a, <1>1, NotFinal, RowFinal DEF submit_job, Update
<1>2. ASSUME NEW j \in Jobs, retry_job(c, j)
      PROVE  FinalStep
  <2>1. row' = [row EXCEPT ![j] = reset_failed_to_pending(row[j])]
    BY <1>2 DEF retry_job, Update
  <2>2. row[j].status = "failed" /\ ~row[j].cancelReq
    BY <1>2 DEF retry_job, CanReset
  <2>3. \A i \in Jobs : i # j => row'[i] = row[i]
    BY <1>0, <2>1
  <2> QED
    BY <1>2, <2>2, <2>3 DEF FinalStep
<1>3. CASE ApiSync(c)
  <2>1. req[c].job \in Jobs /\ row[req[c].job] \in Row
    BY <1>3, ReqTypes DEF ApiSync
  <2>2. mark_synced(row[req[c].job]).status = row[req[c].job].status
    BY <2>1, SameStatus
  <2> QED
    BY <1>a, <1>3, <2>1, <2>2, RowFinal DEF ApiSync, Update
<1>4. CASE CancelWaiting(c)
  <2>1. req[c].job \in Jobs /\ row[req[c].job] \in Row
    BY <1>4, ReqTypes DEF CancelWaiting
  <2>2. \/ row' = row
        \/ /\ row' = [row EXCEPT ![req[c].job] =
                        cancel_pending_or_scheduled(row[req[c].job])]
           /\ CanCancel(row[req[c].job])
    BY <1>4 DEF CancelWaiting, Update
  <2>3. CanCancel(row[req[c].job]) => row[req[c].job].status \notin Final
    BY NotFinal
  <2>4. FinalKept
    BY <2>1, <2>2, <2>3, RowFinal DEF FinalKept
  <2> QED
    BY <1>a, <2>4
<1>5. CASE CancelRunning(c)
  <2>1. req[c].job \in Jobs /\ row[req[c].job] \in Row
    BY <1>5, ReqTypes DEF CancelRunning
  <2>2. \/ row' = row
        \/ row' = [row EXCEPT ![req[c].job] = request_cancel(row[req[c].job])]
    BY <1>5 DEF CancelRunning, Update
  <2>3. request_cancel(row[req[c].job]).status = row[req[c].job].status
    BY <2>1, SameStatus
  <2>4. FinalKept
    BY <2>1, <2>2, <2>3, RowFinal DEF FinalKept
  <2> QED
    BY <1>a, <2>4
<1>6. CASE UNCHANGED row
  BY <1>a, <1>6 DEF FinalKept
<1> QED
  BY <1>1, <1>2, <1>3, <1>4, <1>5, <1>6
     DEF ApiCall, ApiStep, ApiCrash, cancel_job_route, ApiHandoff, CancelZrem,
         CancelRead, CancelAnswer

(* The end of an attempt writes a row that is being processed, or none.    *)
LEMMA FinishFinal ==
  ASSUME TypeInv, NEW t \in Tasks, task[t].pc # "idle", NEW r, Finish(t, r)
  PROVE  FinalKept
<1>1. MyJob(t) \in Jobs /\ row \in [Jobs -> Row]
  BY TaskTypes DEF TypeInv, TypeOK
<1>2. CASE IsProcessing(row[MyJob(t)])
  BY <1>1, <1>2, NotFinal, RowFinal DEF Finish, Update
<1>3. CASE ~IsProcessing(row[MyJob(t)])
  BY <1>1, <1>3 DEF Finish, Update, FinalKept
<1> QED
  BY <1>2, <1>3

(* A task never leaves a final status, however late it is.                 *)
LEMMA TaskFinal ==
  ASSUME TypeInv, NEW t \in Tasks, TaskStep(t)
  PROVE  FinalKept
<1>1. task[t].pc # "idle"
  BY DEF TaskStep, Claim, Load, DropOwnerless, Complete, Reject, RetryOrFail,
         TaskHandoff, TaskSync, PollCancelled, CancelJob, Ack
<1>2. MyJob(t) \in Jobs /\ row[MyJob(t)] \in Row
  BY <1>1, TaskTypes
<1>3. CASE Claim(t)
  <2>1. \/ row' = row
        \/ /\ CanClaim(row[MyJob(t)])
           /\ row' = [row EXCEPT ![MyJob(t)] = claim_job(row[MyJob(t)])]
    BY <1>3 DEF Claim, Update
  <2>2. CanClaim(row[MyJob(t)]) => row[MyJob(t)].status \notin Final
    BY NotFinal
  <2> QED
    BY <1>2, <2>1, <2>2, RowFinal DEF FinalKept
<1>4. CASE DropOwnerless(t) \/ Complete(t) \/ Reject(t) \/ CancelJob(t)
  BY <1>1, <1>4, FinishFinal DEF DropOwnerless, Complete, Reject, CancelJob
<1>5. CASE RetryOrFail(t)
  <2> DEFINE r == RetryRow(MyJob(t), task[t].att, row[MyJob(t)])
  <2>1. \/ Finish(t, r)
        \/ IsProcessing(row[MyJob(t)]) /\ row' = [row EXCEPT ![MyJob(t)] = r]
    BY <1>5 DEF RetryOrFail, Update
  <2> HIDE DEF r
  <2> QED
    BY <1>1, <1>2, <2>1, FinishFinal, NotFinal, RowFinal
<1>6. CASE TaskSync(t)
  <2>1. mark_synced(row[MyJob(t)]).status = row[MyJob(t)].status
    BY <1>2, SameStatus
  <2> QED
    BY <1>2, <1>6, <2>1, RowFinal DEF TaskSync, Update
<1>7. CASE UNCHANGED row
  BY <1>7 DEF FinalKept
<1> QED
  BY <1>3, <1>4, <1>5, <1>6, <1>7 DEF TaskStep, Load, TaskHandoff, PollCancelled, Ack

(* Neither does the ticker, however old what it has read.                  *)
LEMMA TickerFinal ==
  ASSUME TypeInv, TickerNext
  PROVE  FinalKept
<1>0. row \in [Jobs -> Row]
  BY DEF TypeInv, TypeOK
<1>1. /\ tick.pc \in Reaping => tick.job \in Jobs /\ row[tick.job] \in Row
      /\ tick.pc = "resync" => tick.job \in Jobs /\ row[tick.job] \in Row
  BY MsgJob DEF TypeInv, TypeOK, LocalOK
<1>2. CASE PromoteFlip
  <2> SUFFICES ASSUME NEW i \in Jobs, row[i].status \in Final
               PROVE  row'[i].status = row[i].status
    BY DEF FinalKept
  <2>1. row[i].status # "scheduled" /\ row[i] \in Row
    BY <1>0 DEF Final
  <2>2. promote_scheduled_to_pending(row[i]).status = row[i].status
    BY <2>1 DEF promote_scheduled_to_pending, Row
  <2> QED
    BY <1>2, <2>2 DEF PromoteFlip
<1>3. CASE ReconcileSync \/ ReapSync
  <2>1. /\ tick.job \in Jobs
        /\ row' = [row EXCEPT ![tick.job] = mark_synced(row[tick.job])]
        /\ mark_synced(row[tick.job]).status = row[tick.job].status
    BY <1>1, <1>3, SameStatus DEF ReconcileSync, ReapSync, Update, Reaping
  <2> QED
    BY <2>1, RowFinal
<1>4. CASE ReapRetry
  <2> DEFINE r == RetryRow(tick.job, tick.att, row[tick.job])
  <2>1. /\ tick.job \in Jobs
        /\ row' = [row EXCEPT ![tick.job] = IF IsProcessing(row[tick.job])
                                            THEN r ELSE row[tick.job]]
    BY <1>1, <1>4 DEF ReapRetry, Update, Reaping
  <2> HIDE DEF r
  <2>2. CASE IsProcessing(row[tick.job])
    BY <2>1, <2>2, NotFinal, RowFinal
  <2>3. CASE ~IsProcessing(row[tick.job])
    BY <1>0, <2>1, <2>3 DEF FinalKept
  <2> QED
    BY <2>2, <2>3
<1>5. CASE UNCHANGED row
  BY <1>5 DEF FinalKept
<1> QED
  BY <1>2, <1>3, <1>4, <1>5
     DEF TickerNext, TickerStep, StartPromote, StartReconcile, StartReap, ReapClaim,
         PromoteXadd, ReconcileHandoff, PromoteZrem, ReapRead, ReapHandoff, ReapAck,
         TickerFail

(* No step takes a row out of a final status, except the manual retry of a *)
(* failed job whose cancellation nobody asked for: for every configuration *)
(* and with no assumption on the speed of any process.                     *)
THEOREM FinalStaysFinal == Spec => FinalIsFinal
<1>1. TypeInv /\ [Next]_vars => [FinalStep]_vars
  <2> SUFFICES ASSUME TypeInv, Next PROVE FinalStep
    OBVIOUS
  <2>0. FinalKept => FinalStep
    BY DEF FinalKept, FinalStep
  <2>1. CASE ApiNext
    BY <2>1, ApiFinal DEF ApiNext
  <2>2. CASE \E t \in Tasks : TaskStep(t)
    BY <2>0, <2>2, TaskFinal
  <2>3. CASE \E p \in Procs : PullStep(p) \/ Stop(p) \/ Crash(p)
    <3>1. UNCHANGED row
      BY <2>3 DEF PullStep, Probe, BlockingRead, Restart, Stop, Crash
    <3> QED
      BY <2>0, <3>1 DEF FinalKept
  <2>4. CASE TickerNext
    BY <2>0, <2>4, TickerFinal
  <2>5. CASE \E j \in Jobs : ClockPasses(j)
    <3>1. PICK j \in Jobs : ClockPasses(j)
      BY <2>5
    <3>2. /\ row' = [row EXCEPT ![j] = [row[j] EXCEPT !.wait = FALSE]]
          /\ row[j] \in Row
      BY <3>1 DEF ClockPasses, TypeInv, TypeOK
    <3>3. [row[j] EXCEPT !.wait = FALSE].status = row[j].status
      BY <3>2, SameStatus
    <3> QED
      BY <2>0, <3>2, <3>3, RowFinal
  <2> QED
    BY <2>1, <2>2, <2>3, <2>4, <2>5 DEF Next, WorkerNext
<1> QED
  BY <1>1, TypesHold, PTL DEF Spec, FinalIsFinal
=============================================================================
