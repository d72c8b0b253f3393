------------------------------ MODULE RunProofs ------------------------------
(***************************************************************************)
(* A claimed job can always be recovered (LeaseReapable), whatever         *)
(* crashes, as long as live tasks outrun the visibility timeout (Timely):  *)
(* that part comes first, and says who may know a message.                 *)
(*                                                                         *)
(* A job runs in one task at a time, keeps to its attempts, and moves      *)
(* through its statuses as JobLifecycle says, for every number of jobs,    *)
(* workers, slots, requests, attempts and crashes and every backoff.  The  *)
(* rows carry no lease and no attempt number: what keeps two workers and   *)
(* the reaper apart is that exactly one pending message stands for the     *)
(* attempt of a row, as long as no message is left in the pending entries  *)
(* list without an attempt.  CleanDeaths and OneDelivered say when.        *)
(***************************************************************************)
EXTENDS TypeProofs

(***************************************************************************)
(* Who may know a message: it is undelivered, or pending and then in the   *)
(* hands of one task or of the reaper.                                     *)
(***************************************************************************)
(* No two undelivered entries are the same, and none is already pending.   *)
StreamsDistinct ==
  /\ \A k, l \in Streams : \A i \in 1..Len(stream[k]), n \in 1..Len(stream[l]) :
       stream[k][i] = stream[l][n] => k = l /\ i = n
  /\ \A k \in Streams : \A i \in 1..Len(stream[k]) : stream[k][i] \notin pel

(* A message in the hands of a task or of the reaper is pending.           *)
HeldIsPending ==
  /\ \A t \in Tasks : task[t].pc # "idle" => task[t].msg \in pel
  /\ tick.pc \in Reaping => tick.msg \in pel

(* A pending message is in the hands of one process at most.               *)
HeldOnce ==
  /\ \A t, u \in Tasks : t # u /\ task[t].pc # "idle" => task[t].msg # task[u].msg
  /\ \A t \in Tasks : task[t].pc # "idle" => task[t].msg # tick.msg

LeaseInv == TypeInv /\ StreamsDistinct /\ HeldIsPending /\ HeldOnce /\ LeaseReapable

(* Only claim_job makes a row one that is being processed.                 *)
LEMMA RowStatus ==
  ASSUME NEW r \in Row
  PROVE  /\ \A h : ~IsProcessing(create_job(h))
         /\ ~IsProcessing(complete_job(r))
         /\ ~IsProcessing(fail_job(r))
         /\ ~IsProcessing(cancel_job(r))
         /\ ~IsProcessing(retry_to_pending(r))
         /\ ~IsProcessing(retry_to_scheduled(r))
         /\ ~IsProcessing(reset_failed_to_pending(r))
         /\ ~IsProcessing(cancel_pending_or_scheduled(r))
         /\ \A j, att : ~IsProcessing(RetryRow(j, att, r))
         /\ IsProcessing(promote_scheduled_to_pending(r)) => IsProcessing(r)
         /\ IsProcessing(mark_synced(r)) => IsProcessing(r)
         /\ IsProcessing(request_cancel(r)) => IsProcessing(r)
         /\ IsProcessing([r EXCEPT !.wait = FALSE]) => IsProcessing(r)
BY DEF IsProcessing, Row, NoRow, create_job, complete_job, fail_job, cancel_job,
       retry_to_pending, retry_to_scheduled, reset_failed_to_pending,
       cancel_pending_or_scheduled, RetryRow, promote_scheduled_to_pending,
       mark_synced, request_cancel

(* A claim survives a step that claims nothing and leaves the messages     *)
(* that protect claims in place.                                           *)
LEMMA LeaseKept ==
  ASSUME LeaseReapable,
         \A j \in Jobs : IsProcessing(row'[j]) => IsProcessing(row[j]),
         \A m \in Msgs : Protects(m) /\ IsProcessing(row'[JobOf(m)]) => Protects(m)'
  PROVE  LeaseReapable'
<1> SUFFICES ASSUME NEW j \in Jobs, IsProcessing(row'[j])
             PROVE  \E m \in {j} \X Copies : Protects(m)'
  BY DEF LeaseReapable, IsProcessing
<1>1. PICK m \in {j} \X Copies : Protects(m)
  BY DEF LeaseReapable
<1>2. m \in Msgs /\ JobOf(m) = j
  BY DEF Msgs, JobOf
<1> QED
  BY <1>1, <1>2

(* A step in which no process takes a message, and only messages nobody    *)
(* holds any longer leave the pending entries list.                        *)
LEMMA HeldKept ==
  ASSUME HeldIsPending, HeldOnce, TypeInv, TypeInv',
         \A t \in Tasks : \/ task'[t].pc = "idle"
                          \/ task'[t].msg = task[t].msg /\ task[t].pc # "idle",
         tick'.msg = NoMsg \/ tick'.msg = tick.msg,
         \A m \in pel : m \in pel' \/ (tick'.msg # m /\ \A t \in Tasks : task'[t].msg # m)
  PROVE  HeldIsPending' /\ HeldOnce'
<1>1. \A t \in Tasks : IF task'[t].pc = "idle" THEN task'[t].msg = NoMsg
                                               ELSE task'[t].msg \in Msgs
  BY DEF TypeInv, LocalOK
<1>2. IF tick'.pc \in Reaping THEN tick'.msg \in Msgs ELSE tick'.msg = NoMsg
  BY DEF TypeInv, LocalOK
<1>3. IF tick.pc \in Reaping THEN tick.msg \in Msgs ELSE tick.msg = NoMsg
  BY DEF TypeInv, LocalOK
<1>4. NoMsg \notin Msgs
  BY StoreAssumption DEF Msgs
<1>5. HeldIsPending'
  BY <1>1, <1>2, <1>3, <1>4 DEF HeldIsPending
<1>6. HeldOnce'
  BY <1>1, <1>2, <1>3, <1>4 DEF HeldOnce, HeldIsPending
<1> QED
  BY <1>5, <1>6

(* A step that touches no message: nothing is read, claimed, reaped or     *)
(* acknowledged.                                                           *)
LEMMA Quiet ==
  ASSUME LeaseInv, TypeInv', StreamsDistinct', pel' = pel,
         \A t \in Tasks : task'[t].pc = task[t].pc /\ task'[t].msg = task[t].msg,
         tick'.msg = tick.msg,
         tick.pc \in Reaping => tick'.pc = tick.pc,
         \A j \in Jobs : IsProcessing(row'[j]) => IsProcessing(row[j])
  PROVE  LeaseInv'
<1>1. HeldIsPending' /\ HeldOnce'
  <2>1. \A t \in Tasks : \/ task'[t].pc = "idle"
                         \/ task'[t].msg = task[t].msg /\ task[t].pc # "idle"
    OBVIOUS
  <2> QED
    BY <2>1, HeldKept DEF LeaseInv
<1>2. LeaseReapable'
  <2>1. ASSUME NEW m \in Msgs, Protects(m)
        PROVE  Protects(m)'
    <3>1. tick.msg = m => tick.pc \in Reaping
      BY StoreAssumption DEF LeaseInv, TypeInv, LocalOK, Msgs
    <3> QED
      BY <2>1, <3>1 DEF Protects
  <2> QED
    BY <2>1, LeaseKept DEF LeaseInv
<1> QED
  BY <1>1, <1>2 DEF LeaseInv

(* An XADD of an unused message keeps the entries distinct.                *)
LEMMA EnqueueDistinct ==
  ASSUME TypeInv, StreamsDistinct, NEW j \in Jobs, enqueue(j), pel' = pel
  PROVE  StreamsDistinct'
<1>0. stream \in [Streams -> Seq(Msgs)]
  BY DEF TypeInv, TypeOK
<1>1. PICK m \in Msgs :
        /\ Unused(m)
        /\ stream' = [stream EXCEPT ![StreamOf[j]] = Append(@, m)]
  BY <1>0, EnqueueType
<1>2. /\ m \notin pel
      /\ \A k \in Streams : \A i \in 1..Len(stream[k]) : stream[k][i] # m
  BY <1>0, <1>1 DEF Unused, Undelivered
<1> DEFINE s == StreamOf[j]
           n == Len(stream[s]) + 1
<1>3. s \in Streams
  BY StoreAssumption DEF Streams
<1>4. /\ Len(stream'[s]) = n
      /\ stream'[s][n] = m
      /\ \A i \in 1..n : i # n => i \in 1..Len(stream[s]) /\ stream'[s][i] = stream[s][i]
      /\ \A k \in Streams : k # s => stream'[k] = stream[k]
  BY <1>0, <1>1, <1>3
<1>5. \A k \in Streams : \A i \in 1..Len(stream'[k]) :
        \/ k = s /\ i = n /\ stream'[k][i] = m
        \/ i \in 1..Len(stream[k]) /\ stream'[k][i] = stream[k][i]
  BY <1>4
<1> HIDE DEF s, n
<1>6. \A k \in Streams : \A i \in 1..Len(stream'[k]) : stream'[k][i] \notin pel'
  BY <1>2, <1>5 DEF StreamsDistinct
<1>7. ASSUME NEW k \in Streams, NEW l \in Streams,
             NEW a \in 1..Len(stream'[k]), NEW b \in 1..Len(stream'[l]),
             stream'[k][a] = stream'[l][b]
      PROVE  k = l /\ a = b
  <2>1. CASE a \in 1..Len(stream[k]) /\ stream'[k][a] = stream[k][a]
    <3>1. CASE b \in 1..Len(stream[l]) /\ stream'[l][b] = stream[l][b]
      <4>1. stream[k][a] = stream[l][b]
        BY <1>7, <2>1, <3>1
      <4> QED
        BY <2>1, <3>1, <4>1 DEF StreamsDistinct
    <3>2. CASE l = s /\ b = n /\ stream'[l][b] = m
      BY <1>2, <1>7, <2>1, <3>2
    <3> QED
      BY <1>5, <3>1, <3>2
  <2>2. CASE k = s /\ a = n /\ stream'[k][a] = m
    BY <1>2, <1>5, <1>7, <2>2
  <2> QED
    BY <1>5, <2>1, <2>2
<1> QED
  BY <1>6, <1>7 DEF StreamsDistinct

(* So does a handoff, to the stream or to the ZSET.                        *)
LEMMA HandOverDistinct ==
  ASSUME TypeInv, StreamsDistinct, NEW j \in Jobs, NEW h, HandOver(j, h), pel' = pel
  PROVE  StreamsDistinct'
<1>1. CASE enqueue(j)
  BY <1>1, EnqueueDistinct
<1>2. CASE UNCHANGED stream
  BY <1>2 DEF StreamsDistinct
<1> QED
  BY <1>1, <1>2 DEF HandOver

(* A step that appends at most an unused entry and writes at most one row, *)
(* which it does not claim.                                                *)
LEMMA RowWrite ==
  ASSUME TypeInv, NEW j \in Jobs, NEW r, row' = [row EXCEPT ![j] = r],
         IsProcessing(r) => IsProcessing(row[j])
  PROVE  \A i \in Jobs : IsProcessing(row'[i]) => IsProcessing(row[i])
<1>1. row \in [Jobs -> Row]
  BY DEF TypeInv, TypeOK
<1> QED
  BY <1>1

(* Requests touch no message and claim no row.                             *)
LEMMA ApiLease ==
  ASSUME LeaseInv, NEW c \in Clients, ApiCall(c) \/ ApiStep(c) \/ ApiCrash(c)
  PROVE  LeaseInv'
<1> USE DEF apiRest
<1>0. TypeInv /\ StreamsDistinct /\ TypeInv'
  BY ApiTypes DEF LeaseInv
<1>1. UNCHANGED <<pel, task, tick>>
  BY DEF ApiCall, ApiStep, ApiCrash, submit_job, retry_job, cancel_job_route,
         ApiHandoff, ApiSync, CancelWaiting, CancelZrem, CancelRunning, CancelRead,
         CancelAnswer
<1>2. StreamsDistinct'
  <2>1. CASE ApiHandoff(c)
    <3>1. req[c].job \in Jobs
      BY <1>0, <2>1, ReqTypes DEF ApiHandoff
    <3> QED
      BY <1>0, <1>1, <2>1, <3>1, HandOverDistinct DEF ApiHandoff
  <2>2. CASE UNCHANGED stream
    BY <1>0, <1>1, <2>2 DEF StreamsDistinct
  <2> QED
    BY <2>1, <2>2
       DEF ApiCall, ApiStep, ApiCrash, submit_job, retry_job, cancel_job_route,
           ApiSync, CancelWaiting, CancelZrem, CancelRunning, CancelRead, CancelAnswer
<1>3. \A j \in Jobs : IsProcessing(row'[j]) => IsProcessing(row[j])
  <2>0. row \in [Jobs -> Row]
    BY <1>0 DEF TypeInv, TypeOK
  <2>1. ASSUME NEW j \in Jobs, NEW h, submit_job(c, j, h)
        PROVE  \A i \in Jobs : IsProcessing(row'[i]) => IsProcessing(row[i])
    <3>1. row' = [row EXCEPT ![j] = create_job(h)]
      BY <2>1 DEF submit_job, Update
    <3> QED
      BY <1>0, <2>0, <3>1, RowStatus, RowWrite
  <2>2. ASSUME NEW j \in Jobs, retry_job(c, j)
        PROVE  \A i \in Jobs : IsProcessing(row'[i]) => IsProcessing(row[i])
    <3>1. row' = [row EXCEPT ![j] = reset_failed_to_pending(row[j])]
      BY <2>2 DEF retry_job, Update
    <3> QED
      BY <1>0, <2>0, <3>1, RowStatus, RowWrite
  <2>3. CASE ApiSync(c)
    <3>1. req[c].job \in Jobs /\ row[req[c].job] \in Row
      BY <1>0, <2>3, ReqTypes DEF ApiSync
    <3>2. row' = [row EXCEPT ![req[c].job] = mark_synced(row[req[c].job])]
      BY <2>3 DEF ApiSync, Update
    <3>3. IsProcessing(mark_synced(row[req[c].job])) => IsProcessing(row[req[c].job])
      BY <3>1, RowStatus
    <3> QED
      BY <1>0, <3>1, <3>2, <3>3, RowWrite
  <2>4. CASE CancelWaiting(c)
    <3>1. req[c].job \in Jobs /\ row[req[c].job] \in Row
      BY <1>0, <2>4, ReqTypes DEF CancelWaiting
    <3>2. \/ row' = row
          \/ row' = [row EXCEPT ![req[c].job] =
                       cancel_pending_or_scheduled(row[req[c].job])]
      BY <2>4 DEF CancelWaiting, Update
    <3>3. IsProcessing(cancel_pending_or_scheduled(row[req[c].job])) => IsProcessing(row[req[c].job])
      BY <3>1, RowStatus
    <3> QED
      BY <1>0, <3>1, <3>2, <3>3, RowWrite
  <2>5. CASE CancelRunning(c)
    <3>1. req[c].job \in Jobs /\ row[req[c].job] \in Row
      BY <1>0, <2>5, ReqTypes DEF CancelRunning
    <3>2. \/ row' = row
          \/ row' = [row EXCEPT ![req[c].job] = request_cancel(row[req[c].job])]
      BY <2>5 DEF CancelRunning, Update
    <3>3. IsProcessing(request_cancel(row[req[c].job])) => IsProcessing(row[req[c].job])
      BY <3>1, RowStatus
    <3> QED
      BY <1>0, <3>1, <3>2, <3>3, RowWrite
  <2>6. CASE UNCHANGED row
    BY <2>6
  <2> QED
    BY <2>1, <2>2, <2>3, <2>4, <2>5, <2>6
       DEF ApiCall, ApiStep, ApiCrash, cancel_job_route, ApiHandoff, CancelZrem,
           CancelRead, CancelAnswer
<1> QED
  BY <1>0, <1>1, <1>2, <1>3, Quiet

(* Nor does the clock.                                                     *)
LEMMA ClockLease ==
  ASSUME LeaseInv, NEW j \in Jobs, ClockPasses(j)
  PROVE  LeaseInv'
<1>0. TypeInv /\ StreamsDistinct /\ TypeInv'
  BY ClockTypes DEF LeaseInv
<1>1. pel' = pel /\ stream' = stream
  BY DEF ClockPasses
<1>2. StreamsDistinct'
  BY <1>0, <1>1 DEF StreamsDistinct
<1>3. ASSUME NEW t \in Tasks
      PROVE  task'[t].pc = task[t].pc /\ task'[t].msg = task[t].msg
  <2>1. PICK h \in Handoff : task'[t] = [task[t] EXCEPT !.h = h]
    BY <1>0, ClockLocal
  <2>2. task[t] \in Task
    BY <1>0 DEF TypeInv, TypeOK
  <2> QED
    BY <2>1, <2>2 DEF Task
<1>4. tick'.msg = tick.msg /\ tick'.pc = tick.pc
  <2>1. tick \in Ticker
    BY <1>0 DEF TypeInv, TypeOK
  <2> QED
    BY <1>0, <2>1, ClockLocal DEF Ticker
<1>5. \A i \in Jobs : IsProcessing(row'[i]) => IsProcessing(row[i])
  <2>1. row[j] \in Row /\ row' = [row EXCEPT ![j] = [row[j] EXCEPT !.wait = FALSE]]
    BY <1>0 DEF ClockPasses, TypeInv, TypeOK
  <2> QED
    BY <1>0, <2>1, RowStatus, RowWrite
<1> QED
  BY <1>0, <1>1, <1>2, <1>3, <1>4, <1>5, Quiet

InHand == {"load", "run", "cancel"}

(* A step of a task that keeps or drops its message.  When the message     *)
(* stops protecting a claim, the row is no longer being processed.         *)
LEMMA TaskKept ==
  ASSUME LeaseInv, TypeInv', StreamsDistinct', NEW t \in Tasks, NEW u,
         task[t].pc # "idle",
         task' = [task EXCEPT ![t] = u],
         u.pc = "idle" \/ u.msg = task[t].msg,
         pel' = pel, tick' = tick,
         \A j \in Jobs : IsProcessing(row'[j]) => IsProcessing(row[j]),
         \/ u.pc \in InHand \cup {"idle"}
         \/ task[t].pc \notin InHand
         \/ ~IsProcessing(row'[MyJob(t)])
  PROVE  LeaseInv'
<1>0. TypeInv /\ LeaseReapable
  BY DEF LeaseInv
<1>1. \A d \in Tasks : task'[d] = IF d = t THEN u ELSE task[d]
  BY <1>0 DEF TypeInv, TypeOK
<1>2. HeldIsPending' /\ HeldOnce'
  <2>1. \A d \in Tasks : \/ task'[d].pc = "idle"
                         \/ task'[d].msg = task[d].msg /\ task[d].pc # "idle"
    BY <1>0, <1>1 DEF TypeInv, LocalOK
  <2> QED
    BY <2>1, HeldKept DEF LeaseInv
<1>3. ASSUME NEW m \in Msgs, Protects(m), IsProcessing(row'[JobOf(m)])
      PROVE  Protects(m)'
  <2>1. u.pc = "idle" => u.msg # m
    BY <1>1, StoreAssumption DEF TypeInv, LocalOK, Msgs
  <2>2. task[t].msg = m => task[t].pc \in InHand
    BY <1>3 DEF Protects, InHand
  <2>3. u.msg = m => u.pc \in InHand
    BY <1>3, <2>1, <2>2 DEF MyJob
  <2> QED
    BY <1>1, <1>3, <2>3 DEF Protects, InHand
<1>4. LeaseReapable'
  BY <1>0, <1>3, LeaseKept
<1> QED
  BY <1>2, <1>4 DEF LeaseInv

(* The end of an attempt.                                                  *)
LEMMA FinishLease ==
  ASSUME LeaseInv, TypeInv', NEW t \in Tasks, task[t].pc # "idle",
         NEW r, ~IsProcessing(r), Finish(t, r)
  PROVE  LeaseInv'
<1>0. TypeInv /\ StreamsDistinct
  BY DEF LeaseInv
<1> DEFINE won == IsProcessing(row[MyJob(t)])
           u == IF won THEN [task[t] EXCEPT !.pc = "ack"] ELSE IdleTask
<1>1. /\ task' = [task EXCEPT ![t] = u]
      /\ row' = [row EXCEPT ![MyJob(t)] = IF won THEN r ELSE row[MyJob(t)]]
      /\ UNCHANGED <<stream, pel, tick>>
  BY DEF Finish, AckIff, Update, redis, taskRest, workerRest
<1>2. task[t] \in Task /\ MyJob(t) \in Jobs /\ row \in [Jobs -> Row]
  BY <1>0, TaskTypes DEF TypeInv, TypeOK
<1>3. u.pc = "idle" \/ u.msg = task[t].msg
  BY <1>2 DEF IdleTask, Task
<1>4. u.pc = "idle" \/ ~IsProcessing(row'[MyJob(t)])
  BY <1>1, <1>2 DEF IdleTask
<1>5. \A j \in Jobs : IsProcessing(row'[j]) => IsProcessing(row[j])
  BY <1>1, <1>2
<1>6. StreamsDistinct'
  BY <1>0, <1>1 DEF StreamsDistinct
<1> HIDE DEF u
<1> QED
  BY <1>1, <1>3, <1>4, <1>5, <1>6, TaskKept

(* The claim: the message of the claiming task protects it, because no     *)
(* other task and not the reaper holds that message.                       *)
LEMMA ClaimLease ==
  ASSUME LeaseInv, TypeInv', NEW t \in Tasks, task[t].pc = "claim",
         row' = [row EXCEPT ![MyJob(t)] = claim_job(row[MyJob(t)])],
         task' = [task EXCEPT ![t].pc = "load"],
         UNCHANGED <<stream, pel, tick>>
  PROVE  LeaseInv'
<1>0. TypeInv /\ StreamsDistinct /\ HeldIsPending /\ HeldOnce /\ LeaseReapable
  BY DEF LeaseInv
<1>1. /\ task[t] \in Task /\ task[t].msg \in Msgs /\ MyJob(t) \in Jobs
      /\ row \in [Jobs -> Row] /\ task \in [Tasks -> Task]
  BY <1>0, TaskTypes DEF TypeInv, TypeOK
<1>2. \A d \in Tasks : /\ task'[d].msg = task[d].msg
                       /\ task'[d].pc = IF d = t THEN "load" ELSE task[d].pc
  BY <1>1 DEF Task
<1>3. StreamsDistinct'
  BY <1>0 DEF StreamsDistinct
<1>4. HeldIsPending' /\ HeldOnce'
  BY <1>0, <1>2 DEF HeldIsPending, HeldOnce
<1>5. ASSUME NEW m \in Msgs, Protects(m)
      PROVE  Protects(m)'
  BY <1>2, <1>5 DEF Protects
<1>6. Protects(task[t].msg)'
  <2>1. task[t].msg \in pel /\ tick.msg # task[t].msg
    BY <1>0 DEF HeldIsPending, HeldOnce
  <2>2. \A d \in Tasks : d # t => task[d].msg # task[t].msg
    BY <1>0 DEF HeldOnce
  <2> QED
    BY <1>2, <2>1, <2>2 DEF Protects
<1>7. LeaseReapable'
  <2> SUFFICES ASSUME NEW j \in Jobs, IsProcessing(row'[j])
               PROVE  \E m \in {j} \X Copies : Protects(m)'
    BY DEF LeaseReapable, IsProcessing
  <2>1. CASE j = MyJob(t)
    <3>1. task[t].msg \in {j} \X Copies
      BY <1>1, <2>1 DEF MyJob, JobOf, Msgs
    <3> QED
      BY <1>6, <3>1
  <2>2. CASE j # MyJob(t)
    <3>1. PICK m \in {j} \X Copies : Protects(m)
      BY <1>0, <1>1, <2>2 DEF LeaseReapable
    <3>2. m \in Msgs
      BY DEF Msgs
    <3> QED
      BY <1>5, <3>1, <3>2
  <2> QED
    BY <2>1, <2>2
<1> QED
  BY <1>3, <1>4, <1>7 DEF LeaseInv

(* Every step of a task keeps the lease invariant.                         *)
LEMMA TaskLease ==
  ASSUME LeaseInv, NEW t \in Tasks, TaskStep(t)
  PROVE  LeaseInv'
<1> USE DEF redis, taskRest, workerRest
<1>0. TypeInv /\ StreamsDistinct /\ TypeInv' /\ HeldOnce /\ HeldIsPending /\ LeaseReapable
  BY TaskStepTypes DEF LeaseInv
<1>1. task[t].pc # "idle"
  BY DEF TaskStep, Claim, Load, DropOwnerless, Complete, Reject, RetryOrFail,
         TaskHandoff, TaskSync, PollCancelled, CancelJob, Ack
<1>2. /\ task[t] \in Task /\ task[t].msg \in Msgs /\ MyJob(t) \in Jobs
      /\ row[MyJob(t)] \in Row /\ task \in [Tasks -> Task] /\ row \in [Jobs -> Row]
  BY <1>0, <1>1, TaskTypes DEF TypeInv, TypeOK
<1>3. UNCHANGED <<stream, pel>> => StreamsDistinct'
  BY <1>0 DEF StreamsDistinct
<1>4. ASSUME NEW pc, task' = [task EXCEPT ![t].pc = pc], StreamsDistinct',
             pel' = pel, tick' = tick, pc \in InHand \/ task[t].pc \notin InHand,
             \A j \in Jobs : IsProcessing(row'[j]) => IsProcessing(row[j])
      PROVE  LeaseInv'
  <2> DEFINE u == [task[t] EXCEPT !.pc = pc]
  <2>1. task' = [task EXCEPT ![t] = u]
    BY <1>4
  <2>2. u.msg = task[t].msg /\ u.pc = pc
    BY <1>2 DEF Task
  <2> HIDE DEF u
  <2> QED
    BY <1>0, <1>1, <1>4, <2>1, <2>2, TaskKept
<1>5. CASE Claim(t)
  <2>1. CASE /\ Update(MyJob(t), claim_job(row[MyJob(t)]))
             /\ task' = [task EXCEPT ![t].pc = "load"]
    BY <1>0, <1>5, <2>1, ClaimLease DEF Claim, Update
  <2>2. CASE task' = [task EXCEPT ![t].pc = "ack"] /\ UNCHANGED row
    BY <1>3, <1>4, <1>5, <2>2 DEF Claim, InHand
  <2> QED
    BY <1>5, <2>1, <2>2 DEF Claim
<1>6. CASE Load(t)
  <2> DEFINE u == [task[t] EXCEPT !.pc = "run", !.att = row[MyJob(t)].attempts]
  <2>1. task' = [task EXCEPT ![t] = u]
    BY <1>6 DEF Load
  <2>2. u.msg = task[t].msg /\ u.pc \in InHand
    BY <1>2 DEF Task, InHand
  <2> HIDE DEF u
  <2> QED
    BY <1>0, <1>1, <1>3, <1>6, <2>1, <2>2, TaskKept DEF Load
<1>7. CASE DropOwnerless(t) \/ Complete(t) \/ Reject(t) \/ CancelJob(t)
  BY <1>0, <1>1, <1>2, <1>7, FinishLease, RowStatus
     DEF DropOwnerless, Complete, Reject, CancelJob
<1>8. CASE RetryOrFail(t)
  <2> DEFINE h == RetryHandoff(MyJob(t), task[t].att)
             r == RetryRow(MyJob(t), task[t].att, row[MyJob(t)])
  <2>1. ~IsProcessing(r)
    BY <1>2, RowStatus
  <2> HIDE DEF h, r
  <2>2. CASE Finish(t, r)
    BY <1>0, <1>1, <2>1, <2>2, FinishLease
  <2>3. CASE /\ Update(MyJob(t), r)
             /\ task' = [task EXCEPT ![t].pc = "handoff", ![t].h = h]
             /\ UNCHANGED <<stream, pel, zset, pull, used, req, tick>>
    <3> DEFINE u == [task[t] EXCEPT !.pc = "handoff", !.h = h]
    <3>1. u.msg = task[t].msg
      BY <1>2 DEF Task
    <3>2. task' = [task EXCEPT ![t] = u]
      BY <2>3, <1>2
    <3>3. row' = [row EXCEPT ![MyJob(t)] = r]
      BY <2>3 DEF Update
    <3>4. \A j \in Jobs : IsProcessing(row'[j]) => IsProcessing(row[j])
      BY <1>0, <1>2, <2>1, <3>3, RowWrite
    <3>5. ~IsProcessing(row'[MyJob(t)])
      BY <1>2, <2>1, <3>3
    <3> HIDE DEF u
    <3> QED
      BY <1>0, <1>1, <1>3, <2>3, <3>1, <3>2, <3>4, <3>5, TaskKept
  <2> QED
    BY <1>8, <2>2, <2>3 DEF RetryOrFail, h, r
<1>9. CASE TaskHandoff(t)
  <2>1. StreamsDistinct'
    BY <1>0, <1>2, <1>9, HandOverDistinct DEF TaskHandoff
  <2> QED
    BY <1>4, <1>9, <2>1 DEF TaskHandoff, InHand
<1>10. CASE TaskSync(t)
  <2>1. IsProcessing(mark_synced(row[MyJob(t)])) => IsProcessing(row[MyJob(t)])
    BY <1>2, RowStatus
  <2>2. \A j \in Jobs : IsProcessing(row'[j]) => IsProcessing(row[j])
    BY <1>0, <1>2, <1>10, <2>1, RowWrite DEF TaskSync, Update
  <2> QED
    BY <1>3, <1>4, <1>10, <2>2 DEF TaskSync, InHand
<1>11. CASE PollCancelled(t)
  BY <1>3, <1>4, <1>11 DEF PollCancelled, InHand
<1>12. CASE Ack(t)
  <2>1. /\ task[t].pc = "ack"
        /\ pel' = pel \ {task[t].msg}
        /\ task' = [task EXCEPT ![t] = IdleTask]
        /\ UNCHANGED <<row, stream, tick>>
    BY <1>12 DEF Ack, ack
  <2>2. IdleTask.pc = "idle" /\ IdleTask.msg = NoMsg /\ NoMsg # task[t].msg
    BY <1>2, StoreAssumption DEF IdleTask, Msgs
  <2>3. \A d \in Tasks : task'[d] = IF d = t THEN IdleTask ELSE task[d]
    BY <1>2, <2>1
  <2>4. StreamsDistinct'
    BY <1>0, <2>1 DEF StreamsDistinct
  <2>5. \A d \in Tasks : \/ task'[d].pc = "idle"
                         \/ task'[d].msg = task[d].msg /\ task[d].pc # "idle"
    BY <2>2, <2>3
  <2>6. tick'.msg # task[t].msg /\ \A d \in Tasks : task'[d].msg # task[t].msg
    BY <1>0, <1>1, <2>1, <2>2, <2>3 DEF HeldOnce
  <2>7. HeldIsPending' /\ HeldOnce'
    BY <1>0, <2>1, <2>5, <2>6, HeldKept
  <2>8. ASSUME NEW m \in Msgs, Protects(m)
        PROVE  Protects(m)'
    <3>1. task[t].msg # m
      BY <2>1, <2>8 DEF Protects
    <3> QED
      BY <2>1, <2>2, <2>3, <2>8, <3>1, StoreAssumption DEF Protects, Msgs
  <2>9. LeaseReapable'
    BY <1>0, <2>1, <2>8, LeaseKept
  <2> QED
    BY <1>0, <2>4, <2>7, <2>9 DEF LeaseInv
<1> QED
  BY <1>5, <1>6, <1>7, <1>8, <1>9, <1>10, <1>11, <1>12 DEF TaskStep

(* Reading: every stream of D delivers its head to the group, and one of   *)
(* the heads gets a task.  The others are pending and in nobody's hands.   *)
LEMMA ReadLease ==
  ASSUME LeaseInv, TypeInv', NEW p \in Procs, NEW D \in SUBSET Streams,
         \A k \in D : stream[k] # << >>,
         stream' = [k \in Streams |-> IF k \in D THEN Tail(stream[k]) ELSE stream[k]],
         pel' = pel \cup {Head(stream[k]) : k \in D},
         NEW first \in D, Spawn(p, Head(stream[first])),
         UNCHANGED <<row, tick>>
  PROVE  LeaseInv'
<1>0. /\ TypeInv /\ StreamsDistinct /\ HeldIsPending /\ HeldOnce /\ LeaseReapable
      /\ stream \in [Streams -> Seq(Msgs)] /\ task \in [Tasks -> Task]
  BY DEF LeaseInv, TypeInv, TypeOK
<1>1. \A k \in D : /\ 1 \in 1..Len(stream[k]) /\ Head(stream[k]) = stream[k][1]
                   /\ stream[k][1] \in Msgs
  BY <1>0
<1>2. \A k \in Streams : \A i \in 1..Len(stream'[k]) :
        IF k \in D THEN i + 1 \in 1..Len(stream[k]) /\ stream'[k][i] = stream[k][i + 1]
                   ELSE i \in 1..Len(stream[k]) /\ stream'[k][i] = stream[k][i]
  BY <1>0
<1>3. StreamsDistinct'
  <2>1. ASSUME NEW k \in Streams, NEW i \in 1..Len(stream'[k])
        PROVE  stream'[k][i] \notin pel'
    <3>1. PICK a \in 1..Len(stream[k]) : stream'[k][i] = stream[k][a] /\ (k \in D => a # 1)
      BY <1>2
    <3>2. \A l \in D : stream[l][1] # stream[k][a]
      BY <1>0, <1>1, <3>1 DEF StreamsDistinct
    <3>3. stream[k][a] \notin pel
      BY <1>0 DEF StreamsDistinct
    <3> QED
      BY <1>1, <3>1, <3>2, <3>3
  <2>2. ASSUME NEW k \in Streams, NEW l \in Streams,
               NEW i \in 1..Len(stream'[k]), NEW n \in 1..Len(stream'[l]),
               stream'[k][i] = stream'[l][n]
        PROVE  k = l /\ i = n
    <3>1. PICK a \in 1..Len(stream[k]) :
            stream'[k][i] = stream[k][a] /\ a = IF k \in D THEN i + 1 ELSE i
      BY <1>2
    <3>2. PICK b \in 1..Len(stream[l]) :
            stream'[l][n] = stream[l][b] /\ b = IF l \in D THEN n + 1 ELSE n
      BY <1>2
    <3>3. k = l /\ a = b
      BY <1>0, <2>2, <3>1, <3>2 DEF StreamsDistinct
    <3>4. i \in Int /\ n \in Int
      OBVIOUS
    <3> QED
      BY <3>1, <3>2, <3>3, <3>4
  <2> QED
    BY <2>1, <2>2 DEF StreamsDistinct
<1> DEFINE m == Head(stream[first])
           u == [IdleTask EXCEPT !.pc = "claim", !.msg = m]
<1>4. m \in Msgs /\ m \notin pel /\ m \in pel'
  BY <1>0, <1>1 DEF StreamsDistinct
<1>5. u.pc = "claim" /\ u.msg = m
  BY <1>4, NewTask
<1>6. PICK t \in Tasks : task[t].pc = "idle" /\ task' = [task EXCEPT ![t] = u]
  BY <1>0, <1>4, SpawnTypes
<1> HIDE DEF m, u
<1>7. \A d \in Tasks : task'[d] = IF d = t THEN u ELSE task[d]
  BY <1>0, <1>6
<1>8. /\ \A d \in Tasks : task[d].msg # m
      /\ tick.msg # m
  BY <1>0, <1>4, StoreAssumption DEF HeldIsPending, TypeInv, LocalOK, Msgs
<1>9. HeldIsPending'
  BY <1>0, <1>4, <1>5, <1>7 DEF HeldIsPending
<1>10. HeldOnce'
  BY <1>0, <1>5, <1>7, <1>8 DEF HeldOnce
<1>11. ASSUME NEW x \in Msgs, Protects(x)
       PROVE  Protects(x)'
  <2>1. x # m
    BY <1>4, <1>11 DEF Protects
  <2> QED
    BY <1>5, <1>7, <1>11, <2>1 DEF Protects
<1>12. LeaseReapable'
  BY <1>0, <1>11, LeaseKept
<1> QED
  BY <1>3, <1>9, <1>10, <1>12 DEF LeaseInv

(* Every step of a worker process keeps the lease invariant.               *)
LEMMA ProcLease ==
  ASSUME LeaseInv, NEW p \in Procs, PullStep(p) \/ Stop(p) \/ Crash(p)
  PROVE  LeaseInv'
<1> USE DEF redis, workerRest
<1>0. /\ TypeInv /\ TypeInv' /\ StreamsDistinct /\ HeldIsPending /\ HeldOnce
      /\ LeaseReapable /\ stream \in [Streams -> Seq(Msgs)]
  BY ProcTypes DEF LeaseInv, TypeInv, TypeOK
<1>1. ASSUME UNCHANGED <<row, stream, pel, task, tick>>
      PROVE  LeaseInv'
  BY <1>0, <1>1 DEF LeaseInv, StreamsDistinct, HeldIsPending, HeldOnce, LeaseReapable,
                    Protects, IsProcessing
<1>2. CASE Probe(p)
  <2> DEFINE k == pull[p].at
  <2>1. k \in Streams /\ {k} \in SUBSET Streams
    BY <1>2 DEF Probe
  <2>2. CASE stream[k] # << >>
    <3>1. /\ Spawn(p, Head(stream[k]))
          /\ stream' = [stream EXCEPT ![k] = Tail(@)]
          /\ pel' = pel \cup {Head(stream[k])}
          /\ UNCHANGED <<row, tick>>
      BY <1>2, <2>2 DEF Probe
    <3>2. /\ stream' = [l \in Streams |-> IF l \in {k} THEN Tail(stream[l])
                                                       ELSE stream[l]]
          /\ pel' = pel \cup {Head(stream[l]) : l \in {k}}
      BY <1>0, <3>1
    <3> HIDE DEF k
    <3> QED
      BY <1>0, <2>1, <2>2, <3>1, <3>2, ReadLease
  <2>3. CASE stream[k] = << >>
    BY <1>1, <1>2, <2>3 DEF Probe
  <2> QED
    BY <2>2, <2>3
<1>3. CASE BlockingRead(p)
  <2> DEFINE ready == {k \in Streams : stream[k] # << >>}
  <2>1. ASSUME NEW first \in ready, Spawn(p, Head(stream[first])),
               stream' = [k \in Streams |-> IF k \in ready THEN Tail(stream[k])
                                                           ELSE stream[k]],
               pel' = pel \cup {Head(stream[k]) : k \in ready}
        PROVE  LeaseInv'
    <3>1. ready \in SUBSET Streams /\ \A k \in ready : stream[k] # << >>
      OBVIOUS
    <3>2. UNCHANGED <<row, tick>>
      BY <1>3 DEF BlockingRead
    <3> HIDE DEF ready
    <3> QED
      BY <1>0, <2>1, <3>1, <3>2, ReadLease
  <2>2. ASSUME UNCHANGED <<task, stream, pel>>
        PROVE  LeaseInv'
    BY <1>1, <1>3, <2>2 DEF BlockingRead
  <2> QED
    BY <1>3, <2>1, <2>2 DEF BlockingRead
<1>4. CASE Restart(p) \/ Stop(p)
  BY <1>1, <1>4 DEF Restart, Stop
<1>5. CASE Crash(p)
  <2>1. /\ \A t \in Tasks : task'[t] = IdleTask \/ task'[t] = task[t]
        /\ UNCHANGED <<row, stream, pel, tick>>
    BY <1>5 DEF Crash
  <2>2. IdleTask.pc = "idle" /\ IdleTask.msg = NoMsg
    BY DEF IdleTask
  <2>3. \A t \in Tasks : \/ task'[t].pc = "idle"
                         \/ task'[t].msg = task[t].msg /\ task[t].pc # "idle"
    BY <2>1, <2>2
  <2>4. HeldIsPending' /\ HeldOnce'
    BY <1>0, <2>1, <2>3, HeldKept
  <2>5. StreamsDistinct'
    BY <1>0, <2>1 DEF StreamsDistinct
  <2>6. ASSUME NEW m \in Msgs, Protects(m)
        PROVE  Protects(m)'
    BY <2>1, <2>2, <2>6, StoreAssumption DEF Protects, Msgs
  <2>7. LeaseReapable'
    BY <1>0, <2>1, <2>6, LeaseKept
  <2> QED
    BY <1>0, <2>4, <2>5, <2>7 DEF LeaseInv
<1> QED
  BY <1>2, <1>3, <1>4, <1>5 DEF PullStep

(* A step of the ticker outside the reaper, or one that drops its message. *)
LEMMA TickerQuiet ==
  ASSUME LeaseInv, TypeInv', StreamsDistinct',
         UNCHANGED <<pel, task>>, tick'.msg = NoMsg,
         \A j \in Jobs : IsProcessing(row'[j]) => IsProcessing(row[j])
  PROVE  LeaseInv'
<1>0. TypeInv /\ HeldIsPending /\ HeldOnce /\ LeaseReapable
  BY DEF LeaseInv
<1>1. \A t \in Tasks : \/ task'[t].pc = "idle"
                       \/ task'[t].msg = task[t].msg /\ task[t].pc # "idle"
  OBVIOUS
<1>2. HeldIsPending' /\ HeldOnce'
  BY <1>0, <1>1, HeldKept
<1>3. ASSUME NEW m \in Msgs, Protects(m)
      PROVE  Protects(m)'
  BY <1>3, StoreAssumption DEF Protects, Msgs
<1>4. LeaseReapable'
  BY <1>0, <1>3, LeaseKept
<1> QED
  BY <1>2, <1>4 DEF LeaseInv

(* A step of the reaper that keeps its message.  When the message stops    *)
(* protecting a claim, the row is no longer being processed.               *)
LEMMA ReaperKept ==
  ASSUME LeaseInv, TypeInv', StreamsDistinct',
         UNCHANGED <<pel, task>>, tick'.msg = tick.msg, tick.pc \in Reaping,
         \A j \in Jobs : IsProcessing(row'[j]) => IsProcessing(row[j]),
         \/ tick'.pc \in {"reap", "retry"}
         \/ tick.pc \notin {"reap", "retry"}
         \/ ~IsProcessing(row'[tick.job])
  PROVE  LeaseInv'
<1>0. TypeInv /\ HeldIsPending /\ HeldOnce /\ LeaseReapable
  BY DEF LeaseInv
<1>1. \A t \in Tasks : \/ task'[t].pc = "idle"
                       \/ task'[t].msg = task[t].msg /\ task[t].pc # "idle"
  OBVIOUS
<1>2. HeldIsPending' /\ HeldOnce'
  BY <1>0, <1>1, HeldKept
<1>3. tick.job = JobOf(tick.msg)
  BY <1>0 DEF TypeInv, LocalOK
<1>4. ASSUME NEW m \in Msgs, Protects(m), IsProcessing(row'[JobOf(m)])
      PROVE  Protects(m)'
  BY <1>3, <1>4 DEF Protects
<1>5. LeaseReapable'
  BY <1>0, <1>4, LeaseKept
<1> QED
  BY <1>2, <1>5 DEF LeaseInv

(* Every step of the ticker keeps the lease invariant.                     *)
LEMMA TickerLease ==
  ASSUME Timely, LeaseInv, TickerNext
  PROVE  LeaseInv'
<1> USE DEF redis, tickRest
<1>0. /\ TypeInv /\ TypeInv' /\ StreamsDistinct /\ HeldIsPending /\ HeldOnce
      /\ LeaseReapable
  BY TickerTypes DEF LeaseInv
<1>1. /\ tick \in Ticker /\ row \in [Jobs -> Row] /\ task \in [Tasks -> Task]
      /\ tick.pc \notin Reaping => tick.msg = NoMsg
      /\ tick.pc \in Reaping => /\ tick.msg \in Msgs /\ tick.job = JobOf(tick.msg)
                                /\ tick.job \in Jobs /\ row[tick.job] \in Row
      /\ tick.pc = "resync" => tick.job \in Jobs /\ row[tick.job] \in Row
  BY <1>0, MsgJob DEF TypeInv, TypeOK, LocalOK
<1>2. UNCHANGED <<stream, pel>> => StreamsDistinct'
  BY <1>0 DEF StreamsDistinct
<1>3. IdleTicker.msg = NoMsg
  BY DEF IdleTicker
<1>4. CASE StartPromote
  BY <1>0, <1>2, <1>3, <1>4, TickerQuiet DEF StartPromote, IdleTicker
<1>5. CASE StartReconcile
  BY <1>0, <1>2, <1>3, <1>5, TickerQuiet DEF StartReconcile, IdleTicker
<1>6. CASE StartReap
  <2>1. PICK m \in Msgs : ReapClaim(m)
    BY <1>6 DEF StartReap
  <2>2. m \in pel /\ \A t \in Tasks : task[t].msg # m
    BY <2>1 DEF ReapClaim, Stale
  <2>3. /\ UNCHANGED <<row, stream, pel, task>>
        /\ tick'.msg = m /\ tick'.pc = "reap"
        /\ tick.pc = "idle"
    BY <2>1 DEF ReapClaim, IdleTicker
  <2>4. HeldIsPending' /\ HeldOnce'
    BY <1>0, <2>2, <2>3 DEF HeldIsPending, HeldOnce
  <2>5. ASSUME NEW x \in Msgs, Protects(x)
        PROVE  Protects(x)'
    BY <2>3, <2>5 DEF Protects
  <2>6. LeaseReapable'
    BY <1>0, <2>3, <2>5, LeaseKept
  <2> QED
    BY <1>0, <1>2, <2>3, <2>4, <2>6 DEF LeaseInv
<1>7. ASSUME NEW j \in Jobs, PromoteXadd(j)
      PROVE  LeaseInv'
  <2>1. StreamsDistinct'
    BY <1>0, <1>7, EnqueueDistinct DEF PromoteXadd
  <2>2. tick'.msg = NoMsg
    BY <1>1, <1>7 DEF PromoteXadd, Ticker, Reaping
  <2> QED
    BY <1>0, <1>7, <2>1, <2>2, TickerQuiet DEF PromoteXadd
<1>8. CASE PromoteZrem
  <2>1. tick'.msg = NoMsg
    BY <1>1, <1>8 DEF PromoteZrem, Ticker, Reaping
  <2> QED
    BY <1>0, <1>2, <1>8, <2>1, TickerQuiet DEF PromoteZrem
<1>9. CASE PromoteFlip
  <2>1. \A j \in Jobs : IsProcessing(row'[j]) => IsProcessing(row[j])
    <3> TAKE j \in Jobs
    <3>1. row[j] \in Row
      BY <1>1
    <3>2. row'[j] = row[j] \/ row'[j] = promote_scheduled_to_pending(row[j])
      BY <1>9 DEF PromoteFlip
    <3> QED
      BY <3>1, <3>2, RowStatus
  <2> QED
    BY <1>0, <1>2, <1>3, <1>9, <2>1, TickerQuiet DEF PromoteFlip
<1>10. ASSUME NEW j \in Jobs, ReconcileHandoff(j)
       PROVE  LeaseInv'
  <2>1. StreamsDistinct'
    BY <1>0, <1>10, HandOverDistinct DEF ReconcileHandoff
  <2>2. tick'.msg = NoMsg
    BY <1>1, <1>10 DEF ReconcileHandoff, Ticker, Reaping
  <2> QED
    BY <1>0, <1>10, <2>1, <2>2, TickerQuiet DEF ReconcileHandoff
<1>11. CASE ReconcileSync
  <2>1. IsProcessing(mark_synced(row[tick.job])) => IsProcessing(row[tick.job])
    BY <1>1, <1>11, RowStatus DEF ReconcileSync
  <2>2. \A j \in Jobs : IsProcessing(row'[j]) => IsProcessing(row[j])
    BY <1>0, <1>1, <1>11, <2>1, RowWrite DEF ReconcileSync, Update
  <2>3. tick'.msg = NoMsg
    BY <1>1, <1>3, <1>11 DEF ReconcileSync, Ticker, Reaping
  <2> QED
    BY <1>0, <1>2, <1>11, <2>2, <2>3, TickerQuiet DEF ReconcileSync
<1>12. CASE ReapRead
  <2>1. /\ tick'.msg = tick.msg /\ tick.pc = "reap"
        /\ tick'.pc = "retry" \/ ~IsProcessing(row[tick.job])
    BY <1>1, <1>12 DEF ReapRead, Ticker
  <2> QED
    BY <1>0, <1>2, <1>12, <2>1, ReaperKept DEF ReapRead, Reaping
<1>13. CASE ReapRetry
  <2> DEFINE won == IsProcessing(row[tick.job])
             r == RetryRow(tick.job, tick.att, row[tick.job])
  <2>1. /\ tick'.msg = tick.msg /\ tick.pc = "retry" /\ tick.job \in Jobs
        /\ row[tick.job] \in Row
    BY <1>1, <1>13 DEF ReapRetry, Ticker, Reaping
  <2>2. row' = [row EXCEPT ![tick.job] = IF won THEN r ELSE row[tick.job]]
    BY <1>13 DEF ReapRetry, Update
  <2>3. ~IsProcessing(r)
    BY <2>1, RowStatus
  <2> HIDE DEF r
  <2>4. ~IsProcessing(row'[tick.job])
    BY <1>1, <2>1, <2>2, <2>3
  <2>5. \A j \in Jobs : IsProcessing(row'[j]) => IsProcessing(row[j])
    BY <1>1, <2>2, <2>4
  <2> QED
    BY <1>0, <1>2, <1>13, <2>1, <2>4, <2>5, ReaperKept DEF ReapRetry, Reaping
<1>14. CASE ReapHandoff
  <2>1. tick'.msg = tick.msg /\ tick.pc = "handoff" /\ tick.job \in Jobs
    BY <1>1, <1>14 DEF ReapHandoff, Ticker, Reaping
  <2>2. StreamsDistinct'
    BY <1>0, <1>14, <2>1, HandOverDistinct DEF ReapHandoff
  <2> QED
    BY <1>0, <1>14, <2>1, <2>2, ReaperKept DEF ReapHandoff, Reaping
<1>15. CASE ReapSync
  <2>1. /\ tick'.msg = tick.msg /\ tick.pc = "sync" /\ tick.job \in Jobs
        /\ row[tick.job] \in Row
    BY <1>1, <1>15 DEF ReapSync, Ticker, Reaping
  <2>2. IsProcessing(mark_synced(row[tick.job])) => IsProcessing(row[tick.job])
    BY <2>1, RowStatus
  <2>3. \A j \in Jobs : IsProcessing(row'[j]) => IsProcessing(row[j])
    BY <1>0, <1>15, <2>1, <2>2, RowWrite DEF ReapSync, Update
  <2> QED
    BY <1>0, <1>2, <1>15, <2>1, <2>3, ReaperKept DEF ReapSync, Reaping
<1>16. CASE ReapAck
  <2>1. /\ tick.pc = "ack" /\ pel' = pel \ {tick.msg} /\ tick' = IdleTicker
        /\ UNCHANGED <<row, stream, task>> /\ tick.msg \in Msgs
    BY <1>1, <1>16 DEF ReapAck, ack, Reaping
  <2>2. NoMsg \notin Msgs
    BY StoreAssumption DEF Msgs
  <2>3. StreamsDistinct'
    BY <1>0, <2>1 DEF StreamsDistinct
  <2>4. tick'.msg # tick.msg /\ \A t \in Tasks : task'[t].msg # tick.msg
    BY <1>0, <1>3, <2>1, <2>2 DEF HeldOnce, TypeInv, LocalOK
  <2>5. \A t \in Tasks : \/ task'[t].pc = "idle"
                         \/ task'[t].msg = task[t].msg /\ task[t].pc # "idle"
    BY <2>1
  <2>6. HeldIsPending' /\ HeldOnce'
    BY <1>0, <1>3, <2>1, <2>4, <2>5, HeldKept
  <2>7. ASSUME NEW m \in Msgs, Protects(m)
        PROVE  Protects(m)'
    <3>1. tick.msg # m
      BY <2>1, <2>7 DEF Protects
    <3> QED
      BY <1>3, <2>1, <2>2, <2>7, <3>1 DEF Protects
  <2>8. LeaseReapable'
    BY <1>0, <2>1, <2>7, LeaseKept
  <2> QED
    BY <1>0, <2>3, <2>6, <2>8 DEF LeaseInv
<1>17. CASE TickerFail
  BY <1>0, <1>2, <1>3, <1>17, TickerQuiet DEF TickerFail
<1> QED
  BY <1>4, <1>5, <1>6, <1>7, <1>8, <1>9, <1>10, <1>11, <1>12, <1>13, <1>14, <1>15,
     <1>16, <1>17 DEF TickerNext, TickerStep

(* The invariant holds at start-up: nothing is delivered or claimed.       *)
LEMMA InitLease == Init => LeaseInv
<1> SUFFICES ASSUME Init PROVE LeaseInv
  OBVIOUS
<1>1. /\ \A t \in Tasks : task[t].pc = "idle"
      /\ tick.pc \notin Reaping
      /\ \A k \in Streams : Len(stream[k]) = 0
      /\ \A j \in Jobs : ~IsProcessing(row[j])
  BY DEF Init, IdleTask, IdleTicker, Reaping, NoRow, IsProcessing
<1>2. StreamsDistinct
  BY <1>1 DEF StreamsDistinct
<1>3. HeldIsPending /\ HeldOnce /\ LeaseReapable
  BY <1>1 DEF HeldIsPending, HeldOnce, LeaseReapable
<1> QED
  BY <1>2, <1>3, InitTypes DEF LeaseInv

(* LeaseInv is inductive when live tasks outrun the visibility timeout.    *)
LEMMA NextLease == ASSUME Timely PROVE LeaseInv /\ [Next]_vars => LeaseInv'
<1> SUFFICES ASSUME LeaseInv, [Next]_vars PROVE LeaseInv'
  OBVIOUS
<1>1. CASE ApiNext
  BY <1>1, ApiLease DEF ApiNext
<1>2. CASE WorkerNext
  BY <1>2, ProcLease, TaskLease DEF WorkerNext
<1>3. CASE TickerNext
  BY <1>3, TickerLease
<1>4. CASE \E j \in Jobs : ClockPasses(j)
  BY <1>4, ClockLease
<1>5. CASE UNCHANGED vars
  <2>1. TypeInv'
    BY <1>5, NextTypes DEF LeaseInv
  <2> QED
    BY <1>5, <2>1 DEF vars, LeaseInv, StreamsDistinct, HeldIsPending, HeldOnce,
                      LeaseReapable, Protects, IsProcessing
<1> QED
  BY <1>1, <1>2, <1>3, <1>4, <1>5 DEF Next

(* A job being processed always has an unacknowledged message that leads   *)
(* the reaper to it, whichever worker, request or ticker pass dies: for    *)
(* every configuration in which live tasks outrun the visibility timeout.  *)
THEOREM LeaseIsReapable == ASSUME Timely PROVE Spec => []LeaseReapable
<1>1. LeaseInv /\ [Next]_vars => LeaseInv'
  BY NextLease
<1>2. LeaseInv => LeaseReapable
  BY DEF LeaseInv
<1> QED
  BY <1>1, <1>2, InitLease, PTL DEF Spec

-----------------------------------------------------------------------------
(***************************************************************************)
(* One run at a time.                                                      *)
(***************************************************************************)
(* Workers die only between the claim and the end of the attempt, no pass  *)
(* of the ticker fails half-way, and live tasks outrun the visibility      *)
(* timeout.  Requests may die anywhere, and workers may be stopped.        *)
CleanDeaths ==
  /\ Timely
  /\ Faults \cap {"claim", "handoff", "sync", "ack", "ticker"} = {}

(* No read delivers a message it does not hand to a task: the blocking     *)
(* read never finds two streams that are not empty.                        *)
OneDelivered == \A m, n \in pel' \ pel : m = n

(***************************************************************************)
(* The inductive invariant.                                                *)
(***************************************************************************)

(* A pending message that nobody is about to acknowledge stands for an     *)
(* attempt in progress, and there is only one such message per job.        *)
Claimed == \A m \in Msgs : Protects(m) => IsProcessing(row[JobOf(m)])
ClaimedOnce ==
  \A m, n \in Msgs : Protects(m) /\ Protects(n) /\ JobOf(m) = JobOf(n) => m = n

(* A row that may still run has an attempt left.                           *)
RowWithin(j, l) ==
  /\ l.st = "absent" => l.n = 0 /\ ~l.asked
  /\ l.n <= Budget(j)
  /\ l.st \in {"waiting", "processing"} => l.n < Budget(j)
RowsWithin == \A j \in Jobs : RowWithin(j, LifeOf(row[j]))

(* What a process has read of the row it works on is still true.           *)
TaskFresh(t) ==
  /\ task[t].pc \in {"run", "cancel"} => task[t].att = row[MyJob(t)].attempts
  /\ task[t].pc = "cancel" => row[MyJob(t)].cancelReq
TickFresh == tick.pc = "retry" => tick.att = row[tick.job].attempts

RunInv ==
  /\ LeaseInv /\ Claimed /\ ClaimedOnce
  /\ RowsWithin
  /\ \A t \in Tasks : TaskFresh(t)
  /\ TickFresh

(***************************************************************************)
(* The moves of one row, as the lifecycle sees it.                         *)
(***************************************************************************)
At(st, n, asked) == [st |-> st, n |-> n, asked |-> asked]

LifeMove(j, l, m) ==
  \/ m = l
  \/ l.st = "absent" /\ m = At("waiting", l.n, l.asked)
  \/ l.st = "waiting" /\ l.n < Budget(j) /\ m = At("processing", l.n, l.asked)
  \/ l.st = "processing" /\ m = At("completed", l.n + 1, l.asked)
  \/ l.st = "processing" /\ m = At("failed", l.n + 1, l.asked)
  \/ l.st = "processing" /\ l.n + 1 < Budget(j) /\ m = At("waiting", l.n + 1, l.asked)
  \/ l.st = "processing" /\ m = At("processing", l.n, TRUE)
  \/ l.st = "waiting" /\ m = At("cancelled", l.n, l.asked)
  \/ l.st = "processing" /\ l.asked /\ m = At("cancelled", l.n, l.asked)
  \/ l.st = "failed" /\ ~l.asked /\ m = At("waiting", 0, l.asked)

LifeSame == \A i \in Jobs : LifeOf(row'[i]) = LifeOf(row[i])

LifeStep ==
  \/ LifeSame
  \/ \E j \in Jobs : /\ \A i \in Jobs : i # j => row'[i] = row[i]
                     /\ LifeMove(j, LifeOf(row[j]), LifeOf(row'[j]))

Lives == [st : {"absent", "waiting", "processing", "completed", "failed", "cancelled"},
          n : Nat, asked : BOOLEAN]

(* What the lifecycle sees of a row.                                       *)
LEMMA LifeFacts ==
  ASSUME NEW r \in Row
  PROVE  /\ LifeOf(r) \in Lives
         /\ LifeOf(r).st = "processing" <=> IsProcessing(r)
         /\ LifeOf(r).st = "waiting" <=> r.status \in Waiting
         /\ r.status \notin Waiting => LifeOf(r).st = r.status
         /\ LifeOf(r).n = r.attempts
         /\ LifeOf(r).asked = r.cancelReq
BY DEF LifeOf, Lives, Row, Status, Waiting, Final, IsProcessing

(* The budget of a job is at least one attempt.                            *)
LEMMA BudgetType == \A j \in Jobs : Budget(j) \in Nat /\ Budget(j) > 0
BY JobRowAssumption DEF Budget

(* A move keeps a row within its budget, keeps the attempts of a row that  *)
(* is processed before and after it, and never forgets a request to stop.  *)
LEMMA MoveFacts ==
  ASSUME NEW j \in Jobs, NEW l \in Lives, NEW m \in Lives, LifeMove(j, l, m),
         RowWithin(j, l)
  PROVE  /\ RowWithin(j, m)
         /\ l.st = "processing" /\ m.st = "processing" => m.n = l.n
         /\ l.st = "processing" /\ l.asked => m.asked
         /\ l.st = "processing" /\ m.st = "cancelled" => l.asked
<1>1. Budget(j) \in Nat /\ Budget(j) > 0
  BY BudgetType
<1>2. l.n \in Nat /\ l.asked \in BOOLEAN
  BY DEF Lives
<1> QED
  BY <1>1, <1>2 DEF LifeMove, RowWithin, At

(* So does a step, for every row.                                          *)
LEMMA StepFacts ==
  ASSUME RunInv, LeaseInv', LifeStep, NEW j \in Jobs
  PROVE  /\ RowWithin(j, LifeOf(row'[j]))
         /\ IsProcessing(row[j]) /\ IsProcessing(row'[j]) =>
              row'[j].attempts = row[j].attempts
         /\ IsProcessing(row[j]) /\ row[j].cancelReq => row'[j].cancelReq
         /\ IsProcessing(row[j]) /\ row'[j].status = "cancelled" => row[j].cancelReq
<1>1. row[j] \in Row /\ row'[j] \in Row /\ RowWithin(j, LifeOf(row[j]))
  BY DEF RunInv, LeaseInv, TypeInv, TypeOK, RowsWithin
<1>2. LifeMove(j, LifeOf(row[j]), LifeOf(row'[j]))
  <2>1. CASE LifeSame
    BY <2>1 DEF LifeSame, LifeMove
  <2>2. ASSUME NEW i \in Jobs, \A k \in Jobs : k # i => row'[k] = row[k],
               LifeMove(i, LifeOf(row[i]), LifeOf(row'[i]))
        PROVE  LifeMove(j, LifeOf(row[j]), LifeOf(row'[j]))
    <3>1. CASE i = j
      BY <2>2, <3>1
    <3>2. CASE i # j
      BY <2>2, <3>2 DEF LifeMove
    <3> QED
      BY <3>1, <3>2
  <2> QED
    BY <2>1, <2>2 DEF LifeStep
<1> DEFINE l == LifeOf(row[j])
           m == LifeOf(row'[j])
<1>3. /\ l \in Lives /\ m \in Lives
      /\ l.st = "processing" <=> IsProcessing(row[j])
      /\ m.st = "processing" <=> IsProcessing(row'[j])
      /\ row'[j].status = "cancelled" => m.st = "cancelled"
      /\ l.n = row[j].attempts /\ m.n = row'[j].attempts
      /\ l.asked = row[j].cancelReq /\ m.asked = row'[j].cancelReq
  BY <1>1, LifeFacts DEF Waiting
<1> HIDE DEF l, m
<1>4. /\ RowWithin(j, m)
      /\ l.st = "processing" /\ m.st = "processing" => m.n = l.n
      /\ l.st = "processing" /\ l.asked => m.asked
      /\ l.st = "processing" /\ m.st = "cancelled" => l.asked
  BY <1>1, <1>2, <1>3, MoveFacts DEF l, m
<1> QED
  BY <1>3, <1>4 DEF l, m

HandsProtect ==
  /\ \A t \in Tasks : task[t].pc \in InHand =>
       task[t].msg \in Msgs /\ Protects(task[t].msg)
  /\ tick.pc \in {"reap", "retry"} => tick.msg \in Msgs /\ Protects(tick.msg)

(* The message in the hands of a task that runs a job protects its claim,  *)
(* and so does the one the reaper looks into.                              *)
LEMMA InHandProtects == LeaseInv => HandsProtect
<1> SUFFICES ASSUME LeaseInv PROVE HandsProtect
  OBVIOUS
<1>0. TypeInv /\ HeldIsPending /\ HeldOnce
  BY DEF LeaseInv
<1>1. ASSUME NEW t \in Tasks, task[t].pc \in InHand
      PROVE  task[t].msg \in Msgs /\ Protects(task[t].msg)
  <2>1. task[t].pc # "idle" /\ task[t].msg \in Msgs
    BY <1>0, <1>1 DEF TypeInv, LocalOK, InHand
  <2>2. task[t].msg \in pel /\ task[t].msg # tick.msg
    BY <1>0, <2>1 DEF HeldIsPending, HeldOnce
  <2>3. \A u \in Tasks : u # t => task[t].msg # task[u].msg
    BY <1>0, <2>1 DEF HeldOnce
  <2> QED
    BY <1>1, <2>1, <2>2, <2>3 DEF Protects, InHand
<1>2. ASSUME tick.pc \in {"reap", "retry"}
      PROVE  tick.msg \in Msgs /\ Protects(tick.msg)
  <2>1. tick.msg \in Msgs /\ tick.msg \in pel
    BY <1>0, <1>2 DEF TypeInv, LocalOK, HeldIsPending, Reaping
  <2>2. \A t \in Tasks : task[t].msg # tick.msg
    BY <1>0, <2>1, StoreAssumption DEF HeldOnce, TypeInv, LocalOK, Msgs
  <2> QED
    BY <1>2, <2>1, <2>2 DEF Protects
<1> QED
  BY <1>1, <1>2 DEF HandsProtect

(* A step of the lifecycle keeps the invariant if it keeps every claim to  *)
(* itself and if who takes up an attempt has read the row.                 *)
LEMMA RunKept ==
  ASSUME RunInv, LeaseInv', LifeStep, Claimed', ClaimedOnce',
         \A t \in Tasks : \/ TaskFresh(t)'
                          \/ /\ task'[t].pc = task[t].pc /\ task'[t].msg = task[t].msg
                             /\ task'[t].att = task[t].att,
         \/ TickFresh'
         \/ tick'.pc = tick.pc /\ tick'.msg = tick.msg /\ tick'.att = tick.att
  PROVE  RunInv'
<1>0. /\ LeaseInv /\ Claimed /\ TypeInv /\ TypeInv' /\ TickFresh
      /\ \A t \in Tasks : TaskFresh(t)
  BY DEF RunInv, LeaseInv
<1>1. RowsWithin'
  BY StepFacts DEF RowsWithin
<1>2. HandsProtect /\ HandsProtect'
  BY <1>0, InHandProtects, PTL
<1>3. ASSUME NEW m \in Msgs, Protects(m), Protects(m)'
      PROVE  /\ row'[JobOf(m)].attempts = row[JobOf(m)].attempts
             /\ row[JobOf(m)].cancelReq => row'[JobOf(m)].cancelReq
  <2>1. JobOf(m) \in Jobs
    BY MsgJob
  <2>2. IsProcessing(row[JobOf(m)]) /\ IsProcessing(row'[JobOf(m)])
    BY <1>0, <1>3 DEF Claimed, IsProcessing
  <2> QED
    BY <2>1, <2>2, StepFacts
<1>4. ASSUME NEW t \in Tasks
      PROVE  TaskFresh(t)'
  <2>1. CASE /\ task'[t].pc = task[t].pc /\ task'[t].msg = task[t].msg
             /\ task'[t].att = task[t].att
             /\ task[t].pc \in InHand
    <3>1. PICK m \in Msgs : m = task[t].msg
      BY <1>2, <2>1 DEF HandsProtect
    <3>2. Protects(m)
      BY <1>2, <2>1, <3>1 DEF HandsProtect
    <3>3. Protects(m)'
      BY <1>2, <2>1, <3>1 DEF HandsProtect, Protects
    <3> QED
      BY <1>0, <1>3, <2>1, <3>1, <3>2, <3>3 DEF TaskFresh, MyJob
  <2>2. CASE task'[t].pc = task[t].pc /\ task[t].pc \notin InHand
    BY <2>2 DEF TaskFresh, InHand
  <2> QED
    BY <2>1, <2>2
<1>5. TickFresh'
  <2>1. CASE /\ tick'.pc = tick.pc /\ tick'.msg = tick.msg /\ tick'.att = tick.att
             /\ tick.pc = "retry"
    <3>1. PICK m \in Msgs : m = tick.msg
      BY <1>2, <2>1 DEF HandsProtect
    <3>2. Protects(m)
      BY <1>2, <2>1, <3>1 DEF HandsProtect
    <3>3. Protects(m)'
      BY <1>2, <2>1, <3>1 DEF HandsProtect, Protects
    <3>4. tick.job = JobOf(m) /\ tick'.job = JobOf(m)
      BY <1>0, <2>1, <3>1 DEF TypeInv, LocalOK, Reaping
    <3> QED
      BY <1>0, <1>3, <2>1, <3>2, <3>3, <3>4 DEF TickFresh
  <2>2. CASE tick'.pc = tick.pc /\ tick.pc # "retry"
    BY <2>2 DEF TickFresh
  <2> QED
    BY <2>1, <2>2
<1> QED
  BY <1>1, <1>4, <1>5 DEF RunInv

(* What the lifecycle sees of every write of repository.py.                *)
LEMMA RowLives ==
  ASSUME NEW r \in Row
  PROVE  /\ LifeOf(mark_synced(r)) = LifeOf(r)
         /\ LifeOf(promote_scheduled_to_pending(r)) = LifeOf(r)
         /\ LifeOf([r EXCEPT !.wait = FALSE]) = LifeOf(r)
         /\ \A h : LifeOf(create_job(h)) = At("waiting", 0, FALSE)
         /\ LifeOf(claim_job(r)) = At("processing", r.attempts, r.cancelReq)
         /\ LifeOf(complete_job(r)) = At("completed", r.attempts + 1, r.cancelReq)
         /\ LifeOf(fail_job(r)) = At("failed", r.attempts + 1, r.cancelReq)
         /\ LifeOf(retry_to_pending(r)) = At("waiting", r.attempts + 1, r.cancelReq)
         /\ LifeOf(retry_to_scheduled(r)) = At("waiting", r.attempts + 1, r.cancelReq)
         /\ IsProcessing(r) =>
              LifeOf(request_cancel(r)) = At("processing", r.attempts, TRUE)
         /\ LifeOf(cancel_pending_or_scheduled(r)) =
              At("cancelled", r.attempts, r.cancelReq)
         /\ LifeOf(cancel_job(r)) = At("cancelled", r.attempts, r.cancelReq)
         /\ LifeOf(reset_failed_to_pending(r)) = At("waiting", 0, r.cancelReq)
<1> USE DEF LifeOf, Waiting, At
<1>1. LifeOf(mark_synced(r)) = LifeOf(r)
  <2>1. /\ mark_synced(r).status = r.status
        /\ mark_synced(r).attempts = r.attempts
        /\ mark_synced(r).cancelReq = r.cancelReq
    BY DEF Row, mark_synced
  <2> QED
    BY <2>1
<1>2. LifeOf(claim_job(r)) = At("processing", r.attempts, r.cancelReq)
  <2>1. /\ claim_job(r).status = "processing"
        /\ claim_job(r).attempts = r.attempts
        /\ claim_job(r).cancelReq = r.cancelReq
    BY DEF Row, claim_job
  <2> QED
    BY <2>1
<1>3. LifeOf(complete_job(r)) = At("completed", r.attempts + 1, r.cancelReq)
  <2>1. /\ complete_job(r).status = "completed"
        /\ complete_job(r).attempts = r.attempts + 1
        /\ complete_job(r).cancelReq = r.cancelReq
    BY DEF Row, complete_job
  <2> QED
    BY <2>1
<1>4. LifeOf(fail_job(r)) = At("failed", r.attempts + 1, r.cancelReq)
  <2>1. /\ fail_job(r).status = "failed"
        /\ fail_job(r).attempts = r.attempts + 1
        /\ fail_job(r).cancelReq = r.cancelReq
    BY DEF Row, fail_job
  <2> QED
    BY <2>1
<1>5. LifeOf(retry_to_pending(r)) = At("waiting", r.attempts + 1, r.cancelReq)
  <2>1. /\ retry_to_pending(r).status = "pending"
        /\ retry_to_pending(r).attempts = r.attempts + 1
        /\ retry_to_pending(r).cancelReq = r.cancelReq
    BY DEF Row, retry_to_pending
  <2> QED
    BY <2>1
<1>6. LifeOf(retry_to_scheduled(r)) = At("waiting", r.attempts + 1, r.cancelReq)
  <2>1. /\ retry_to_scheduled(r).status = "scheduled"
        /\ retry_to_scheduled(r).attempts = r.attempts + 1
        /\ retry_to_scheduled(r).cancelReq = r.cancelReq
    BY DEF Row, retry_to_scheduled
  <2> QED
    BY <2>1
<1>7. IsProcessing(r) => LifeOf(request_cancel(r)) = At("processing", r.attempts, TRUE)
  <2>1. /\ request_cancel(r).status = r.status
        /\ request_cancel(r).attempts = r.attempts
        /\ request_cancel(r).cancelReq = TRUE
    BY DEF Row, request_cancel
  <2> QED
    BY <2>1 DEF IsProcessing
<1>8. LifeOf(cancel_pending_or_scheduled(r)) = At("cancelled", r.attempts, r.cancelReq)
  <2>1. /\ cancel_pending_or_scheduled(r).status = "cancelled"
        /\ cancel_pending_or_scheduled(r).attempts = r.attempts
        /\ cancel_pending_or_scheduled(r).cancelReq = r.cancelReq
    BY DEF Row, cancel_pending_or_scheduled
  <2> QED
    BY <2>1
<1>9. LifeOf(cancel_job(r)) = At("cancelled", r.attempts, r.cancelReq)
  <2>1. /\ cancel_job(r).status = "cancelled"
        /\ cancel_job(r).attempts = r.attempts
        /\ cancel_job(r).cancelReq = r.cancelReq
    BY DEF Row, cancel_job
  <2> QED
    BY <2>1
<1>10. LifeOf(reset_failed_to_pending(r)) = At("waiting", 0, r.cancelReq)
  <2>1. /\ reset_failed_to_pending(r).status = "pending"
        /\ reset_failed_to_pending(r).attempts = 0
        /\ reset_failed_to_pending(r).cancelReq = r.cancelReq
    BY DEF Row, reset_failed_to_pending
  <2> QED
    BY <2>1
<1>11. LifeOf([r EXCEPT !.wait = FALSE]) = LifeOf(r)
  <2>1. /\ [r EXCEPT !.wait = FALSE].status = r.status
        /\ [r EXCEPT !.wait = FALSE].attempts = r.attempts
        /\ [r EXCEPT !.wait = FALSE].cancelReq = r.cancelReq
    BY DEF Row
  <2> QED
    BY <2>1
<1>12. LifeOf(promote_scheduled_to_pending(r)) = LifeOf(r)
  <2> DEFINE s == promote_scheduled_to_pending(r)
  <2>1. /\ s.status = IF r.status = "scheduled" THEN "pending" ELSE r.status
        /\ s.attempts = r.attempts /\ s.cancelReq = r.cancelReq
    BY DEF Row, promote_scheduled_to_pending
  <2> HIDE DEF s
  <2>2. LifeOf(s) = LifeOf(r)
    BY <2>1
  <2> QED
    BY <2>2 DEF s
<1>13. \A h : LifeOf(create_job(h)) = At("waiting", 0, FALSE)
  <2> TAKE h
  <2>1. /\ create_job(h).status \in Waiting
        /\ create_job(h).attempts = 0 /\ create_job(h).cancelReq = FALSE
    BY DEF create_job, NoRow
  <2> QED
    BY <2>1
<1> QED
  BY <1>1, <1>2, <1>3, <1>4, <1>5, <1>6, <1>7, <1>8, <1>9, <1>10, <1>11, <1>12, <1>13

(* schedule_retry_or_fail, given the attempts the row has now.             *)
LEMMA RetryLife ==
  ASSUME NEW j \in Jobs, NEW r \in Row, IsProcessing(r), NEW att, att = r.attempts
  PROVE  LifeMove(j, LifeOf(r), LifeOf(RetryRow(j, att, r)))
<1>1. /\ LifeOf(r).st = "processing" /\ LifeOf(r).n = r.attempts
      /\ LifeOf(r).asked = r.cancelReq /\ att \in Nat
  BY LifeFacts DEF Row
<1>2. Budget(j) \in Nat
  BY BudgetType
<1>3. CASE Exhausted(j, att)
  <2>1. RetryRow(j, att, r) = fail_job(r)
    BY <1>3 DEF RetryRow
  <2> QED
    BY <1>1, <2>1, RowLives DEF LifeMove
<1>4. CASE ~Exhausted(j, att)
  <2>1. LifeOf(r).n + 1 < Budget(j)
    BY <1>1, <1>2, <1>4 DEF Exhausted
  <2>2. \/ RetryRow(j, att, r) = retry_to_pending(r)
        \/ RetryRow(j, att, r) = retry_to_scheduled(r)
    BY <1>4 DEF RetryRow
  <2> QED
    BY <1>1, <2>1, <2>2, RowLives DEF LifeMove
<1> QED
  BY <1>3, <1>4

(* A step that writes one row.                                             *)
LEMMA OneRow ==
  ASSUME TypeInv, NEW j \in Jobs, NEW r, row' = [row EXCEPT ![j] = r],
         LifeMove(j, LifeOf(row[j]), LifeOf(r))
  PROVE  LifeStep
<1>1. row \in [Jobs -> Row]
  BY DEF TypeInv, TypeOK
<1> QED
  BY <1>1 DEF LifeStep

(* A step in which no message comes to protect a claim, and every message  *)
(* that still does protects the same one.                                  *)
LEMMA ClaimsKept ==
  ASSUME Claimed, ClaimedOnce,
         \A m \in Msgs : Protects(m)' => Protects(m) /\ IsProcessing(row'[JobOf(m)])
  PROVE  Claimed' /\ ClaimedOnce'
BY DEF Claimed, ClaimedOnce, IsProcessing

(* A step that touches no message and ends no attempt.                     *)
LEMMA QuietRun ==
  ASSUME RunInv, LeaseInv', LifeStep, pel' = pel,
         \A t \in Tasks : /\ task'[t].pc = task[t].pc /\ task'[t].msg = task[t].msg
                          /\ task'[t].att = task[t].att,
         tick'.pc = tick.pc /\ tick'.msg = tick.msg /\ tick'.att = tick.att,
         \A j \in Jobs : IsProcessing(row[j]) => IsProcessing(row'[j])
  PROVE  RunInv'
<1>1. \A m \in Msgs : Protects(m)' => Protects(m) /\ IsProcessing(row'[JobOf(m)])
  <2> SUFFICES ASSUME NEW m \in Msgs, Protects(m)'
               PROVE  Protects(m) /\ IsProcessing(row'[JobOf(m)])
    OBVIOUS
  <2>1. Protects(m)
    BY DEF Protects
  <2>2. IsProcessing(row[JobOf(m)])
    BY <2>1 DEF RunInv, Claimed
  <2> QED
    BY <2>1, <2>2, MsgJob
<1>2. Claimed' /\ ClaimedOnce'
  BY <1>1, ClaimsKept DEF RunInv
<1> QED
  BY <1>2, RunKept

(* No attempt ends.                                                        *)
NoEnd == \A j \in Jobs : IsProcessing(row[j]) => IsProcessing(row'[j])

(* A write of one row that ends no attempt.                                *)
LEMMA OneRowNoEnd ==
  ASSUME TypeInv, NEW j \in Jobs, NEW r \in Row, row' = [row EXCEPT ![j] = r],
         LifeMove(j, LifeOf(row[j]), LifeOf(r)),
         IsProcessing(row[j]) => IsProcessing(r)
  PROVE  LifeStep /\ NoEnd
<1>1. row \in [Jobs -> Row]
  BY DEF TypeInv, TypeOK
<1>2. NoEnd
  BY <1>1 DEF NoEnd
<1> QED
  BY <1>2, OneRow

(* Requests create rows, reset failed ones, cancel waiting ones and ask    *)
(* running ones to stop: steps of the lifecycle that end no attempt.       *)
LEMMA ApiLife ==
  ASSUME RunInv, NEW c \in Clients, ApiCall(c) \/ ApiStep(c) \/ ApiCrash(c)
  PROVE  LifeStep /\ NoEnd
<1>0. TypeInv /\ RowsWithin /\ row \in [Jobs -> Row]
  BY DEF RunInv, LeaseInv, TypeInv, TypeOK
<1>1. ASSUME NEW j \in Jobs, NEW h, submit_job(c, j, h)
      PROVE  LifeStep /\ NoEnd
  <2>1. /\ row[j] \in Row /\ row[j].status = "absent" /\ create_job(h) \in Row
        /\ row' = [row EXCEPT ![j] = create_job(h)] /\ RowWithin(j, LifeOf(row[j]))
    BY <1>0, <1>1, NewRow DEF submit_job, Update, RowsWithin
  <2>2. /\ LifeOf(row[j]).st = "absent" /\ LifeOf(row[j]).n = 0
        /\ LifeOf(row[j]).asked = FALSE
    BY <2>1, LifeFacts DEF Waiting, RowWithin, Lives
  <2>3. LifeMove(j, LifeOf(row[j]), LifeOf(create_job(h)))
    BY <2>1, <2>2, RowLives DEF LifeMove
  <2>4. ~IsProcessing(row[j])
    BY <2>1 DEF IsProcessing
  <2> QED
    BY <1>0, <2>1, <2>3, <2>4, OneRowNoEnd
<1>2. ASSUME NEW j \in Jobs, retry_job(c, j)
      PROVE  LifeStep /\ NoEnd
  <2> DEFINE r == reset_failed_to_pending(row[j])
  <2>1. /\ row[j] \in Row /\ row[j].status = "failed" /\ ~row[j].cancelReq
        /\ row' = [row EXCEPT ![j] = r] /\ r \in Row
    BY <1>0, <1>2, RowUpdates DEF retry_job, Update, CanReset
  <2>2. LifeOf(row[j]).st = "failed" /\ LifeOf(row[j]).asked = row[j].cancelReq
    BY <2>1, LifeFacts DEF Waiting
  <2>3. LifeMove(j, LifeOf(row[j]), LifeOf(r))
    BY <2>1, <2>2, RowLives DEF LifeMove
  <2>4. ~IsProcessing(row[j])
    BY <2>1 DEF IsProcessing
  <2> HIDE DEF r
  <2> QED
    BY <1>0, <2>1, <2>3, <2>4, OneRowNoEnd
<1> DEFINE j == req[c].job
<1>3. CASE ApiSync(c)
  <2>1. /\ j \in Jobs /\ row[j] \in Row /\ mark_synced(row[j]) \in Row
        /\ row' = [row EXCEPT ![j] = mark_synced(row[j])]
    BY <1>0, <1>3, ReqTypes, RowUpdates DEF ApiSync, Update
  <2>2. LifeMove(j, LifeOf(row[j]), LifeOf(mark_synced(row[j])))
    BY <2>1, RowLives DEF LifeMove
  <2>3. IsProcessing(row[j]) => IsProcessing(mark_synced(row[j]))
    BY <2>1 DEF IsProcessing, mark_synced, Row
  <2> HIDE DEF j
  <2> QED
    BY <1>0, <2>1, <2>2, <2>3, OneRowNoEnd
<1>4. CASE CancelWaiting(c) /\ CanCancel(row[j])
  <2> DEFINE r == cancel_pending_or_scheduled(row[j])
  <2>1. /\ j \in Jobs /\ row[j] \in Row /\ r \in Row
        /\ row' = [row EXCEPT ![j] = r] /\ row[j].status \in Waiting
    BY <1>0, <1>4, ReqTypes, RowUpdates DEF CancelWaiting, Update, CanCancel
  <2>2. /\ LifeOf(row[j]).st = "waiting" /\ LifeOf(row[j]).asked = row[j].cancelReq
        /\ LifeOf(row[j]).n = row[j].attempts /\ ~IsProcessing(row[j])
    BY <2>1, LifeFacts DEF Waiting, IsProcessing
  <2>3. LifeMove(j, LifeOf(row[j]), LifeOf(r))
    BY <2>1, <2>2, RowLives DEF LifeMove
  <2> HIDE DEF j, r
  <2> QED
    BY <1>0, <2>1, <2>2, <2>3, OneRowNoEnd
<1>5. CASE CancelRunning(c) /\ IsProcessing(row[j])
  <2> DEFINE r == request_cancel(row[j])
  <2>1. /\ j \in Jobs /\ row[j] \in Row /\ r \in Row
        /\ row' = [row EXCEPT ![j] = r]
    BY <1>0, <1>5, ReqTypes, RowUpdates DEF CancelRunning, Update
  <2>2. LifeOf(row[j]).st = "processing" /\ LifeOf(row[j]).n = row[j].attempts
    BY <1>5, <2>1, LifeFacts
  <2>3. LifeMove(j, LifeOf(row[j]), LifeOf(r))
    BY <1>5, <2>1, <2>2, RowLives DEF LifeMove
  <2>4. IsProcessing(row[j]) => IsProcessing(r)
    BY <2>1 DEF IsProcessing, request_cancel, Row
  <2> HIDE DEF j, r
  <2> QED
    BY <1>0, <2>1, <2>3, <2>4, OneRowNoEnd
<1>6. CASE UNCHANGED row
  BY <1>6 DEF LifeStep, LifeSame, NoEnd
<1> QED
  BY <1>1, <1>2, <1>3, <1>4, <1>5, <1>6
     DEF ApiCall, ApiStep, ApiCrash, cancel_job_route, ApiHandoff, CancelWaiting,
         CancelZrem, CancelRunning, CancelRead, CancelAnswer

(* Requests keep the invariant.                                            *)
LEMMA ApiRun ==
  ASSUME RunInv, NEW c \in Clients, ApiCall(c) \/ ApiStep(c) \/ ApiCrash(c)
  PROVE  RunInv'
<1>1. LeaseInv'
  BY ApiLease DEF RunInv
<1>2. UNCHANGED <<pel, task, tick>>
  BY DEF ApiCall, ApiStep, ApiCrash, submit_job, retry_job, cancel_job_route,
         ApiHandoff, ApiSync, CancelWaiting, CancelZrem, CancelRunning, CancelRead,
         CancelAnswer, apiRest
<1>3. LifeStep /\ NoEnd
  BY ApiLife
<1> QED
  BY <1>1, <1>2, <1>3, QuietRun DEF NoEnd

(* The clock changes nothing the lifecycle sees.                           *)
LEMMA ClockLife ==
  ASSUME RunInv, NEW j \in Jobs, ClockPasses(j)
  PROVE  LifeStep /\ NoEnd
<1>0. TypeInv
  BY DEF RunInv, LeaseInv
<1> DEFINE r == [row[j] EXCEPT !.wait = FALSE]
<1>1. /\ row[j] \in Row /\ row' = [row EXCEPT ![j] = r] /\ r \in Row
  BY <1>0, RowUpdates DEF ClockPasses, TypeInv, TypeOK
<1>2. LifeMove(j, LifeOf(row[j]), LifeOf(r))
  BY <1>1, RowLives DEF LifeMove
<1>3. IsProcessing(row[j]) => IsProcessing(r)
  BY <1>1 DEF IsProcessing, Row
<1> HIDE DEF r
<1> QED
  BY <1>0, <1>1, <1>2, <1>3, OneRowNoEnd

(* The clock keeps the invariant.                                          *)
LEMMA ClockRun ==
  ASSUME RunInv, NEW j \in Jobs, ClockPasses(j)
  PROVE  RunInv'
<1>0. TypeInv /\ LeaseInv'
  BY ClockLease DEF RunInv, LeaseInv
<1>1. ASSUME NEW t \in Tasks
      PROVE  /\ task'[t].pc = task[t].pc /\ task'[t].msg = task[t].msg
             /\ task'[t].att = task[t].att
  <2>1. PICK h \in Handoff : task'[t] = [task[t] EXCEPT !.h = h]
    BY <1>0, ClockLocal
  <2>2. task[t] \in Task
    BY <1>0 DEF TypeInv, TypeOK
  <2> QED
    BY <2>1, <2>2 DEF Task
<1>2. tick'.msg = tick.msg /\ tick'.pc = tick.pc /\ tick'.att = tick.att
  <2>1. tick \in Ticker
    BY <1>0 DEF TypeInv, TypeOK
  <2> QED
    BY <1>0, <2>1, ClockLocal DEF Ticker
<1>3. pel' = pel
  BY DEF ClockPasses
<1> QED
  BY <1>0, <1>1, <1>2, <1>3, ClockLife, QuietRun DEF NoEnd

(* The task that runs a job has won its guarded update.                    *)
LEMMA RunnerWins ==
  ASSUME RunInv, NEW t \in Tasks, task[t].pc \in InHand
  PROVE  /\ MyJob(t) \in Jobs /\ row[MyJob(t)] \in Row
         /\ IsProcessing(row[MyJob(t)])
         /\ LifeOf(row[MyJob(t)]).st = "processing"
         /\ LifeOf(row[MyJob(t)]).n = row[MyJob(t)].attempts
         /\ LifeOf(row[MyJob(t)]).asked = row[MyJob(t)].cancelReq
<1>1. TypeInv /\ Claimed /\ LeaseInv
  BY DEF RunInv, LeaseInv
<1>2. MyJob(t) \in Jobs /\ row[MyJob(t)] \in Row
  BY <1>1, TaskTypes DEF InHand
<1>3. IsProcessing(row[MyJob(t)])
  BY <1>1, InHandProtects DEF HandsProtect, Claimed, MyJob
<1> QED
  BY <1>2, <1>3, LifeFacts

(* Every step of a task is a step of the lifecycle: it claims a row that   *)
(* has an attempt left, ends its own attempt, or changes nothing that the  *)
(* lifecycle sees.                                                         *)
LEMMA TaskLife ==
  ASSUME RunInv, NEW t \in Tasks, TaskStep(t)
  PROVE  LifeStep
<1> USE DEF redis, taskRest, workerRest
<1>0. TypeInv /\ RowsWithin /\ row \in [Jobs -> Row] /\ TaskFresh(t)
  BY DEF RunInv, LeaseInv, TypeInv, TypeOK
<1>1. task[t].pc # "idle"
  BY DEF TaskStep, Claim, Load, DropOwnerless, Complete, Reject, RetryOrFail,
         TaskHandoff, TaskSync, PollCancelled, CancelJob, Ack
<1> DEFINE j == MyJob(t)
<1>2. j \in Jobs /\ row[j] \in Row /\ RowWithin(j, LifeOf(row[j]))
  BY <1>0, <1>1, TaskTypes DEF RowsWithin
<1>3. UNCHANGED row => LifeStep
  BY DEF LifeStep, LifeSame
<1>4. CASE Claim(t)
  <2>1. CASE CanClaim(row[j])
    <3>1. row' = [row EXCEPT ![j] = claim_job(row[j])]
      BY <1>4, <2>1 DEF Claim, Update
    <3>2. /\ LifeOf(row[j]).st = "waiting" /\ LifeOf(row[j]).n = row[j].attempts
          /\ LifeOf(row[j]).asked = row[j].cancelReq
      BY <1>2, <2>1, LifeFacts DEF CanClaim
    <3>3. LifeMove(j, LifeOf(row[j]), LifeOf(claim_job(row[j])))
      BY <1>2, <3>2, RowLives DEF LifeMove, RowWithin
    <3> HIDE DEF j
    <3> QED
      BY <1>0, <1>2, <3>1, <3>3, OneRow
  <2>2. CASE ~CanClaim(row[j])
    BY <1>3, <1>4, <2>2 DEF Claim
  <2> QED
    BY <2>1, <2>2
<1>5. ASSUME NEW r, task[t].pc \in InHand, Finish(t, r),
             LifeMove(j, LifeOf(row[j]), LifeOf(r))
      PROVE  LifeStep
  <2>1. IsProcessing(row[j])
    BY <1>5, RunnerWins
  <2>2. row' = [row EXCEPT ![j] = r]
    BY <1>5, <2>1 DEF Finish, Update
  <2> HIDE DEF j
  <2> QED
    BY <1>0, <1>2, <1>5, <2>2, OneRow
<1>6. CASE DropOwnerless(t) \/ Reject(t)
  <2>1. task[t].pc \in InHand /\ Finish(t, fail_job(row[j]))
    BY <1>6 DEF DropOwnerless, Reject, InHand
  <2>2. LifeMove(j, LifeOf(row[j]), LifeOf(fail_job(row[j])))
    BY <2>1, RunnerWins, RowLives DEF LifeMove
  <2> QED
    BY <1>5, <2>1, <2>2
<1>7. CASE Complete(t)
  <2>1. task[t].pc \in InHand /\ Finish(t, complete_job(row[j]))
    BY <1>7 DEF Complete, InHand
  <2>2. LifeMove(j, LifeOf(row[j]), LifeOf(complete_job(row[j])))
    BY <2>1, RunnerWins, RowLives DEF LifeMove
  <2> QED
    BY <1>5, <2>1, <2>2
<1>8. CASE CancelJob(t)
  <2>1. task[t].pc \in InHand /\ Finish(t, cancel_job(row[j])) /\ row[j].cancelReq
    BY <1>0, <1>8 DEF CancelJob, InHand, TaskFresh
  <2>2. LifeMove(j, LifeOf(row[j]), LifeOf(cancel_job(row[j])))
    BY <2>1, RunnerWins, RowLives DEF LifeMove
  <2> QED
    BY <1>5, <2>1, <2>2
<1>9. CASE RetryOrFail(t)
  <2> DEFINE r == RetryRow(j, task[t].att, row[j])
  <2>1. task[t].pc \in InHand /\ task[t].att = row[j].attempts
    BY <1>0, <1>9 DEF RetryOrFail, InHand, TaskFresh
  <2>2. LifeMove(j, LifeOf(row[j]), LifeOf(r))
    BY <1>2, <2>1, RunnerWins, RetryLife
  <2>3. Finish(t, r) \/ row' = [row EXCEPT ![j] = r]
    BY <1>9 DEF RetryOrFail, Update
  <2> HIDE DEF r
  <2>4. CASE Finish(t, r)
    BY <1>5, <2>1, <2>2, <2>4
  <2>5. CASE row' = [row EXCEPT ![j] = r]
    BY <1>0, <1>2, <2>2, <2>5, OneRow
  <2> QED
    BY <2>3, <2>4, <2>5
<1>10. CASE TaskSync(t)
  <2>1. row' = [row EXCEPT ![j] = mark_synced(row[j])]
    BY <1>10 DEF TaskSync, Update
  <2>2. LifeMove(j, LifeOf(row[j]), LifeOf(mark_synced(row[j])))
    BY <1>2, RowLives DEF LifeMove
  <2> HIDE DEF j
  <2> QED
    BY <1>0, <1>2, <2>1, <2>2, OneRow
<1> QED
  BY <1>3, <1>4, <1>6, <1>7, <1>8, <1>9, <1>10
     DEF TaskStep, Load, TaskHandoff, PollCancelled, Ack

(* The end of an attempt: the message of the task was the one message that *)
(* protected the claim of its job.                                         *)
LEMMA AttemptEnds ==
  ASSUME RunInv, LeaseInv', LifeStep, NEW t \in Tasks, task[t].pc \in InHand,
         NEW u, u.msg = task[t].msg, u.pc \in {"ack", "handoff"},
         task' = [task EXCEPT ![t] = u],
         UNCHANGED <<pel, tick>>,
         NEW r, row' = [row EXCEPT ![MyJob(t)] = r]
  PROVE  RunInv'
<1>0. /\ LeaseInv /\ TypeInv /\ Claimed /\ ClaimedOnce
      /\ row \in [Jobs -> Row] /\ task \in [Tasks -> Task]
  BY DEF RunInv, LeaseInv, TypeInv, TypeOK
<1>1. \A d \in Tasks : task'[d] = IF d = t THEN u ELSE task[d]
  BY <1>0
<1>2. task[t].msg \in Msgs /\ Protects(task[t].msg)
  BY <1>0, InHandProtects DEF HandsProtect
<1>3. ASSUME NEW m \in Msgs, Protects(m)'
      PROVE  Protects(m) /\ IsProcessing(row'[JobOf(m)])
  <2>1. m # task[t].msg
    BY <1>1, <1>3 DEF Protects
  <2>2. Protects(m)
    BY <1>1, <1>3, <2>1 DEF Protects
  <2>3. JobOf(m) # MyJob(t)
    BY <1>0, <1>2, <2>1, <2>2 DEF ClaimedOnce, MyJob
  <2>4. JobOf(m) \in Jobs /\ IsProcessing(row[JobOf(m)])
    BY <1>0, <2>2, MsgJob DEF Claimed
  <2> QED
    BY <1>0, <2>2, <2>3, <2>4
<1>4. Claimed' /\ ClaimedOnce'
  BY <1>0, <1>3, ClaimsKept
<1>5. \A d \in Tasks : \/ TaskFresh(d)'
                       \/ /\ task'[d].pc = task[d].pc /\ task'[d].msg = task[d].msg
                          /\ task'[d].att = task[d].att
  BY <1>1 DEF TaskFresh
<1> QED
  BY <1>4, <1>5, RunKept

(* A step of a task that neither starts nor ends an attempt.               *)
LEMMA TaskGoesOn ==
  ASSUME RunInv, LeaseInv', LifeStep, NoEnd, NEW t \in Tasks,
         NEW u, u.msg = task[t].msg, u.pc \in InHand <=> task[t].pc \in InHand,
         task' = [task EXCEPT ![t] = u],
         UNCHANGED <<pel, tick>>,
         TaskFresh(t)'
  PROVE  RunInv'
<1>0. LeaseInv /\ Claimed /\ ClaimedOnce /\ task \in [Tasks -> Task]
  BY DEF RunInv, LeaseInv, TypeInv, TypeOK
<1>1. \A d \in Tasks : task'[d] = IF d = t THEN u ELSE task[d]
  BY <1>0
<1>2. ASSUME NEW m \in Msgs, Protects(m)'
      PROVE  Protects(m) /\ IsProcessing(row'[JobOf(m)])
  <2>1. Protects(m)
    BY <1>1, <1>2 DEF Protects, InHand
  <2> QED
    BY <1>0, <2>1, MsgJob DEF Claimed, NoEnd
<1>3. Claimed' /\ ClaimedOnce'
  BY <1>0, <1>2, ClaimsKept
<1>4. \A d \in Tasks : \/ TaskFresh(d)'
                       \/ /\ task'[d].pc = task[d].pc /\ task'[d].msg = task[d].msg
                          /\ task'[d].att = task[d].att
  BY <1>1
<1> QED
  BY <1>3, <1>4, RunKept

(* The claim of a waiting row: nobody else has a claim on it.              *)
LEMMA ClaimRun ==
  ASSUME RunInv, LeaseInv', LifeStep, NEW t \in Tasks, task[t].pc = "claim",
         CanClaim(row[MyJob(t)]),
         row' = [row EXCEPT ![MyJob(t)] = claim_job(row[MyJob(t)])],
         task' = [task EXCEPT ![t].pc = "load"],
         UNCHANGED <<stream, pel, tick>>
  PROVE  RunInv'
<1>0. /\ LeaseInv /\ TypeInv /\ Claimed /\ ClaimedOnce /\ HeldOnce
      /\ row \in [Jobs -> Row] /\ task \in [Tasks -> Task]
  BY DEF RunInv, LeaseInv, TypeInv, TypeOK
<1>1. /\ task[t] \in Task /\ task[t].msg \in Msgs /\ MyJob(t) \in Jobs
      /\ row[MyJob(t)] \in Row
  BY <1>0, TaskTypes
<1>2. \A d \in Tasks : /\ task'[d].msg = task[d].msg /\ task'[d].att = task[d].att
                       /\ task'[d].pc = IF d = t THEN "load" ELSE task[d].pc
  BY <1>0 DEF Task
<1>3. IsProcessing(row'[MyJob(t)])
  BY <1>0, <1>1 DEF claim_job, IsProcessing, Row
<1>4. \A m \in Msgs : Protects(m) => JobOf(m) # MyJob(t)
  BY <1>0 DEF Claimed, CanClaim, IsProcessing, Waiting
<1>5. \A m \in Msgs : Protects(m)' => m = task[t].msg \/ Protects(m)
  BY <1>2 DEF Protects
<1>6. Claimed'
  <2> SUFFICES ASSUME NEW m \in Msgs, Protects(m)'
               PROVE  IsProcessing(row'[JobOf(m)])
    BY DEF Claimed, IsProcessing
  <2>1. CASE m = task[t].msg
    BY <1>3, <2>1 DEF MyJob
  <2>2. CASE Protects(m)
    BY <1>0, <1>4, <2>2, MsgJob DEF Claimed
  <2> QED
    BY <1>5, <2>1, <2>2
<1>7. ClaimedOnce'
  BY <1>0, <1>4, <1>5 DEF ClaimedOnce, MyJob
<1>8. \A d \in Tasks : \/ TaskFresh(d)'
                       \/ /\ task'[d].pc = task[d].pc /\ task'[d].msg = task[d].msg
                          /\ task'[d].att = task[d].att
  BY <1>2 DEF TaskFresh
<1> QED
  BY <1>6, <1>7, <1>8, RunKept

(* Every step of a task keeps the invariant.                               *)
LEMMA TaskRun ==
  ASSUME RunInv, NEW t \in Tasks, TaskStep(t)
  PROVE  RunInv'
<1> USE DEF redis, taskRest, workerRest
<1>0. /\ LeaseInv /\ TypeInv /\ Claimed /\ ClaimedOnce /\ LifeStep /\ LeaseInv'
      /\ HeldOnce /\ row \in [Jobs -> Row] /\ task \in [Tasks -> Task] /\ TaskFresh(t)
      /\ NoMsg \notin Msgs
  BY TaskLife, TaskLease, StoreAssumption DEF RunInv, LeaseInv, TypeInv, TypeOK, Msgs
<1>1. task[t].pc # "idle"
  BY DEF TaskStep, Claim, Load, DropOwnerless, Complete, Reject, RetryOrFail,
         TaskHandoff, TaskSync, PollCancelled, CancelJob, Ack
<1>2. /\ task[t] \in Task /\ task[t].msg \in Msgs /\ MyJob(t) \in Jobs
      /\ row[MyJob(t)] \in Row
  BY <1>0, <1>1, TaskTypes
<1>3. UNCHANGED row => NoEnd
  BY DEF NoEnd
<1>4. ASSUME NEW pc, pc \in {"ack", "sync"}, task' = [task EXCEPT ![t].pc = pc],
             task[t].pc \notin InHand, UNCHANGED <<pel, tick>>, NoEnd
      PROVE  RunInv'
  <2> DEFINE u == [task[t] EXCEPT !.pc = pc]
  <2>1. task' = [task EXCEPT ![t] = u] /\ u.msg = task[t].msg /\ u.pc = pc
    BY <1>2, <1>4 DEF Task
  <2> HIDE DEF u
  <2>2. task'[t] = u /\ u.pc \notin InHand
    BY <1>0, <1>4, <2>1 DEF InHand
  <2>3. TaskFresh(t)'
    BY <1>4, <2>1, <2>2 DEF TaskFresh
  <2> QED
    BY <1>0, <1>4, <2>1, <2>2, <2>3, TaskGoesOn
<1>5. CASE Claim(t)
  <2>1. CASE CanClaim(row[MyJob(t)])
    BY <1>0, <1>5, <2>1, ClaimRun DEF Claim, Update
  <2>2. CASE ~CanClaim(row[MyJob(t)])
    BY <1>3, <1>4, <1>5, <2>2 DEF Claim, InHand
  <2> QED
    BY <2>1, <2>2
<1>6. CASE Load(t)
  <2> DEFINE u == [task[t] EXCEPT !.pc = "run", !.att = row[MyJob(t)].attempts]
  <2>1. /\ task' = [task EXCEPT ![t] = u] /\ u.msg = task[t].msg /\ u.pc = "run"
        /\ u.att = row[MyJob(t)].attempts /\ UNCHANGED <<row, pel, tick>>
        /\ task[t].pc \in InHand
    BY <1>2, <1>6 DEF Load, Task, InHand
  <2> HIDE DEF u
  <2>2. task'[t] = u /\ u.pc \in InHand
    BY <1>0, <2>1 DEF InHand
  <2>3. TaskFresh(t)'
    BY <2>1, <2>2 DEF TaskFresh, MyJob
  <2> QED
    BY <1>0, <1>3, <2>1, <2>2, <2>3, TaskGoesOn
<1>7. CASE PollCancelled(t)
  <2> DEFINE u == [task[t] EXCEPT !.pc = "cancel"]
  <2>1. /\ task' = [task EXCEPT ![t] = u] /\ u.msg = task[t].msg /\ u.pc = "cancel"
        /\ u.att = task[t].att /\ UNCHANGED <<row, pel, tick>>
        /\ task[t].pc = "run" /\ task[t].pc \in InHand
    BY <1>2, <1>7 DEF PollCancelled, Task, InHand
  <2> HIDE DEF u
  <2>2. task'[t] = u /\ u.pc \in InHand
    BY <1>0, <2>1 DEF InHand
  <2>3. row[MyJob(t)].cancelReq
    BY <1>7, <2>1, RunnerWins DEF PollCancelled
  <2>4. TaskFresh(t)'
    BY <1>0, <2>1, <2>2, <2>3 DEF TaskFresh, MyJob
  <2> QED
    BY <1>0, <1>3, <2>1, <2>2, <2>4, TaskGoesOn
<1>8. ASSUME NEW r, Finish(t, r), task[t].pc \in InHand
      PROVE  RunInv'
  <2> DEFINE u == [task[t] EXCEPT !.pc = "ack"]
  <2>1. IsProcessing(row[MyJob(t)])
    BY <1>8, RunnerWins
  <2>2. /\ task' = [task EXCEPT ![t] = u] /\ u.msg = task[t].msg /\ u.pc = "ack"
        /\ row' = [row EXCEPT ![MyJob(t)] = r] /\ UNCHANGED <<pel, tick>>
    BY <1>2, <1>8, <2>1 DEF Finish, AckIff, Update, Task
  <2> HIDE DEF u
  <2> QED
    BY <1>0, <1>8, <2>2, AttemptEnds
<1>9. CASE DropOwnerless(t) \/ Complete(t) \/ Reject(t) \/ CancelJob(t)
  BY <1>8, <1>9 DEF DropOwnerless, Complete, Reject, CancelJob, InHand
<1>10. CASE RetryOrFail(t)
  <2> DEFINE h == RetryHandoff(MyJob(t), task[t].att)
             r == RetryRow(MyJob(t), task[t].att, row[MyJob(t)])
  <2>1. task[t].pc \in InHand
    BY <1>10 DEF RetryOrFail, InHand
  <2>2. CASE Finish(t, r)
    <3> HIDE DEF r
    <3> QED
      BY <1>8, <2>1, <2>2
  <2>3. CASE /\ Update(MyJob(t), r)
             /\ task' = [task EXCEPT ![t].pc = "handoff", ![t].h = h]
             /\ UNCHANGED <<stream, pel, zset, pull, used, req, tick>>
    <3> DEFINE u == [task[t] EXCEPT !.pc = "handoff", !.h = h]
    <3> HIDE DEF h, r
    <3>1. /\ task' = [task EXCEPT ![t] = u] /\ u.msg = task[t].msg /\ u.pc = "handoff"
      BY <1>2, <2>3 DEF Task
    <3>2. row' = [row EXCEPT ![MyJob(t)] = r]
      BY <2>3 DEF Update
    <3> HIDE DEF u
    <3> QED
      BY <1>0, <2>1, <2>3, <3>1, <3>2, AttemptEnds
  <2> QED
    BY <1>10, <2>2, <2>3 DEF RetryOrFail
<1>11. CASE TaskHandoff(t)
  BY <1>3, <1>4, <1>11 DEF TaskHandoff, InHand
<1>12. CASE TaskSync(t)
  <2>1. row' = [row EXCEPT ![MyJob(t)] = mark_synced(row[MyJob(t)])]
    BY <1>12 DEF TaskSync, Update
  <2>2. IsProcessing(row[MyJob(t)]) => IsProcessing(mark_synced(row[MyJob(t)]))
    BY <1>2 DEF IsProcessing, mark_synced, Row
  <2>3. NoEnd
    BY <1>0, <1>2, <2>1, <2>2 DEF NoEnd
  <2> QED
    BY <1>4, <1>12, <2>3 DEF TaskSync, InHand
<1>13. CASE Ack(t)
  <2>1. /\ pel' = pel \ {task[t].msg} /\ task' = [task EXCEPT ![t] = IdleTask]
        /\ UNCHANGED <<row, tick>>
    BY <1>13 DEF Ack, ack
  <2>2. IdleTask.pc = "idle" /\ IdleTask.msg = NoMsg
    BY DEF IdleTask
  <2>3. \A d \in Tasks : task'[d] = IF d = t THEN IdleTask ELSE task[d]
    BY <1>0, <2>1
  <2>4. ASSUME NEW m \in Msgs, Protects(m)'
        PROVE  Protects(m) /\ IsProcessing(row'[JobOf(m)])
    <3>1. m # task[t].msg
      BY <2>1, <2>4 DEF Protects
    <3>2. Protects(m)
      BY <2>1, <2>3, <2>4, <3>1 DEF Protects
    <3> QED
      BY <1>0, <2>1, <3>2 DEF Claimed
  <2>5. Claimed' /\ ClaimedOnce'
    BY <1>0, <2>4, ClaimsKept
  <2>6. \A d \in Tasks : \/ TaskFresh(d)'
                         \/ /\ task'[d].pc = task[d].pc /\ task'[d].msg = task[d].msg
                            /\ task'[d].att = task[d].att
    BY <2>2, <2>3 DEF TaskFresh
  <2> QED
    BY <1>0, <2>1, <2>5, <2>6, RunKept
<1> QED
  BY <1>5, <1>6, <1>7, <1>9, <1>10, <1>11, <1>12, <1>13 DEF TaskStep

(* Reading: the one message delivered goes to a task that has not claimed  *)
(* its job yet, so it protects nothing.                                    *)
LEMMA ReadRun ==
  ASSUME RunInv, LeaseInv', OneDelivered, NEW p \in Procs, NEW D \in SUBSET Streams,
         \A k \in D : stream[k] # << >>,
         pel' = pel \cup {Head(stream[k]) : k \in D},
         NEW first \in D, Spawn(p, Head(stream[first])),
         UNCHANGED <<row, tick>>
  PROVE  RunInv'
<1>0. /\ LeaseInv /\ TypeInv /\ StreamsDistinct /\ Claimed /\ ClaimedOnce
      /\ stream \in [Streams -> Seq(Msgs)] /\ task \in [Tasks -> Task]
  BY DEF RunInv, LeaseInv, TypeInv, TypeOK
<1>1. \A k \in D : /\ Head(stream[k]) = stream[k][1] /\ 1 \in 1..Len(stream[k])
                   /\ Head(stream[k]) \in Msgs
  BY <1>0
<1>2. \A k \in D : Head(stream[k]) \in pel' \ pel
  BY <1>0, <1>1 DEF StreamsDistinct
<1> DEFINE m == Head(stream[first])
           u == [IdleTask EXCEPT !.pc = "claim", !.msg = m]
<1>3. \A k \in D : Head(stream[k]) = m
  BY <1>2 DEF OneDelivered
<1>4. pel' = pel \cup {m} /\ m \in Msgs
  BY <1>1, <1>3
<1>5. u.pc = "claim" /\ u.msg = m
  BY <1>4, NewTask
<1>6. PICK t \in Tasks : task[t].pc = "idle" /\ task' = [task EXCEPT ![t] = u]
  BY <1>0, <1>4, SpawnTypes
<1> HIDE DEF m, u
<1>7. \A d \in Tasks : task'[d] = IF d = t THEN u ELSE task[d]
  BY <1>0, <1>6
<1>8. task[t].msg = NoMsg /\ NoMsg \notin Msgs
  BY <1>0, <1>6, StoreAssumption DEF TypeInv, LocalOK, Msgs
<1>9. ASSUME NEW x \in Msgs, Protects(x)'
      PROVE  Protects(x) /\ IsProcessing(row'[JobOf(x)])
  <2>1. x # m
    BY <1>5, <1>7, <1>9 DEF Protects
  <2>2. Protects(x)
    BY <1>4, <1>5, <1>7, <1>8, <1>9, <2>1 DEF Protects
  <2> QED
    BY <1>0, <2>2 DEF Claimed
<1>10. Claimed' /\ ClaimedOnce'
  BY <1>0, <1>9, ClaimsKept
<1>11. \A d \in Tasks : \/ TaskFresh(d)'
                        \/ /\ task'[d].pc = task[d].pc /\ task'[d].msg = task[d].msg
                           /\ task'[d].att = task[d].att
  BY <1>5, <1>7 DEF TaskFresh
<1>12. LifeStep
  BY DEF LifeStep, LifeSame
<1> QED
  BY <1>10, <1>11, <1>12, RunKept

(* Every step of a worker process keeps the invariant.                     *)
LEMMA ProcRun ==
  ASSUME CleanDeaths, OneDelivered, RunInv, NEW p \in Procs,
         PullStep(p) \/ Stop(p) \/ Crash(p)
  PROVE  RunInv'
<1> USE DEF redis, workerRest
<1>0. /\ LeaseInv /\ LeaseInv' /\ TypeInv /\ HeldOnce /\ Claimed /\ ClaimedOnce
      /\ stream \in [Streams -> Seq(Msgs)]
  BY ProcLease DEF RunInv, LeaseInv, TypeInv, TypeOK
<1>1. UNCHANGED row /\ LifeStep /\ NoEnd
  BY DEF PullStep, Probe, BlockingRead, Restart, Stop, Crash, LifeStep, LifeSame, NoEnd
<1>2. ASSUME UNCHANGED <<pel, task, tick>>
      PROVE  RunInv'
  BY <1>0, <1>1, <1>2, QuietRun DEF NoEnd
<1>3. CASE Probe(p)
  <2> DEFINE k == pull[p].at
  <2>1. k \in Streams /\ {k} \in SUBSET Streams
    BY <1>3 DEF Probe
  <2>2. CASE stream[k] # << >>
    <3>1. /\ Spawn(p, Head(stream[k]))
          /\ pel' = pel \cup {Head(stream[l]) : l \in {k}}
          /\ UNCHANGED <<row, tick>>
      BY <1>3, <2>2 DEF Probe
    <3> HIDE DEF k
    <3> QED
      BY <1>0, <2>1, <2>2, <3>1, ReadRun
  <2>3. CASE stream[k] = << >>
    BY <1>2, <1>3, <2>3 DEF Probe
  <2> QED
    BY <2>2, <2>3
<1>4. CASE BlockingRead(p)
  <2> DEFINE ready == {k \in Streams : stream[k] # << >>}
  <2>1. ASSUME NEW first \in ready, Spawn(p, Head(stream[first])),
               pel' = pel \cup {Head(stream[k]) : k \in ready}
        PROVE  RunInv'
    <3>1. ready \in SUBSET Streams /\ \A k \in ready : stream[k] # << >>
      OBVIOUS
    <3>2. UNCHANGED <<row, tick>>
      BY <1>4 DEF BlockingRead
    <3> HIDE DEF ready
    <3> QED
      BY <1>0, <2>1, <3>1, <3>2, ReadRun
  <2>2. ASSUME UNCHANGED <<task, stream, pel>>
        PROVE  RunInv'
    BY <1>2, <1>4, <2>2 DEF BlockingRead
  <2> QED
    BY <1>4, <2>1, <2>2 DEF BlockingRead
<1>5. CASE Restart(p) \/ Stop(p)
  BY <1>2, <1>5 DEF Restart, Stop
<1>6. CASE Crash(p)
  <2>1. /\ \A t \in Tasks : task'[t] = IF t \in SlotsOf(p) THEN IdleTask ELSE task[t]
        /\ UNCHANGED <<row, pel, tick>>
    BY <1>6 DEF Crash
  <2>2. IdleTask.pc = "idle" /\ IdleTask.msg = NoMsg
    BY DEF IdleTask
  <2>3. \A t \in Tasks : t \in SlotsOf(p) => task[t].pc \in InHand \cup {"idle"}
    <3> SUFFICES ASSUME NEW t \in Tasks, t \in SlotsOf(p)
                 PROVE  task[t].pc \in InHand \cup {"idle"}
      OBVIOUS
    <3>1. task[t].pc \in Faults \cup {"idle"} /\ task[t].pc \in TaskPc
      BY <1>0, <1>6 DEF Crash, TypeInv, TypeOK, Task
    <3> QED
      BY <3>1 DEF CleanDeaths, TaskPc, InHand
  <2>4. ASSUME NEW m \in Msgs, Protects(m)'
        PROVE  Protects(m) /\ IsProcessing(row'[JobOf(m)])
    <3>1. \A t \in Tasks : task[t].msg = m => task[t].pc \in {"load", "run", "cancel"}
      <4> SUFFICES ASSUME NEW t \in Tasks, task[t].msg = m
                   PROVE  task[t].pc \in {"load", "run", "cancel"}
        OBVIOUS
      <4>1. task[t].pc # "idle"
        BY <1>0, StoreAssumption DEF TypeInv, LocalOK, Msgs
      <4>2. CASE t \in SlotsOf(p)
        BY <2>3, <4>1, <4>2 DEF InHand
      <4>3. CASE t \notin SlotsOf(p)
        BY <2>1, <2>4, <4>3 DEF Protects
      <4> QED
        BY <4>2, <4>3
    <3>2. Protects(m)
      BY <2>1, <2>4, <3>1 DEF Protects
    <3> QED
      BY <1>0, <2>1, <3>2 DEF Claimed
  <2>5. Claimed' /\ ClaimedOnce'
    BY <1>0, <2>4, ClaimsKept
  <2>6. \A t \in Tasks : \/ TaskFresh(t)'
                         \/ /\ task'[t].pc = task[t].pc /\ task'[t].msg = task[t].msg
                            /\ task'[t].att = task[t].att
    BY <2>1, <2>2 DEF TaskFresh
  <2> QED
    BY <1>0, <1>1, <2>1, <2>5, <2>6, RunKept
<1> QED
  BY <1>3, <1>4, <1>5, <1>6 DEF PullStep

(* The reaper has the one claim on the row it is about to retry.           *)
LEMMA ReaperWins ==
  ASSUME RunInv, tick.pc \in {"reap", "retry"}
  PROVE  /\ tick.job = JobOf(tick.msg) /\ tick.job \in Jobs /\ row[tick.job] \in Row
         /\ tick.msg \in Msgs /\ Protects(tick.msg)
         /\ IsProcessing(row[tick.job])
<1>1. TypeInv /\ Claimed /\ LeaseInv /\ row \in [Jobs -> Row]
  BY DEF RunInv, LeaseInv, TypeInv, TypeOK
<1>2. tick.msg \in Msgs /\ tick.job = JobOf(tick.msg)
  BY <1>1 DEF TypeInv, LocalOK, Reaping
<1>3. Protects(tick.msg)
  BY <1>1, InHandProtects DEF HandsProtect
<1> QED
  BY <1>1, <1>2, <1>3, MsgJob DEF Claimed

(* Every step of the ticker is a step of the lifecycle.                    *)
LEMMA TickerLife ==
  ASSUME RunInv, TickerNext
  PROVE  /\ LifeStep
         /\ tick.pc # "retry" => NoEnd
<1>0. TypeInv /\ row \in [Jobs -> Row] /\ TickFresh
  BY DEF RunInv, LeaseInv, TypeInv, TypeOK
<1>1. CASE UNCHANGED row
  BY <1>1 DEF LifeStep, LifeSame, NoEnd
<1>2. CASE PromoteFlip
  <2>1. ASSUME NEW i \in Jobs
        PROVE  /\ LifeOf(row'[i]) = LifeOf(row[i])
               /\ IsProcessing(row[i]) => IsProcessing(row'[i])
    <3>1. row[i] \in Row
      BY <1>0
    <3>2. row'[i] = row[i] \/ row'[i] = promote_scheduled_to_pending(row[i])
      BY <1>2 DEF PromoteFlip
    <3>3. IsProcessing(row[i]) => IsProcessing(promote_scheduled_to_pending(row[i]))
      BY <3>1 DEF IsProcessing, promote_scheduled_to_pending, Row
    <3> QED
      BY <3>1, <3>2, <3>3, RowLives
  <2> QED
    BY <2>1 DEF LifeStep, LifeSame, NoEnd
<1>3. CASE ReconcileSync \/ ReapSync
  <2> DEFINE j == tick.job
  <2>1. j \in Jobs /\ row[j] \in Row
    BY <1>0, <1>3, MsgJob DEF ReconcileSync, ReapSync, TypeInv, LocalOK, Reaping
  <2>2. row' = [row EXCEPT ![j] = mark_synced(row[j])] /\ mark_synced(row[j]) \in Row
    BY <1>3, <2>1, RowUpdates DEF ReconcileSync, ReapSync, Update
  <2>3. LifeMove(j, LifeOf(row[j]), LifeOf(mark_synced(row[j])))
    BY <2>1, RowLives DEF LifeMove
  <2>4. IsProcessing(row[j]) => IsProcessing(mark_synced(row[j]))
    BY <2>1 DEF IsProcessing, mark_synced, Row
  <2> HIDE DEF j
  <2> QED
    BY <1>0, <2>1, <2>2, <2>3, <2>4, OneRowNoEnd
<1>4. CASE ReapRetry
  <2> DEFINE j == tick.job
             r == RetryRow(j, tick.att, row[j])
  <2>1. /\ tick.pc = "retry" /\ j \in Jobs /\ row[j] \in Row /\ IsProcessing(row[j])
        /\ tick.att = row[j].attempts
    BY <1>0, <1>4, ReaperWins DEF ReapRetry, TickFresh
  <2>2. row' = [row EXCEPT ![j] = r]
    BY <1>4, <2>1 DEF ReapRetry, Update
  <2>3. LifeMove(j, LifeOf(row[j]), LifeOf(r))
    BY <2>1, RetryLife
  <2> HIDE DEF j, r
  <2> QED
    BY <1>0, <2>1, <2>2, <2>3, OneRow
<1> QED
  BY <1>1, <1>2, <1>3, <1>4
     DEF TickerNext, TickerStep, StartPromote, StartReconcile, StartReap, ReapClaim,
         PromoteXadd, ReconcileHandoff, PromoteZrem, ReapRead, ReapHandoff, ReapAck,
         TickerFail

(* A step of the ticker that brings no message to protect a claim.         *)
LEMMA TickerKept ==
  ASSUME RunInv, LeaseInv', LifeStep, UNCHANGED task, TickFresh',
         \A m \in Msgs : Protects(m)' => Protects(m) /\ IsProcessing(row'[JobOf(m)])
  PROVE  RunInv'
<1>1. Claimed' /\ ClaimedOnce'
  BY ClaimsKept DEF RunInv
<1>2. \A t \in Tasks : /\ task'[t].pc = task[t].pc /\ task'[t].msg = task[t].msg
                       /\ task'[t].att = task[t].att
  OBVIOUS
<1> QED
  BY <1>1, <1>2, RunKept

(* Every step of the ticker keeps the invariant.                           *)
LEMMA TickerRun ==
  ASSUME CleanDeaths, RunInv, TickerNext
  PROVE  RunInv'
<1> USE DEF redis, tickRest
<1>0. /\ LeaseInv /\ TypeInv /\ Claimed /\ ClaimedOnce /\ LeaseInv' /\ TypeInv'
      /\ tick \in Ticker /\ row \in [Jobs -> Row]
      /\ NoMsg \notin Msgs /\ LifeStep
      /\ tick.pc \notin Reaping => tick.msg = NoMsg
      /\ tick'.pc \notin Reaping => tick'.msg = NoMsg
  BY TickerLease, TickerLife, StoreAssumption
     DEF RunInv, LeaseInv, TypeInv, TypeOK, LocalOK, Msgs, CleanDeaths
<1>1. ~TickerFail
  BY DEF TickerFail, CleanDeaths
<1>2. ASSUME UNCHANGED <<pel, task>>, tick.pc # "retry", tick'.pc # "retry",
             tick.pc \in {"reap", "retry"} <=> tick'.pc \in {"reap", "retry"},
             tick'.msg = tick.msg
      PROVE  RunInv'
  <2>1. NoEnd
    BY <1>2, TickerLife
  <2>2. ASSUME NEW m \in Msgs, Protects(m)'
        PROVE  Protects(m) /\ IsProcessing(row'[JobOf(m)])
    <3>1. Protects(m)
      BY <1>2, <2>2 DEF Protects
    <3> QED
      BY <1>0, <2>1, <3>1, MsgJob DEF Claimed, NoEnd
  <2> QED
    BY <1>0, <1>2, <2>2, TickerKept DEF TickFresh
<1>3. IdleTicker.pc = "idle" /\ IdleTicker.msg = NoMsg
  BY DEF IdleTicker
<1>4. CASE tick.pc \notin Reaping /\ tick'.pc \notin Reaping /\ UNCHANGED <<pel, task>>
  BY <1>0, <1>2, <1>4 DEF Reaping
<1>5. CASE StartPromote \/ StartReconcile
  <2>1. /\ tick.pc \notin Reaping /\ tick'.pc \notin Reaping /\ UNCHANGED <<pel, task>>
    BY <1>5 DEF StartPromote, StartReconcile, IdleTicker, Reaping
  <2> QED
    BY <1>4, <2>1
<1>6. CASE \E j \in Jobs : PromoteXadd(j) \/ ReconcileHandoff(j)
  <2>1. /\ tick.pc \notin Reaping /\ tick'.pc \notin Reaping /\ UNCHANGED <<pel, task>>
    BY <1>0, <1>6 DEF PromoteXadd, ReconcileHandoff, Reaping, Ticker
  <2> QED
    BY <1>4, <2>1
<1>7. CASE PromoteZrem \/ PromoteFlip \/ ReconcileSync
  <2>1. /\ tick.pc \notin Reaping /\ tick'.pc \notin Reaping /\ UNCHANGED <<pel, task>>
    BY <1>0, <1>3, <1>7 DEF PromoteZrem, PromoteFlip, ReconcileSync, Reaping, Ticker
  <2> QED
    BY <1>4, <2>1
<1>8. CASE StartReap
  <2>1. PICK m \in Msgs : ReapClaim(m)
    BY <1>8 DEF StartReap
  <2>2. /\ m \in pel /\ \A t \in Tasks : task[t].msg # m
        /\ tick.msg = NoMsg /\ tick'.msg = m /\ tick'.pc = "reap" /\ tick.pc = "idle"
        /\ UNCHANGED <<row, pel, task>>
    BY <1>0, <2>1 DEF ReapClaim, Stale, IdleTicker, Reaping, CleanDeaths
  <2>3. ASSUME NEW x \in Msgs, Protects(x)'
        PROVE  Protects(x) /\ IsProcessing(row'[JobOf(x)])
    <3>1. Protects(x)
      BY <1>0, <2>2, <2>3 DEF Protects
    <3> QED
      BY <1>0, <2>2, <3>1 DEF Claimed
  <2> QED
    BY <1>0, <2>2, <2>3, TickerKept DEF TickFresh
<1>9. CASE ReapRead
  <2>1. tick.pc = "reap" /\ UNCHANGED <<row, pel, task>> /\ IsProcessing(row[tick.job])
    BY <1>9, ReaperWins DEF ReapRead
  <2>2. /\ tick'.pc = "retry" /\ tick'.msg = tick.msg /\ tick'.job = tick.job
        /\ tick'.att = row[tick.job].attempts
    BY <1>0, <1>9, <2>1 DEF ReapRead, Ticker
  <2>3. ASSUME NEW m \in Msgs, Protects(m)'
        PROVE  Protects(m) /\ IsProcessing(row'[JobOf(m)])
    <3>1. Protects(m)
      BY <2>1, <2>2, <2>3 DEF Protects
    <3> QED
      BY <1>0, <2>1, <3>1 DEF Claimed
  <2> QED
    BY <1>0, <2>1, <2>2, <2>3, TickerKept DEF TickFresh
<1>10. CASE ReapRetry
  <2>1. /\ tick.pc = "retry" /\ UNCHANGED <<pel, task>>
        /\ tick'.pc \in {"handoff", "ack"} /\ tick'.msg = tick.msg
        /\ \A i \in Jobs : i # tick.job => row'[i] = row[i]
    BY <1>0, <1>10 DEF ReapRetry, Ticker, Update
  <2>2. tick.job = JobOf(tick.msg) /\ tick.msg \in Msgs /\ Protects(tick.msg)
    BY <2>1, ReaperWins
  <2>3. ASSUME NEW m \in Msgs, Protects(m)'
        PROVE  Protects(m) /\ IsProcessing(row'[JobOf(m)])
    <3>1. m # tick.msg
      BY <2>1, <2>3 DEF Protects
    <3>2. Protects(m)
      BY <2>1, <2>3, <3>1 DEF Protects
    <3>3. JobOf(m) # tick.job
      BY <1>0, <2>2, <3>1, <3>2 DEF ClaimedOnce
    <3> QED
      BY <1>0, <2>1, <3>2, <3>3, MsgJob DEF Claimed
  <2> QED
    BY <1>0, <2>1, <2>3, TickerKept DEF TickFresh
<1>11. CASE ReapHandoff \/ ReapSync
  <2>1. /\ UNCHANGED <<pel, task>> /\ tick'.msg = tick.msg
        /\ tick.pc \in {"handoff", "sync"} /\ tick'.pc \in {"sync", "ack"}
    BY <1>0, <1>11 DEF ReapHandoff, ReapSync, Ticker
  <2> QED
    BY <1>2, <2>1
<1>12. CASE ReapAck
  <2>1. /\ pel' = pel \ {tick.msg} /\ tick' = IdleTicker /\ UNCHANGED <<row, task>>
    BY <1>12 DEF ReapAck, ack
  <2>2. ASSUME NEW m \in Msgs, Protects(m)'
        PROVE  Protects(m) /\ IsProcessing(row'[JobOf(m)])
    <3>1. Protects(m)
      BY <2>1, <2>2 DEF Protects
    <3> QED
      BY <1>0, <2>1, <3>1 DEF Claimed
  <2> QED
    BY <1>0, <1>3, <2>1, <2>2, TickerKept DEF TickFresh
<1> QED
  BY <1>1, <1>5, <1>6, <1>7, <1>8, <1>9, <1>10, <1>11, <1>12 DEF TickerNext, TickerStep

(* At start-up no message and no row exists.                               *)
LEMMA InitRun == Init => RunInv
<1> SUFFICES ASSUME Init PROVE RunInv
  OBVIOUS
<1>1. /\ \A t \in Tasks : task[t].pc = "idle"
      /\ tick.pc = "idle" /\ pel = {}
  BY DEF Init, IdleTask, IdleTicker
<1>2. Claimed /\ ClaimedOnce
  BY <1>1 DEF Claimed, ClaimedOnce, Protects
<1>3. ASSUME NEW j \in Jobs
      PROVE  RowWithin(j, LifeOf(row[j]))
  <2>1. Budget(j) \in Nat /\ Budget(j) > 0
    BY BudgetType
  <2>2. LifeOf(row[j]) = At("absent", 0, FALSE)
    BY DEF Init, NoRow, LifeOf, Waiting, At
  <2> QED
    BY <2>1, <2>2 DEF RowWithin, At
<1>4. (\A t \in Tasks : TaskFresh(t)) /\ TickFresh
  BY <1>1 DEF TaskFresh, TickFresh
<1> QED
  BY <1>2, <1>3, <1>4, InitLease DEF RunInv, RowsWithin

(* Every step keeps the invariant, when deaths are clean and no delivered  *)
(* message is dropped.                                                     *)
LEMMA NextRun ==
  ASSUME CleanDeaths
  PROVE  RunInv /\ [Next]_vars /\ [OneDelivered]_vars => RunInv'
<1> SUFFICES ASSUME RunInv, [Next]_vars, [OneDelivered]_vars PROVE RunInv'
  OBVIOUS
<1>1. CASE UNCHANGED vars
  <2>1. LeaseInv'
    BY <1>1, NextLease DEF RunInv, CleanDeaths
  <2> QED
    BY <1>1, <2>1, QuietRun DEF vars, LifeStep, LifeSame
<1>2. CASE Next /\ OneDelivered
  <2>1. CASE ApiNext
    BY <2>1, ApiRun DEF ApiNext
  <2>2. CASE WorkerNext
    BY <1>2, <2>2, ProcRun, TaskRun DEF WorkerNext
  <2>3. CASE TickerNext
    BY <2>3, TickerRun
  <2>4. CASE \E j \in Jobs : ClockPasses(j)
    BY <2>4, ClockRun
  <2> QED
    BY <1>2, <2>1, <2>2, <2>3, <2>4 DEF Next
<1> QED
  BY <1>1, <1>2

(* Every step is a step of the lifecycle.                                  *)
LEMMA NextLife == RunInv /\ [Next]_vars => LifeStep
<1> SUFFICES ASSUME RunInv, [Next]_vars PROVE LifeStep
  OBVIOUS
<1>1. CASE UNCHANGED vars
  BY <1>1 DEF vars, LifeStep, LifeSame
<1>2. CASE ApiNext
  BY <1>2, ApiLife DEF ApiNext
<1>3. CASE \E t \in Tasks : TaskStep(t)
  BY <1>3, TaskLife
<1>4. CASE \E p \in Procs : PullStep(p) \/ Stop(p) \/ Crash(p)
  <2>1. UNCHANGED row
    BY <1>4 DEF PullStep, Probe, BlockingRead, Restart, Stop, Crash
  <2> QED
    BY <2>1 DEF LifeStep, LifeSame
<1>5. CASE TickerNext
  BY <1>5, TickerLife
<1>6. CASE \E j \in Jobs : ClockPasses(j)
  BY <1>6, ClockLife
<1> QED
  BY <1>1, <1>2, <1>3, <1>4, <1>5, <1>6 DEF Next, WorkerNext

(* The invariant holds throughout.                                         *)
THEOREM RunInvHolds ==
  ASSUME CleanDeaths
  PROVE  Spec /\ [][OneDelivered]_vars => []RunInv
<1>1. RunInv /\ [Next]_vars /\ [OneDelivered]_vars => RunInv'
  BY NextRun
<1> QED
  BY <1>1, InitRun, PTL DEF Spec

(* Only an XREADGROUP puts a message into the pending entries list.        *)
LEMMA OnlyReads ==
  ASSUME Next, \A p \in Procs : ~Probe(p) /\ ~BlockingRead(p)
  PROVE  pel' \subseteq pel
<1>1. CASE ApiNext
  BY <1>1 DEF ApiNext, ApiCall, ApiStep, ApiCrash, submit_job, retry_job,
              cancel_job_route, ApiHandoff, ApiSync, CancelWaiting, CancelZrem,
              CancelRunning, CancelRead, CancelAnswer, apiRest
<1>2. CASE \E t \in Tasks : TaskStep(t)
  BY <1>2 DEF TaskStep, Claim, Load, DropOwnerless, Complete, Reject, RetryOrFail,
              TaskHandoff, TaskSync, PollCancelled, CancelJob, Ack, ack, Finish, redis
<1>3. CASE \E p \in Procs : PullStep(p) \/ Stop(p) \/ Crash(p)
  BY <1>3 DEF PullStep, Restart, Stop, Crash, redis
<1>4. CASE TickerNext
  BY <1>4 DEF TickerNext, TickerStep, StartPromote, StartReconcile, StartReap,
              ReapClaim, PromoteXadd, ReconcileHandoff, PromoteZrem, PromoteFlip,
              ReconcileSync, ReapRead, ReapRetry, ReapHandoff, ReapSync, ReapAck,
              ack, TickerFail, redis
<1>5. CASE \E j \in Jobs : ClockPasses(j)
  BY <1>5 DEF ClockPasses
<1> QED
  BY <1>1, <1>2, <1>3, <1>4, <1>5 DEF Next, WorkerNext

(* A single stream delivers its messages one at a time, so the theorems    *)
(* below hold of Spec itself where NumStreams = 1.                         *)
THEOREM SingleStream ==
  ASSUME NumStreams = 1
  PROVE  Spec => [][OneDelivered]_vars
<1>1. [Next]_vars => [OneDelivered]_vars
  <2> SUFFICES ASSUME Next PROVE OneDelivered
    OBVIOUS
  <2>1. Streams = {1}
    BY DEF Streams
  <2>2. ASSUME NEW p \in Procs, Probe(p)
        PROVE  OneDelivered
    BY <2>2 DEF Probe, OneDelivered
  <2>3. ASSUME NEW p \in Procs, BlockingRead(p)
        PROVE  OneDelivered
    BY <2>1, <2>3 DEF BlockingRead, OneDelivered
  <2>4. CASE \A p \in Procs : ~Probe(p) /\ ~BlockingRead(p)
    <3>1. pel' \subseteq pel
      BY <2>4, OnlyReads
    <3> QED
      BY <3>1 DEF OneDelivered
  <2> QED
    BY <2>2, <2>3, <2>4
<1> QED
  BY <1>1, PTL DEF Spec

(* No two tasks run the same job at a time, whichever workers die in a     *)
(* handler, and however often the reaper retries what they left behind.    *)
THEOREM NeverRunsTwice ==
  ASSUME CleanDeaths
  PROVE  Spec /\ [][OneDelivered]_vars => []NoDuplicateRun
<1>1. RunInv => NoDuplicateRun
  <2> SUFFICES ASSUME RunInv, NEW t \in Tasks, NEW u \in Tasks, t # u,
                      Running(t), Running(u), MyJob(t) = MyJob(u)
               PROVE  FALSE
    BY DEF NoDuplicateRun
  <2>1. LeaseInv /\ ClaimedOnce /\ HeldOnce /\ HandsProtect
    BY InHandProtects DEF RunInv, LeaseInv
  <2>2. task[t].pc \in InHand /\ task[u].pc \in InHand
    BY DEF Running, InHand
  <2>3. task[t].msg = task[u].msg
    BY <2>1, <2>2 DEF HandsProtect, ClaimedOnce, MyJob
  <2> QED
    BY <2>1, <2>2, <2>3 DEF HeldOnce, InHand
<1> QED
  BY <1>1, RunInvHolds, PTL

(* A job never uses up more attempts than it was given, whether its worker *)
(* or the reaper ends them.                                                *)
THEOREM StaysWithinBudget ==
  ASSUME CleanDeaths
  PROVE  Spec /\ [][OneDelivered]_vars => []AttemptsWithinBudget
<1>1. RunInv => AttemptsWithinBudget
  <2> SUFFICES ASSUME RunInv, NEW j \in Jobs PROVE row[j].attempts <= Budget(j)
    BY DEF AttemptsWithinBudget
  <2>1. row[j] \in Row /\ RowWithin(j, LifeOf(row[j]))
    BY DEF RunInv, RowsWithin, LeaseInv, TypeInv, TypeOK
  <2> QED
    BY <2>1, LifeFacts DEF RowWithin
<1> QED
  BY <1>1, RunInvHolds, PTL

(* A running job ends as cancelled only if somebody asked for it: a batch  *)
(* handler never takes the end of somebody else's attempt for a request.   *)
THEOREM CancelledOnlyIfAsked ==
  ASSUME CleanDeaths
  PROVE  Spec /\ [][OneDelivered]_vars => CancelOnlyIfAsked
<1> DEFINE Asked == \A j \in Jobs :
             IsProcessing(row[j]) /\ row'[j].status = "cancelled" => row[j].cancelReq
<1>1. RunInv /\ RunInv' /\ [Next]_vars => [Asked]_vars
  <2> SUFFICES ASSUME RunInv, RunInv', [Next]_vars PROVE Asked
    OBVIOUS
  <2>1. LifeStep /\ LeaseInv'
    BY NextLife DEF RunInv
  <2> QED
    BY <2>1, StepFacts
<1> QED
  BY <1>1, RunInvHolds, PTL DEF Spec, CancelOnlyIfAsked

(* Two lives with the same fields are the same.                            *)
LEMMA LivesEqual ==
  \A a, b \in Lives : a.st = b.st /\ a.n = b.n /\ a.asked = b.asked => a = b
BY DEF Lives

(* One row moves as the lifecycle allows, so the processor does.           *)
LEMMA LifeRefined ==
  RunInv /\ RunInv' /\ LifeStep =>
    [Lifecycle!LifeNext]_([j \in Jobs |-> LifeOf(row[j])])
<1> SUFFICES ASSUME RunInv, RunInv', LifeStep
             PROVE  [Lifecycle!LifeNext]_([j \in Jobs |-> LifeOf(row[j])])
  OBVIOUS
<1> DEFINE life == [j \in Jobs |-> LifeOf(row[j])]
<1>1. CASE LifeSame
  BY <1>1 DEF LifeSame
<1>2. ASSUME NEW j \in Jobs, \A i \in Jobs : i # j => row'[i] = row[i],
             LifeMove(j, LifeOf(row[j]), LifeOf(row'[j]))
      PROVE  [Lifecycle!LifeNext]_life
  <2> DEFINE l == LifeOf(row[j])
             m == LifeOf(row'[j])
  <2>1. l \in Lives /\ life[j] = l
    BY LifeFacts DEF RunInv, LeaseInv, TypeInv, TypeOK
  <2>2. life' = [life EXCEPT ![j] = m]
    BY <1>2
  <2> HIDE DEF life, l, m
  <2>3. /\ \A st \in {"waiting", "processing", "completed", "failed", "cancelled"} :
             [l EXCEPT !.st = st] = At(st, l.n, l.asked)
        /\ \A st \in {"waiting", "processing", "completed", "failed", "cancelled"} :
             \A n \in Nat : [l EXCEPT !.st = st, !.n = n] = At(st, n, l.asked)
        /\ [l EXCEPT !.asked = TRUE] = At(l.st, l.n, TRUE)
        /\ l.n + 1 \in Nat
    <3>1. l.n + 1 \in Nat /\ l.n \in Nat
      BY <2>1 DEF Lives
    <3>2. [l EXCEPT !.asked = TRUE] = At(l.st, l.n, TRUE)
      <4> DEFINE a == [l EXCEPT !.asked = TRUE]
                 b == At(l.st, l.n, TRUE)
      <4>1. a \in Lives /\ a.st = l.st /\ a.n = l.n /\ a.asked = TRUE
        BY <2>1 DEF Lives
      <4>2. b \in Lives /\ b.st = l.st /\ b.n = l.n /\ b.asked = TRUE
        BY <2>1 DEF Lives, At
      <4> HIDE DEF a, b
      <4>3. a = b
        BY <4>1, <4>2, LivesEqual
      <4> QED
        BY <4>3 DEF a, b
    <3>3. ASSUME NEW st \in {"waiting", "processing", "completed", "failed", "cancelled"}
          PROVE  [l EXCEPT !.st = st] = At(st, l.n, l.asked)
      BY <2>1 DEF Lives, At
    <3>4. ASSUME NEW st \in {"waiting", "processing", "completed", "failed", "cancelled"},
                 NEW n \in Nat
          PROVE  [l EXCEPT !.st = st, !.n = n] = At(st, n, l.asked)
      <4> DEFINE a == [l EXCEPT !.st = st, !.n = n]
                 b == At(st, n, l.asked)
      <4>1. a \in Lives /\ a.st = st /\ a.n = n /\ a.asked = l.asked
        BY <2>1 DEF Lives
      <4>2. b \in Lives /\ b.st = st /\ b.n = n /\ b.asked = l.asked
        BY <2>1 DEF Lives, At
      <4> HIDE DEF a, b
      <4>3. a = b
        BY <4>1, <4>2, LivesEqual
      <4> QED
        BY <4>3 DEF a, b
    <3> QED
      BY <3>1, <3>2, <3>3, <3>4
  <2>4. CASE m = l
    BY <2>1, <2>2, <2>4 DEF life
  <2>5. CASE l.st = "absent" /\ m = At("waiting", l.n, l.asked)
    <3>1. life' = [life EXCEPT ![j].st = "waiting"]
      BY <2>1, <2>2, <2>3, <2>5
    <3>2. Lifecycle!Submit(j)
      BY <2>1, <2>5, <3>1 DEF Lifecycle!Submit, Lifecycle!Move, life
    <3> QED
      BY <3>2 DEF Lifecycle!LifeNext
  <2>6. CASE l.st = "waiting" /\ l.n < Budget(j) /\ m = At("processing", l.n, l.asked)
    <3>1. life' = [life EXCEPT ![j].st = "processing"]
      BY <2>1, <2>2, <2>3, <2>6
    <3>2. Lifecycle!Start(j)
      BY <2>1, <2>6, <3>1 DEF Lifecycle!Start, Lifecycle!Move, life
    <3> QED
      BY <3>2 DEF Lifecycle!LifeNext
  <2>7. CASE l.st = "processing" /\ m = At("completed", l.n + 1, l.asked)
    <3>1. life' = [life EXCEPT ![j].st = "completed", ![j].n = @ + 1]
      BY <2>1, <2>2, <2>3, <2>7
    <3>2. Lifecycle!Succeed(j)
      BY <2>1, <2>7, <3>1 DEF Lifecycle!Succeed, Lifecycle!End, life
    <3> QED
      BY <3>2 DEF Lifecycle!LifeNext
  <2>8. CASE l.st = "processing" /\ m = At("failed", l.n + 1, l.asked)
    <3>1. life' = [life EXCEPT ![j].st = "failed", ![j].n = @ + 1]
      BY <2>1, <2>2, <2>3, <2>8
    <3>2. Lifecycle!GiveUp(j)
      BY <2>1, <2>8, <3>1 DEF Lifecycle!GiveUp, Lifecycle!End, life
    <3> QED
      BY <3>2 DEF Lifecycle!LifeNext
  <2>9. CASE l.st = "processing" /\ l.n + 1 < Budget(j) /\ m = At("waiting", l.n + 1, l.asked)
    <3>1. life' = [life EXCEPT ![j].st = "waiting", ![j].n = @ + 1]
      BY <2>1, <2>2, <2>3, <2>9
    <3>2. Lifecycle!TryAgain(j)
      BY <2>1, <2>9, <3>1 DEF Lifecycle!TryAgain, Lifecycle!End, life
    <3> QED
      BY <3>2 DEF Lifecycle!LifeNext
  <2>10. CASE l.st = "processing" /\ m = At("processing", l.n, TRUE)
    <3>1. life' = [life EXCEPT ![j].asked = TRUE]
      BY <2>1, <2>2, <2>3, <2>10
    <3>2. Lifecycle!AskToStop(j)
      BY <2>1, <2>10, <3>1 DEF Lifecycle!AskToStop, life
    <3> QED
      BY <3>2 DEF Lifecycle!LifeNext
  <2>11. CASE l.st = "waiting" /\ m = At("cancelled", l.n, l.asked)
    <3>1. life' = [life EXCEPT ![j].st = "cancelled"]
      BY <2>1, <2>2, <2>3, <2>11
    <3>2. Lifecycle!CancelWaiting(j)
      BY <2>1, <2>11, <3>1 DEF Lifecycle!CancelWaiting, Lifecycle!Move, life
    <3> QED
      BY <3>2 DEF Lifecycle!LifeNext
  <2>12. CASE l.st = "processing" /\ l.asked /\ m = At("cancelled", l.n, l.asked)
    <3>1. life' = [life EXCEPT ![j].st = "cancelled"]
      BY <2>1, <2>2, <2>3, <2>12
    <3>2. Lifecycle!CancelRunning(j)
      BY <2>1, <2>12, <3>1 DEF Lifecycle!CancelRunning, Lifecycle!Move, life
    <3> QED
      BY <3>2 DEF Lifecycle!LifeNext
  <2>13. CASE l.st = "failed" /\ ~l.asked /\ m = At("waiting", 0, l.asked)
    <3>1. life' = [life EXCEPT ![j].st = "waiting", ![j].n = 0]
      BY <2>1, <2>2, <2>3, <2>13
    <3>2. Lifecycle!StartOver(j)
      BY <2>1, <2>13, <3>1 DEF Lifecycle!StartOver, life
    <3> QED
      BY <3>2 DEF Lifecycle!LifeNext
  <2> QED
    BY <1>2, <2>4, <2>5, <2>6, <2>7, <2>8, <2>9, <2>10, <2>11, <2>12, <2>13
       DEF LifeMove, l, m
<1> QED
  BY <1>1, <1>2 DEF LifeStep

(* The processor implements the lifecycle of a job: no race of workers,    *)
(* reaper, promotion and requests gives a row a step the lifecycle does    *)
(* not have.                                                               *)
THEOREM LifecycleImplemented ==
  ASSUME CleanDeaths
  PROVE  Spec /\ [][OneDelivered]_vars => ImplementsLifecycle
<1>1. Init => Lifecycle!LifeInit
  <2> SUFFICES ASSUME Init PROVE Lifecycle!LifeInit
    OBVIOUS
  <2>1. \A j \in Jobs : LifeOf(row[j]) = [st |-> "absent", n |-> 0, asked |-> FALSE]
    BY DEF Init, NoRow, LifeOf, Waiting
  <2> QED
    BY <2>1 DEF Lifecycle!LifeInit
<1>2. RunInv /\ RunInv' /\ [Next]_vars =>
        [Lifecycle!LifeNext]_([j \in Jobs |-> LifeOf(row[j])])
  BY NextLife, LifeRefined
<1> QED
  BY <1>1, <1>2, RunInvHolds, PTL DEF Spec, ImplementsLifecycle, Lifecycle!LifeSpec
=============================================================================
