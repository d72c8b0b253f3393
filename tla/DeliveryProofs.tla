--------------------------- MODULE DeliveryProofs ---------------------------
(***************************************************************************)
(* The only steps by which a job is lost or starts too early, for every    *)
(* number of jobs, workers, slots, streams and requests, every retry       *)
(* schedule and every set of faults, timely or not.  A row that is synced, *)
(* or that a process is about to mark as synced, must be in a queue.       *)
(* Three kinds of step break that: an entry is delivered and dropped       *)
(* before claim_job, by a death or by a blocking read of two streams; or   *)
(* the next attempt is committed under a handoff that is not over.         *)
(***************************************************************************)
EXTENDS TypeProofs

(***************************************************************************)
(* The parts of InDelivery and UnderWay.                                   *)
(***************************************************************************)
Queued(j) == \E m \in {j} \X Copies : Undelivered(m)
Held(j)   == \E t \in Tasks : task[t].pc = "claim" /\ MyJob(t) = j
Sent(j)   == InDelivery(j) \/ zset[j] # "none"

(* A process will put job j, or has put it, before claim_job.              *)
ReqHands(c, j)  == req[c].pc = "handoff" /\ req[c].job = j /\ req[c].h \in Prompt
TaskHands(t, j) == task[t].pc = "handoff" /\ MyJob(t) = j /\ task[t].h \in Prompt
TickHands(j) ==
  \/ Promoting(j)
  \/ tick.pc = "handoff" /\ tick.job = j /\ tick.h \in Prompt
  \/ tick.todo[j] \in Prompt
InHands(j) ==
  \/ Held(j)
  \/ \E c \in Clients : ReqHands(c, j)
  \/ \E t \in Tasks : TaskHands(t, j)
  \/ TickHands(j)

(***************************************************************************)
(* The inductive invariants.                                               *)
(***************************************************************************)
KeptOK(j) ==
  row[j].status \in Waiting =>
    /\ row[j].synced \/ Marking(j) => Sent(j)
    /\ Promoting(j) /\ tick.todo[j] = "none" => InDelivery(j)
ReqOK(c)  == req[c].pc = "zrem" => row[req[c].job].status = "cancelled"
PromoteOK ==
  /\ tick.pc \notin {"xadd", "zrem", "flip"} => tick.ids = {}
  /\ tick.pc = "xadd" => \A j \in Jobs : tick.todo[j] # "none" => j \in tick.ids
  /\ tick.pc = "zrem" => \A j \in Jobs : tick.todo[j] = "none"
KeptInv ==
  /\ \A j \in Jobs : KeptOK(j)
  /\ \A c \in Clients : ReqOK(c)
  /\ PromoteOK

(* A row whose time has not come is scheduled and known to nobody who      *)
(* would not wait for it, or was cancelled.                                *)
DueOK(j) ==
  row[j].wait => \/ row[j].status = "cancelled"
                 \/ row[j].status = "scheduled" /\ ~UnderWay(j)

(***************************************************************************)
(* What a step may do to one job.                                          *)
(***************************************************************************)
KeepStep(j) ==
  /\ row'[j].status \in Waiting /\ row[j].status \notin Waiting => ~row'[j].synced
  /\ row'[j].synced => row[j].synced \/ Marking(j)
  /\ Marking(j)' => Marking(j) \/ Sent(j)'
  /\ row'[j].status \in Waiting /\ InDelivery(j) => InDelivery(j)'
  /\ row'[j].status \in Waiting /\ zset[j] # "none" => Sent(j)'
  /\ Promoting(j)' /\ tick'.todo[j] = "none" =>
       (Promoting(j) /\ tick.todo[j] = "none") \/ InDelivery(j)'

DueStep(j) ==
  /\ row'[j].wait => \/ row'[j].status = "cancelled"
                     \/ row'[j].status = "scheduled" /\ (UnderWay(j)' => UnderWay(j))
  /\ row[j].status = "scheduled" /\ IsProcessing(row'[j]) => UnderWay(j)

(* The two parts make up InDelivery and UnderWay.                          *)
LEMMA Parts ==
  ASSUME NEW j
  PROVE  /\ InDelivery(j) <=> Queued(j) \/ Held(j)
         /\ UnderWay(j) <=> Queued(j) \/ zset[j] = "due" \/ InHands(j)
BY DEF InDelivery, UnderWay, Queued, Held, InHands, ReqHands, TaskHands, TickHands

(* The same in the next state.                                             *)
LEMMA PartsNext ==
  ASSUME NEW j
  PROVE  /\ InDelivery(j)' <=> Queued(j)' \/ Held(j)'
         /\ UnderWay(j)' <=> Queued(j)' \/ zset'[j] = "due" \/ InHands(j)'
BY DEF InDelivery, UnderWay, Queued, Held, InHands, ReqHands, TaskHands, TickHands

(* A step that takes no job's next attempt from under a handoff keeps the  *)
(* job.                                                                    *)
LEMMA KeepsJob ==
  ASSUME NEW j \in Jobs, KeptOK(j), KeepStep(j), ~Overtaken(j)
  PROVE  KeptOK(j)'
BY DEF KeptOK, KeepStep, Overtaken, Sent

(* A step that gives no delay to a job under way keeps it until its time.  *)
LEMMA KeepsDue ==
  ASSUME NEW j \in Jobs, DueOK(j), DueStep(j), FinalStep, ~Outrun(j)
  PROVE  DueOK(j)'
<1>1. row[j].status = "cancelled" => row'[j].status = "cancelled"
  BY DEF FinalStep, Final
<1> QED
  BY <1>1 DEF DueOK, DueStep, Outrun

(* A job the step is not about.                                            *)
LEMMA Untouched ==
  ASSUME NEW i \in Jobs, row'[i] = row[i], zset'[i] = zset[i],
         Queued(i)' <=> Queued(i), Held(i)' <=> Held(i),
         Marking(i)' => Marking(i), InHands(i)' => InHands(i),
         Promoting(i)' /\ tick'.todo[i] = "none" => Promoting(i) /\ tick.todo[i] = "none"
  PROVE  KeepStep(i) /\ (DueOK(i) => DueStep(i))
<1>1. KeepStep(i)
  BY Parts, PartsNext DEF KeepStep, Sent
<1>2. DueOK(i) => DueStep(i)
  BY Parts, PartsNext DEF DueOK, DueStep, IsProcessing
<1> QED
  BY <1>1, <1>2

(***************************************************************************)
(* Streams and the ZSET.                                                   *)
(***************************************************************************)

(* A step that leaves the streams alone.                                   *)
LEMMA SameQueues ==
  ASSUME UNCHANGED stream
  PROVE  \A i : Queued(i)' <=> Queued(i)
BY DEF Queued, Undelivered

(* An XADD makes a message of its job, and takes none away.                *)
LEMMA EnqueueNews ==
  ASSUME TypeInv, NEW j \in Jobs, enqueue(j)
  PROVE  /\ Queued(j)'
         /\ \A i \in Jobs : i # j => (Queued(i)' <=> Queued(i))
<1>0. stream \in [Streams -> Seq(Msgs)] /\ StreamOf[j] \in Streams
  BY StoreAssumption DEF TypeInv, TypeOK, Streams
<1>1. PICK x \in Msgs :
        /\ JobOf(x) = j
        /\ stream' = [stream EXCEPT ![StreamOf[j]] = Append(@, x)]
        /\ stream' \in [Streams -> Seq(Msgs)]
  BY <1>0, EnqueueType
<1> DEFINE s == StreamOf[j]
           n == Len(stream[s]) + 1
<1>2. /\ n \in DOMAIN stream'[s] /\ stream'[s][n] = x
      /\ \A k \in Streams : \A i \in DOMAIN stream[k] :
           i \in DOMAIN stream'[k] /\ stream'[k][i] = stream[k][i]
      /\ \A k \in Streams : \A i \in DOMAIN stream'[k] :
           \/ stream'[k][i] = x
           \/ i \in DOMAIN stream[k] /\ stream'[k][i] = stream[k][i]
  BY <1>0, <1>1
<1>3. s \in Streams
  BY <1>0
<1> HIDE DEF s, n
<1>4. Undelivered(x)'
  BY <1>2, <1>3 DEF Undelivered
<1>5. \A m : Undelivered(m) => Undelivered(m)'
  BY <1>2 DEF Undelivered
<1>6. \A m : Undelivered(m)' => m = x \/ Undelivered(m)
  BY <1>2 DEF Undelivered
<1>7. x \in {j} \X Copies /\ \A i \in Jobs : i # j => x \notin {i} \X Copies
  BY <1>1 DEF Msgs, JobOf
<1> QED
  BY <1>4, <1>5, <1>6, <1>7 DEF Queued

(* A handoff puts its job into its stream or into the ZSET, and leaves     *)
(* every other job alone.                                                  *)
LEMMA HandOverNews ==
  ASSUME TypeInv, NEW j \in Jobs, NEW h, HandOver(j, h)
  PROVE  /\ Queued(j) => Queued(j)'
         /\ zset[j] # "none" => zset'[j] # "none"
         /\ Queued(j)' \/ zset'[j] # "none"
         /\ Queued(j)' => Queued(j) \/ h = "stream"
         /\ zset'[j] = "due" => zset[j] = "due" \/ h = "due"
         /\ \A i \in Jobs : i # j => (Queued(i)' <=> Queued(i)) /\ zset'[i] = zset[i]
<1>0. zset \in [Jobs -> Handoff \ {"stream"}]
  BY DEF TypeInv, TypeOK
<1>1. CASE h = "stream" /\ enqueue(j) /\ UNCHANGED zset
  BY <1>1, EnqueueNews
<1>2. CASE h \in {"wait", "due"} /\ zset' = [zset EXCEPT ![j] = h] /\ UNCHANGED stream
  BY <1>0, <1>2, SameQueues
<1> QED
  BY <1>1, <1>2 DEF HandOver


(***************************************************************************)
(* Rows.                                                                   *)
(***************************************************************************)

(* What the writes of repository.py do to the columns delivery looks at.   *)
LEMMA Columns ==
  ASSUME NEW r \in Row
  PROVE  /\ claim_job(r).status = "processing"
         /\ claim_job(r).synced = r.synced /\ claim_job(r).wait = r.wait
         /\ complete_job(r).status = "completed"
         /\ complete_job(r).synced = r.synced /\ complete_job(r).wait = r.wait
         /\ fail_job(r).status = "failed"
         /\ fail_job(r).synced = r.synced /\ fail_job(r).wait = r.wait
         /\ cancel_job(r).status = "cancelled"
         /\ cancel_job(r).synced = r.synced /\ cancel_job(r).wait = r.wait
         /\ cancel_pending_or_scheduled(r).status = "cancelled"
         /\ cancel_pending_or_scheduled(r).synced = r.synced
         /\ request_cancel(r).status = r.status
         /\ request_cancel(r).synced = r.synced /\ request_cancel(r).wait = r.wait
         /\ mark_synced(r).status = r.status /\ mark_synced(r).wait = r.wait
         /\ retry_to_pending(r).status = "pending"
         /\ ~retry_to_pending(r).synced /\ retry_to_pending(r).wait = r.wait
         /\ retry_to_scheduled(r).status = "scheduled" /\ ~retry_to_scheduled(r).synced
         /\ reset_failed_to_pending(r).status = "pending"
         /\ ~reset_failed_to_pending(r).synced
         /\ reset_failed_to_pending(r).wait = r.wait
         /\ promote_scheduled_to_pending(r).synced = r.synced
         /\ promote_scheduled_to_pending(r).wait = r.wait
         /\ promote_scheduled_to_pending(r).status =
              IF r.status = "scheduled" THEN "pending" ELSE r.status
BY DEF Row, claim_job, complete_job, fail_job, cancel_job, cancel_pending_or_scheduled,
       request_cancel, mark_synced, retry_to_pending, retry_to_scheduled,
       reset_failed_to_pending, promote_scheduled_to_pending

(* A row has one status.                                                   *)
LEMMA Statuses ==
  /\ "processing" \notin Waiting /\ "completed" \notin Waiting
  /\ "failed" \notin Waiting /\ "cancelled" \notin Waiting /\ "absent" \notin Waiting
  /\ "scheduled" \in Waiting /\ "pending" \in Waiting
BY DEF Waiting

(***************************************************************************)
(* Requests.                                                               *)
(***************************************************************************)

(* A request that moves to record q.                                       *)
LEMMA ReqMoves ==
  ASSUME TypeInv, NEW c \in Clients, NEW q, req' = [req EXCEPT ![c] = q],
         UNCHANGED <<task, tick>>, NEW i \in Jobs
  PROVE  /\ Held(i)' <=> Held(i)
         /\ Promoting(i)' <=> Promoting(i)
         /\ Marking(i)' => Marking(i) \/ (q.pc = "sync" /\ q.job = i)
         /\ InHands(i)' => InHands(i) \/ (q.pc = "handoff" /\ q.job = i /\ q.h \in Prompt)
<1>1. \A d \in Clients : req'[d] = IF d = c THEN q ELSE req[d]
  BY DEF TypeInv, TypeOK
<1>2. \A t \in Tasks : MyJob(t)' = MyJob(t)
  BY DEF MyJob
<1>3. Held(i)' <=> Held(i)
  BY <1>2 DEF Held
<1>4. Promoting(i)' <=> Promoting(i)
  BY DEF Promoting
<1>5. Marking(i)' => Marking(i) \/ (q.pc = "sync" /\ q.job = i)
  BY <1>1, <1>2 DEF Marking
<1>6. \A d \in Clients : ReqHands(d, i)' =>
        ReqHands(d, i) \/ (q.pc = "handoff" /\ q.job = i /\ q.h \in Prompt)
  BY <1>1 DEF ReqHands
<1>7. (TickHands(i)' <=> TickHands(i)) /\ \A t \in Tasks : TaskHands(t, i)' <=> TaskHands(t, i)
  BY <1>2, <1>4 DEF TickHands, TaskHands
<1> QED
  BY <1>3, <1>4, <1>5, <1>6, <1>7 DEF InHands

(* A step of request c, which is about job j.                              *)
LEMMA ReqStep ==
  ASSUME TypeInv, NEW c \in Clients, NEW q, req' = [req EXCEPT ![c] = q],
         UNCHANGED <<task, tick>>, NEW j \in Jobs,
         q.pc \in {"handoff", "sync"} => q.job = j,
         \A i \in Jobs : i # j => /\ row'[i] = row[i] /\ zset'[i] = zset[i]
                                  /\ Queued(i)' <=> Queued(i),
         KeepStep(j), DueOK(j) => DueStep(j), NEW i \in Jobs
  PROVE  KeepStep(i) /\ (DueOK(i) => DueStep(i))
<1>1. CASE i = j
  BY <1>1
<1>2. CASE i # j
  <2>1. /\ Held(i)' <=> Held(i)
        /\ Promoting(i)' <=> Promoting(i)
        /\ Marking(i)' => Marking(i)
        /\ InHands(i)' => InHands(i)
    BY <1>2, ReqMoves
  <2> QED
    BY <1>2, <2>1, Untouched
<1> QED
  BY <1>1, <1>2

(* A step of request c that sends nothing, leaves the rows alone, or only  *)
(* marks, cancels or asks to cancel.                                       *)
LEMMA ReqWrites ==
  ASSUME TypeInv, NEW c \in Clients, NEW q, req' = [req EXCEPT ![c] = q],
         UNCHANGED <<task, tick, stream>>, NEW j \in Jobs,
         q.pc \notin {"handoff", "sync"},
         NEW r, row' = [row EXCEPT ![j] = r],
         r.synced => row[j].synced \/ Marking(j),
         r.status \in {row[j].status, "cancelled"},
         r.status = "cancelled" \/ r.wait = row[j].wait,
         zset' = zset \/ (r.status = "cancelled" /\ zset' = [zset EXCEPT ![j] = "none"]),
         NEW i \in Jobs
  PROVE  KeepStep(i) /\ (DueOK(i) => DueStep(i))
<1>0. row \in [Jobs -> Row] /\ zset \in [Jobs -> Handoff \ {"stream"}]
  BY DEF TypeInv, TypeOK
<1>1. /\ row'[j] = r /\ \A k \in Jobs : k # j => row'[k] = row[k] /\ zset'[k] = zset[k]
      /\ r.status = "cancelled" \/ zset'[j] = zset[j]
      /\ zset'[j] = "due" => zset[j] = "due"
  BY <1>0
<1>2. \A k \in Jobs : Queued(k)' <=> Queued(k)
  BY SameQueues
<1>3. /\ Held(j)' <=> Held(j)
      /\ Promoting(j)' <=> Promoting(j)
      /\ Marking(j)' => Marking(j)
      /\ InHands(j)' => InHands(j)
  BY ReqMoves
<1>4. KeepStep(j)
  BY <1>1, <1>2, <1>3, Parts, PartsNext, Statuses DEF KeepStep, Sent
<1>5. DueOK(j) => DueStep(j)
  BY <1>1, <1>2, <1>3, Parts, PartsNext DEF DueOK, DueStep, IsProcessing
<1> QED
  BY <1>1, <1>2, <1>4, <1>5, ReqStep

(* Every step of the API.                                                  *)
LEMMA ApiSteps ==
  ASSUME TypeInv, NEW c \in Clients, ReqOK(c),
         ApiCall(c) \/ ApiStep(c) \/ ApiCrash(c), NEW i \in Jobs
  PROVE  KeepStep(i) /\ (DueOK(i) => DueStep(i))
<1> USE DEF apiRest
<1>0. /\ row \in [Jobs -> Row] /\ req \in [Clients -> Req] /\ req[c] \in Req
      /\ IdleReq.pc = "idle"
  BY ReqTypes DEF TypeInv, TypeOK, IdleReq
<1>1. ASSUME NEW j \in Jobs, NEW h \in {"stream", "wait"}, submit_job(c, j, h)
      PROVE  KeepStep(i) /\ (DueOK(i) => DueStep(i))
  <2> DEFINE q == [IdleReq EXCEPT !.pc = "handoff", !.op = "submit", !.job = j, !.h = h]
             r == create_job(h)
  <2>1. q.pc = "handoff" /\ q.job = j /\ q.h = h /\ req' = [req EXCEPT ![c] = q]
    BY <1>1 DEF submit_job, IdleReq
  <2>2. /\ ~r.synced /\ r.wait = (h = "wait") /\ r.status \in Waiting
        /\ r.wait => r.status = "scheduled"
    BY DEF create_job, NoRow, Waiting
  <2>3. row'[j] = r /\ \A k \in Jobs : k # j => row'[k] = row[k]
    BY <1>0, <1>1 DEF submit_job, Update
  <2>4. UNCHANGED <<task, tick, zset>> /\ \A k \in Jobs : Queued(k)' <=> Queued(k)
    BY <1>1, SameQueues DEF submit_job
  <2> HIDE DEF q, r
  <2>5. /\ Held(j)' <=> Held(j)
        /\ Promoting(j)' <=> Promoting(j)
        /\ Marking(j)' => Marking(j)
        /\ h = "wait" => (InHands(j)' => InHands(j))
    BY <2>1, <2>4, ReqMoves DEF Prompt
  <2>6. KeepStep(j)
    BY <2>2, <2>3, <2>4, <2>5, Parts, PartsNext DEF KeepStep, Sent
  <2>7. DueStep(j)
    BY <2>2, <2>3, <2>4, <2>5, Parts, PartsNext, Statuses DEF DueStep, IsProcessing
  <2> QED
    BY <2>1, <2>3, <2>4, <2>6, <2>7, ReqStep
<1>2. ASSUME NEW j \in Jobs, retry_job(c, j)
      PROVE  KeepStep(i) /\ (DueOK(i) => DueStep(i))
  <2> DEFINE q == [IdleReq EXCEPT !.pc = "handoff", !.op = "retry", !.job = j,
                                  !.h = "stream"]
             r == reset_failed_to_pending(row[j])
  <2>1. q.pc = "handoff" /\ q.job = j /\ req' = [req EXCEPT ![c] = q]
    BY <1>2 DEF retry_job, IdleReq
  <2>2. ~r.synced /\ r.wait = row[j].wait /\ r.status = "pending"
    BY <1>0, Columns
  <2>3. row'[j] = r /\ \A k \in Jobs : k # j => row'[k] = row[k]
    BY <1>0, <1>2 DEF retry_job, Update
  <2>4. UNCHANGED <<task, tick, zset>> /\ \A k \in Jobs : Queued(k)' <=> Queued(k)
    BY <1>2, SameQueues DEF retry_job
  <2>5. row[j].status = "failed"
    BY <1>2 DEF retry_job, CanReset
  <2> HIDE DEF q, r
  <2>6. /\ Held(j)' <=> Held(j)
        /\ Promoting(j)' <=> Promoting(j)
        /\ Marking(j)' => Marking(j)
    BY <2>1, <2>4, ReqMoves
  <2>7. KeepStep(j)
    BY <2>2, <2>3, <2>4, <2>6, Parts, PartsNext DEF KeepStep, Sent
  <2>8. DueOK(j) => DueStep(j)
    BY <2>2, <2>3, <2>5 DEF DueOK, DueStep, IsProcessing
  <2> QED
    BY <2>1, <2>3, <2>4, <2>7, <2>8, ReqStep
<1>3. ASSUME NEW j \in Jobs, cancel_job_route(c, j)
      PROVE  KeepStep(i) /\ (DueOK(i) => DueStep(i))
  <2> DEFINE q == [IdleReq EXCEPT !.pc = "cancel", !.op = "cancel", !.job = j, !.left = 3]
  <2>1. q.pc = "cancel" /\ req' = [req EXCEPT ![c] = q]
    BY <1>3 DEF cancel_job_route, IdleReq
  <2>2. UNCHANGED <<task, tick, stream, zset>> /\ row' = [row EXCEPT ![j] = row[j]]
    BY <1>0, <1>3 DEF cancel_job_route
  <2> HIDE DEF q
  <2> QED
    BY <2>1, <2>2, ReqWrites
<1>4. ASSUME req[c].pc # "idle", UNCHANGED <<task, tick, stream, zset, row>>,
             NEW q, req' = [req EXCEPT ![c] = q], q.pc \notin {"handoff", "sync"}
      PROVE  KeepStep(i) /\ (DueOK(i) => DueStep(i))
  <2>1. req[c].job \in Jobs /\ row' = [row EXCEPT ![req[c].job] = row[req[c].job]]
    BY <1>0, <1>4, ReqTypes
  <2> QED
    BY <1>4, <2>1, ReqWrites
<1>5. CASE ApiHandoff(c)
  <2> DEFINE q == [req[c] EXCEPT !.pc = "sync"]
  <2>1. PICK j \in Jobs : j = req[c].job
    BY <1>5, ReqTypes DEF ApiHandoff
  <2>2. q.pc = "sync" /\ q.job = j /\ req' = [req EXCEPT ![c] = q]
    BY <1>0, <1>5, <2>1 DEF ApiHandoff, Req
  <2>3. UNCHANGED <<task, tick, row>> /\ HandOver(j, req[c].h)
    BY <1>5, <2>1 DEF ApiHandoff
  <2> HIDE DEF q
  <2>4. /\ Held(j)' <=> Held(j)
        /\ Promoting(j)' <=> Promoting(j)
        /\ InHands(j)' => InHands(j)
    BY <2>2, <2>3, ReqMoves
  <2>5. req[c].h \in Prompt => InHands(j)
    BY <1>5, <2>1 DEF ApiHandoff, InHands, ReqHands
  <2>6. KeepStep(j)
    BY <2>3, <2>4, HandOverNews, Parts, PartsNext DEF KeepStep, Sent
  <2>7. DueOK(j) => DueStep(j)
    BY <2>3, <2>4, <2>5, HandOverNews, Parts, PartsNext
       DEF DueOK, DueStep, IsProcessing, Prompt
  <2>8. \A k \in Jobs : k # j => (Queued(k)' <=> Queued(k)) /\ zset'[k] = zset[k]
    BY <2>3, HandOverNews
  <2> QED
    BY <2>2, <2>3, <2>6, <2>7, <2>8, ReqStep
<1>6. CASE ApiSync(c)
  <2>1. PICK j \in Jobs : j = req[c].job
    BY <1>6, ReqTypes DEF ApiSync
  <2>2. row' = [row EXCEPT ![j] = mark_synced(row[j])] /\ Marking(j)
    BY <1>6, <2>1 DEF ApiSync, Update, Marking
  <2>3. mark_synced(row[j]).status = row[j].status /\ mark_synced(row[j]).wait = row[j].wait
    BY <1>0, Columns
  <2>4. UNCHANGED <<task, tick, stream, zset>> /\ req' = [req EXCEPT ![c] = IdleReq]
    BY <1>6 DEF ApiSync
  <2> QED
    BY <1>0, <2>2, <2>3, <2>4, ReqWrites
<1>7. CASE CancelWaiting(c)
  <2>0. req[c].pc # "idle"
    BY <1>7 DEF CancelWaiting
  <2>1. PICK j \in Jobs : j = req[c].job
    BY <2>0, ReqTypes
  <2>2. UNCHANGED <<task, tick, stream, zset>>
    BY <1>7 DEF CancelWaiting
  <2>3. ASSUME CanCancel(row[j])
        PROVE  KeepStep(i) /\ (DueOK(i) => DueStep(i))
    <3> DEFINE q == [req[c] EXCEPT !.pc = "zrem"]
               r == cancel_pending_or_scheduled(row[j])
    <3>1. row' = [row EXCEPT ![j] = r] /\ req' = [req EXCEPT ![c] = q] /\ q.pc = "zrem"
      BY <1>0, <1>7, <2>1, <2>3 DEF CancelWaiting, Update, Req
    <3>2. r.status = "cancelled" /\ r.synced = row[j].synced
      BY <1>0, Columns
    <3> HIDE DEF q, r
    <3> QED
      BY <2>2, <3>1, <3>2, ReqWrites
  <2>4. ASSUME ~CanCancel(row[j])
        PROVE  KeepStep(i) /\ (DueOK(i) => DueStep(i))
    <3> DEFINE o == IF req[c].obj \in Waiting THEN "cancelled" ELSE req[c].obj
               q == [req[c] EXCEPT !.pc = "request", !.obj = o]
    <3>1. UNCHANGED row /\ req' = [req EXCEPT ![c] = q]
      BY <1>0, <1>7, <2>1, <2>4 DEF CancelWaiting
    <3> HIDE DEF o
    <3>2. q.pc = "request"
      BY <1>0 DEF Req
    <3> HIDE DEF q
    <3> QED
      BY <1>4, <2>0, <2>2, <3>1, <3>2
  <2> QED
    BY <2>3, <2>4
<1>8. CASE CancelZrem(c)
  <2> DEFINE q == [req[c] EXCEPT !.pc = "ok"]
  <2>1. PICK j \in Jobs : j = req[c].job
    BY <1>8, ReqTypes DEF CancelZrem
  <2>2. row[j].status = "cancelled"
    BY <1>8, <2>1 DEF CancelZrem, ReqOK
  <2>3. /\ UNCHANGED <<task, tick, stream>> /\ row' = [row EXCEPT ![j] = row[j]]
        /\ zset' = [zset EXCEPT ![j] = "none"] /\ req' = [req EXCEPT ![c] = q]
        /\ q.pc = "ok"
    BY <1>0, <1>8, <2>1 DEF CancelZrem, Req
  <2> HIDE DEF q
  <2> QED
    BY <2>2, <2>3, ReqWrites
<1>9. CASE CancelRunning(c)
  <2>0. req[c].pc # "idle"
    BY <1>9 DEF CancelRunning
  <2>1. PICK j \in Jobs : j = req[c].job
    BY <2>0, ReqTypes
  <2>2. UNCHANGED <<task, tick, stream, zset>>
    BY <1>9 DEF CancelRunning
  <2>3. ASSUME IsProcessing(row[j])
        PROVE  KeepStep(i) /\ (DueOK(i) => DueStep(i))
    <3> DEFINE r == request_cancel(row[j])
    <3>1. row' = [row EXCEPT ![j] = r] /\ req' = [req EXCEPT ![c] = IdleReq]
      BY <1>9, <2>1, <2>3 DEF CancelRunning, Update
    <3>2. r.status = row[j].status /\ r.synced = row[j].synced /\ r.wait = row[j].wait
      BY <1>0, Columns
    <3> HIDE DEF r
    <3> QED
      BY <1>0, <2>2, <3>1, <3>2, ReqWrites
  <2>4. ASSUME ~IsProcessing(row[j])
        PROVE  KeepStep(i) /\ (DueOK(i) => DueStep(i))
    <3> DEFINE q == [req[c] EXCEPT !.pc = "read"]
    <3>1. UNCHANGED row /\ req' = [req EXCEPT ![c] = q] /\ q.pc = "read"
      BY <1>0, <1>9, <2>1, <2>4 DEF CancelRunning, Req
    <3> HIDE DEF q
    <3> QED
      BY <1>4, <2>0, <2>2, <3>1
  <2> QED
    BY <2>3, <2>4
<1>10. CASE CancelRead(c)
  <2>0. req[c].pc # "idle" /\ UNCHANGED <<task, tick, stream, zset, row>>
    BY <1>10 DEF CancelRead
  <2>1. \A o, n : [req[c] EXCEPT !.pc = "cancel", !.obj = o, !.left = n].pc = "cancel"
    BY <1>0 DEF Req
  <2>2. [req[c] EXCEPT !.pc = "ok"].pc = "ok"
    BY <1>0 DEF Req
  <2>3. \/ req' = [req EXCEPT ![c] = [req[c] EXCEPT !.pc = "ok"]]
        \/ req' = [req EXCEPT ![c] = IdleReq]
        \/ \E o, n : req' = [req EXCEPT ![c] =
                       [req[c] EXCEPT !.pc = "cancel", !.obj = o, !.left = n]]
    BY <1>0, <1>10, Zenon DEF CancelRead
  <2> QED
    BY <1>0, <1>4, <2>0, <2>1, <2>2, <2>3
<1>11. CASE CancelAnswer(c)
  <2>1. /\ req[c].pc # "idle" /\ UNCHANGED <<task, tick, stream, zset, row>>
        /\ req' = [req EXCEPT ![c] = IdleReq]
    BY <1>11 DEF CancelAnswer
  <2> QED
    BY <1>0, <1>4, <2>1
<1>12. CASE ApiCrash(c)
  <2>1. /\ req[c].pc # "idle" /\ UNCHANGED <<task, tick, stream, zset, row>>
        /\ req' = [req EXCEPT ![c] = IdleReq]
    BY <1>12 DEF ApiCrash
  <2> QED
    BY <1>0, <1>4, <2>1
<1> QED
  BY <1>1, <1>2, <1>3, <1>5, <1>6, <1>7, <1>8, <1>9, <1>10, <1>11, <1>12
     DEF ApiCall, ApiStep

(***************************************************************************)
(* Tasks.                                                                  *)
(***************************************************************************)

(* A task that moves to record u.                                          *)
LEMMA TaskMoves ==
  ASSUME TypeInv, NEW t \in Tasks, NEW u, task' = [task EXCEPT ![t] = u],
         UNCHANGED <<req, tick>>, NEW i \in Jobs
  PROVE  /\ Held(i)' => Held(i) \/ (u.pc = "claim" /\ JobOf(u.msg) = i)
         /\ Held(i) /\ (task[t].pc # "claim" \/ MyJob(t) # i) => Held(i)'
         /\ u.pc = "claim" /\ JobOf(u.msg) = i => Held(i)'
         /\ Promoting(i)' <=> Promoting(i)
         /\ Marking(i)' => Marking(i) \/ (u.pc = "sync" /\ JobOf(u.msg) = i)
         /\ InHands(i)' => \/ InHands(i)
                           \/ u.pc = "claim" /\ JobOf(u.msg) = i
                           \/ u.pc = "handoff" /\ JobOf(u.msg) = i /\ u.h \in Prompt
<1>1. \A d \in Tasks : task'[d] = IF d = t THEN u ELSE task[d]
  BY DEF TypeInv, TypeOK
<1>2. Held(i)' => Held(i) \/ (u.pc = "claim" /\ JobOf(u.msg) = i)
  BY <1>1 DEF Held, MyJob
<1>3. Held(i) /\ (task[t].pc # "claim" \/ MyJob(t) # i) => Held(i)'
  BY <1>1 DEF Held, MyJob
<1>4. u.pc = "claim" /\ JobOf(u.msg) = i => Held(i)'
  BY <1>1 DEF Held, MyJob
<1>5. Promoting(i)' <=> Promoting(i)
  BY DEF Promoting
<1>6. Marking(i)' => Marking(i) \/ (u.pc = "sync" /\ JobOf(u.msg) = i)
  BY <1>1 DEF Marking, MyJob
<1>7. \A d \in Tasks : TaskHands(d, i)' =>
        TaskHands(d, i) \/ (u.pc = "handoff" /\ JobOf(u.msg) = i /\ u.h \in Prompt)
  BY <1>1 DEF TaskHands, MyJob
<1>8. (TickHands(i)' <=> TickHands(i)) /\ \A c \in Clients : ReqHands(c, i)' <=> ReqHands(c, i)
  BY <1>5 DEF TickHands, ReqHands
<1> QED
  BY <1>2, <1>3, <1>4, <1>5, <1>6, <1>7, <1>8 DEF InHands

(* A step of task t, which is about the job j of its message.              *)
LEMMA TaskAbout ==
  ASSUME TypeInv, NEW t \in Tasks, NEW u, task' = [task EXCEPT ![t] = u],
         UNCHANGED <<req, tick>>, NEW j \in Jobs, j = MyJob(t),
         u.pc # "claim", u.pc = "idle" \/ u.msg = task[t].msg,
         \A i \in Jobs : i # j => /\ row'[i] = row[i] /\ zset'[i] = zset[i]
                                  /\ Queued(i)' <=> Queued(i),
         KeepStep(j), DueOK(j) => DueStep(j), NEW i \in Jobs
  PROVE  KeepStep(i) /\ (DueOK(i) => DueStep(i))
<1>1. CASE i = j
  BY <1>1
<1>2. CASE i # j
  <2>0. u.pc \in {"handoff", "sync"} => JobOf(u.msg) # i
    BY <1>2 DEF MyJob
  <2>1. /\ Held(i)' <=> Held(i)
        /\ Promoting(i)' <=> Promoting(i)
        /\ Marking(i)' => Marking(i)
        /\ InHands(i)' => InHands(i)
    BY <1>2, <2>0, TaskMoves
  <2> QED
    BY <1>2, <2>1, Untouched
<1> QED
  BY <1>1, <1>2

(* A step of task t after its claim that sends nothing, and writes r into  *)
(* its row.                                                                *)
LEMMA TaskOnly ==
  ASSUME TypeInv, NEW t \in Tasks, NEW u, task' = [task EXCEPT ![t] = u],
         UNCHANGED <<req, tick, stream, zset>>, NEW j \in Jobs, j = MyJob(t),
         u.pc \notin {"claim", "sync"}, u.pc = "idle" \/ u.msg = task[t].msg,
         task[t].pc # "claim",
         NEW r, row' = [row EXCEPT ![j] = r],
         r.synced => row[j].synced \/ Marking(j),
         r.status \in Waiting /\ row[j].status \notin Waiting => ~r.synced,
         IsProcessing(row[j]) \/ (r.status = row[j].status /\ r.wait = row[j].wait),
         IsProcessing(row[j]) /\ r.wait /\ ~row[j].wait =>
           r.status = "scheduled" /\ (u.pc = "handoff" => u.h = "wait"),
         u.pc = "handoff" => IsProcessing(row[j]),
         NEW i \in Jobs
  PROVE  KeepStep(i) /\ (DueOK(i) => DueStep(i))
<1>0. row \in [Jobs -> Row]
  BY DEF TypeInv, TypeOK
<1>1. /\ row'[j] = r /\ \A k \in Jobs : k # j => row'[k] = row[k] /\ zset'[k] = zset[k]
      /\ zset'[j] = zset[j]
  BY <1>0
<1>2. \A k \in Jobs : Queued(k)' <=> Queued(k)
  BY SameQueues
<1>3. /\ Held(j)' => Held(j)
      /\ Held(j) /\ task[t].pc # "claim" => Held(j)'
      /\ Promoting(j)' <=> Promoting(j)
      /\ Marking(j)' => Marking(j)
      /\ InHands(j)' => InHands(j) \/ (u.pc = "handoff" /\ u.h \in Prompt)
  BY TaskMoves
<1>4. KeepStep(j)
  BY <1>1, <1>2, <1>3, Parts, PartsNext DEF KeepStep, Sent
<1>5. DueOK(j) => DueStep(j)
  <2> SUFFICES ASSUME DueOK(j) PROVE DueStep(j)
    OBVIOUS
  <2>1. CASE IsProcessing(row[j])
    BY <1>1, <1>2, <1>3, <2>1, Parts, PartsNext DEF DueOK, DueStep, IsProcessing, Prompt
  <2>2. CASE ~IsProcessing(row[j]) /\ r.status = row[j].status /\ r.wait = row[j].wait
    BY <1>1, <1>2, <1>3, <2>2, Parts, PartsNext DEF DueOK, DueStep, IsProcessing
  <2> QED
    BY <2>1, <2>2
<1> QED
  BY <1>1, <1>2, <1>4, <1>5, TaskAbout

(* What schedule_retry_or_fail writes.                                     *)
LEMMA RetryColumns ==
  ASSUME NEW r \in Row, NEW j, NEW att
  PROVE  LET x == RetryRow(j, att, r) IN
         /\ x \in Row
         /\ x.status \in Waiting => ~x.synced
         /\ x.synced => r.synced
         /\ x.wait /\ ~r.wait => x.status = "scheduled" /\ RetryHandoff(j, att) = "wait"
<1>1. CASE Exhausted(j, att)
  BY <1>1, Columns, RetryRowType, Statuses DEF RetryRow
<1>2. CASE ~Exhausted(j, att) /\ Immediate(att)
  BY <1>2, Columns, RetryRowType DEF RetryRow
<1>3. CASE ~Exhausted(j, att) /\ ~Immediate(att)
  BY <1>3, Columns, RetryRowType DEF RetryRow, RetryHandoff
<1> QED
  BY <1>1, <1>2, <1>3

(* The guarded update that ends an attempt.                                *)
LEMMA FinishSteps ==
  ASSUME TypeInv, NEW t \in Tasks, task[t].pc \notin {"idle", "claim"},
         NEW r \in Row, Finish(t, r),
         r.status \in Waiting => ~r.synced,
         r.synced => row[MyJob(t)].synced,
         r.wait /\ ~row[MyJob(t)].wait => r.status = "scheduled",
         NEW i \in Jobs
  PROVE  KeepStep(i) /\ (DueOK(i) => DueStep(i))
<1> USE DEF redis, taskRest, workerRest
<1>0. PICK j \in Jobs : j = MyJob(t)
  BY TaskTypes
<1>1. task[t] \in Task /\ row[j] \in Row
  BY <1>0, TaskTypes
<1> DEFINE won == IsProcessing(row[j])
           u == IF won THEN [task[t] EXCEPT !.pc = "ack"] ELSE IdleTask
           x == IF won THEN r ELSE row[j]
<1>2. /\ u.pc \in {"ack", "idle"} /\ (u.pc = "idle" \/ u.msg = task[t].msg)
  BY <1>1 DEF Task, IdleTask
<1>3. task' = [task EXCEPT ![t] = u] /\ row' = [row EXCEPT ![j] = x]
  BY <1>0 DEF Finish, AckIff, Update
<1>4. UNCHANGED <<req, tick, stream, zset>>
  BY DEF Finish
<1>5. CASE won
  <2>1. x = r
    BY <1>5
  <2> HIDE DEF x, u
  <2> QED
    BY <1>0, <1>2, <1>3, <1>4, <1>5, <2>1, TaskOnly
<1>6. CASE ~won
  <2>1. x = row[j]
    BY <1>6
  <2> HIDE DEF x, u
  <2> QED
    BY <1>0, <1>2, <1>3, <1>4, <2>1, TaskOnly
<1> QED
  BY <1>5, <1>6

(* Every step of a task.                                                   *)
LEMMA TaskSteps ==
  ASSUME TypeInv, NEW t \in Tasks, TaskStep(t), NEW i \in Jobs
  PROVE  KeepStep(i) /\ (DueOK(i) => DueStep(i))
<1> USE DEF redis, taskRest, workerRest
<1>1. task[t].pc # "idle"
  BY DEF TaskStep, Claim, Load, DropOwnerless, Complete, Reject, RetryOrFail,
         TaskHandoff, TaskSync, PollCancelled, CancelJob, Ack
<1>2. PICK j \in Jobs : j = MyJob(t)
  BY <1>1, TaskTypes
<1>3. /\ task[t] \in Task /\ row[j] \in Row /\ row \in [Jobs -> Row] /\ j = JobOf(task[t].msg)
  BY <1>1, <1>2, TaskTypes DEF MyJob, TypeInv, TypeOK
<1>4. \A pc \in TaskPc : /\ [task[t] EXCEPT !.pc = pc].pc = pc
                         /\ [task[t] EXCEPT !.pc = pc].msg = task[t].msg
  BY <1>3 DEF Task
<1>5. ASSUME NEW u, task' = [task EXCEPT ![t] = u], task[t].pc # "claim",
             u.pc \in {"idle", "run", "cancel"}, u.pc = "idle" \/ u.msg = task[t].msg,
             UNCHANGED <<row, req, tick, stream, zset>>
      PROVE  KeepStep(i) /\ (DueOK(i) => DueStep(i))
  <2> DEFINE r == row[j]
  <2>1. r = row[j] /\ row' = [row EXCEPT ![j] = r]
    BY <1>3, <1>5
  <2>2. /\ UNCHANGED <<req, tick, stream, zset>> /\ task' = [task EXCEPT ![t] = u]
        /\ task[t].pc # "claim" /\ u.pc \notin {"claim", "sync", "handoff"}
        /\ u.pc = "idle" \/ u.msg = task[t].msg
    BY <1>5
  <2> HIDE DEF r
  <2>3. /\ r.synced => row[j].synced
        /\ r.status = row[j].status /\ r.wait = row[j].wait
        /\ ~(r.status \in Waiting /\ row[j].status \notin Waiting)
        /\ ~(r.wait /\ ~row[j].wait)
    BY <2>1
  <2> QED
    BY <1>2, <2>1, <2>2, <2>3, TaskOnly
<1>6. CASE Claim(t) /\ CanClaim(row[j])
  <2> DEFINE u == [task[t] EXCEPT !.pc = "load"]
             r == claim_job(row[j])
  <2>1. /\ task' = [task EXCEPT ![t] = u] /\ row' = [row EXCEPT ![j] = r]
        /\ UNCHANGED <<req, tick, stream, zset>> /\ task[t].pc = "claim"
    BY <1>2, <1>6 DEF Claim, Update
  <2>2. r.status = "processing" /\ r.synced = row[j].synced /\ r.wait = row[j].wait
    BY <1>3, Columns
  <2>3. u.pc = "load" /\ u.msg = task[t].msg
    BY <1>4 DEF TaskPc
  <2>4. row[j].status \in Waiting
    BY <1>6 DEF CanClaim
  <2>5. InHands(j)
    BY <1>2, <2>1 DEF InHands, Held
  <2> HIDE DEF u, r
  <2>6. /\ row'[j] = r /\ \A k \in Jobs : k # j => row'[k] = row[k] /\ zset'[k] = zset[k]
        /\ zset'[j] = zset[j]
    BY <1>3, <2>1
  <2>7. \A k \in Jobs : Queued(k)' <=> Queued(k)
    BY <2>1, SameQueues
  <2>8. (Promoting(j)' <=> Promoting(j)) /\ (Marking(j)' => Marking(j))
    BY <2>1, <2>3, TaskMoves
  <2>9. KeepStep(j)
    BY <2>1, <2>2, <2>6, <2>8, Statuses DEF KeepStep
  <2>10. DueOK(j) => DueStep(j)
    BY <2>2, <2>4, <2>5, <2>6, Parts, Statuses DEF DueOK, DueStep
  <2> QED
    BY <1>2, <2>1, <2>3, <2>6, <2>7, <2>9, <2>10, TaskAbout
<1>7. CASE Claim(t) /\ ~CanClaim(row[j])
  <2> DEFINE u == [task[t] EXCEPT !.pc = "ack"]
  <2>1. /\ task' = [task EXCEPT ![t] = u] /\ UNCHANGED <<row, req, tick, stream, zset>>
    BY <1>2, <1>7 DEF Claim
  <2>2. u.pc = "ack" /\ u.msg = task[t].msg
    BY <1>4 DEF TaskPc
  <2>3. row[j].status \notin Waiting
    BY <1>7 DEF CanClaim
  <2> HIDE DEF u
  <2>4. \A k \in Jobs : Queued(k)' <=> Queued(k)
    BY <2>1, SameQueues
  <2>5. /\ (Promoting(j)' <=> Promoting(j)) /\ (Marking(j)' => Marking(j))
        /\ InHands(j)' => InHands(j)
    BY <2>1, <2>2, TaskMoves
  <2>6. KeepStep(j)
    BY <2>1, <2>3, <2>5 DEF KeepStep
  <2>7. DueOK(j) => DueStep(j)
    BY <2>1, <2>3, Statuses DEF DueOK, DueStep
  <2> QED
    BY <1>2, <2>1, <2>2, <2>4, <2>6, <2>7, TaskAbout
<1>8. CASE Load(t) \/ PollCancelled(t)
  <2> DEFINE u == IF Load(t) THEN [task[t] EXCEPT !.pc = "run", !.att = row[j].attempts]
                  ELSE [task[t] EXCEPT !.pc = "cancel"]
  <2>1. task' = [task EXCEPT ![t] = u] /\ task[t].pc # "claim"
        /\ UNCHANGED <<row, req, tick, stream, zset>>
    BY <1>2, <1>8 DEF Load, PollCancelled
  <2>2. u.pc \in {"run", "cancel"} /\ u.msg = task[t].msg
    BY <1>3 DEF Task
  <2> HIDE DEF u
  <2> QED
    BY <1>5, <2>1, <2>2
<1>9. CASE DropOwnerless(t) \/ Complete(t) \/ Reject(t) \/ CancelJob(t)
  <2>1. task[t].pc # "claim"
    BY <1>9 DEF DropOwnerless, Complete, Reject, CancelJob
  <2>2. \E r \in {fail_job(row[j]), complete_job(row[j]), cancel_job(row[j])} : Finish(t, r)
    BY <1>2, <1>9 DEF DropOwnerless, Complete, Reject, CancelJob
  <2>3. ASSUME NEW r \in {fail_job(row[j]), complete_job(row[j]), cancel_job(row[j])}
        PROVE  /\ r \in Row /\ r.status \notin Waiting /\ r.synced = row[j].synced
               /\ r.wait = row[j].wait
    <3>1. r = fail_job(row[j]) \/ r = complete_job(row[j]) \/ r = cancel_job(row[j])
      BY <2>3
    <3>2. CASE r = fail_job(row[j])
      BY <1>3, <3>2, RowUpdates, Columns, Statuses
    <3>3. CASE r = complete_job(row[j])
      BY <1>3, <3>3, RowUpdates, Columns, Statuses
    <3>4. CASE r = cancel_job(row[j])
      BY <1>3, <3>4, RowUpdates, Columns, Statuses
    <3> QED
      BY <3>1, <3>2, <3>3, <3>4
  <2> QED
    BY <1>1, <1>2, <2>1, <2>2, <2>3, FinishSteps
<1>10. CASE RetryOrFail(t)
  <2> DEFINE h == RetryHandoff(j, task[t].att)
             r == RetryRow(j, task[t].att, row[j])
  <2>1. /\ r \in Row /\ (r.status \in Waiting => ~r.synced) /\ (r.synced => row[j].synced)
        /\ r.wait /\ ~row[j].wait => r.status = "scheduled" /\ h = "wait"
    BY <1>3, RetryColumns
  <2>2. task[t].pc = "run"
    BY <1>10 DEF RetryOrFail
  <2>3. \/ /\ IsProcessing(row[j]) /\ row' = [row EXCEPT ![j] = r]
           /\ task' = [task EXCEPT ![t] = [task[t] EXCEPT !.pc = "handoff", !.h = h]]
           /\ UNCHANGED <<req, tick, stream, zset>>
        \/ Finish(t, r)
    BY <1>2, <1>10 DEF RetryOrFail, Update
  <2> HIDE DEF h, r
  <2>4. CASE Finish(t, r)
    BY <1>2, <2>1, <2>2, <2>4, FinishSteps
  <2>5. CASE ~Finish(t, r)
    <3> DEFINE u == [task[t] EXCEPT !.pc = "handoff", !.h = h]
    <3>1. u.pc = "handoff" /\ u.msg = task[t].msg /\ u.h = h
      BY <1>3 DEF Task
    <3>2. /\ IsProcessing(row[j]) /\ row' = [row EXCEPT ![j] = r]
          /\ task' = [task EXCEPT ![t] = u] /\ UNCHANGED <<req, tick, stream, zset>>
      BY <2>3, <2>5
    <3> HIDE DEF u
    <3> QED
      BY <1>2, <2>1, <2>2, <3>1, <3>2, TaskOnly
  <2> QED
    BY <2>4, <2>5
<1>11. CASE TaskHandoff(t)
  <2> DEFINE u == [task[t] EXCEPT !.pc = "sync"]
  <2>1. u.pc = "sync" /\ u.msg = task[t].msg
    BY <1>4 DEF TaskPc
  <2>2. /\ task' = [task EXCEPT ![t] = u] /\ UNCHANGED <<row, req, tick>>
        /\ HandOver(j, task[t].h) /\ task[t].pc = "handoff"
    BY <1>2, <1>11 DEF TaskHandoff
  <2> HIDE DEF u
  <2>3. /\ Held(j)' <=> Held(j)
        /\ Promoting(j)' <=> Promoting(j)
        /\ InHands(j)' => InHands(j)
    BY <2>1, <2>2, TaskMoves
  <2>4. task[t].h \in Prompt => InHands(j)
    BY <1>2, <2>2 DEF InHands, TaskHands
  <2>5. KeepStep(j)
    BY <2>2, <2>3, HandOverNews, Parts, PartsNext DEF KeepStep, Sent
  <2>6. DueOK(j) => DueStep(j)
    BY <2>2, <2>3, <2>4, HandOverNews, Parts, PartsNext
       DEF DueOK, DueStep, IsProcessing, Prompt
  <2>7. \A k \in Jobs : k # j => (Queued(k)' <=> Queued(k)) /\ zset'[k] = zset[k]
    BY <2>2, HandOverNews
  <2> QED
    BY <1>2, <2>1, <2>2, <2>5, <2>6, <2>7, TaskAbout
<1>12. CASE TaskSync(t)
  <2> DEFINE u == [task[t] EXCEPT !.pc = "ack"]
             r == mark_synced(row[j])
  <2>1. u.pc = "ack" /\ u.msg = task[t].msg
    BY <1>4 DEF TaskPc
  <2>2. /\ task' = [task EXCEPT ![t] = u] /\ UNCHANGED <<req, tick, stream, zset>>
        /\ row' = [row EXCEPT ![j] = r] /\ task[t].pc = "sync"
    BY <1>2, <1>12 DEF TaskSync, Update
  <2>3. r.status = row[j].status /\ r.wait = row[j].wait
    BY <1>3, Columns
  <2>4. Marking(j)
    BY <1>2, <2>2 DEF Marking
  <2> HIDE DEF u, r
  <2> QED
    BY <1>2, <2>1, <2>2, <2>3, <2>4, TaskOnly
<1>13. CASE Ack(t)
  <2>1. /\ task' = [task EXCEPT ![t] = IdleTask] /\ UNCHANGED <<row, req, tick, stream, zset>>
        /\ task[t].pc # "claim" /\ IdleTask.pc = "idle"
    BY <1>13 DEF Ack, IdleTask
  <2> QED
    BY <1>5, <2>1
<1> QED
  BY <1>6, <1>7, <1>8, <1>9, <1>10, <1>11, <1>12, <1>13 DEF TaskStep

(***************************************************************************)
(* Worker processes.                                                       *)
(***************************************************************************)

(* A read: every stream of D delivers its head, and one head gets a task.  *)
(* The others are on their way no longer.                                  *)
LEMMA ReadSteps ==
  ASSUME TypeInv, NEW p \in Procs, NEW D \in SUBSET Streams,
         \A k \in D : stream[k] # << >>,
         stream' = [k \in Streams |-> IF k \in D THEN Tail(stream[k]) ELSE stream[k]],
         NEW first \in D, Spawn(p, Head(stream[first])),
         UNCHANGED <<row, zset, req, tick>>, NEW i \in Jobs
  PROVE  /\ D = {first} => KeepStep(i)
         /\ DueOK(i) => DueStep(i)
<1>0. stream \in [Streams -> Seq(Msgs)] /\ task \in [Tasks -> Task]
  BY DEF TypeInv, TypeOK
<1> DEFINE m == Head(stream[first])
           u == [IdleTask EXCEPT !.pc = "claim", !.msg = m]
<1>1. m \in Msgs /\ Undelivered(m)
  <2>1. 1 \in 1..Len(stream[first]) /\ m = stream[first][1] /\ stream[first][1] \in Msgs
    BY <1>0
  <2>2. 1 \in DOMAIN stream[first]
    BY <1>0, <2>1
  <2> QED
    BY <2>1, <2>2 DEF Undelivered
<1>2. u.pc = "claim" /\ u.msg = m
  BY <1>1, NewTask
<1>3. PICK t \in Tasks : task[t].pc = "idle" /\ task' = [task EXCEPT ![t] = u]
  BY <1>1, SpawnTypes
<1>4. \A k \in Streams : \A a \in DOMAIN stream'[k] :
        \E b \in DOMAIN stream[k] : stream'[k][a] = stream[k][b]
  <2> SUFFICES ASSUME NEW k \in Streams, NEW a \in DOMAIN stream'[k]
               PROVE  \E b \in DOMAIN stream[k] : stream'[k][a] = stream[k][b]
    OBVIOUS
  <2>1. CASE k \in D
    <3>1. a + 1 \in 1..Len(stream[k]) /\ stream'[k][a] = stream[k][a + 1]
      BY <1>0, <2>1
    <3> QED
      BY <1>0, <3>1
  <2>2. CASE k \notin D
    BY <2>2
  <2> QED
    BY <2>1, <2>2
<1>5. Queued(i)' => Queued(i)
  <2>1. \A x : Undelivered(x)' => Undelivered(x)
    BY <1>4 DEF Undelivered
  <2> QED
    BY <2>1 DEF Queued
<1>6. JobOf(m) = i => Queued(i)
  BY <1>1 DEF Queued, Msgs, JobOf
<1>7. ASSUME D = {first}, Queued(i) PROVE Queued(i)' \/ JobOf(m) = i
  <2>1. PICK x \in {i} \X Copies : Undelivered(x)
    BY <1>7 DEF Queued
  <2>a. PICK k \in Streams : \E b \in DOMAIN stream[k] : stream[k][b] = x
    BY <2>1 DEF Undelivered
  <2>2. PICK b \in DOMAIN stream[k] : stream[k][b] = x
    BY <2>a
  <2>3. CASE x = m
    BY <2>1, <2>3 DEF JobOf
  <2>4. CASE x # m
    <3>1. \E a \in DOMAIN stream'[k] : stream'[k][a] = x
      <4>1. CASE k = first
        <5>1. b # 1 /\ b \in 1..Len(stream[k])
          BY <1>0, <2>2, <2>4, <4>1
        <5>2. b - 1 \in 1..Len(Tail(stream[k])) /\ Tail(stream[k])[b - 1] = stream[k][b]
          BY <1>0, <4>1, <5>1
        <5>3. stream'[k] = Tail(stream[k]) /\ b - 1 \in DOMAIN Tail(stream[k])
          BY <1>0, <1>7, <4>1, <5>2
        <5> QED
          BY <2>2, <5>2, <5>3
      <4>2. CASE k # first
        BY <1>7, <2>2, <4>2
      <4> QED
        BY <4>1, <4>2
    <3> QED
      BY <2>1, <3>1 DEF Queued, Undelivered
  <2> QED
    BY <2>3, <2>4
<1> HIDE DEF m, u
<1>8. /\ Held(i)' => Held(i) \/ JobOf(m) = i
      /\ Held(i) => Held(i)'
      /\ JobOf(m) = i => Held(i)'
      /\ Promoting(i)' <=> Promoting(i)
      /\ Marking(i)' => Marking(i)
      /\ InHands(i)' => InHands(i) \/ JobOf(m) = i
  BY <1>2, <1>3, TaskMoves
<1>9. D = {first} => KeepStep(i)
  BY <1>7, <1>8, Parts, PartsNext DEF KeepStep, Sent
<1>10. DueOK(i) => DueStep(i)
  BY <1>5, <1>6, <1>8, Parts, PartsNext DEF DueOK, DueStep, IsProcessing
<1> QED
  BY <1>9, <1>10

(* Every step of a worker process, unless it drops a message.              *)
LEMMA ProcSteps ==
  ASSUME TypeInv, NEW p \in Procs, PullStep(p) \/ Stop(p) \/ Crash(p), NEW i \in Jobs
  PROVE  /\ ~(ReadsTwo(p) \/ DiesUnclaimed(p)) => KeepStep(i)
         /\ DueOK(i) => DueStep(i)
<1> USE DEF redis, workerRest
<1>0. stream \in [Streams -> Seq(Msgs)] /\ task \in [Tasks -> Task]
  BY DEF TypeInv, TypeOK
<1>1. ASSUME UNCHANGED <<row, stream, zset, task, req, tick>>
      PROVE  KeepStep(i) /\ (DueOK(i) => DueStep(i))
  <2>1. Queued(i)' <=> Queued(i)
    BY <1>1, SameQueues
  <2>2. \A t \in Tasks : MyJob(t)' = MyJob(t)
    BY <1>1 DEF MyJob
  <2>3. /\ Held(i)' <=> Held(i)
        /\ Promoting(i)' <=> Promoting(i)
        /\ Marking(i)' <=> Marking(i)
    BY <1>1, <2>2 DEF Held, Promoting, Marking
  <2>4. InHands(i)' <=> InHands(i)
    BY <1>1, <2>2, <2>3 DEF InHands, ReqHands, TaskHands, TickHands
  <2> QED
    BY <1>1, <2>1, <2>3, <2>4, Untouched
<1>2. CASE Probe(p)
  <2> DEFINE k == pull[p].at
  <2>1. CASE stream[k] # << >>
    <3>1. /\ k \in Streams /\ Spawn(p, Head(stream[k]))
          /\ UNCHANGED <<row, zset, req, tick>>
          /\ stream' = [stream EXCEPT ![k] = Tail(stream[k])]
      BY <1>2, <2>1 DEF Probe
    <3>2. stream' = [l \in Streams |-> IF l \in {k} THEN Tail(stream[l]) ELSE stream[l]]
      BY <1>0, <3>1
    <3>3. {k} \in SUBSET Streams /\ k \in {k} /\ \A l \in {k} : stream[l] # << >>
      BY <2>1, <3>1
    <3> HIDE DEF k
    <3> QED
      BY <3>1, <3>2, <3>3, ReadSteps
  <2>2. CASE stream[k] = << >>
    <3>1. UNCHANGED <<row, stream, zset, task, req, tick>>
      BY <1>2, <2>2 DEF Probe
    <3> QED
      BY <1>1, <3>1
  <2> QED
    BY <2>1, <2>2
<1>3. CASE BlockingRead(p)
  <2> DEFINE ready == {k \in Streams : stream[k] # << >>}
  <2>1. CASE ready = {}
    <3>1. UNCHANGED <<row, stream, zset, task, req, tick>>
      BY <1>3, <2>1 DEF BlockingRead
    <3> QED
      BY <1>1, <3>1
  <2>2. CASE ready # {}
    <3>1. PICK first \in ready : Spawn(p, Head(stream[first]))
      BY <1>3, <2>2 DEF BlockingRead
    <3>2. /\ stream' = [k \in Streams |-> IF k \in ready THEN Tail(stream[k]) ELSE stream[k]]
          /\ UNCHANGED <<row, zset, req, tick>>
      BY <1>3, <2>2 DEF BlockingRead
    <3>3. ready \in SUBSET Streams /\ \A k \in ready : stream[k] # << >>
      OBVIOUS
    <3>4. ~ReadsTwo(p) => ready = {first}
      BY <1>3, <3>1 DEF ReadsTwo
    <3> HIDE DEF ready
    <3> QED
      BY <3>1, <3>2, <3>3, <3>4, ReadSteps
  <2> QED
    BY <2>1, <2>2
<1>4. CASE Restart(p) \/ Stop(p)
  BY <1>1, <1>4 DEF Restart, Stop
<1>5. CASE Crash(p)
  <2>1. UNCHANGED <<row, stream, zset, req, tick>>
    BY <1>5 DEF Crash
  <2>2. \A t \in Tasks : task'[t] = task[t] \/ (t \in SlotsOf(p) /\ task'[t].pc = "idle")
    BY <1>5 DEF Crash, IdleTask
  <2>3. Queued(i)' <=> Queued(i)
    BY <2>1, SameQueues
  <2>4. /\ Held(i)' => Held(i)
        /\ Promoting(i)' <=> Promoting(i)
        /\ Marking(i)' => Marking(i)
    BY <2>1, <2>2 DEF Held, Promoting, Marking, MyJob
  <2>5. InHands(i)' => InHands(i)
    BY <2>1, <2>2, <2>4 DEF InHands, ReqHands, TaskHands, TickHands, MyJob
  <2>6. ~DiesUnclaimed(p) => (Held(i) => Held(i)')
    BY <1>5, <2>2 DEF DiesUnclaimed, Held, MyJob
  <2>7. ~DiesUnclaimed(p) => KeepStep(i)
    BY <2>1, <2>3, <2>4, <2>6, Parts, PartsNext DEF KeepStep, Sent
  <2>8. DueOK(i) => DueStep(i)
    BY <2>1, <2>3, <2>5, Parts, PartsNext DEF DueOK, DueStep, IsProcessing
  <2> QED
    BY <2>7, <2>8
<1> QED
  BY <1>2, <1>3, <1>4, <1>5 DEF PullStep

(***************************************************************************)
(* The ticker.                                                             *)
(***************************************************************************)

(* A step of the ticker leaves requests and tasks alone.                   *)
LEMMA TickMoves ==
  ASSUME UNCHANGED <<req, task>>, NEW i \in Jobs
  PROVE  /\ Held(i)' <=> Held(i)
         /\ Marking(i)' => Marking(i) \/ (tick'.pc \in {"resync", "sync"} /\ tick'.job = i)
         /\ InHands(i)' => InHands(i) \/ TickHands(i)'
<1>1. \A t \in Tasks : MyJob(t)' = MyJob(t)
  BY DEF MyJob
<1>2. Held(i)' <=> Held(i)
  BY <1>1 DEF Held
<1>3. Marking(i)' => Marking(i) \/ (tick'.pc \in {"resync", "sync"} /\ tick'.job = i)
  BY <1>1 DEF Marking
<1>4. /\ \A c \in Clients : ReqHands(c, i)' <=> ReqHands(c, i)
      /\ \A t \in Tasks : TaskHands(t, i)' <=> TaskHands(t, i)
  BY <1>1 DEF ReqHands, TaskHands
<1> QED
  BY <1>2, <1>3, <1>4 DEF InHands

(* A step of a pass that is not a promotion, which is about job j.         *)
LEMMA TickAbout ==
  ASSUME UNCHANGED <<req, task>>, NEW j \in Jobs, tick'.ids = {},
         tick'.pc \in {"resync", "sync", "handoff"} => tick'.job = j,
         \A i \in Jobs : i # j => /\ row'[i] = row[i] /\ zset'[i] = zset[i]
                                  /\ Queued(i)' <=> Queued(i)
                                  /\ tick'.todo[i] \in {"none", tick.todo[i]},
         KeepStep(j), DueOK(j) => DueStep(j), NEW i \in Jobs
  PROVE  KeepStep(i) /\ (DueOK(i) => DueStep(i))
<1>1. CASE i = j
  BY <1>1
<1>2. CASE i # j
  <2>1. TickHands(i)' => TickHands(i)
    BY <1>2 DEF TickHands, Promoting, Prompt
  <2>2. /\ Held(i)' <=> Held(i)
        /\ ~Promoting(i)'
        /\ Marking(i)' => Marking(i)
        /\ InHands(i)' => InHands(i)
    BY <1>2, <2>1, TickMoves DEF Promoting, InHands
  <2> QED
    BY <1>2, <2>2, Untouched
<1> QED
  BY <1>1, <1>2

(* A step of such a pass that sends nothing, gives the ticker nothing more *)
(* to send and writes r into row j.                                        *)
LEMMA TickOnly ==
  ASSUME TypeInv, UNCHANGED <<req, task, stream, zset>>, NEW j \in Jobs, tick'.ids = {},
         tick'.pc \notin {"resync", "sync"},
         tick'.pc = "handoff" => tick'.job = j,
         \A i \in Jobs : tick'.todo[i] \in {"none", tick.todo[i]},
         NEW r, row' = [row EXCEPT ![j] = r],
         r.synced => row[j].synced \/ Marking(j),
         r.status \in Waiting /\ row[j].status \notin Waiting => ~r.synced,
         IsProcessing(row[j]) \/ (r.status = row[j].status /\ r.wait = row[j].wait),
         IsProcessing(row[j]) /\ r.wait /\ ~row[j].wait => r.status = "scheduled",
         DueOK(j) /\ tick'.pc = "handoff" /\ r.wait =>
           r.status = "cancelled" \/ tick'.h = "wait",
         NEW i \in Jobs
  PROVE  KeepStep(i) /\ (DueOK(i) => DueStep(i))
<1>0. row \in [Jobs -> Row]
  BY DEF TypeInv, TypeOK
<1>1. /\ row'[j] = r /\ \A k \in Jobs : k # j => row'[k] = row[k] /\ zset'[k] = zset[k]
      /\ zset'[j] = zset[j]
  BY <1>0
<1>2. \A k \in Jobs : Queued(k)' <=> Queued(k)
  BY SameQueues
<1>3. /\ Held(j)' <=> Held(j)
      /\ ~Promoting(j)'
      /\ Marking(j)' => Marking(j)
      /\ InHands(j)' => InHands(j) \/ TickHands(j)'
  BY TickMoves DEF Promoting
<1>4. TickHands(j)' => TickHands(j) \/ (tick'.pc = "handoff" /\ tick'.h \in Prompt)
  BY <1>3 DEF TickHands, Prompt
<1>5. KeepStep(j)
  BY <1>1, <1>2, <1>3, Parts, PartsNext DEF KeepStep, Sent
<1>6. DueOK(j) => DueStep(j)
  <2>1. DueOK(j) /\ r.wait => r.status = "cancelled" \/ (InHands(j)' => InHands(j))
    BY <1>3, <1>4 DEF Prompt, InHands
  <2>2. CASE IsProcessing(row[j])
    BY <1>1, <1>2, <2>1, <2>2, Parts, PartsNext DEF DueOK, DueStep, IsProcessing
  <2>3. CASE ~IsProcessing(row[j])
    BY <1>1, <1>2, <2>1, <2>3, Parts, PartsNext DEF DueOK, DueStep, IsProcessing
  <2> QED
    BY <2>2, <2>3
<1> QED
  BY <1>1, <1>2, <1>5, <1>6, TickAbout

(* A handoff of such a pass.                                               *)
LEMMA TickSends ==
  ASSUME TypeInv, UNCHANGED <<req, task, row>>, NEW j \in Jobs, tick'.ids = {},
         tick'.pc \in {"resync", "sync"}, tick'.job = j,
         NEW h, HandOver(j, h), h \in Prompt => TickHands(j),
         \A i \in Jobs : tick'.todo[i] \in {"none", tick.todo[i]}, NEW i \in Jobs
  PROVE  KeepStep(i) /\ (DueOK(i) => DueStep(i))
<1>1. TickHands(j)' => TickHands(j)
  BY DEF TickHands, Promoting, Prompt
<1>2. /\ Held(j)' <=> Held(j)
      /\ ~Promoting(j)'
      /\ InHands(j)' => InHands(j)
      /\ h \in Prompt => InHands(j)
  BY <1>1, TickMoves DEF Promoting, InHands
<1>3. KeepStep(j)
  BY <1>2, HandOverNews, Parts, PartsNext DEF KeepStep, Sent
<1>4. DueOK(j) => DueStep(j)
  BY <1>2, HandOverNews, Parts, PartsNext DEF DueOK, DueStep, IsProcessing, Prompt
<1>5. \A k \in Jobs : k # j => (Queued(k)' <=> Queued(k)) /\ zset'[k] = zset[k]
  BY HandOverNews
<1> QED
  BY <1>3, <1>4, <1>5, TickAbout

(* The steps of a promotion.                                               *)
LEMMA PromoteSteps ==
  ASSUME TypeInv, PromoteOK, NEW i \in Jobs, KeptOK(i) \/ DueOK(i),
         \/ StartPromote \/ PromoteZrem \/ PromoteFlip
         \/ \E j \in Jobs : PromoteXadd(j)
  PROVE  /\ KeptOK(i) => KeepStep(i)
         /\ DueOK(i) => DueStep(i)
<1> USE DEF redis, tickRest
<1>0. tick \in Ticker /\ row \in [Jobs -> Row] /\ tick.todo \in [Jobs -> Handoff]
  BY DEF TypeInv, TypeOK, Ticker
<1>a. Promoting(i) => InHands(i)
  BY DEF InHands, TickHands
<1>1. CASE StartPromote
  <2>1. UNCHANGED <<row, stream, zset, req, task>>
    BY <1>1 DEF StartPromote
  <2> DEFINE due == {j \in Jobs : zset[j] = "due"}
             f == [j \in Jobs |-> IF j \in due THEN "stream" ELSE "none"]
  <2>2. tick' = [IdleTicker EXCEPT !.pc = "xadd", !.ids = due, !.todo = f]
    BY <1>1 DEF StartPromote
  <2>a. f[i] = IF i \in due THEN "stream" ELSE "none"
    OBVIOUS
  <2> HIDE DEF f
  <2>3. /\ tick'.pc = "xadd" /\ tick'.ids = due /\ tick'.todo[i] = IF i \in due THEN "stream" ELSE "none"
    BY <2>2, <2>a DEF IdleTicker
  <2>4. /\ TickHands(i)' => zset[i] = "due"
        /\ Promoting(i)' => tick'.todo[i] # "none"
    BY <2>3 DEF TickHands, Promoting, Prompt
  <2>5. Queued(i)' <=> Queued(i)
    BY <2>1, SameQueues
  <2>6. /\ Held(i)' <=> Held(i)
        /\ Marking(i)' => Marking(i)
        /\ InHands(i)' => InHands(i) \/ TickHands(i)'
    BY <2>1, <2>3, TickMoves
  <2>7. KeepStep(i)
    BY <2>1, <2>4, <2>5, <2>6, Parts, PartsNext DEF KeepStep, Sent
  <2>8. DueOK(i) => DueStep(i)
    BY <2>1, <2>4, <2>5, <2>6, Parts, PartsNext DEF DueOK, DueStep, IsProcessing
  <2> QED
    BY <2>7, <2>8
<1>2. ASSUME NEW j \in Jobs, PromoteXadd(j)
      PROVE  KeepStep(i) /\ (DueOK(i) => DueStep(i))
  <2>1. UNCHANGED <<row, zset, req, task>> /\ enqueue(j) /\ tick.pc = "xadd"
    BY <1>2 DEF PromoteXadd
  <2> DEFINE f == [tick.todo EXCEPT ![j] = "none"]
             pc == IF Left = {j} THEN "zrem" ELSE "xadd"
  <2>2. tick' = [tick EXCEPT !.todo = f, !.pc = pc]
    BY <1>2 DEF PromoteXadd
  <2>3. f[j] = "none" /\ \A k \in Jobs : k # j => f[k] = tick.todo[k]
    BY <1>0
  <2>4. pc \in {"zrem", "xadd"}
    OBVIOUS
  <2> HIDE DEF f, pc
  <2>5. tick'.pc = pc /\ tick'.ids = tick.ids /\ tick'.todo = f
    BY <1>0, <2>2 DEF Ticker
  <2>6. Promoting(j)
    BY <1>2, <2>1 DEF PromoteXadd, PromoteOK, Left, Promoting
  <2>7. (Promoting(i)' <=> Promoting(i)) /\ (TickHands(i)' => TickHands(i))
    BY <2>3, <2>4, <2>5 DEF Promoting, TickHands, Prompt
  <2>8. /\ Held(i)' <=> Held(i)
        /\ Marking(i)' => Marking(i)
        /\ InHands(i)' => InHands(i)
    BY <2>1, <2>4, <2>5, <2>7, TickMoves DEF InHands
  <2>9. CASE i = j
    <3>1. Queued(j)'
      BY <2>1, EnqueueNews
    <3>2. KeepStep(j)
      BY <2>1, <2>8, <2>9, <3>1, Parts, PartsNext DEF KeepStep, Sent
    <3>3. DueOK(j) => DueStep(j)
      BY <1>a, <2>1, <2>6, <2>9, Parts DEF DueOK, DueStep, IsProcessing
    <3> QED
      BY <2>9, <3>2, <3>3
  <2>10. CASE i # j
    <3>1. (Queued(i)' <=> Queued(i)) /\ tick'.todo[i] = tick.todo[i]
      BY <2>1, <2>3, <2>5, <2>10, EnqueueNews
    <3> QED
      BY <2>1, <2>7, <2>8, <3>1, Untouched
  <2> QED
    BY <2>9, <2>10
<1>3. CASE PromoteZrem
  <2>1. UNCHANGED <<row, stream, req, task>> /\ tick.pc = "zrem"
    BY <1>3 DEF PromoteZrem
  <2>2. zset'[i] = IF Promoting(i) THEN "none" ELSE zset[i]
    BY <1>3 DEF PromoteZrem, Promoting
  <2>3. tick'.pc = "flip" /\ tick'.ids = tick.ids /\ tick'.todo = tick.todo
    BY <1>0, <1>3 DEF PromoteZrem, Ticker
  <2>4. (Promoting(i)' <=> Promoting(i)) /\ (TickHands(i)' => TickHands(i))
    BY <2>3 DEF Promoting, TickHands
  <2>5. Queued(i)' <=> Queued(i)
    BY <2>1, SameQueues
  <2>6. /\ Held(i)' <=> Held(i)
        /\ Marking(i)' => Marking(i)
        /\ InHands(i)' => InHands(i)
    BY <2>1, <2>3, <2>4, TickMoves DEF InHands
  <2>7. Promoting(i) => tick.todo[i] = "none"
    BY <2>1 DEF PromoteOK
  <2>8. KeptOK(i) => KeepStep(i)
    BY <2>1, <2>2, <2>3, <2>4, <2>5, <2>6, <2>7, Parts, PartsNext DEF KeptOK, KeepStep, Sent
  <2>9. DueOK(i) => DueStep(i)
    BY <2>1, <2>2, <2>5, <2>6, Parts, PartsNext DEF DueOK, DueStep, IsProcessing
  <2> QED
    BY <2>8, <2>9
<1>4. CASE PromoteFlip
  <2>1. UNCHANGED <<stream, zset, req, task>> /\ tick' = IdleTicker
    BY <1>4 DEF PromoteFlip
  <2>2. row'[i] = IF Promoting(i) THEN promote_scheduled_to_pending(row[i]) ELSE row[i]
    BY <1>4 DEF PromoteFlip, Promoting
  <2>3. tick'.pc = "idle" /\ tick'.ids = {} /\ tick'.todo[i] = "none"
    BY <2>1 DEF IdleTicker
  <2>4. ~Promoting(i)' /\ ~TickHands(i)'
    BY <2>3 DEF Promoting, TickHands, Prompt
  <2>5. Queued(i)' <=> Queued(i)
    BY <2>1, SameQueues
  <2>6. /\ Held(i)' <=> Held(i)
        /\ Marking(i)' => Marking(i)
        /\ InHands(i)' => InHands(i)
    BY <2>1, <2>3, <2>4, TickMoves
  <2>7. /\ row'[i].synced = row[i].synced /\ row'[i].wait = row[i].wait
        /\ row'[i].status = row[i].status
             \/ (Promoting(i) /\ row[i].status = "scheduled" /\ row'[i].status = "pending")
    BY <1>0, <2>2, Columns
  <2>8. KeepStep(i)
    BY <2>1, <2>4, <2>5, <2>6, <2>7, Parts, PartsNext, Statuses DEF KeepStep, Sent
  <2>9. DueOK(i) => DueStep(i)
    BY <1>a, <2>1, <2>5, <2>6, <2>7, Parts, PartsNext DEF DueOK, DueStep, IsProcessing
  <2> QED
    BY <2>8, <2>9
<1> QED
  BY <1>1, <1>2, <1>3, <1>4

(* Every step of the ticker.                                               *)
LEMMA TickerSteps ==
  ASSUME TypeInv, PromoteOK, TickerNext, NEW i \in Jobs, KeptOK(i) \/ DueOK(i)
  PROVE  /\ KeptOK(i) => KeepStep(i)
         /\ DueOK(i) => DueStep(i)
<1> USE DEF redis, tickRest
<1>0. tick \in Ticker /\ row \in [Jobs -> Row] /\ tick.todo \in [Jobs -> Handoff]
  BY DEF TypeInv, TypeOK, Ticker
<1>1. /\ tick.pc \in Reaping => tick.job \in Jobs /\ row[tick.job] \in Row
      /\ tick.pc = "resync" => tick.job \in Jobs /\ row[tick.job] \in Row
      /\ tick.pc \in Reaping \cup {"resync", "reconcile"} => tick.ids = {}
  BY MsgJob DEF TypeInv, TypeOK, LocalOK, PromoteOK, Reaping
<1>2. /\ IdleTicker.pc = "idle" /\ IdleTicker.ids = {}
      /\ \A k \in Jobs : IdleTicker.todo[k] = "none"
  BY DEF IdleTicker
<1>3. ASSUME NEW j \in Jobs, UNCHANGED <<req, task, stream, zset>>, tick'.ids = {},
             tick'.pc \notin {"resync", "sync"}, tick'.pc = "handoff" => tick'.job = j,
             \A k \in Jobs : tick'.todo[k] \in {"none", tick.todo[k]},
             row' = row,
             DueOK(j) /\ tick'.pc = "handoff" /\ row[j].wait =>
               row[j].status = "cancelled" \/ tick'.h = "wait"
      PROVE  KeepStep(i) /\ (DueOK(i) => DueStep(i))
  <2> DEFINE r == row[j]
  <2>1. r = row[j] /\ row' = [row EXCEPT ![j] = r]
    BY <1>0, <1>3
  <2>2. /\ UNCHANGED <<req, task, stream, zset>> /\ tick'.ids = {}
        /\ tick'.pc \notin {"resync", "sync"} /\ (tick'.pc = "handoff" => tick'.job = j)
        /\ \A k \in Jobs : tick'.todo[k] \in {"none", tick.todo[k]}
    BY <1>3
  <2> HIDE DEF r
  <2>3. /\ r.synced => row[j].synced
        /\ r.status = row[j].status /\ r.wait = row[j].wait
        /\ ~(r.status \in Waiting /\ row[j].status \notin Waiting)
        /\ ~(r.wait /\ ~row[j].wait)
        /\ DueOK(j) /\ tick'.pc = "handoff" /\ r.wait =>
             r.status = "cancelled" \/ tick'.h = "wait"
    BY <1>3, <2>1
  <2> QED
    BY <2>1, <2>2, <2>3, TickOnly
<1>4. CASE StartReconcile
  <2>1. UNCHANGED <<row, stream, zset, req, task>>
    BY <1>4 DEF StartReconcile
  <2> DEFINE orphans == {j \in Jobs : IsUnsynced(row[j]) /\ PastGrace(j)}
             f == [j \in Jobs |-> IF j \in orphans THEN HandoffOf(row[j]) ELSE "none"]
  <2>2. tick' = [IdleTicker EXCEPT !.pc = "reconcile", !.todo = f]
    BY <1>4 DEF StartReconcile
  <2>3. f[i] \in Prompt => IsUnsynced(row[i]) /\ HandoffOf(row[i]) \in Prompt
    BY DEF Prompt
  <2> HIDE DEF f
  <2>4. tick'.pc = "reconcile" /\ tick'.ids = {} /\ tick'.todo = f
    BY <2>2 DEF IdleTicker
  <2>5. Queued(i)' <=> Queued(i)
    BY <2>1, SameQueues
  <2>6. /\ Held(i)' <=> Held(i)
        /\ ~Promoting(i)'
        /\ Marking(i)' => Marking(i)
        /\ InHands(i)' => InHands(i) \/ TickHands(i)'
    BY <2>1, <2>4, TickMoves DEF Promoting
  <2>7. TickHands(i)' => f[i] \in Prompt
    BY <2>4, <2>6 DEF TickHands
  <2>8. KeepStep(i)
    BY <2>1, <2>5, <2>6, Parts, PartsNext DEF KeepStep, Sent
  <2>9. row[i].wait /\ row[i].status = "scheduled" => ~TickHands(i)'
    BY <2>3, <2>7 DEF HandoffOf, Prompt
  <2>10. DueOK(i) => DueStep(i)
    BY <2>1, <2>5, <2>6, <2>9, Parts, PartsNext DEF DueOK, DueStep, IsProcessing
  <2> QED
    BY <2>8, <2>10
<1>5. ASSUME NEW m \in Msgs, ReapClaim(m)
      PROVE  KeepStep(i) /\ (DueOK(i) => DueStep(i))
  <2>1. UNCHANGED <<row, stream, zset, req, task>>
    BY <1>5 DEF ReapClaim
  <2>2. tick'.pc = "reap" /\ tick'.ids = {} /\ \A k \in Jobs : tick'.todo[k] = "none"
    BY <1>5 DEF ReapClaim, IdleTicker
  <2> QED
    BY <1>3, <2>1, <2>2
<1>6. ASSUME NEW j \in Jobs, ReconcileHandoff(j)
      PROVE  KeepStep(i) /\ (DueOK(i) => DueStep(i))
  <2> DEFINE f == [tick.todo EXCEPT ![j] = "none"]
  <2>1. /\ UNCHANGED <<row, req, task>> /\ HandOver(j, tick.todo[j])
        /\ tick.pc = "reconcile"
        /\ tick' = [tick EXCEPT !.pc = "resync", !.job = j, !.todo = f]
    BY <1>6 DEF ReconcileHandoff
  <2>2. \A k \in Jobs : f[k] \in {"none", tick.todo[k]}
    BY <1>0
  <2> HIDE DEF f
  <2>3. tick'.pc = "resync" /\ tick'.job = j /\ tick'.todo = f /\ tick'.ids = tick.ids
    BY <1>0, <2>1 DEF Ticker
  <2>4. tick.ids = {}
    BY <1>1, <2>1
  <2>5. tick.todo[j] \in Prompt => TickHands(j)
    BY DEF TickHands
  <2> QED
    BY <2>1, <2>2, <2>3, <2>4, <2>5, TickSends
<1>7. CASE ReconcileSync \/ ReapSync
  <2> DEFINE j == tick.job
             r == mark_synced(row[j])
  <2>1. /\ tick.pc \in {"resync", "sync"} /\ UNCHANGED <<req, task, stream, zset>>
        /\ row' = [row EXCEPT ![j] = r]
    BY <1>7 DEF ReconcileSync, ReapSync, Update
  <2>2. j \in Jobs /\ row[j] \in Row /\ tick.ids = {} /\ Marking(j)
    BY <1>1, <2>1 DEF Reaping, Marking
  <2>3. r.status = row[j].status /\ r.wait = row[j].wait
    BY <2>2, Columns
  <2>4. \/ tick' = IdleTicker
        \/ tick' = [tick EXCEPT !.pc = "reconcile", !.job = NoJob]
        \/ tick' = [tick EXCEPT !.pc = "ack"]
    BY <1>7 DEF ReconcileSync, ReapSync
  <2>5. /\ tick'.ids = {} /\ tick'.pc \in {"idle", "reconcile", "ack"}
        /\ \A k \in Jobs : tick'.todo[k] \in {"none", tick.todo[k]}
    BY <1>0, <1>2, <2>2, <2>4 DEF Ticker
  <2> HIDE DEF r, j
  <2> QED
    BY <2>1, <2>2, <2>3, <2>5, TickOnly
<1>8. CASE ReapRead
  <2> DEFINE j == tick.job
             pc == IF IsProcessing(row[j]) THEN "retry"
                   ELSE IF IsUnsynced(row[j]) THEN "handoff" ELSE "ack"
             a == IF IsProcessing(row[j]) THEN row[j].attempts ELSE 0
             h == IF IsUnsynced(row[j]) THEN HandoffOf(row[j]) ELSE "none"
  <2>1. /\ tick.pc = "reap" /\ UNCHANGED <<row, req, task, stream, zset>>
        /\ tick' = [tick EXCEPT !.pc = pc, !.att = a, !.h = h]
    BY <1>8 DEF ReapRead
  <2>2. j \in Jobs /\ tick.ids = {}
    BY <1>1, <2>1 DEF Reaping
  <2>3. pc \notin {"resync", "sync"} /\ (pc = "handoff" => IsUnsynced(row[j]))
    OBVIOUS
  <2>4. IsUnsynced(row[j]) /\ row[j].wait /\ row[j].status = "scheduled" => h = "wait"
    BY DEF HandoffOf
  <2> HIDE DEF pc, a, h
  <2>5. /\ tick'.ids = {} /\ tick'.pc = pc /\ tick'.job = j /\ tick'.h = h
        /\ tick'.todo = tick.todo
    BY <1>0, <2>1, <2>2 DEF Ticker
  <2>6. DueOK(j) /\ tick'.pc = "handoff" /\ row[j].wait =>
          row[j].status = "cancelled" \/ tick'.h = "wait"
    BY <2>3, <2>4, <2>5 DEF DueOK
  <2> HIDE DEF j
  <2> QED
    BY <1>3, <2>1, <2>2, <2>3, <2>5, <2>6
<1>9. CASE ReapRetry
  <2> DEFINE j == tick.job
             won == IsProcessing(row[j])
             h == RetryHandoff(j, tick.att)
             x == RetryRow(j, tick.att, row[j])
             r == IF won THEN x ELSE row[j]
             pc == IF won /\ h # "none" THEN "handoff" ELSE "ack"
             g == IF won THEN h ELSE "none"
  <2>1. /\ tick.pc = "retry" /\ UNCHANGED <<req, task, stream, zset>>
        /\ row' = [row EXCEPT ![j] = r]
        /\ tick' = [tick EXCEPT !.pc = pc, !.h = g]
    BY <1>9 DEF ReapRetry, Update
  <2>2. j \in Jobs /\ row[j] \in Row /\ tick.ids = {}
    BY <1>1, <2>1 DEF Reaping
  <2>3. /\ (x.status \in Waiting => ~x.synced) /\ (x.synced => row[j].synced)
        /\ x.wait /\ ~row[j].wait => x.status = "scheduled" /\ h = "wait"
    BY <2>2, RetryColumns
  <2> HIDE DEF x, h
  <2>4. /\ r.synced => row[j].synced
        /\ r.status \in Waiting /\ row[j].status \notin Waiting => ~r.synced
        /\ won \/ (r.status = row[j].status /\ r.wait = row[j].wait)
        /\ won /\ r.wait /\ ~row[j].wait => r.status = "scheduled"
        /\ pc \in {"handoff", "ack"} /\ (pc = "handoff" => won)
        /\ won /\ r.wait /\ ~row[j].wait => g = "wait"
    BY <2>3
  <2> HIDE DEF r, pc, g
  <2>5. /\ tick'.ids = {} /\ tick'.pc = pc /\ tick'.job = j /\ tick'.h = g
        /\ tick'.todo = tick.todo
    BY <1>0, <2>1, <2>2 DEF Ticker
  <2>6. DueOK(j) /\ tick'.pc = "handoff" /\ r.wait =>
          r.status = "cancelled" \/ tick'.h = "wait"
    BY <2>4, <2>5 DEF DueOK, IsProcessing
  <2> HIDE DEF j
  <2> QED
    BY <2>1, <2>2, <2>4, <2>5, <2>6, TickOnly
<1>10. CASE ReapHandoff
  <2> DEFINE j == tick.job
  <2>1. /\ UNCHANGED <<row, req, task>> /\ HandOver(j, tick.h)
        /\ tick.pc = "handoff" /\ tick' = [tick EXCEPT !.pc = "sync"]
    BY <1>10 DEF ReapHandoff
  <2>2. j \in Jobs /\ tick.ids = {}
    BY <1>1, <2>1 DEF Reaping
  <2>3. tick'.pc = "sync" /\ tick'.job = j /\ tick'.todo = tick.todo /\ tick'.ids = tick.ids
    BY <1>0, <2>1 DEF Ticker
  <2>4. tick.h \in Prompt => TickHands(j)
    BY <2>1 DEF TickHands
  <2> HIDE DEF j
  <2> QED
    BY <2>1, <2>2, <2>3, <2>4, TickSends
<1>11. CASE ReapAck \/ TickerFail
  <2>1. UNCHANGED <<row, stream, zset, req, task>> /\ tick' = IdleTicker
    BY <1>11 DEF ReapAck, TickerFail
  <2> QED
    BY <1>2, <1>3, <2>1
<1> QED
  BY <1>4, <1>5, <1>6, <1>7, <1>8, <1>9, <1>10, <1>11, PromoteSteps
     DEF TickerNext, TickerStep, StartReap

(***************************************************************************)
(* The clock.                                                              *)
(***************************************************************************)

(* The passing of a scheduled_at makes handoffs due, and moves nothing.    *)
LEMMA ClockSteps ==
  ASSUME TypeInv, NEW j \in Jobs, ClockPasses(j), NEW i \in Jobs
  PROVE  /\ KeepStep(i) /\ (DueOK(i) => DueStep(i))
         /\ \A c \in Clients : req'[c].pc = req[c].pc /\ req'[c].job = req[c].job
         /\ tick'.pc = tick.pc /\ tick'.ids = tick.ids
         /\ tick'.todo[i] = "none" <=> tick.todo[i] = "none"
<1>0. /\ task \in [Tasks -> Task] /\ req \in [Clients -> Req] /\ tick \in Ticker
      /\ row \in [Jobs -> Row] /\ zset \in [Jobs -> Handoff \ {"stream"}]
      /\ tick.todo \in [Jobs -> Handoff]
  BY DEF TypeInv, TypeOK, Ticker
<1>1. UNCHANGED stream
  BY DEF ClockPasses
<1>2. /\ row'[i] = IF i = j THEN [row[i] EXCEPT !.wait = FALSE] ELSE row[i]
      /\ zset'[i] = IF i = j THEN Passed(zset[i]) ELSE zset[i]
  BY <1>0 DEF ClockPasses
<1>3. /\ row'[i].status = row[i].status /\ row'[i].synced = row[i].synced
      /\ i = j => ~row'[i].wait
  BY <1>0, <1>2 DEF Row
<1>4. zset'[i] = "none" <=> zset[i] = "none"
  BY <1>2 DEF Passed
<1>5. \A t \in Tasks : /\ task'[t].pc = task[t].pc /\ task'[t].msg = task[t].msg
                       /\ MyJob(t) # j => task'[t].h = task[t].h
  <2> SUFFICES ASSUME NEW t \in Tasks
               PROVE  /\ task'[t].pc = task[t].pc /\ task'[t].msg = task[t].msg
                      /\ MyJob(t) # j => task'[t].h = task[t].h
    OBVIOUS
  <2>1. task[t] \in Task
    BY <1>0
  <2>2. \/ task'[t] = task[t]
        \/ JobOf(task[t].msg) = j /\ task'[t] = [task[t] EXCEPT !.h = Passed(task[t].h)]
    BY DEF ClockPasses
  <2> QED
    BY <2>1, <2>2 DEF Task, MyJob
<1>6. \A c \in Clients : /\ req'[c].pc = req[c].pc /\ req'[c].job = req[c].job
                         /\ req[c].job # j => req'[c].h = req[c].h
  <2> SUFFICES ASSUME NEW c \in Clients
               PROVE  /\ req'[c].pc = req[c].pc /\ req'[c].job = req[c].job
                      /\ req[c].job # j => req'[c].h = req[c].h
    OBVIOUS
  <2>1. req[c] \in Req
    BY <1>0
  <2>2. \/ req'[c] = req[c]
        \/ req[c].job = j /\ req'[c] = [req[c] EXCEPT !.h = Passed(req[c].h)]
    BY DEF ClockPasses
  <2> QED
    BY <2>1, <2>2 DEF Req
<1>7. /\ tick'.pc = tick.pc /\ tick'.ids = tick.ids /\ tick'.job = tick.job
      /\ tick'.todo[i] = IF i = j THEN Passed(tick.todo[i]) ELSE tick.todo[i]
      /\ tick.job # j => tick'.h = tick.h
  <2> DEFINE f == [tick.todo EXCEPT ![j] = Passed(tick.todo[j])]
             h == IF tick.job = j THEN Passed(tick.h) ELSE tick.h
  <2>1. tick' = [tick EXCEPT !.todo = f, !.h = h]
    BY DEF ClockPasses
  <2>2. f[i] = IF i = j THEN Passed(tick.todo[i]) ELSE tick.todo[i]
    BY <1>0
  <2>3. tick.job # j => h = tick.h
    OBVIOUS
  <2> HIDE DEF f, h
  <2> QED
    BY <1>0, <2>1, <2>2, <2>3 DEF Ticker
<1>8. tick'.todo[i] = "none" <=> tick.todo[i] = "none"
  BY <1>7 DEF Passed
<1>9. Queued(i)' <=> Queued(i)
  BY <1>1, SameQueues
<1>10. \A t \in Tasks : MyJob(t)' = MyJob(t)
  BY <1>5 DEF MyJob
<1>11. /\ Held(i)' <=> Held(i)
       /\ Promoting(i)' <=> Promoting(i)
       /\ Marking(i)' <=> Marking(i)
  BY <1>5, <1>6, <1>7, <1>10 DEF Held, Promoting, Marking
<1>12. i # j => (InHands(i)' => InHands(i))
  BY <1>5, <1>6, <1>7, <1>10, <1>11 DEF InHands, ReqHands, TaskHands, TickHands
<1>13. KeepStep(i)
  BY <1>3, <1>4, <1>8, <1>9, <1>11, Parts, PartsNext DEF KeepStep, Sent
<1>14. DueOK(i) => DueStep(i)
  BY <1>2, <1>3, <1>9, <1>12, Parts, PartsNext DEF DueOK, DueStep, IsProcessing
<1> QED
  BY <1>6, <1>7, <1>8, <1>13, <1>14

(***************************************************************************)
(* The whole processor.                                                    *)
(***************************************************************************)

(* Every step that drops no message does to every job what it may.         *)
LEMMA NextSteps ==
  ASSUME TypeInv, PromoteOK, \A c \in Clients : ReqOK(c), Next, NEW i \in Jobs
  PROVE  /\ ~Losing /\ KeptOK(i) => KeepStep(i)
         /\ DueOK(i) => DueStep(i)
<1>1. CASE ApiNext
  BY <1>1, ApiSteps DEF ApiNext
<1>2. CASE \E t \in Tasks : TaskStep(t)
  BY <1>2, TaskSteps
<1>3. CASE \E p \in Procs : PullStep(p) \/ Stop(p) \/ Crash(p)
  BY <1>3, ProcSteps DEF Losing
<1>4. CASE TickerNext
  BY <1>4, TickerSteps
<1>5. CASE \E j \in Jobs : ClockPasses(j)
  BY <1>5, ClockSteps
<1> QED
  BY <1>1, <1>2, <1>3, <1>4, <1>5 DEF Next, WorkerNext

(* A request removes from the ZSET only what it has cancelled.             *)
LEMMA NextReqs ==
  ASSUME TypeInv, Next, FinalStep, NEW c \in Clients, ReqOK(c)
  PROVE  ReqOK(c)'
<1>0. req \in [Clients -> Req] /\ row \in [Jobs -> Row]
  BY DEF TypeInv, TypeOK
<1>1. \A j \in Jobs : row[j].status = "cancelled" => row'[j].status = "cancelled"
  BY DEF FinalStep, Final
<1>2. ASSUME req'[c].pc = req[c].pc, req'[c].job = req[c].job
      PROVE  ReqOK(c)'
  BY <1>1, <1>2, ReqTypes DEF ReqOK
<1>3. ASSUME req' = req PROVE ReqOK(c)'
  BY <1>2, <1>3
<1>4. ASSUME NEW d \in Clients, NEW q, req' = [req EXCEPT ![d] = q], q.pc # "zrem"
      PROVE  ReqOK(c)'
  <2>1. CASE c = d
    BY <1>0, <1>4, <2>1 DEF ReqOK
  <2>2. CASE c # d
    BY <1>0, <1>2, <1>4, <2>2
  <2> QED
    BY <2>1, <2>2
<1>5. ASSUME NEW d \in Clients, ApiCall(d) \/ ApiStep(d) \/ ApiCrash(d)
      PROVE  ReqOK(c)'
  <2>0. req[d] \in Req
    BY <1>0
  <2>1. \A pc \in ReqPc : [req[d] EXCEPT !.pc = pc].pc = pc
    BY <2>0 DEF Req
  <2>2. CASE ApiCall(d)
    <3>1. ASSUME NEW j \in Jobs, NEW h \in {"stream", "wait"}, submit_job(d, j, h)
          PROVE  ReqOK(c)'
      <4> DEFINE q == [IdleReq EXCEPT !.pc = "handoff", !.op = "submit", !.job = j, !.h = h]
      <4>1. req' = [req EXCEPT ![d] = q] /\ q.pc = "handoff"
        BY <3>1 DEF submit_job, IdleReq
      <4> HIDE DEF q
      <4> QED
        BY <1>4, <4>1
    <3>2. ASSUME NEW j \in Jobs, retry_job(d, j)
          PROVE  ReqOK(c)'
      <4> DEFINE q == [IdleReq EXCEPT !.pc = "handoff", !.op = "retry", !.job = j,
                                      !.h = "stream"]
      <4>1. req' = [req EXCEPT ![d] = q] /\ q.pc = "handoff"
        BY <3>2 DEF retry_job, IdleReq
      <4> HIDE DEF q
      <4> QED
        BY <1>4, <4>1
    <3>3. ASSUME NEW j \in Jobs, cancel_job_route(d, j)
          PROVE  ReqOK(c)'
      <4> DEFINE q == [IdleReq EXCEPT !.pc = "cancel", !.op = "cancel", !.job = j, !.left = 3]
      <4>1. req' = [req EXCEPT ![d] = q] /\ q.pc = "cancel"
        BY <3>3 DEF cancel_job_route, IdleReq
      <4> HIDE DEF q
      <4> QED
        BY <1>4, <4>1
    <3> QED
      BY <2>2, <3>1, <3>2, <3>3 DEF ApiCall
  <2>3. CASE ApiHandoff(d)
    BY <1>4, <2>1, <2>3 DEF ApiHandoff, ReqPc
  <2>4. CASE ApiSync(d) \/ CancelAnswer(d) \/ ApiCrash(d)
    <3>1. req' = [req EXCEPT ![d] = IdleReq] /\ IdleReq.pc = "idle"
      BY <2>4 DEF ApiSync, CancelAnswer, ApiCrash, IdleReq
    <3> QED
      BY <1>4, <3>1
  <2>5. CASE CancelWaiting(d)
    <3>1. req[d].job \in Jobs /\ row[req[d].job] \in Row
      BY <2>5, ReqTypes DEF CancelWaiting
    <3>2. CASE CanCancel(row[req[d].job])
      <4>1. /\ row' = [row EXCEPT ![req[d].job] =
                         cancel_pending_or_scheduled(row[req[d].job])]
            /\ req' = [req EXCEPT ![d].pc = "zrem"]
        BY <2>5, <3>2 DEF CancelWaiting, Update
      <4>2. row'[req[d].job].status = "cancelled" /\ req'[d].job = req[d].job
        BY <1>0, <2>0, <3>1, <4>1, Columns DEF Req
      <4>3. CASE c = d
        BY <4>2, <4>3 DEF ReqOK
      <4>4. CASE c # d
        BY <1>0, <1>2, <4>1, <4>4
      <4> QED
        BY <4>3, <4>4
    <3>3. CASE ~CanCancel(row[req[d].job])
      <4> DEFINE o == IF req[d].obj \in Waiting THEN "cancelled" ELSE req[d].obj
                 q == [req[d] EXCEPT !.pc = "request", !.obj = o]
      <4>1. req' = [req EXCEPT ![d] = q]
        BY <1>0, <2>5, <3>3 DEF CancelWaiting
      <4> HIDE DEF o
      <4>2. q.pc = "request"
        BY <2>0 DEF Req
      <4> HIDE DEF q
      <4> QED
        BY <1>4, <4>1, <4>2
    <3> QED
      BY <3>2, <3>3
  <2>6. CASE CancelZrem(d)
    BY <1>4, <2>1, <2>6 DEF CancelZrem, ReqPc
  <2>7. CASE CancelRunning(d)
    <3>1. \/ req' = [req EXCEPT ![d] = IdleReq]
          \/ req' = [req EXCEPT ![d] = [req[d] EXCEPT !.pc = "read"]]
      BY <2>7 DEF CancelRunning
    <3>2. IdleReq.pc = "idle" /\ [req[d] EXCEPT !.pc = "read"].pc = "read"
      BY <2>1 DEF IdleReq, ReqPc
    <3> QED
      BY <1>4, <3>1, <3>2
  <2>8. CASE CancelRead(d)
    <3>1. \A o, n : [req[d] EXCEPT !.pc = "cancel", !.obj = o, !.left = n].pc = "cancel"
      BY <2>0 DEF Req
    <3>2. [req[d] EXCEPT !.pc = "ok"].pc = "ok" /\ IdleReq.pc = "idle"
      BY <2>0 DEF Req, IdleReq
    <3>3. \/ req' = [req EXCEPT ![d] = [req[d] EXCEPT !.pc = "ok"]]
          \/ req' = [req EXCEPT ![d] = IdleReq]
          \/ \E o, n : req' = [req EXCEPT ![d] =
                         [req[d] EXCEPT !.pc = "cancel", !.obj = o, !.left = n]]
      BY <1>0, <2>8, Zenon DEF CancelRead
    <3>4. ASSUME NEW o, NEW n, req' = [req EXCEPT ![d] =
                   [req[d] EXCEPT !.pc = "cancel", !.obj = o, !.left = n]]
          PROVE  ReqOK(c)'
      <4> DEFINE q == [req[d] EXCEPT !.pc = "cancel", !.obj = o, !.left = n]
      <4>1. req' = [req EXCEPT ![d] = q] /\ q.pc = "cancel"
        BY <3>1, <3>4
      <4> HIDE DEF q
      <4> QED
        BY <1>4, <4>1
    <3>5. CASE req' = [req EXCEPT ![d] = [req[d] EXCEPT !.pc = "ok"]]
      BY <1>4, <3>2, <3>5
    <3>6. CASE req' = [req EXCEPT ![d] = IdleReq]
      BY <1>4, <3>2, <3>6
    <3> QED
      BY <3>3, <3>4, <3>5, <3>6
  <2> QED
    BY <1>5, <2>2, <2>3, <2>4, <2>5, <2>6, <2>7, <2>8 DEF ApiStep
<1>6. CASE WorkerNext
  <2>1. req' = req
    BY <1>6 DEF WorkerNext, PullStep, Probe, BlockingRead, Restart, Stop, Crash, TaskStep,
                Claim, Load, DropOwnerless, Complete, Reject, RetryOrFail, Finish,
                TaskHandoff, TaskSync, PollCancelled, CancelJob, Ack, taskRest, workerRest
  <2> QED
    BY <1>3, <2>1
<1>7. CASE TickerNext
  <2>1. req' = req
    BY <1>7 DEF TickerNext, TickerStep, StartPromote, StartReconcile, StartReap, ReapClaim,
                PromoteXadd, PromoteZrem, PromoteFlip, ReconcileHandoff, ReconcileSync,
                ReapRead, ReapRetry, ReapHandoff, ReapSync, ReapAck, TickerFail, tickRest
  <2> QED
    BY <1>3, <2>1
<1>8. CASE \E j \in Jobs : ClockPasses(j)
  BY <1>2, <1>8, ClockSteps
<1> QED
  BY <1>5, <1>6, <1>7, <1>8 DEF Next, ApiNext

(* The ticker does what it may with the ids of a promotion.                *)
LEMMA NextPromote ==
  ASSUME TypeInv, PromoteOK, Next
  PROVE  PromoteOK'
<1>0. tick \in Ticker /\ tick.todo \in [Jobs -> Handoff]
  BY DEF TypeInv, TypeOK, Ticker
<1>1. CASE UNCHANGED tick
  BY <1>1 DEF PromoteOK
<1>2. CASE \E j \in Jobs : ClockPasses(j)
  <2>1. PICK j \in Jobs : ClockPasses(j)
    BY <1>2
  <2>2. /\ tick'.pc = tick.pc /\ tick'.ids = tick.ids
        /\ \A i \in Jobs : tick'.todo[i] = "none" <=> tick.todo[i] = "none"
    BY <2>1, ClockSteps
  <2> QED
    BY <2>2 DEF PromoteOK
<1>3. ASSUME tick'.pc \notin {"xadd", "zrem", "flip"}, tick'.ids = {}
      PROVE  PromoteOK'
  BY <1>3 DEF PromoteOK
<1>4. CASE TickerNext
  <2>1. IdleTicker.pc = "idle" /\ IdleTicker.ids = {}
    BY DEF IdleTicker
  <2>2. CASE StartPromote
    <3> DEFINE due == {j \in Jobs : zset[j] = "due"}
               f == [j \in Jobs |-> IF j \in due THEN "stream" ELSE "none"]
    <3>1. tick' = [IdleTicker EXCEPT !.pc = "xadd", !.ids = due, !.todo = f]
      BY <2>2 DEF StartPromote
    <3>2. \A j \in Jobs : f[j] # "none" => j \in due
      OBVIOUS
    <3> HIDE DEF f, due
    <3>3. tick'.pc = "xadd" /\ tick'.ids = due /\ tick'.todo = f
      BY <3>1 DEF IdleTicker
    <3> QED
      BY <3>2, <3>3 DEF PromoteOK
  <2>3. ASSUME NEW j \in Jobs, PromoteXadd(j)
        PROVE  PromoteOK'
    <3> DEFINE f == [tick.todo EXCEPT ![j] = "none"]
               pc == IF Left = {j} THEN "zrem" ELSE "xadd"
    <3>1. tick' = [tick EXCEPT !.todo = f, !.pc = pc] /\ tick.pc = "xadd"
      BY <2>3 DEF PromoteXadd
    <3>2. f[j] = "none" /\ \A k \in Jobs : k # j => f[k] = tick.todo[k]
      BY <1>0
    <3>3. pc \in {"zrem", "xadd"} /\ (pc = "zrem" => \A k \in Jobs : k # j => tick.todo[k] = "none")
      BY DEF Left
    <3> HIDE DEF f, pc
    <3>4. tick'.pc = pc /\ tick'.ids = tick.ids /\ tick'.todo = f
      BY <1>0, <3>1 DEF Ticker
    <3> QED
      BY <3>1, <3>2, <3>3, <3>4 DEF PromoteOK
  <2>4. CASE PromoteZrem
    <3>1. tick'.pc = "flip"
      BY <1>0, <2>4 DEF PromoteZrem, Ticker
    <3> QED
      BY <3>1 DEF PromoteOK
  <2>5. CASE PromoteFlip \/ ReapAck \/ TickerFail
    <3>1. tick' = IdleTicker
      BY <2>5 DEF PromoteFlip, ReapAck, TickerFail
    <3> QED
      BY <1>3, <2>1, <3>1
  <2>6. CASE StartReconcile
    <3>1. \E f : tick' = [IdleTicker EXCEPT !.pc = "reconcile", !.todo = f]
      BY <2>6 DEF StartReconcile
    <3>2. tick'.pc = "reconcile" /\ tick'.ids = {}
      BY <3>1 DEF IdleTicker
    <3> QED
      BY <1>3, <3>2
  <2>7. CASE StartReap
    <3>1. tick'.pc = "reap" /\ tick'.ids = {}
      BY <2>7 DEF StartReap, ReapClaim, IdleTicker
    <3> QED
      BY <1>3, <3>1
  <2>8. ASSUME NEW j \in Jobs, ReconcileHandoff(j)
        PROVE  PromoteOK'
    <3>1. \E f : tick' = [tick EXCEPT !.pc = "resync", !.job = j, !.todo = f]
      BY <2>8 DEF ReconcileHandoff
    <3>2. tick'.pc = "resync" /\ tick'.ids = tick.ids /\ tick.pc = "reconcile"
      BY <1>0, <2>8, <3>1 DEF Ticker, ReconcileHandoff
    <3> QED
      BY <1>3, <3>2 DEF PromoteOK
  <2>9. CASE ReconcileSync \/ ReapSync
    <3>1. \/ tick' = IdleTicker
          \/ tick' = [tick EXCEPT !.pc = "reconcile", !.job = NoJob]
          \/ tick' = [tick EXCEPT !.pc = "ack"]
      BY <2>9 DEF ReconcileSync, ReapSync
    <3>2. tick.pc \in {"resync", "sync"}
      BY <2>9 DEF ReconcileSync, ReapSync
    <3>3. tick.ids = {}
      BY <3>2 DEF PromoteOK
    <3>4. tick'.ids = {} /\ tick'.pc \in {"idle", "reconcile", "ack"}
      BY <1>0, <2>1, <3>1, <3>3 DEF Ticker
    <3> QED
      BY <1>3, <3>4
  <2>10. CASE ReapRead \/ ReapRetry \/ ReapHandoff
    <3>1. \E pc \in {"retry", "handoff", "ack", "sync"} : \E h, a :
            \/ tick' = [tick EXCEPT !.pc = pc, !.att = a, !.h = h]
            \/ tick' = [tick EXCEPT !.pc = pc, !.h = h]
            \/ tick' = [tick EXCEPT !.pc = pc]
      <4>1. CASE ReapRead
        BY <4>1, Zenon DEF ReapRead
      <4>2. CASE ReapRetry
        BY <4>2, Zenon DEF ReapRetry
      <4>3. CASE ReapHandoff
        BY <4>3, Zenon DEF ReapHandoff
      <4> QED
        BY <2>10, <4>1, <4>2, <4>3
    <3>2. tick.pc \in {"reap", "retry", "handoff"}
      BY <2>10 DEF ReapRead, ReapRetry, ReapHandoff
    <3>3. tick.ids = {}
      BY <3>2 DEF PromoteOK
    <3>4. tick'.ids = {} /\ tick'.pc \in {"retry", "handoff", "ack", "sync"}
      BY <1>0, <3>1, <3>3 DEF Ticker
    <3> QED
      BY <1>3, <3>4
  <2> QED
    BY <1>4, <2>2, <2>3, <2>4, <2>5, <2>6, <2>7, <2>8, <2>9, <2>10
       DEF TickerNext, TickerStep
<1>5. CASE ApiNext
  <2>1. UNCHANGED tick
    BY <1>5 DEF ApiNext, ApiCall, ApiStep, ApiCrash, submit_job, retry_job,
                cancel_job_route, ApiHandoff, ApiSync, CancelWaiting, CancelZrem,
                CancelRunning, CancelRead, CancelAnswer, apiRest
  <2> QED
    BY <1>1, <2>1
<1>6. CASE WorkerNext
  <2>1. UNCHANGED tick
    BY <1>6 DEF WorkerNext, PullStep, Probe, BlockingRead, Restart, Stop, Crash, TaskStep,
                Claim, Load, DropOwnerless, Complete, Reject, RetryOrFail, Finish,
                TaskHandoff, TaskSync, PollCancelled, CancelJob, Ack, taskRest, workerRest
  <2> QED
    BY <1>1, <2>1
<1> QED
  BY <1>2, <1>4, <1>5, <1>6 DEF Next

(* Nothing is queued, marked or promoted at the start.                     *)
LEMMA InitDelivery == Init => KeptInv /\ \A j \in Jobs : DueOK(j)
<1> SUFFICES ASSUME Init PROVE KeptInv /\ \A j \in Jobs : DueOK(j)
  OBVIOUS
<1>1. ASSUME NEW j \in Jobs PROVE KeptOK(j) /\ DueOK(j)
  <2>1. row[j].status = "absent" /\ ~row[j].wait
    BY DEF Init, NoRow
  <2> QED
    BY <2>1, Statuses DEF KeptOK, DueOK
<1>2. ASSUME NEW c \in Clients PROVE ReqOK(c)
  BY DEF Init, IdleReq, ReqOK
<1>3. PromoteOK
  BY DEF Init, IdleTicker, PromoteOK
<1> QED
  BY <1>1, <1>2, <1>3 DEF KeptInv

(* Stuttering keeps everything.                                            *)
LEMMA StutterDelivery ==
  ASSUME UNCHANGED vars
  PROVE  /\ KeptInv => KeptInv'
         /\ (\A j \in Jobs : DueOK(j)) => \A j \in Jobs : DueOK(j)'
<1> USE DEF vars
<1>1. \A t \in Tasks : MyJob(t)' = MyJob(t)
  BY DEF MyJob
<1>2. ASSUME NEW j \in Jobs
      PROVE  /\ InDelivery(j)' <=> InDelivery(j)
             /\ Promoting(j)' <=> Promoting(j)
             /\ Marking(j)' <=> Marking(j)
  BY <1>1 DEF InDelivery, Undelivered, Promoting, Marking
<1>3. \A j \in Jobs : UnderWay(j)' <=> UnderWay(j)
  BY <1>1, <1>2 DEF UnderWay
<1>4. PromoteOK => PromoteOK'
  BY DEF PromoteOK
<1>5. \A c \in Clients : ReqOK(c) => ReqOK(c)'
  BY DEF ReqOK
<1>6. \A j \in Jobs : KeptOK(j) => KeptOK(j)'
  BY <1>2 DEF KeptOK, Sent
<1>7. \A j \in Jobs : DueOK(j) => DueOK(j)'
  BY <1>3 DEF DueOK
<1> QED
  BY <1>4, <1>5, <1>6, <1>7 DEF KeptInv

(* A step that is not one of the three kinds keeps the invariant.          *)
LEMMA NextKept ==
  TypeInv /\ KeptInv /\ [Next]_vars /\ [FinalStep]_vars /\ [~Losing]_vars => KeptInv'
<1> SUFFICES ASSUME TypeInv, KeptInv, [Next]_vars, [FinalStep]_vars, [~Losing]_vars
             PROVE  KeptInv'
  OBVIOUS
<1>1. CASE UNCHANGED vars
  BY <1>1, StutterDelivery
<1>2. CASE Next /\ FinalStep /\ ~Losing
  <2>0. PromoteOK /\ (\A c \in Clients : ReqOK(c)) /\ \A j \in Jobs : KeptOK(j)
    BY DEF KeptInv
  <2>1. ASSUME NEW j \in Jobs PROVE KeptOK(j)'
    <3>1. KeepStep(j)
      BY <1>2, <2>0, NextSteps
    <3>2. ~Overtaken(j)
      BY <1>2 DEF Losing
    <3> QED
      BY <2>0, <3>1, <3>2, KeepsJob
  <2>2. \A c \in Clients : ReqOK(c)'
    BY <1>2, <2>0, NextReqs
  <2>3. PromoteOK'
    BY <1>2, <2>0, NextPromote
  <2> QED
    BY <2>1, <2>2, <2>3 DEF KeptInv
<1> QED
  BY <1>1, <1>2

(* No accepted job is forgotten, except by a death between XREADGROUP and  *)
(* claim_job, by a blocking read that finds two streams not empty, or by a *)
(* retry that is committed under a handoff of the same job that is not     *)
(* over: for every retry schedule, every other death of a worker, request  *)
(* or pass of the ticker, and workers however late.                        *)
THEOREM NothingElseLoses == Spec /\ [][~Losing]_vars => []NoLostJob
<1>1. KeptInv => NoLostJob
  BY DEF KeptInv, KeptOK, NoLostJob, Lost, Sent
<1>2. Init => KeptInv
  BY InitDelivery
<1>3. Spec => [][FinalStep]_vars
  BY FinalStaysFinal DEF FinalIsFinal
<1> QED
  BY <1>1, <1>2, <1>3, NextKept, TypesHold, PTL DEF Spec

(* What makes a job wait for its time.                                     *)
DueInv == PromoteOK /\ (\A c \in Clients : ReqOK(c)) /\ \A j \in Jobs : DueOK(j)

(* A step that gives no job a delay while it is under way keeps it.        *)
LEMMA NextDue ==
  TypeInv /\ DueInv /\ [Next]_vars /\ [FinalStep]_vars /\ [~Outrunning]_vars => DueInv'
<1> SUFFICES ASSUME TypeInv, DueInv, [Next]_vars, [FinalStep]_vars, [~Outrunning]_vars
             PROVE  DueInv'
  OBVIOUS
<1>1. CASE UNCHANGED vars
  <2>1. PromoteOK' /\ \A c \in Clients : ReqOK(c)'
    BY <1>1 DEF vars, DueInv, PromoteOK, ReqOK
  <2> QED
    BY <1>1, <2>1, StutterDelivery DEF DueInv
<1>2. CASE Next /\ FinalStep /\ ~Outrunning
  <2>0. PromoteOK /\ (\A c \in Clients : ReqOK(c)) /\ \A j \in Jobs : DueOK(j)
    BY DEF DueInv
  <2>1. ASSUME NEW j \in Jobs PROVE DueOK(j)'
    <3>1. DueStep(j)
      BY <1>2, <2>0, NextSteps
    <3>2. ~Outrun(j)
      BY <1>2 DEF Outrunning
    <3> QED
      BY <1>2, <2>0, <3>1, <3>2, KeepsDue
  <2>2. \A c \in Clients : ReqOK(c)'
    BY <1>2, <2>0, NextReqs
  <2>3. PromoteOK'
    BY <1>2, <2>0, NextPromote
  <2> QED
    BY <2>1, <2>2, <2>3 DEF DueInv
<1> QED
  BY <1>1, <1>2

(* No attempt starts before the scheduled_at of its row unless its delay   *)
(* was written while another message of the job was under way: promotion,  *)
(* reconciliation, recovery and retries never hand over a job early, for   *)
(* every retry schedule, every death and workers however late.             *)
THEOREM OnlyDuplicatesStartEarly == Spec /\ [][~Outrunning]_vars => NotBeforeDue
<1> DEFINE DueNow == \A j \in Jobs :
             row[j].status = "scheduled" /\ IsProcessing(row'[j]) => ~row[j].wait
<1>1. TypeInv /\ DueInv /\ [Next]_vars => [DueNow]_vars
  <2> SUFFICES ASSUME TypeInv, DueInv, Next, NEW j \in Jobs,
                      row[j].status = "scheduled", IsProcessing(row'[j])
               PROVE  ~row[j].wait
    OBVIOUS
  <2>1. DueOK(j) /\ DueStep(j)
    BY NextSteps DEF DueInv
  <2> QED
    BY <2>1 DEF DueOK, DueStep
<1>2. Init => DueInv
  BY InitDelivery DEF DueInv, KeptInv
<1>3. Spec => [][FinalStep]_vars
  BY FinalStaysFinal DEF FinalIsFinal
<1> HIDE DEF DueNow
<1>4. Spec /\ [][~Outrunning]_vars => [][DueNow]_vars
  BY <1>1, <1>2, <1>3, NextDue, TypesHold, PTL DEF Spec
<1> QED
  BY <1>4 DEF NotBeforeDue, DueNow
=============================================================================
