-------------------------------- MODULE Api ---------------------------------
(***************************************************************************)
(* The API process (api/routes.py): submitting, retrying and cancelling a  *)
(* job.  Each request is a handler of its own with its own session; its    *)
(* awaits are the points where other requests, workers and the ticker      *)
(* interleave.  A request that is refused (404, 409 before any write)      *)
(* changes nothing and has no action.                                      *)
(***************************************************************************)
EXTENDS Store

apiRest == <<pel, pull, task, tick>>

(* POST /jobs: the row is committed first, Redis comes after it.           *)
submit_job(c, j, h) ==
  /\ req[c].pc = "idle"
  /\ row[j].status = "absent"
  /\ Update(j, create_job(h))
  /\ req' = [req EXCEPT ![c] =
               [IdleReq EXCEPT !.pc = "handoff", !.op = "submit", !.job = j, !.h = h]]
  /\ UNCHANGED <<stream, zset, used, apiRest>>

(* POST /jobs/{id}/retry: reset the failed row, then enqueue.              *)
retry_job(c, j) ==
  /\ req[c].pc = "idle"
  /\ used.retries < MaxRetries
  /\ j \notin Ownerless
  /\ CanReset(row[j])
  /\ Update(j, reset_failed_to_pending(row[j]))
  /\ req' = [req EXCEPT ![c] =
               [IdleReq EXCEPT !.pc = "handoff", !.op = "retry", !.job = j,
                               !.h = "stream"]]
  /\ used' = [used EXCEPT !.retries = @ + 1]
  /\ UNCHANGED <<stream, zset, apiRest>>

(* The XADD or ZADD of a submission or of a retry.                         *)
ApiHandoff(c) ==
  /\ req[c].pc = "handoff"
  /\ HandOver(req[c].job, req[c].h)
  /\ req' = [req EXCEPT ![c].pc = "sync"]
  /\ UNCHANGED <<row, used, apiRest>>

(* mark_synced: unguarded, whatever has become of the row meanwhile.       *)
ApiSync(c) ==
  /\ req[c].pc = "sync"
  /\ Update(req[c].job, mark_synced(row[req[c].job]))
  /\ req' = [req EXCEPT ![c] = IdleReq]
  /\ UNCHANGED <<stream, zset, used, apiRest>>

(***************************************************************************)
(* POST /jobs/{id}/cancel: up to three rounds of two guarded updates and a *)
(* read.  obj is the ORM object the session holds once the first round has *)
(* read the row ("absent": none yet).  session.get returns that object     *)
(* again instead of the row, and an UPDATE whose criteria the object meets *)
(* in memory also changes the object, whether or not it changed the row.   *)
(***************************************************************************)
cancel_job_route(c, j) ==
  /\ req[c].pc = "idle"
  /\ row[j].status # "absent"
  /\ j \notin Ownerless
  /\ req' = [req EXCEPT ![c] = [IdleReq EXCEPT !.pc = "cancel", !.op = "cancel",
                                               !.job = j, !.left = 3]]
  /\ UNCHANGED <<row, stream, zset, used, apiRest>>

CancelWaiting(c) ==
  LET j == req[c].job IN
  /\ req[c].pc = "cancel"
  /\ \/ /\ CanCancel(row[j])
        /\ Update(j, cancel_pending_or_scheduled(row[j]))
        /\ req' = [req EXCEPT ![c].pc = "zrem"]
     \/ /\ ~CanCancel(row[j])
        /\ req' = [req EXCEPT ![c].pc = "request",
                              ![c].obj = IF @ \in Waiting THEN "cancelled" ELSE @]
        /\ UNCHANGED row
  /\ UNCHANGED <<stream, zset, used, apiRest>>

CancelZrem(c) ==
  /\ req[c].pc = "zrem"
  /\ zset' = [zset EXCEPT ![req[c].job] = "none"]
  /\ req' = [req EXCEPT ![c].pc = "ok"]
  /\ UNCHANGED <<row, stream, used, apiRest>>

CancelRunning(c) ==
  LET j == req[c].job IN
  /\ req[c].pc = "request"
  /\ \/ /\ IsProcessing(row[j])
        /\ Update(j, request_cancel(row[j]))
        /\ req' = [req EXCEPT ![c] = IdleReq]             \* 202
     \/ /\ ~IsProcessing(row[j])
        /\ req' = [req EXCEPT ![c].pc = "read"]
        /\ UNCHANGED row
  /\ UNCHANGED <<stream, zset, used, apiRest>>

(* Mutant: the loop is not bounded.                                        *)
CancelReadForever(c) ==
  LET seen == IF req[c].obj = "absent" THEN row[req[c].job].status ELSE req[c].obj IN
  /\ req[c].pc = "read"
  /\ req' = [req EXCEPT ![c] = IF seen \in Final THEN IdleReq
                               ELSE [@ EXCEPT !.pc = "cancel", !.obj = seen,
                                              !.left = req[c].left - 1]]
  /\ UNCHANGED <<row, stream, zset, used, apiRest>>

CancelRead(c) ==
  LET seen == IF req[c].obj = "absent" THEN row[req[c].job].status ELSE req[c].obj IN
  /\ req[c].pc = "read"
  /\ \/ /\ seen = "cancelled"
        /\ req' = [req EXCEPT ![c].pc = "ok"]             \* idempotent 200
     \/ /\ seen \in Final \ {"cancelled"}
        /\ req' = [req EXCEPT ![c] = IdleReq]             \* 409
     \/ /\ seen \notin Final
        /\ req' = [req EXCEPT ![c] =
                     IF @.left = 1 THEN IdleReq           \* 409: state is changing
                     ELSE [@ EXCEPT !.pc = "cancel", !.obj = seen,
                                    !.left = req[c].left - 1]]
  /\ UNCHANGED <<row, stream, zset, used, apiRest>>

(* The 200 that tells the client its job is cancelled.                     *)
CancelAnswer(c) ==
  /\ req[c].pc = "ok"
  /\ req' = [req EXCEPT ![c] = IdleReq]
  /\ UNCHANGED <<row, stream, zset, used, apiRest>>

(* The API dies, or Redis or Postgres fails, between two steps of a        *)
(* request.                                                                *)
ApiCrash(c) ==
  /\ "api" \in Faults
  /\ used.crashes < MaxCrashes
  /\ req[c].pc \in {"handoff", "sync", "zrem"}
  /\ req' = [req EXCEPT ![c] = IdleReq]
  /\ used' = [used EXCEPT !.crashes = @ + 1]
  /\ UNCHANGED <<row, stream, zset, apiRest>>

(* What a request in progress does next.                                   *)
ApiStep(c) ==
  \/ ApiHandoff(c)
  \/ ApiSync(c)
  \/ CancelWaiting(c)
  \/ CancelZrem(c)
  \/ CancelRunning(c)
  \/ CancelRead(c)
  \/ CancelAnswer(c)

(* What users ask for.                                                     *)
ApiCall(c) ==
  \E j \in Jobs :
    \/ \E h \in {"stream", "wait"} : submit_job(c, j, h)
    \/ retry_job(c, j)
    \/ cancel_job_route(c, j)

ApiNext == \E c \in Clients : ApiCall(c) \/ ApiStep(c) \/ ApiCrash(c)
=============================================================================
