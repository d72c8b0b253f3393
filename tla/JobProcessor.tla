---------------------------- MODULE JobProcessor ----------------------------
(***************************************************************************)
(* The whole job processor: API requests, worker processes and the ticker  *)
(* over one Postgres table and one Redis.                                  *)
(***************************************************************************)
EXTENDS Api, Worker, Ticker

(* The wall clock passes scheduled_at of job j, wherever that time is      *)
(* kept: in the row, as a score of the ZSET, or in the hands of a process  *)
(* about to write it there.                                                *)
Passed(h) == IF h = "wait" THEN "due" ELSE h

ClockPasses(j) ==
  /\ row[j].wait \/ zset[j] = "wait"
  /\ row' = [row EXCEPT ![j].wait = FALSE]
  /\ zset' = [zset EXCEPT ![j] = Passed(@)]
  /\ task' = [t \in Tasks |->
                IF task[t].msg # NoMsg /\ JobOf(task[t].msg) = j
                THEN [task[t] EXCEPT !.h = Passed(@)] ELSE task[t]]
  /\ req' = [c \in Clients |-> IF req[c].job = j THEN [req[c] EXCEPT !.h = Passed(@)]
                                                 ELSE req[c]]
  /\ tick' = [tick EXCEPT !.todo[j] = Passed(@),
                          !.h = IF tick.job = j THEN Passed(@) ELSE @]
  /\ UNCHANGED <<stream, pel, pull, used>>

Next ==
  \/ ApiNext
  \/ WorkerNext
  \/ TickerNext
  \/ \E j \in Jobs : ClockPasses(j)

Spec == Init /\ [][Next]_vars

(***************************************************************************)
(* Fairness.  Requests, tasks and read loops are coroutines the event loop *)
(* resumes whenever their database or Redis call has returned.  The ticker *)
(* starts every pass again and again, so a pass that keeps having work is  *)
(* eventually run.                                                         *)
(***************************************************************************)
Fairness ==
  /\ \A c \in Clients : WF_vars(ApiStep(c))
  /\ \A t \in Tasks : WF_vars(TaskStep(t))
  /\ \A p \in Procs : SF_vars(Probe(p) \/ BlockingRead(p)) /\ WF_vars(Restart(p))
  /\ \A j \in Jobs : WF_vars(ClockPasses(j))
  /\ WF_vars(TickerStep)
  /\ SF_vars(StartPromote)
  /\ SF_vars(StartReconcile)
  /\ SF_vars(StartReap)

FairSpec == Spec /\ Fairness

-----------------------------------------------------------------------------
(***************************************************************************)
(* Safety.                                                                 *)
(***************************************************************************)

(* Some process is about to hand job j to Redis.                           *)
InHandoff(j) ==
  \/ \E c \in Clients : req[c].pc = "handoff" /\ req[c].job = j
  \/ \E t \in Tasks : task[t].pc = "handoff" /\ MyJob(t) = j
  \/ tick.pc \in {"xadd", "reconcile", "resync"} /\ tick.todo[j] # "none"
  \/ tick.pc = "handoff" /\ tick.job = j

(* A message of job j that will still be put before claim_job.             *)
InDelivery(j) ==
  \/ \E m \in {j} \X Copies : Undelivered(m)
  \/ \E t \in Tasks : task[t].pc = "claim" /\ MyJob(t) = j

(* Nobody will come back to j.  A pending entry no task holds does not     *)
(* help: _reap_one acknowledges it without a new message when the row is   *)
(* synced.                                                                 *)
Lost(j) ==
  /\ row[j].status \in Waiting /\ row[j].synced
  /\ zset[j] = "none" /\ ~InDelivery(j) /\ ~InHandoff(j)

(* No accepted job is forgotten: a row that waits to run is still marked   *)
(* unsynced (the reconciler will see it), or is in the ZSET, or has a      *)
(* message on its way to claim_job, or a process is about to hand it over. *)
NoLostJob == \A j \in Jobs : ~Lost(j)

(***************************************************************************)
(* The steps by which a job can be lost, or be started too early.          *)
(***************************************************************************)

(* A blocking read that is given the heads of two streams keeps one.       *)
ReadsTwo(p) ==
  /\ BlockingRead(p)
  /\ \E k, l \in Streams : k # l /\ stream[k] # << >> /\ stream[l] # << >>

(* A worker dies between XREADGROUP and claim_job.                         *)
DiesUnclaimed(p) == Crash(p) /\ \E t \in SlotsOf(p) : task[t].pc = "claim"

(* A handoff of job j is not over: its mark_synced, or the ZREM and the    *)
(* flip of its promotion, are still to come.                               *)
Marking(j) ==
  \/ \E c \in Clients : req[c].pc = "sync" /\ req[c].job = j
  \/ \E t \in Tasks : task[t].pc = "sync" /\ MyJob(t) = j
  \/ tick.pc \in {"resync", "sync"} /\ tick.job = j
Promoting(j) == j \in tick.ids

(* The next attempt of j is committed while an earlier handoff of j is not *)
(* over; the rest of that handoff will be taken for the new one's.         *)
Overtaken(j) ==
  /\ row[j].status \notin Waiting
  /\ row'[j].status \in Waiting
  /\ Marking(j) \/ Promoting(j)

Losing ==
  \/ \E p \in Procs : ReadsTwo(p) \/ DiesUnclaimed(p)
  \/ \E j \in Jobs : Overtaken(j)

(* A message of j can be claimed, or will be, without waiting any longer.  *)
Prompt == {"stream", "due"}
UnderWay(j) ==
  \/ InDelivery(j)
  \/ zset[j] = "due" \/ Promoting(j)
  \/ \E c \in Clients : req[c].pc = "handoff" /\ req[c].job = j /\ req[c].h \in Prompt
  \/ \E t \in Tasks : task[t].pc = "handoff" /\ MyJob(t) = j /\ task[t].h \in Prompt
  \/ tick.pc = "handoff" /\ tick.job = j /\ tick.h \in Prompt
  \/ tick.todo[j] \in Prompt

(* Job j is given a delay while a message of it is under way.              *)
Outrun(j) == ~row[j].wait /\ row'[j].wait /\ UnderWay(j)
Outrunning == \E j \in Jobs : Outrun(j)

(* An unacknowledged message m that still protects the claim of its job:   *)
(* nobody who holds it is about to acknowledge it while the row is being   *)
(* processed.                                                              *)
Protects(m) ==
  /\ m \in pel
  /\ \A t \in Tasks : task[t].msg = m => task[t].pc \in {"load", "run", "cancel"}
  /\ tick.msg = m => tick.pc \in {"reap", "retry"}

(* A job being processed can always be recovered: should its worker die    *)
(* now, the pending entries list holds a message of the job that leads the *)
(* reaper to it.                                                           *)
LeaseReapable ==
  \A j \in Jobs : IsProcessing(row[j]) => \E m \in {j} \X Copies : Protects(m)

(* A job runs in at most one task at a time.                               *)
Running(t) == task[t].pc \in {"load", "run", "cancel"}
NoDuplicateRun ==
  \A t, u \in Tasks :
    t # u /\ Running(t) /\ Running(u) => MyJob(t) # MyJob(u)

(* max_attempts bounds the executions of a job, whoever ends an attempt.   *)
AttemptsWithinBudget == \A j \in Jobs : row[j].attempts <= Budget(j)

(* A 200 from the cancel route means that the job will not run any more:   *)
(* it neither waits for an attempt nor is in one.                          *)
CancelAnswerTrue ==
  \A c \in Clients : req[c].pc = "ok" => row[req[c].job].status \in Final

(***************************************************************************)
(* What a step may never do.                                               *)
(***************************************************************************)

(* A completed or cancelled row is never written to another status, by any *)
(* late worker, reaper, promotion or request; a failed one leaves only by  *)
(* a manual retry.                                                         *)
FinalStep ==
  \A j \in Jobs :
    row[j].status \in Final /\ row'[j].status # row[j].status =>
      /\ row[j].status = "failed" /\ ~row[j].cancelReq
      /\ \E c \in Clients : retry_job(c, j)
FinalIsFinal == [][FinalStep]_vars

(* No attempt starts before the scheduled_at of its row.                   *)
NotBeforeDue ==
  [][\A j \in Jobs :
       row[j].status = "scheduled" /\ IsProcessing(row'[j]) => ~row[j].wait]_vars

(* A running job ends as cancelled only if its cancellation was requested. *)
CancelOnlyIfAsked ==
  [][\A j \in Jobs :
       IsProcessing(row[j]) /\ row'[j].status = "cancelled" => row[j].cancelReq]_vars

(***************************************************************************)
(* The refinement mapping: a row, forgetting how it is queued.             *)
(***************************************************************************)
LifeOf(r) == [st    |-> IF r.status \in Waiting THEN "waiting" ELSE r.status,
              n     |-> r.attempts,
              asked |-> r.cancelReq]

Lifecycle == INSTANCE JobLifecycle WITH
               Limit <- Budget, life <- [j \in Jobs |-> LifeOf(row[j])]

(* The processor implements the lifecycle: no race between workers, the    *)
(* ticker and the API makes a row take a step the lifecycle does not have. *)
ImplementsLifecycle == Lifecycle!LifeSpec

(***************************************************************************)
(* Liveness.                                                               *)
(***************************************************************************)

(* Every job that has been accepted eventually ends, or is lost for good,  *)
(* which only the steps of Losing can bring about: whoever dies, all that  *)
(* is not lost goes on.                                                    *)
EveryJobEnds ==
  \A j \in Jobs : (row[j].status \in Waiting \cup {"processing"})
                     ~> (row[j].status \in Final \/ []Lost(j))

(* A claimed job does not stay claimed, wherever a worker, a request or a  *)
(* pass of the ticker dies: somebody ends the attempt.                     *)
ProcessingEnds == \A j \in Jobs : IsProcessing(row[j]) ~> ~IsProcessing(row[j])

(* Every delivered message is eventually acknowledged, so the pending      *)
(* entries list never fills up with messages of dead workers.              *)
PelDrains == \A m \in Msgs : (m \in pel) ~> (m \notin pel)

=============================================================================
