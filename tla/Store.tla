------------------------------- MODULE Store --------------------------------
(***************************************************************************)
(* The state shared by the processes of the job processor: the jobs table  *)
(* in Postgres, the priority streams with their consumer group and the     *)
(* delayed ZSET in Redis; and the local state of every process, which the  *)
(* queue needs to know to give out unused stream ids.  Each Redis command  *)
(* and each committed transaction is one atomic step.                      *)
(***************************************************************************)
EXTENDS JobRow, FiniteSets

CONSTANTS
  NumStreams,   \* number of priority streams; 1 is read first
  StreamOf,     \* the stream of a job: settings.stream_for_priority(job.priority)
  Copies,       \* ids of the stream entries one job may have at a time (a bound)
  Procs,        \* worker processes
  Slots,        \* concurrent tasks of one process (settings.worker_concurrency)
  Clients,      \* API requests in progress at a time
  MaxCrashes,   \* bound on the number of crashes
  MaxRetries,   \* bound on the number of manual retries
  Faults,       \* task states in which a worker may die; "api", "ticker", "stop"
  Timely,       \* live tasks outrun the visibility timeout, live submissions the grace
  NoMsg, NoJob

ASSUME StoreAssumption ==
  /\ NumStreams \in Nat \ {0}
  /\ StreamOf \in [Jobs -> 1..NumStreams]
  /\ MaxCrashes \in Nat
  /\ MaxRetries \in Nat
  /\ Timely \in BOOLEAN
  /\ NoMsg \notin Jobs \X Copies
  /\ NoJob \notin Jobs

Streams == 1..NumStreams
Msgs    == Jobs \X Copies
JobOf(m) == m[1]
Tasks   == Procs \X Slots

VARIABLES
  row,      \* the jobs table
  stream,   \* per stream, the entries not yet delivered to the group
  pel,      \* delivered and not yet acknowledged entries
  zset,     \* the delayed ZSET
  pull,     \* per worker process, its read loop
  task,     \* per task of a worker process, the message it handles
  req,      \* the API requests in progress
  tick,     \* the ticker
  used      \* crashes and manual retries so far

vars == <<row, stream, pel, zset, pull, task, req, tick, used>>
redis == <<stream, pel, zset>>

(***************************************************************************)
(* Local states of the processes.                                          *)
(***************************************************************************)
TaskPc == {"idle", "claim", "load", "run", "cancel", "handoff", "sync", "ack"}
Task == [pc : TaskPc, msg : Msgs \cup {NoMsg}, att : Nat, h : Handoff]
IdleTask == [pc |-> "idle", msg |-> NoMsg, att |-> 0, h |-> "none"]

(* at is the stream the next non-blocking probe reads; NumStreams + 1 is   *)
(* the blocking read over all of them.                                     *)
Pull == [up : BOOLEAN, at : 1..(NumStreams + 1)]

ReqPc == {"idle", "handoff", "sync", "cancel", "zrem", "request", "read", "ok"}
Req == [pc : ReqPc, op : {"none", "submit", "retry", "cancel"},
        job : Jobs \cup {NoJob}, h : Handoff, obj : Status, left : 0..3]
IdleReq == [pc |-> "idle", op |-> "none", job |-> NoJob, h |-> "none",
            obj |-> "absent", left |-> 0]

TickPc == {"idle", "xadd", "zrem", "flip", "reconcile", "resync",
           "reap", "retry", "handoff", "sync", "ack"}
Ticker == [pc : TickPc, ids : SUBSET Jobs, todo : [Jobs -> Handoff],
           job : Jobs \cup {NoJob}, msg : Msgs \cup {NoMsg},
           att : Nat, h : Handoff]
IdleTicker == [pc |-> "idle", ids |-> {}, todo |-> [j \in Jobs |-> "none"],
               job |-> NoJob, msg |-> NoMsg, att |-> 0, h |-> "none"]

Used == [crashes : 0..MaxCrashes, retries : 0..MaxRetries]

(***************************************************************************)
(* Redis.                                                                  *)
(***************************************************************************)
Undelivered(m) == \E k \in Streams : \E i \in DOMAIN stream[k] : stream[k][i] = m

(* A stream id is used again only when no queue and no process knows it:   *)
(* Redis never reuses an id, a finite model must.                          *)
Unused(m) == /\ ~Undelivered(m)
             /\ m \notin pel
             /\ \A t \in Tasks : task[t].msg # m
             /\ tick.msg # m

Fresh(j) == {m \in {j} \X Copies : Unused(m)}

(* XADD of a message for job j to the stream of its priority.              *)
enqueue(j) ==
  /\ Fresh(j) # {}
  /\ stream' = [stream EXCEPT ![StreamOf[j]] =
                  Append(@, CHOOSE m \in Fresh(j) : TRUE)]

ack(m) == pel' = pel \ {m}

(* The enqueue or the delayed.schedule (ZADD) that a handoff h of j does.  *)
HandOver(j, h) ==
  \/ h = "stream" /\ enqueue(j) /\ UNCHANGED zset
  \/ h \in {"wait", "due"} /\ zset' = [zset EXCEPT ![j] = h] /\ UNCHANGED stream

(* Mutant: min_idle_time = 0.                                              *)
StaleAtOnce(m) == m \in pel

(* XAUTOCLAIM takes an entry once it has been idle for the visibility      *)
(* timeout.  A timely worker's task is done with it by then.               *)
Stale(m) == /\ m \in pel
            /\ Timely => \A t \in Tasks : task[t].msg # m

(* list_unsynced leaves out rows younger than the reconcile grace, which a *)
(* timely submission outruns.  A retry does not move created_at, so it is  *)
(* not protected.                                                          *)
PastGrace(j) ==
  Timely => \A c \in Clients : ~(req[c].op = "submit" /\ req[c].job = j)

Update(j, r) == row' = [row EXCEPT ![j] = r]

Init ==
  /\ row = [j \in Jobs |-> NoRow]
  /\ stream = [k \in Streams |-> << >>]
  /\ pel = {}
  /\ zset = [j \in Jobs |-> "none"]
  /\ pull = [p \in Procs |-> [up |-> TRUE, at |-> 1]]
  /\ task = [t \in Tasks |-> IdleTask]
  /\ req = [c \in Clients |-> IdleReq]
  /\ tick = IdleTicker
  /\ used = [crashes |-> 0, retries |-> 0]

TypeOK ==
  /\ row \in [Jobs -> Row]
  /\ stream \in [Streams -> Seq(Msgs)]
  /\ pel \subseteq Msgs
  /\ zset \in [Jobs -> Handoff \ {"stream"}]
  /\ pull \in [Procs -> Pull]
  /\ task \in [Tasks -> Task]
  /\ req \in [Clients -> Req]
  /\ tick \in Ticker
  /\ used \in Used
=============================================================================
