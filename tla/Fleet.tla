------------------------------- MODULE Fleet -------------------------------
(***************************************************************************)
(* The main loop of a worker process over time: heartbeat, semaphore,      *)
(* XREADGROUP with its block time, tasks that run up to the handler        *)
(* timeout, the end of the loop on SIGTERM or when memory runs high, and   *)
(* the drain.  What others see of it: /health, which compares the age of   *)
(* the heartbeat with a threshold, and the worker count of /stats.         *)
(*                                                                         *)
(* Only time matters here, so when a message is there to be read, and how  *)
(* long its task takes within the handler timeout, is left open; what the  *)
(* messages are is in JobProcessor, and the group they come by in Group.   *)
(*                                                                         *)
(* One Tick is a unit of time.  Between two heartbeats the process may be  *)
(* behind with what it could do at once (database, Redis, event loop) for  *)
(* Slack units in all: the ten seconds that the threshold allows for.      *)
(***************************************************************************)
EXTENDS Naturals

CONSTANTS
  Workers, Slots,
  Timeout,      \* settings.job_handler_timeout_s
  Block,        \* settings.block_ms
  Slack,        \* the 10.0 of worker_heartbeat_threshold_s
  Visibility,   \* settings.visibility_timeout_s
  Grace         \* terminationGracePeriodSeconds, stop_grace_period

ASSUME FleetAssumption ==
  /\ Timeout \in Nat /\ Block \in Nat /\ Slack \in Nat /\ Grace \in Nat
  /\ Visibility \in Nat /\ Timeout + Slack < Visibility /\ Block + Slack < Visibility

VARIABLE w      \* w[p]: worker process p

worker_heartbeat_threshold_no_block == Timeout + Slack
worker_heartbeat_threshold_s == Block + Timeout + Slack

(* Bounds of the clocks: what is older makes no difference.                *)
MaxAge  == Block + Timeout + Slack + 1
Worker  == [pc     : {"down", "top", "slot", "read", "block", "drain"},
            age    : 0..MaxAge,               \* since the last beat
            idle   : [1..2 -> 0..Visibility], \* since the last read of a stream
            waited : 0..Block,
            late   : 0..Slack,                \* units behind since the last beat
            stop   : BOOLEAN,                 \* SIGTERM
            since  : 0..(Grace + 1),          \* units since then
            run    : [Slots -> [busy : BOOLEAN, ran : 0..(Timeout + Slack)]]]

Empty == [busy |-> FALSE, ran |-> 0]
Down  == [pc |-> "down", age |-> 0, idle |-> [s \in 1..2 |-> Visibility], waited |-> 0,
          late |-> 0, stop |-> FALSE, since |-> 0, run |-> [s \in Slots |-> Empty]]

FleetInit == w = [p \in Workers |-> Down]

Busy(p) == {s \in Slots : w[p].run[s].busy}

(* Worker p starts: Heartbeat(), then the loop.                            *)
Launch(p) ==
  /\ w[p].pc = "down"
  /\ w' = [w EXCEPT ![p] = [Down EXCEPT !.pc = "top"]]

Sigterm(p) ==
  /\ w[p].pc # "down" /\ ~w[p].stop
  /\ w' = [w EXCEPT ![p].stop = TRUE]

(* The head of the loop.  A stop, or too much memory (over), ends it, and  *)
(* the heartbeat beats only for another round.                             *)
LoopHeadLate(p, over) ==
  /\ w[p].pc = "top"
  /\ w' = [w EXCEPT ![p] = IF w[p].stop \/ over THEN [@ EXCEPT !.pc = "drain"]
                           ELSE [@ EXCEPT !.pc = "slot", !.late = 0]]

LoopHead(p, over) ==
  /\ w[p].pc = "top"
  /\ w' = [w EXCEPT ![p] = IF w[p].stop \/ over THEN [@ EXCEPT !.pc = "drain"]
                           ELSE [@ EXCEPT !.pc = "slot", !.age = 0, !.late = 0]]

(* sem.acquire: the slot stays free until the loop itself fills it.        *)
Acquire(p) ==
  /\ w[p].pc = "slot" /\ Busy(p) # Slots
  /\ w' = [w EXCEPT ![p].pc = "read"]

(* The process is gone with its tasks: killed, or the read raised.         *)
Die(p) ==
  /\ w[p].pc # "down"
  /\ w' = [w EXCEPT ![p] = Down]

(* A message comes back and a task is spawned for it; the streams read to  *)
(* get there are no longer idle.                                           *)
Spawn(p, read) ==
  \E s \in Slots \ Busy(p) :
    w' = [w EXCEPT ![p] = [w[p] EXCEPT
           !.pc     = "top",
           !.waited = 0,
           !.idle   = [i \in 1..2 |-> IF i \in read THEN 0 ELSE w[p].idle[i]],
           !.run    = [w[p].run EXCEPT ![s] = [busy |-> TRUE, ran |-> 0]]]]

(* read_priority: each stream is probed in turn until one has a message;   *)
(* if none has, all are waited on.  NOGROUP ends the process (Die).        *)
Probe(p) ==
  /\ w[p].pc = "read"
  /\ \E i \in 1..2 : Spawn(p, 1..i)

ProbeEmpty(p) ==
  /\ w[p].pc = "read"
  /\ w' = [w EXCEPT ![p] = [@ EXCEPT !.pc = "block", !.idle = [i \in 1..2 |-> 0]]]

BlockingRead(p) ==
  /\ w[p].pc = "block"
  /\ \E i \in 1..2 : Spawn(p, {i})

(* Nothing came: the slot is released.                                     *)
BlockEnds(p) ==
  /\ w[p].pc = "block" /\ w[p].waited = Block
  /\ w' = [w EXCEPT ![p] = [@ EXCEPT !.pc = "top", !.waited = 0]]

(* A task ends, by itself or by run_with_timeout.                          *)
TaskEnds(p, s) ==
  /\ s \in Busy(p)
  /\ w' = [w EXCEPT ![p].run[s] = Empty]

(* The TaskGroup is empty and run_forever returns 0.                       *)
Exit(p) ==
  /\ w[p].pc = "drain" /\ Busy(p) = {}
  /\ w' = [w EXCEPT ![p] = Down]

-----------------------------------------------------------------------------
(* Process p has something to do at once.                                  *)
Due(p) ==
  \/ w[p].pc \in {"top", "read"}
  \/ w[p].pc = "slot" /\ Busy(p) # Slots
  \/ w[p].pc = "block" /\ w[p].waited = Block
  \/ w[p].pc = "drain" /\ Busy(p) = {}
  \/ \E s \in Busy(p) : w[p].run[s].ran >= Timeout

UpTo(max, n) == IF n < max THEN n + 1 ELSE max

Older(p) ==
  [w[p] EXCEPT
     !.age    = UpTo(MaxAge, @),
     !.idle   = [i \in 1..2 |-> UpTo(Visibility, @[i])],
     !.waited = IF w[p].pc = "block" THEN UpTo(Block, @) ELSE @,
     !.late   = IF Due(p) THEN @ + 1 ELSE @,
     !.since  = IF w[p].stop THEN UpTo(Grace + 1, @) ELSE @,
     !.run    = [s \in Slots |-> IF s \in Busy(p)
                                 THEN [busy |-> TRUE, ran |-> w[p].run[s].ran + 1]
                                 ELSE w[p].run[s]]]

(* Mutant of Tick: a handler is not cut off at its timeout.                *)
TickNoTimeout ==
  /\ \A p \in Workers : Due(p) => w[p].late < Slack
  /\ w' = [p \in Workers |-> IF w[p].pc = "down" THEN w[p] ELSE Older(p)]

Tick ==
  /\ \A p \in Workers :
       /\ Due(p) => w[p].late < Slack
       /\ \A s \in Busy(p) : w[p].run[s].ran < Timeout + Slack
  /\ w' = [p \in Workers |-> IF w[p].pc = "down" THEN w[p] ELSE Older(p)]

WorkerStep(p) ==
  \/ Launch(p) \/ Sigterm(p) \/ Acquire(p)
  \/ Probe(p) \/ ProbeEmpty(p) \/ BlockingRead(p)
  \/ BlockEnds(p) \/ Exit(p) \/ Die(p)
  \/ \E over \in BOOLEAN : LoopHead(p, over)
  \/ \E s \in Slots : TaskEnds(p, s)

FleetNext ==
  \/ \E p \in Workers : WorkerStep(p)
  \/ Tick

FleetSpec == FleetInit /\ [][FleetNext]_w

-----------------------------------------------------------------------------
FleetTypeOK == w \in [Workers -> Worker]

(* /health                                                                 *)
health(p) == w[p].age <= worker_heartbeat_threshold_s

(* live_worker_count of /stats: the least idle time over the streams.      *)
live_worker_count_by_last(p) == w[p].idle[2] < Visibility
live_worker_count(p) == \E i \in 1..2 : w[p].idle[i] < Visibility

(* Busy is healthy: as long as the loop goes round, waiting for a slot and *)
(* then for a message never makes the process look hung.                   *)
BusyIsHealthy == \A p \in Workers : w[p].pc # "drain" => health(p)

(* A worker that runs a job is counted, also when it reads one stream only *)
(* or none because it is full or draining.                                 *)
BusyIsCounted == \A p \in Workers : Busy(p) # {} => live_worker_count(p)

(* A draining worker, whose tasks all keep to their time, is healthy.      *)
DrainIsHealthy == \A p \in Workers : w[p].pc = "drain" => health(p)

(* A worker has drained before the grace period after SIGTERM is over.     *)
DrainWithinGrace == \A p \in Workers : w[p].stop => w[p].since <= Grace
=============================================================================
