---------------------------- MODULE JobLifecycle ----------------------------
(***************************************************************************)
(* What the job processor promises about one job, whatever queues, workers *)
(* and retries do behind it: the order of its statuses, how many attempts  *)
(* it may use up, and when it may be cancelled.  Pending and scheduled are *)
(* one status here, a job that waits to run.                               *)
(***************************************************************************)
EXTENDS Naturals

CONSTANTS Jobs, Limit(_)

VARIABLE life

Life == [st    : {"absent", "waiting", "processing", "completed", "failed", "cancelled"},
         n     : Nat,        \* attempts used up
         asked : BOOLEAN]    \* a running attempt was asked to stop

LifeInit == life = [j \in Jobs |-> [st |-> "absent", n |-> 0, asked |-> FALSE]]

Move(j, from, to) ==
  life[j].st = from /\ life' = [life EXCEPT ![j].st = to]

(* An attempt ends and is counted.                                         *)
End(j, to) ==
  /\ life[j].st = "processing"
  /\ life' = [life EXCEPT ![j].st = to, ![j].n = @ + 1]

Submit(j)   == Move(j, "absent", "waiting")
Start(j)    == life[j].n < Limit(j) /\ Move(j, "waiting", "processing")
Succeed(j)  == End(j, "completed")
GiveUp(j)   == End(j, "failed")
TryAgain(j) == life[j].n + 1 < Limit(j) /\ End(j, "waiting")

AskToStop(j) ==
  /\ life[j].st = "processing"
  /\ life' = [life EXCEPT ![j].asked = TRUE]

CancelWaiting(j) == Move(j, "waiting", "cancelled")
CancelRunning(j) == life[j].asked /\ Move(j, "processing", "cancelled")

(* A failed job nobody asked to stop may be given a new budget.            *)
StartOver(j) ==
  /\ life[j].st = "failed"
  /\ ~life[j].asked
  /\ life' = [life EXCEPT ![j].st = "waiting", ![j].n = 0]

LifeNext ==
  \E j \in Jobs :
    \/ Submit(j) \/ Start(j) \/ Succeed(j) \/ GiveUp(j) \/ TryAgain(j)
    \/ AskToStop(j) \/ CancelWaiting(j) \/ CancelRunning(j) \/ StartOver(j)

LifeSpec == LifeInit /\ [][LifeNext]_life
=============================================================================
