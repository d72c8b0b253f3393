------------------------------- MODULE JobRow -------------------------------
(***************************************************************************)
(* One row of the jobs table and the retry policy: what repository.py      *)
(* writes into a row, under which guard, and what retry.py decides about a *)
(* failed attempt.  Constant-level: every operator takes and returns a row *)
(* record.  The columns no property tells apart (payload, error,           *)
(* timestamps other than scheduled_at) are left out; result and progress   *)
(* are variables of BatchRun.                                              *)
(***************************************************************************)
EXTENDS Integers, Sequences

CONSTANTS
  Jobs,         \* job ids
  Batch,        \* the jobs of type "batch": one attempt, polled for cancellation
  Ownerless,    \* legacy rows whose user_id is NULL (created before migration 0008)
  MaxAttempts,  \* settings.max_attempts
  Backoff       \* settings.retry_backoff_schedule, in seconds

ASSUME JobRowAssumption ==
  /\ Batch \subseteq Jobs
  /\ Ownerless \subseteq Jobs
  /\ MaxAttempts \in Nat \ {0}
  /\ Backoff \in Seq(Nat)
  /\ Len(Backoff) > 0

Waiting == {"pending", "scheduled"}
Final   == {"completed", "failed", "cancelled"}
Status  == {"absent", "processing"} \cup Waiting \cup Final

(* A row: "absent" stands for a row that has not been inserted; wait says   *)
(* that scheduled_at still lies in the future.                              *)
Row == [status    : Status,
        attempts  : Nat,
        synced    : BOOLEAN,   \* is_synced_to_redis
        cancelReq : BOOLEAN,   \* cancel_requested_at IS NOT NULL
        wait      : BOOLEAN]

NoRow == [status |-> "absent", attempts |-> 0, synced |-> FALSE,
          cancelReq |-> FALSE, wait |-> FALSE]

(* What remains to be handed to Redis for a row: an entry of the stream, an *)
(* entry of the delayed ZSET whose score is in the future ("wait") or past  *)
(* ("due"), or nothing.                                                     *)
Handoff == {"none", "stream", "wait", "due"}

(***************************************************************************)
(* repository.py: the guard of each UPDATE and the values it writes.       *)
(***************************************************************************)
(* Mutant: a new row counts as handed over already.                        *)
create_job_synced(h) ==
  [NoRow EXCEPT !.status = IF h = "stream" THEN "pending" ELSE "scheduled",
                !.wait   = (h = "wait"), !.synced = TRUE]

create_job(h) ==
  [NoRow EXCEPT !.status = IF h = "stream" THEN "pending" ELSE "scheduled",
                !.wait   = (h = "wait")]

(* Mutants: only pending rows can be claimed; rows being processed too.    *)
CanClaimPending(r) == r.status = "pending"
CanClaimUnended(r) == r.status \in Waiting \cup {"processing"}

CanClaim(r) == r.status \in Waiting
claim_job(r) == [r EXCEPT !.status = "processing"]

(* Mutant of IsProcessing: a late worker may still replace a failure.      *)
IsProcessingOrFailed(r) == r.status \in {"processing", "failed"}

(* complete_job, fail_job, retry_to_*, cancel_job and request_cancel all   *)
(* test the status alone: no lease and no attempt number.                  *)
IsProcessing(r) == r.status = "processing"
complete_job(r) == [r EXCEPT !.status = "completed", !.attempts = @ + 1]
fail_job(r)     == [r EXCEPT !.status = "failed", !.attempts = @ + 1]
cancel_job(r)   == [r EXCEPT !.status = "cancelled"]
request_cancel(r) == [r EXCEPT !.cancelReq = TRUE]
retry_to_pending(r) ==
  [r EXCEPT !.status = "pending", !.attempts = @ + 1, !.synced = FALSE]
retry_to_scheduled(r) ==
  [r EXCEPT !.status = "scheduled", !.attempts = @ + 1, !.synced = FALSE,
            !.wait = TRUE]

CanReset(r) == r.status = "failed" /\ ~r.cancelReq
reset_failed_to_pending(r) ==
  [r EXCEPT !.status = "pending", !.attempts = 0, !.synced = FALSE]

CanCancel(r) == r.status \in Waiting
cancel_pending_or_scheduled(r) == [r EXCEPT !.status = "cancelled"]

(* Mutant: the UPDATE without its status guard.                            *)
promote_to_pending(r) == [r EXCEPT !.status = "pending"]

promote_scheduled_to_pending(r) ==
  [r EXCEPT !.status = IF @ = "scheduled" THEN "pending" ELSE @]

mark_synced(r) == [r EXCEPT !.synced = TRUE]

IsUnsynced(r) == ~r.synced /\ r.status \in Waiting

(* The handoff a waiting row still needs, as the reconciler and the reaper *)
(* read it off the row.                                                    *)
HandoffOf(r) == IF r.status # "scheduled" THEN "stream"
                ELSE IF r.wait THEN "wait" ELSE "due"

(***************************************************************************)
(* retry.py and the attempt budget given to a row when it is created.      *)
(***************************************************************************)
Budget(j) == IF j \in Batch THEN 1 ELSE MaxAttempts

backoff_delay(n) == Backoff[IF n <= Len(Backoff) THEN n ELSE Len(Backoff)]

(* Mutant: one attempt too many.                                           *)
ExhaustedLate(j, att) == att >= Budget(j)

(* schedule_retry_or_fail for a snapshot holding att finished attempts:    *)
(* what it writes into the row, and the handoff that follows.              *)
Exhausted(j, att) == att + 1 >= Budget(j)
Immediate(att)    == backoff_delay(att + 1) <= 0

RetryRow(j, att, r) ==
  IF Exhausted(j, att) THEN fail_job(r)
  ELSE IF Immediate(att) THEN retry_to_pending(r)
  ELSE retry_to_scheduled(r)

RetryHandoff(j, att) ==
  IF Exhausted(j, att) THEN "none"
  ELSE IF Immediate(att) THEN "stream"
  ELSE "wait"
=============================================================================
