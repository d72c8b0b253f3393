------------------------------ MODULE BatchRun ------------------------------
(***************************************************************************)
(* The attempts of one batch job, item by item (jobs/handlers.py           *)
(* handle_batch, worker/context.py PgJobContext, worker/runner.py          *)
(* process_job): what the handler keeps in memory of the row (the cached   *)
(* answer of its last poll, the percentage it last wrote) against what the *)
(* API, the reaper and a crash do to the row meanwhile.  Delivery is left  *)
(* to JobProcessor: here a waiting row can be claimed, and a row being     *)
(* processed can be reaped, when its handler is gone or under a live one   *)
(* that is late, so that two handlers may run at a time.                   *)
(*                                                                         *)
(* One Tick is a unit of time.  The code between two awaits takes none.    *)
(***************************************************************************)
EXTENDS JobRow

CONSTANTS
  TheJob,
  Workers,    \* who may run an attempt
  MaxItems,   \* a bound on the items of its payload
  Interval,   \* settings.cancel_poll_interval_s
  Latency     \* a bound on the time a poll takes in the database

ASSUME BatchRunAssumption ==
  /\ TheJob \in Batch
  /\ MaxItems \in Nat /\ Interval \in Nat \ {0} /\ Latency \in Nat

VARIABLES
  n,         \* len(payload.items)
  row,       \* the columns of JobRow
  progress,  \* the column progress; NoPct is NULL
  result,    \* how many items the summary in the column result accounts for
  h,         \* h[p]: the task of p that runs an attempt, with its PgJobContext
  asked,     \* units since the cancellation was requested
  late       \* the reaper has taken the row from a live handler

batchVars == <<n, row, progress, result, h, asked, late>>

NoPct == -1
Pct   == 0..100

(* Mutant: the percentage counts one item too many.                        *)
PctOfNext(i) == IF n = 0 THEN 100 ELSE (100 * (i + 1)) \div n

(* int(i / n * 100) if n else 100, after i items.                          *)
PctOf(i) == IF n = 0 THEN 100 ELSE (100 * i) \div n

MaxAsked == Interval + Latency + 1      \* what is older makes no difference

Run == [pc      : {"none", "init", "validate", "check", "ask", "told", "item", "cancel"},
        att     : Nat,                 \* job.attempts, loaded after the claim
        i       : 0..MaxItems,         \* items done
        pending : Pct,                 \* _pending_pct
        written : Pct \cup {NoPct},    \* _last_written_pct; NoPct is None
        since   : 0..Interval,         \* now - _last_poll; Interval if never polled
        wait    : 0..Latency,          \* since the poll under way was called
        cached  : BOOLEAN]             \* the answer: _cached, or the one on its way

NoRun == [pc |-> "none", att |-> 0, i |-> 0, pending |-> 0, written |-> NoPct,
          since |-> Interval, wait |-> 0, cached |-> FALSE]

BatchInit ==
  /\ n \in 0..MaxItems
  /\ row = [create_job("stream") EXCEPT !.synced = TRUE]
  /\ progress = NoPct
  /\ result = 0
  /\ h = [p \in Workers |-> NoRun]
  /\ asked = 0
  /\ late = FALSE

-----------------------------------------------------------------------------
(* process_job                                                             *)

unrow == <<n, row, progress, result, asked, late>>

Goto(p, pc) == h' = [h EXCEPT ![p].pc = pc]

Claim(p) ==
  /\ h[p].pc = "none" /\ CanClaim(row)
  /\ row' = claim_job(row)
  /\ h' = [h EXCEPT ![p] = [NoRun EXCEPT !.pc = "init", !.att = row.attempts]]
  /\ UNCHANGED <<n, progress, result, asked, late>>

(* Mutant: an attempt leaves the percentage of the last one in the row.    *)
keep_progress(p) ==
  /\ h[p].pc = "init"
  /\ progress' = IF progress = NoPct THEN 0 ELSE progress
  /\ Goto(p, "validate")
  /\ UNCHANGED <<n, row, result, asked, late>>

init_progress(p) ==
  /\ h[p].pc = "init"
  /\ progress' = IF IsProcessing(row) THEN 0 ELSE progress
  /\ Goto(p, "validate")
  /\ UNCHANGED <<n, row, result, asked, late>>

(* The attempt of p ends with row r, unless the row was taken from it.     *)
EndWith(p, r, pct, res) ==
  /\ row' = IF IsProcessing(row) THEN r ELSE row
  /\ progress' = IF IsProcessing(row) THEN pct ELSE progress
  /\ result' = IF IsProcessing(row) THEN res ELSE result
  /\ h' = [h EXCEPT ![p] = NoRun]
  /\ UNCHANGED <<n, asked, late>>

(* validate_payload: the handler starts, the policy rejects the job for    *)
(* good, or any other error counts as a failed attempt.                    *)
Validate(p) ==
  /\ h[p].pc = "validate"
  /\ Goto(p, "check")
  /\ UNCHANGED unrow

Reject(p) ==
  /\ h[p].pc = "validate"
  /\ EndWith(p, fail_job(row), progress, result)

(* HandlerTimeout cuts the handler off at an await, or a poll raises.      *)
AttemptFails(p) ==
  /\ h[p].pc \in {"validate", "ask", "told", "item"}
  /\ EndWith(p, RetryRow(TheJob, h[p].att, row), progress, result)

(* The loop is through, whether the last poll has written its percentage   *)
(* or not: complete_job writes 100.                                        *)
Complete(p) ==
  /\ h[p].pc = "check" /\ h[p].i = n
  /\ EndWith(p, complete_job(row), 100, h[p].i)

(* JobCancelled, with the summary of the items done so far.                *)
CancelJob(p) ==
  /\ h[p].pc = "cancel"
  /\ EndWith(p, cancel_job(row), progress, h[p].i)

-----------------------------------------------------------------------------
(* handle_batch and PgJobContext                                           *)

Obey(p) == IF h[p].cached THEN "cancel" ELSE "item"

(* cancelled() before an item: answered from the cache, or by a poll.      *)
cancelled(p) ==
  /\ h[p].pc = "check" /\ h[p].i < n
  /\ Goto(p, IF h[p].since >= Interval THEN "ask" ELSE Obey(p))
  /\ UNCHANGED unrow

(* _write if the percentage changed, _read otherwise.  Either way the      *)
(* answer is: stop, unless the row is processing and nobody asked.         *)
Poll(p) ==
  /\ h[p].pc = "ask"
  /\ progress' = IF h[p].pending # h[p].written /\ IsProcessing(row)
                 THEN h[p].pending ELSE progress
  /\ h' = [h EXCEPT ![p] = [@ EXCEPT !.pc = "told", !.written = h[p].pending,
                              !.cached = row.cancelReq \/ ~IsProcessing(row)]]
  /\ UNCHANGED <<n, row, result, asked, late>>

(* Mutant: the interval starts when the answer arrives.                    *)
AnswerStartsInterval(p) ==
  /\ h[p].pc = "told"
  /\ h' = [h EXCEPT ![p] = [@ EXCEPT !.pc = Obey(p), !.since = 0, !.wait = 0]]
  /\ UNCHANGED unrow

(* The poll returns: _last_poll is the time at which it was called.        *)
Answer(p) ==
  /\ h[p].pc = "told"
  /\ h' = [h EXCEPT ![p] = [@ EXCEPT !.pc = Obey(p), !.wait = 0,
             !.since = IF h[p].wait < Interval THEN h[p].wait ELSE Interval]]
  /\ UNCHANGED unrow

(* An item ends, well or badly (its error is collected): set_progress.     *)
ItemEnds(p) ==
  /\ h[p].pc = "item"
  /\ h' = [h EXCEPT ![p] = [@ EXCEPT !.pc = "check", !.i = h[p].i + 1,
                                     !.pending = PctOf(h[p].i + 1)]]
  /\ UNCHANGED unrow

-----------------------------------------------------------------------------
(* The other actors                                                        *)

Crash(p) ==
  /\ h[p].pc # "none"
  /\ h' = [h EXCEPT ![p] = NoRun]
  /\ UNCHANGED unrow

rest == <<n, progress, result, h, asked>>

(* _reap_one of a row being processed.                                     *)
Reap ==
  /\ IsProcessing(row)
  /\ late' = (late \/ \E p \in Workers : h[p].pc # "none")
  /\ row' = RetryRow(TheJob, row.attempts, row)
  /\ UNCHANGED rest

(* POST /cancel of a row that waits or is being processed.                 *)
CancelWaiting ==
  /\ CanCancel(row)
  /\ row' = cancel_pending_or_scheduled(row)
  /\ UNCHANGED <<rest, late>>

RequestCancel ==
  /\ IsProcessing(row)
  /\ row' = request_cancel(row)
  /\ UNCHANGED <<rest, late>>

(* Mutant: a failed job can be retried although its cancellation was       *)
(* requested.                                                              *)
RetryAny ==
  /\ row.status = "failed"
  /\ row' = mark_synced(reset_failed_to_pending(row))
  /\ UNCHANGED <<rest, late>>

(* POST /retry, with its handoff: progress stays what it was.              *)
Retry ==
  /\ CanReset(row)
  /\ row' = mark_synced(reset_failed_to_pending(row))
  /\ UNCHANGED <<rest, late>>

UpTo(max, k) == IF k < max THEN k + 1 ELSE max

Polling(p) == h[p].pc \in {"ask", "told"}

Older(p) ==
  [h[p] EXCEPT !.since = IF Polling(p) \/ h[p].pc = "item" THEN UpTo(Interval, @) ELSE @,
               !.wait  = IF Polling(p) THEN @ + 1 ELSE @]

Tick ==
  /\ \A p \in Workers : /\ h[p].pc \notin {"check", "cancel"}
                        /\ Polling(p) => h[p].wait < Latency
  /\ asked' = IF row.cancelReq THEN UpTo(MaxAsked, asked) ELSE 0
  /\ h' = [p \in Workers |-> Older(p)]
  /\ UNCHANGED <<n, row, progress, result, late>>

Attempt(p) ==
  \/ init_progress(p) \/ Validate(p) \/ cancelled(p) \/ Poll(p) \/ Answer(p)
  \/ ItemEnds(p) \/ Complete(p) \/ CancelJob(p)

BatchNext ==
  \/ \E p \in Workers : \/ Claim(p) \/ Attempt(p) \/ Reject(p)
                        \/ AttemptFails(p) \/ Crash(p)
  \/ Reap \/ CancelWaiting \/ RequestCancel \/ Retry \/ Tick

BatchSpec == /\ BatchInit /\ [][BatchNext]_batchVars
             /\ \A p \in Workers : WF_batchVars(Attempt(p))
             /\ WF_batchVars(Reap)

-----------------------------------------------------------------------------
BatchTypeOK ==
  /\ n \in 0..MaxItems
  /\ row \in Row
  /\ progress \in Pct \cup {NoPct}
  /\ result \in 0..n
  /\ h \in [Workers -> Run]
  /\ asked \in 0..MaxAsked
  /\ late \in BOOLEAN

(* What GET /jobs/{id} shows as progress never runs ahead of the items     *)
(* done in the attempt it is about, although percentages are written late, *)
(* a handler may die at any point, and a retry leaves the old percentage   *)
(* in the row; a completed batch shows 100 even if no poll wrote it.  A    *)
(* late handler that has lost its row does write into the next attempt.    *)
ProgressIsHonest ==
  /\ ~late /\ IsProcessing(row) =>
       \A p \in Workers : h[p].pc \notin {"none", "init"} => progress \in 0..PctOf(h[p].i)
  /\ ~late /\ row.status = "cancelled" /\ result > 0 => progress \in 0..PctOf(result)
  /\ row.status = "completed" => progress = 100 /\ result = n

(* A request to cancel stops the batch although polls are cached: no item  *)
(* begins once the request is as old as the poll interval, unless the poll *)
(* that lets it begin took that long itself.  This holds for a handler     *)
(* whose row was taken from it, too.                                       *)
ItemBegins   == \E p \in Workers : h[p].pc # "item" /\ h'[p].pc = "item"
CancelHeeded == [][ItemBegins /\ row.cancelReq =>
                     asked < Interval \/ asked <= Latency]_batchVars

(* A batch whose cancellation was requested comes to an end and is never   *)
(* run again, whichever of handler, timeout, crash and reaper ends it.     *)
CancelSettles == row.cancelReq ~> [](row.status \in Final)
=============================================================================
