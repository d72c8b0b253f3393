# A verification development for the job processor

The repository is an asynchronous job processor: a FastAPI service accepts jobs,
Postgres holds them, Redis streams deliver them to workers, and a ticker
repairs what a failure left half done. Its promise is in DECISIONS.md and in
the design documents under `docs/superpowers/specs`: an accepted job is never
lost, never runs more often than its budget allows, and can be cancelled. That
promise rests on a handful of guarded `UPDATE`s and on the order of commits and
Redis commands in four programs that run concurrently and may die between any
two of them, which is what this development models.

## 1. Inventory

| Component | State it keeps | Operations | Interacts with |
|---|---|---|---|
| Jobs table (`app/repository.py`, `models/job.py`) | status, attempts, `is_synced_to_redis`, `cancel_requested_at`, `scheduled_at` per job | one guarded `UPDATE` per transition | all processes; the status guard is the only lock |
| Retry policy (`app/retry.py`) | none | `schedule_retry_or_fail`: fail, retry at once, or retry after a backoff | worker and reaper; writes the row, then Redis, then the row |
| Queue (`app/queue/*`) | three priority streams, one consumer group with its pending entries list (PEL), the delayed ZSET | `XADD`, `XREADGROUP`, `XACK`, `XAUTOCLAIM`, `ZADD`, `ZRANGEBYSCORE`, `ZREM` | API, workers, ticker |
| API (`app/api/routes.py`) | one session per request | submit, manual retry, cancel | commits the row, then Redis, then `mark_synced` |
| Worker (`app/worker/*`) | a read loop, `worker_concurrency` task slots | read by priority, claim, run, end the attempt, acknowledge, drain on SIGTERM or memory limit | table and queue |
| Ticker (`app/ticker/runner.py`) | one pass at a time | `promote_due`, `reconcile_orphans`, `reap_stale` | table and queue |
| Authentication (`app/auth/*`, `api/deps.py`) | token cache, ServiceAccount token | `get_current_user`, `TokenReviewer.review`, `TokenCache.get/put` | in front of every route; the cluster's TokenReview |
| Request admission (`api/ratelimit.py`, `api/middleware.py`) | body buffered so far; a counter per user and the Lua script, in Redis | body limit, rate limit, reload of the script | in front of the routes |
| Idempotency, pagination (`idempotency.py`, `cursor.py`) | unique index on user and key | replay or conflict; keyset pages | submit and list routes |
| Process life (`main.py`, `worker/runner.py`, `ticker/runner.py`, `core/healthcheck.py`) | consumer group, heartbeat, stop flag | start-up, `ensure_group`, main loop, drain, `/health`, worker count of `/stats` | Redis, orchestrator, operator (the runbook for the loss of Redis) |
| Batch context (`worker/context.py`, `jobs/*`) | progress, cached cancellation flag, time of the last poll | poll between items, write the percentage | jobs table |
| Metrics, traces, logs (`observability.py`, `core/*`) | none | output | none changes job state |

What makes it hard, and what correctness means for each part:

* **Two stores without a common transaction.** A row is committed before Redis
  knows of it, and marked as handed over afterwards. Correct: a row that waits
  to run is always findable by somebody (`NoLostJob`), and what is not lost ends (`EveryJobEnds`).
* **At-least-once delivery.** Messages are duplicated by crashes, by the
  reconciler and by promotion. Correct: one execution at a time
  (`NoDuplicateRun`), within the budget (`AttemptsWithinBudget`), not before it
  is due (`NotBeforeDue`), and a final status is final (`FinalIsFinal`).
* **Leases by timeout.** A claimed job is recovered through its pending entry
  once that has been idle for `visibility_timeout_s`. Correct: a claimed job
  always has such an entry (`LeaseReapable`), so that no claim and no pending
  entry lasts for ever (`ProcessingEnds`, `PelDrains`).
* **Guards without a lease id.** Every write tests the status alone, so a late
  worker cannot be told from the current one. Correct: the row still follows the
  lifecycle (`ImplementsLifecycle`).
* **Cancellation by several actors.** Request, batch handler and worker share
  it. Correct: a running job is cancelled only if somebody asked
  (`CancelOnlyIfAsked`), and a 200 is true (`CancelAnswerTrue`).
* **A cache in front of a remote authority.** Correct: revocation takes effect in
  bounded time (`RevocationBounded`; within one TTL, says a comment: `RevokedWithinTTL`), the cache is bounded (`CacheBounded`), and a
  rotated credential is noticed (`RotationAbsorbed`).

* **A key instead of a lock.** Two submissions with one idempotency key race
  between lookup and insert, and either may die at any point. Correct: they
  behave as if each were one step (`ImplementsKeyBook`), and what a dead request
  left behind is still visible to the reconciler (`UnqueuedIsUnsynced`).
* **Reading page by page while others write.** Correct: a listing shows what was
  there all along exactly once (`ListingComplete`); a reconcile pass hands over
  everything it owes (`PassComplete`).
* **A group that starts at "$", and a Redis that may come back empty.** Correct:
  a handoff that is marked went where the group delivers, outside the outage that
  the runbook repairs (`SyncedIsInReach`).
* **Telling busy from hung.** Correct: a worker that waits for a slot and for a
  message stays healthy and counted (`BusyIsHealthy`, `BusyIsCounted`), and it has
  drained when its grace period ends (`DrainWithinGrace`).
* **A handler that polls rarely and remembers.** Between polls a batch works with an
  old answer, and its percentage outlives the attempt. Correct: no item begins long
  after a request to cancel (`CancelHeeded`), the request ends the batch for good
  (`CancelSettles`), and progress never runs ahead of the work (`ProgressIsHonest`).
* **Caches of the API in Redis.** Correct: a lost script cache costs no request
  (`ScriptLossAbsorbed`).

## 2. Modules

| Module | Models | Remarks |
|---|---|---|
| `JobRow` | `repository.py`, `retry.py` | constant level: guard and effect of each `UPDATE`, the retry decision |
| `Store` | Redis, and the state of all processes | variables, types, `Init` |
| `Api` | `routes.py` | one action per step between two awaits of a request |
| `Worker` | `worker/runner.py`, `queue/consumer.py`, `worker/context.py` | read loop and tasks |
| `Ticker` | `ticker/runner.py`, `queue/delayed.py` | the three passes, step by step |
| `JobProcessor` | the composition and the clock | `Next`, fairness, properties, refinement mapping |
| `JobLifecycle` | the abstract promise about one job | shown to be implemented by `JobProcessor` |
| `MCJobProcessor` | constants for TLC | with the `.cfg` files |
| `Auth`, `MCAuth` | `auth/*`, `api/deps.py` | independent of the job state |
| `Admission` | `api/middleware.py`, `api/ratelimit.py` | what a request passes before its route |
| `Submission`, `MCSubmission` | `submit_job`, `idempotency.py`, the unique index | EXTENDS `Admission`; requests may end between any two steps |
| `KeyBook` | the abstract promise about idempotency keys | shown to be implemented by `Submission` |
| `Pages` | `list_jobs`, `cursor.py`, the pages of `reconcile_orphans` | both readers against the same writers; TLC runs it from `MCSubmission` |
| `Group` | `ensure_group`, start-up, the steps of a handoff, loss of Redis, the runbook | whether handoffs go where the group delivers; TLC runs it from `MCFleet` |
| `Fleet`, `MCFleet` | main loop of a worker over time, `healthcheck.py`, `live_worker_count` | time only; no job state |
| `BatchRun`, `MCBatchRun` | `jobs/handlers.py`, `worker/context.py`, the batch side of `process_job` | EXTENDS `JobRow`; attempts of one batch, item by item |
| `TypeProofs`, `RunProofs`, `DeliveryProofs` | theorems about `JobProcessor`; the last two EXTEND `TypeProofs` | section 5 |
| `AuthProofs`, `BatchProofs`, `SubmissionProofs`, `PagesProofs`, `FleetProofs` | theorems about the module of that name, `FleetProofs` also about `Group` | section 5 |

### State and actions against the code

Each Redis command and each committed transaction is one step; everything a
coroutine does between two of them is part of the step before. A process's
program counter names the next step it will take.

* `row[j]` is a row of the table. `wait` says that `scheduled_at` is in the
  future. Timestamps, payload and error are left out: no property and no guard
  of the modelled code depends on them. Result and progress are in `BatchRun`.
* `stream[k]` holds the entries the group has not been given yet, in order;
  `pel` those delivered and not acknowledged; `zset[j]` is `none`, `wait` (score
  in the future) or `due`.
* Time has no numbers. `ClockPasses(j)` is the moment `scheduled_at` of job `j`
  is reached: it turns `wait` into `due` wherever that time is kept, so row and
  ZSET cannot disagree about it. The visibility timeout is `Stale(m)`: an entry
  may be claimed by the reaper as soon as no live task holds it when `Timely`
  is TRUE, and at any moment when it is FALSE. The reconcile grace is `PastGrace`.
* `task[t]` is one slot of a worker: `claim`, `load` (claimed, snapshot not read
  yet), `run`, `cancel`, `handoff`, `sync`, `ack`. `att` is the `attempts` of the
  snapshot, which `schedule_retry_or_fail` decides with, while the `UPDATE` adds
  one to the current value.
* `pull[p]` is the read loop: a non-blocking probe per stream in priority order,
  then the blocking read over all of them, which delivers the head of *every*
  non-empty stream (`COUNT` holds per stream) and uses the first.
* An exception in one task cancels the whole `TaskGroup`, so it is the same as
  the death of the process: `Crash`. A loser of a guarded update does not
  acknowledge (`AckIff`); its entry stays for the reaper.
* `req[c]` is a request. In the cancel route, `obj` is the ORM object of the
  session: the second `session.get` returns it instead of reading the row, and
  an ORM-enabled `UPDATE` changes it in memory when it meets the criteria there,
  whether or not the database matched a row.
* `tick` is the ticker: one process (DECISIONS.md, the section on the single
  ticker), one pass at a time, each pass working from what it read at its start.

What is abstracted: batch sizes and the second page of `reconcile_orphans` (a
pass takes everything there is), `XAUTOCLAIM` hands over one entry at a time,
poison messages (acknowledged and dropped), ownership
other than rows without owner. Stream ids are drawn from the finite set `Copies`
and used again once no queue and no process knows them; Redis never does that,
and nothing can tell.

In `Admission` and `Submission`, `call[c]` is a request and `got` the bytes the
middleware has buffered; a request is let in by the counter of its user, and an
`EVALSHA` that Redis does not know goes through `ReloadScript` once. The handler
has one step per awaited statement. `Drop` ends a request anywhere: the process
dies, the client goes away, or the answer has been read. `table[j].queued` records
that Redis was given the job. The refinement mapping of `ImplementsKeyBook` lets a
request count from the moment it is let in; it is carried out by the commit of its
`INSERT` or by the lookup that found the row.

In `Pages`, a row is known by its place in the order of `(created_at, id)`; rows
appear at any place, since `created_at` is the start of a transaction. `walk.steady`
and `pass.owed` are history variables: what a reader has to deliver as long as
nobody else writes the row. `Loaded` is the identity map of the session, which
returns the objects of the page before. Handing over and marking (`Give`) is one step
here, and of the writers only those are there that can change what a reader owes:
promotion leaves a row waiting, and a cancelled row is like an ended one. The two readers do not touch what the other
one reads, so only one of them is under way at a time.

In `Group`, `hand[x][j]` is the next step of process `x` about job `j`: each commit, each
Redis command and each `mark_synced` is a step of its own, and `Fall` ends a process with
all it has in hand, between a read and its claim as much as between the steps of a
handoff. Entries are not counted: a job of which the group has had an entry (`given`)
may be read and reaped again, so the model has every duplicate the code can have.
`owed` and `late` are history variables: the jobs an outage has cost their place in Redis,
until the runbook (`CreateGroup`, `Rearm`, `Reset`) or another handoff has seen to them, and those
that only the `mark_synced` of an overtaken handoff calls synced, which a
counterexample of section 3 is about. What becomes of an entry once the group delivers it is in `JobProcessor`.

In `Fleet`, `Tick` is a unit of time. A process does at once what it
can do, except that between two heartbeats it may be late for `Slack` units, and a
handler ends within `Timeout` plus that slack. When a message is there to be read and how
long its task takes is left open. SIGTERM sets a flag that the head of
the loop tests; the memory limit is a choice there.

In `BatchRun`, `row` is a row of `JobRow`, `progress` and `result` its other two
columns (`result` counts the items of the summary), and `h[p]` an attempt with its
`PgJobContext`: `since` is the age of `_last_poll`, `wait` that of the call of the poll
under way, whose `UPDATE` or `SELECT` (`Poll`) lies between call and answer. `asked`
and `late` are history variables: the age of the first request to cancel, and that
the reaper has taken the row from a live handler. Claiming and loading
is one step, and so are a manual retry and its handoff: their interleavings are in
`JobProcessor`. Percentages are rounded down; the code's floating-point quotient
does the same below fifty items, and is one lower for 29 of 50 and a few more.

In `Auth`, time is a number. `cached`, `expires` and `older` are the dict of
`TokenCache` with its insertion order; `call[c]` is a request inside
`get_current_user`. The cluster answers a review with what is true at that
moment, and the answer is under way for at most `Timeout`. The code passes
`auth_timeout_s` to httpx, which applies it to each network operation of a request
(connect, write, read), so `Timeout` stands for their sum and not for the setting.

## 3. Runs

Passing:

| Run | Environment | Shows |
|---|---|---|
| `dying_workers` | one job with three attempts, two workers, a cancellation; a worker dies in a handler or a request after the commit | `TypeOK`, `NoLostJob`, `NoDuplicateRun`, `AttemptsWithinBudget`, `ImplementsLifecycle` |
| `two_jobs` | a batch job and a row without owner, two priorities, two slots in one process, a manual retry, a cancellation, a crash in a handler | `LeaseReapable`, `CancelOnlyIfAsked`, `FinalIsFinal`, `ImplementsLifecycle` |
| `claims_end` | any process dies at any step, workers are stopped, fair scheduling | `ProcessingEnds`, `PelDrains`, `EveryJobEnds` |
| `settled` | delayed retries, two crashes of any processes at any step, late workers, a manual retry and a cancellation; every step except those of `Losing` and `Outrunning` | `NoLostJob`, `NotBeforeDue`, `FinalIsFinal` |
| `auth` | two requests, four tokens, room for two entries, two rotations | `AuthTypeOK`, `RevocationBounded`, `CacheBounded`, `RotationAbsorbed` |
| `submissions` | two requests of two users with the same key, the same and other payloads, one without a key, one forbidden; requests end anywhere, Redis forgets the script. For `Pages`: four rows, one of another user and one without a time, pages of one and two rows, a retry | `SubTypeOK`, `ScriptLossAbsorbed`, `UnqueuedIsUnsynced`, `ImplementsKeyBook`; `PagesTypeOK`, `ListingComplete`, `PassComplete` |
| `batch` | a batch of none to three items, two workers; handlers time out, fail and die, the reaper may take the row from a live one; cancellation, any number of manual retries | `BatchTypeOK`, `ProgressIsHonest`, `CancelHeeded`, `CancelSettles` |
| `fleet` | a worker with two slots over time, started, told to stop, dying. For `Group`: API, worker and ticker start, stop and die between any two commands, Redis loses its data twice, the runbook is followed at any time | `FleetTypeOK`, `BusyIsHealthy`, `BusyIsCounted`; `SyncedIsInReach` |

`submissions` and `fleet` each explore two modules that share no variable, one of them while the other
is at rest: their steps are independent, so a property of one of them sees no difference.

Disagreements between code and documentation; each run ends in a counterexample:

| Run | What happens |
|---|---|
| `lost_zrem_race` | Between the `XADD` and the `ZREM` of a promotion a worker runs the job, it fails, and the retry is put into the ZSET: the `ZREM` removes it. No crash is needed. |
| `cancel_answer_false` | The second round of the cancel route works on the object of the first one and answers 200 while the row waits for its third attempt, which then runs. With no attempt left the same answer is given for a completed or failed job, where `README.md:160` of the repository promises 409. |
| `revoked_past_ttl` | A positive answer that is under way when the token is revoked starts the TTL when it arrives; another request is let in by that entry more than one TTL after the revocation. The comment of `TokenCache` says that revocation propagates within one TTL and that races cost at worst a second review. |
| `drain_exceeds_grace` | SIGTERM arrives while the loop waits for a slot or a message. It takes one more job before it tests the flag, and the drain waits for that job: up to two handler timeouts and the block time, where 50 s of grace cover one timeout. |

The same model has further counterexamples that no run is kept for. Each is
found from `cancel_answer_false.cfg` with the changes given, the first from `two_jobs.cfg`:

| Property | Change | What happens |
|---|---|---|
| `NoLostJob` | `MaxCrashes = 0` | `COUNT` holds per stream: the blocking read returns a message from each of two streams, the worker uses `batch[0]`, and the reaper discards the other one. The design (`2026-07-01-priority-scheduling-design.md:145`) says that the worker must process and acknowledge every returned message. No crash is needed. |
| `NoLostJob` | `MaxCrashes = 1`, `Faults = {"claim"}` | A worker dies between `XREADGROUP` and `claim_job`. The reaper finds the row pending and synced, takes its message for a stale duplicate ("fresh message already live", says the comment at `ticker/runner.py:144`) and acknowledges the only one there is. `DECISIONS.md:14` says that all jobs of a worker that crashes are recovered by the reaper path. |
| `NoLostJob` | `MaxCrashes = 1`, `Faults = {"handoff"}` | The `mark_synced` of a submission (by id, unguarded) marks the row of the first retry as handed over; its worker dies before the handoff, and the reconciler, which `DECISIONS.md:58` counts on here, does not see the row. |
| `NotBeforeDue` | `Backoff <- ThenDelayed` | `claim_job` accepts a scheduled row whatever its `scheduled_at`. The reconciler enqueues an immediate retry again whose `mark_synced` is still to come (its grace counts from `created_at`), and the second message starts the next retry before its backoff. No crash is needed. |
| `NoDuplicateRun` | `MaxCrashes = 2`, `Faults = {"api", "claim"}`, `Copies = {1, 2, 3}` | A message left pending by a death before `claim_job` leads the reaper to a row that a live worker processes from another message; the retry runs beside it. |
| `AttemptsWithinBudget` | the same and `MaxAttempts = 2` | The late worker decides with an old snapshot, and the row goes over its budget. |
| `CancelOnlyIfAsked` | the same as for `NoDuplicateRun`, `Batch = {j1}`, `MaxRetries = 1` | A batch attempt that lost its row takes this for a cancellation and cancels the attempt that took over. |
| `LeaseReapable` | `Timely = FALSE` | A worker held up before `claim_job` for the visibility timeout claims after the reaper has acknowledged its message. |

These counterexamples bound what the passing runs and the theorems can say. `settled` has
everything else: its specification leaves out the steps that
`Losing` and `Outrunning` name (section 5), and nothing more. `dying_workers` and `two_jobs` let workers
die inside handlers only, where one attempt at a time and the budget hold.

`EveryJobEnds` says that an accepted job ends or is lost for good; a job is lost by the steps
of `Losing` only, so whatever else dies, it ends.

And one from `drain_exceeds_grace.cfg` with `DrainIsHealthy` as the invariant: the
heartbeat does not beat while a worker drains, so a worker that leaves the loop after
a long wait and drains a job that takes its full time is reported stale by `/health`
(with the defaults at 60 s, when it may need 95 s), although a test of the health
server says that draining is not dead. Whether the orchestrator acts on it depends on
how many failures its probe tolerates.

`ProgressIsHonest` holds as long as no live handler has lost its row (`late`):
`init_progress` and the poll test the status alone, so such a handler writes its percentage over that of the attempt
that took over. And it says nothing about a row that waits: between a manual retry
and the next claim the API shows the percentage of the failed attempt.

For `Auth`, the bound that holds, and that is proved, is one TTL plus the
time of an answer (`Window` in `RevocationBounded`).

## 4. Bounds, symmetry, fairness

* One job is enough for most questions: jobs interact only through the order of
  a stream, the batches of the ticker and the slots of a worker; `two_jobs` has
  two. Two workers are needed for every race between
  attempts.
* `Copies` bounds the entries a job has at a time. In the passing runs it is
  large enough never to hold up an `XADD`: one more copy leaves the number of
  distinct states of each as it is. `settled` is the exception: with late workers and
  any death, duplicates have no natural limit, and two copies give a job one duplicate at a time.
* `MaxAttempts` 2 or 3 gives a first, a middle and a last attempt. `MaxCrashes`
  and `MaxRetries` cap what the environment does. `Backoff` takes the shapes
  `[0]`, `[30]` and `[0, 30]` of `retry_backoff_schedule`; only zero or not zero matters.
* `Faults` names the task states in which a process may die, and `api`, `ticker`
  and `stop`. It separates the crashes the design recovers from from those it does not.
* `Timely` stands for the validator in `core/config.py`
  (`job_handler_timeout_s < visibility_timeout_s`) and for a submission that ends
  within `reconcile_grace_s`. It is an assumption on a live process, not one the
  code enforces outside the handler.
* Delayed retries are in `settled` and `lost_zrem_race`, and, for every schedule, in the theorems.
* `submissions` has a limit of one byte and one request per window, so that both
  limits are met and passed; two job ids are enough for one row per key and one
  more. Clients and job ids are interchangeable.
  `Pages` has more rows than a page of either reader. A page of the reconciler full of rows without
  a time (`Untimed`) would come back for ever, but no write of `repository.py` makes such a row.
* In `batch`, `Interval = 2` and `Latency = 1`: a poll may take time, and less
  than the interval; three items are enough for one poll, a cached answer and another
  poll. `Latency` is an assumption: the code bounds a poll only by the timeout of the
  whole handler. Nothing else is bounded.
* In `fleet`, `Timeout = 4`, `Block = 2`, `Slack = 2` and `Visibility = 7` keep the order
  of the defaults (45, 5, 10 and 60 s). Clocks stop where a larger value makes no
  difference.
* For `Group`, `fleet` has one process of each kind and one job: the losses and handoffs of
  different jobs do not meet, since a process's steps about them are independent.
  The job is on the second of two streams, so that there is a start-up which has
  ensured one group and not the other. Two losses let an outage come during the
  repair of another. With two API processes and one loss the property holds too (1 540 000 states).
* Worker processes are interchangeable, so safety runs with one slot per process
  permute them. The liveness run uses no symmetry. `claims_end` has one worker, so that TLC can
  check three liveness properties in time; it is started again whenever it has died.
* In `auth`, `TTL = 1`, `Timeout = 1` and `MaxTime = 2` let an answer arrive late,
  be used from the cache and expire; three members compete for two
  entries, and it takes two rotations to make the second post fail too.

Fairness. A coroutine whose database or Redis call has returned is resumed by the
event loop: weak fairness of each request's and each task's next step, of the
ticker's step within a pass and of the restart of a stopped process (the
orchestrator's policy). Time passes: weak fairness of `ClockPasses`. The read loop
returns to every read as long as the process lives, and the ticker starts each of
its passes again and again while other passes come in between, so those have
strong fairness. In `BatchRun`, an attempt goes on (no handler waits for ever, and a
timeout ends one that would) and the reaper comes back to a row it may take: weak
fairness of `Attempt` and `Reap`. Users are not obliged to do anything, and no fault must happen.

## 5. What is proved

Every safety property that a passing run checks is also the subject of a theorem,
with the hypotheses given below. Each holds for
every value of the constants that meets the assumption of its module: any number of
jobs, workers, slots, streams, rows and requests, any budget, backoff schedule, page
size and timing. The assumptions (`JobRowAssumption`, `StoreAssumption`,
`AuthAssumption`, `AdmissionAssumption`, `SubmissionAssumption`, `PagesAssumption`,
`GroupAssumption`, `FleetAssumption`, `BatchRunAssumption`) give the constants their
types and keep the markers for "none" apart from real values. They also say that a
budget, a page size, a poll interval, the size of the token cache and the length of the
backoff schedule are not zero, and in `FleetAssumption` that the handler timeout with its
slack is below the visibility timeout (the validator in `core/config.py`, which compares
the timeouts alone), and that so is the block time, as the defaults have it.

### The job processor

| Theorem | Hypotheses | Property |
|---|---|---|
| `TypeCorrect` (`TypeProofs`) | none | `TypeOK` |
| `FinalStaysFinal` (`TypeProofs`) | none | `FinalIsFinal` |
| `LeaseIsReapable` (`RunProofs`) | `Timely` | `LeaseReapable` |
| `NeverRunsTwice` (`RunProofs`) | `CleanDeaths`, `OneDelivered` | `NoDuplicateRun` |
| `StaysWithinBudget` (`RunProofs`) | `CleanDeaths`, `OneDelivered` | `AttemptsWithinBudget` |
| `CancelledOnlyIfAsked` (`RunProofs`) | `CleanDeaths`, `OneDelivered` | `CancelOnlyIfAsked` |
| `LifecycleImplemented` (`RunProofs`) | `CleanDeaths`, `OneDelivered` | `ImplementsLifecycle` |
| `NothingElseLoses` (`DeliveryProofs`) | no step of `Losing` | `NoLostJob` |
| `OnlyDuplicatesStartEarly` (`DeliveryProofs`) | no step of `Outrunning` | `NotBeforeDue` |

The hypotheses name the environment; section 3 has a counterexample for what they
leave out, so they are limits of the code and not of the proofs.

* `CleanDeaths`: live tasks are timely, a worker dies only between the claim and the
  end of an attempt (while it loads, runs or cancels), and no pass of the ticker
  fails half-way. Requests may die anywhere and workers may be stopped. A death
  between `XREADGROUP` and `claim_job`, or between the end of an attempt and `XACK`,
  leaves a pending entry that does not stand for an attempt, and the reaper takes
  the next attempt's row by it.
* `OneDelivered`, a restriction of the steps: no read delivers a message that it does
  not hand to a task. `SingleStream` proves it for one stream. With several, the
  blocking read of two streams is the step it excludes.
* `Losing` names the three kinds of step by which this code can lose a job, each shown
  possible in section 3: a blocking read that is given messages of two streams (`ReadsTwo`), the death of a worker between `XREADGROUP` and `claim_job` (`DiesUnclaimed`), and a next attempt that is committed while the `mark_synced`, or the
  `ZREM` and flip, of an earlier handoff is still to come (`Overtaken`; `lost_zrem_race` is one case).
  `NothingElseLoses` says that there is no fourth: with any backoff, any fault of any process,
  late workers and any number of streams.
* `Outrunning` names the one kind of step by which a job can start too early: it is given
  a delay while a message of it is on its way or about to be sent.
  `OnlyDuplicatesStartEarly` says that there is no other, under as weak assumptions.

`dying_workers` meets `CleanDeaths` and `OneDelivered`, and with immediate retries no step outruns. It
does have steps that overtake, which lose nothing as long as no process dies between the
commit of a retry and its handoff: there `NoLostJob` is more than the theorem says. `two_jobs` has two streams, so the run also covers steps that `OneDelivered` excludes.

The arguments:

* Types are not inductive by themselves: a task that is about to claim must hold a
  message, or the row it writes would be nobody's. `TypeInv` adds `LocalOK`, what a
  process knows in the middle of its work. `FinalStaysFinal` follows from it: every
  write of a late actor is guarded by a status that is not final, and the two that
  are not guarded (`mark_synced`, the flip of a promotion) keep a final status.
* `LeaseInv` adds that every entry is in at most one place of one stream and not
  pending before it is delivered (`StreamsDistinct`), that what a task or the reaper
  holds is pending (`HeldIsPending`), and that a message is held by one of them only
  (`HeldOnce`). The last part is what `Timely` buys: without it the reaper may hold the
  message of a live task, acknowledge it, and leave the claim without protection.
  Each step either leaves claims and their messages alone (`LeaseKept`), or claims a
  row with a message that nobody else can acknowledge, or ends the claim before it
  acknowledges.
* `RunInv` adds the converse: a pending message that nobody is about to acknowledge
  stands for an attempt in progress (`Claimed`), and there is one such message per
  job (`ClaimedOnce`). So a second task or the reaper can reach a row that is being
  processed only by the message of its attempt, which is why status guards without a
  lease id are enough. With it the snapshots of a task and of the reaper are fresh
  (`TaskFresh`, `TickFresh`), so that the decision between retry and failure counts the
  right attempt and a row that may run has an attempt left (`RowsWithin`). For the
  refinement each action is shown to make one move of one row (`LifeMove`) or none.
* `KeptInv` adds to the types, for each row that waits: if it is synced, or if a process is about
  to mark it (`Marking`), it is in the ZSET or has a message before its claim, and if a promotion
  has sent it (`Promoting`) it has a message, so that the `ZREM` may take its entry away. The claims
  about processes in the middle of a handoff are what makes it inductive, since `mark_synced` and
  `ZREM` go by id. A row that comes to wait is unsynced, and `Overtaken` is exactly the case in which somebody
  is about to mark or remove it at that moment; every other step keeps the row where it is
  or moves it on (`KeepStep`), except the two that take a message away before the claim.
* `DueInv`: a row whose time has not come is scheduled and nobody who would not wait for it
  knows it (`UnderWay`), or it is cancelled. A claim needs such a message, so it finds a row that is due.

### The other components

* **Authentication** (`AuthTypeCorrect`, `RevocationIsBounded`, `RotationIsAbsorbed`,
  `CacheStaysBounded`; `AuthProofs`). `AuthInv` says when every entry of the cache expires,
  when a positive answer under way was given, and which version of the ServiceAccount
  token a review has sent. `CacheInv` says that the insertion order is a strict total
  order of a finite set of entries: an eviction then takes out exactly one, and a
  put adds at most one.
* **Batch** (`BatchTypeCorrect`, `ProgressStaysHonest`, `CancelIsHeeded`; `BatchProofs`).
  `BatchInv` bounds the percentage in the row, and the one a poll is about to write, by
  the items done; while the row has not been taken from a live handler, the handler
  that has it is the only one; and a cached answer "not cancelled" is at most as old as
  the last poll.
* **Submission** (`SubmissionTypeCorrect`, `NoneSyncedUnqueued`, `OneFlushAbsorbed`,
  `KeyBookImplemented`; `SubmissionProofs`). `SubInv` says what each request knows of the
  table at each of its steps (`Knows`): the row it made or found exists and has its
  user, key and hash, and a row it is about to mark has been queued. The refinement
  takes each step to a step of `KeyBook` or a stutter: the commit of the `INSERT`, or
  the lookup that finds the row, is where the abstract submission happens, and the
  unique index makes the loser of a race find the row of the winner.
* **Pages** (`PagesTypeCorrect`, `ListingMissesNothing`, `PassMissesNothing`; `PagesProofs`).
  `PagesInv`: what has been shown is on the near side of the cursor, every steady row on
  that side has been shown, a page that is not full holds everything that is owed, and
  what is still to do has not been handed over yet. `PagesAssumption` does not limit
  the rows without a time.
* **Fleet** (`FleetTypeCorrect`, `BusyWorkersCount`, `BusyWorkersHealthy`; `FleetProofs`).
  `FleetInv` says how long a worker has not read by what its tasks
  are doing (`IdleInv`). `AgesInv` bounds the age of the heartbeat by the place in the
  loop. `BusyWorkersHealthy` assumes that there is a slot: with `worker_concurrency = 0`,
  which the settings accept, the loop waits for a slot for ever.
* **Group** (`HandoffsReachTheGroup`; `FleetProofs`). `GroupInv` adds that a stream whose group a process
  has ensured has it still or has lost it (`Ensured`), that only a process which serves has
  work in hand (`HandsServe`), and that a handoff about to be marked, which nothing has overtaken, is in reach or
  owed (`MarksHold`). The first two make an `XADD` reach the group or count as lost, the third
  lets the unguarded `mark_synced` preserve the property.

TLC agrees with these invariants on the instances of section 3: `RunInv`
on `dying_workers` (978 489 states), `CacheInv` on `auth` (6 252 330),
`BatchInv` on `batch` (102 447), `SubInv` and `PagesInv` on `submissions` (449 280), `FleetInv`, `AgesInv`
and `GroupInv` on `fleet` (401 732), `KeptInv` and `DueInv` on `settled` (1 811 407).

## 6. What is only model-checked

* Liveness under fairness (`EveryJobEnds`, `ProcessingEnds`, `PelDrains`,
  `CancelSettles`) and anything about `ENABLED` is out of the prover's reach, as is
  induction over data.
* `CancelOnlyIfAsked` and `ImplementsLifecycle` with two streams whose messages the
  blocking read may fetch together: `two_jobs`, on its instance.
* `NoLostJob` in the presence of overtaken handoffs and immediate retries: `dying_workers`, on its
  instance.
* The disagreements of section 3, which are counterexamples.

## 7. Not modelled, and why

The values of a batch's item results; poison messages (acknowledged and dropped, by worker and reaper alike); `/ready`, metrics,
traces and logs (output only); payload validation beyond its two effects, the
rejection of a submission (`Route`) and of a job (`Reject`); connection pools; the
length of a ticker's tick, which no code bounds; migrations and deployment. The
rate limits of the other route groups are the same code with other counters.

## 8. Plan

1. Done: the job row, the queue, API, worker and ticker; the lifecycle; the first
   theorems; authentication.
2. Done: submission with idempotency keys and its abstract specification, request
   admission, pagination and the pages of the reconciler, start-up, loss of Redis,
   heartbeat and drain; the batch context.
3. Done: proofs of every safety property of the passing runs.
4. Done: `NoLostJob` and `NotBeforeDue` with delayed retries and every fault, by the steps that
   alone can break them; the handoff step by step in `Group`.
5. Next: `CancelOnlyIfAsked` and `ImplementsLifecycle` without `OneDelivered`, with an invariant
   that tells the message a read left behind from the one of an attempt; a bound on the
   drain that does hold (`DrainWithinGrace` with a grace period of two timeouts and a block).
