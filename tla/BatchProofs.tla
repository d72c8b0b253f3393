---------------------------- MODULE BatchProofs -----------------------------
(***************************************************************************)
(* The attempts of a batch job, for every number of items and of workers,  *)
(* every poll interval and every latency of the database.                  *)
(***************************************************************************)
EXTENDS BatchRun, TLAPS

(***************************************************************************)
(* The inductive invariant.                                                *)
(***************************************************************************)

Live(p) == h[p].pc # "none"

(* What a handler keeps in memory: it never counts more items than there   *)
(* are, and the percentage it will write is not ahead of them.             *)
CountOK(r) ==
  /\ r.i <= n
  /\ r.pc \in {"ask", "told", "item"} => r.i < n
  /\ r.pending <= PctOf(r.i)
  /\ r.pc \in {"none", "init", "validate"} => r.since = Interval

(* A request to cancel that a handler does not know of is younger than the *)
(* poll that missed it.                                                    *)
HeedOK(r) ==
  row.cancelReq /\ ~r.cached =>
    /\ r.pc = "told" => asked <= r.wait
    /\ r.pc \in {"check", "item"} /\ r.since < Interval => asked <= r.since

(* Until the reaper takes the row from a live handler, there is at most    *)
(* one, and the row is its own.                                            *)
OwnerOK ==
  ~late => /\ \A p \in Workers : Live(p) => IsProcessing(row)
           /\ \A p, q \in Workers : Live(p) /\ Live(q) => p = q

(* The percentage in the row is one its handler has reached.               *)
Reached ==
  ~late => \A p \in Workers :
             h[p].pc \notin {"none", "init"} => progress \in 0..PctOf(h[p].i)

(* What an ended row says.                                                 *)
EndOK ==
  /\ result > 0 => row.status \in {"completed", "cancelled"}
  /\ ~late /\ row.status = "cancelled" /\ result > 0 => progress \in 0..PctOf(result)
  /\ row.status = "completed" => progress = 100 /\ result = n

BatchInv ==
  /\ BatchTypeOK
  /\ \A p \in Workers : CountOK(h[p]) /\ HeedOK(h[p])
  /\ OwnerOK /\ Reached /\ EndOK
  /\ ~row.cancelReq => asked = 0

(***************************************************************************)
(* Percentages and rows.                                                   *)
(***************************************************************************)

(* Integer division rounds down.                                           *)
LEMMA DivFloor ==
  ASSUME NEW a \in Nat, NEW b \in Nat, b > 0
  PROVE  /\ a \div b \in Nat
         /\ b * (a \div b) <= a
         /\ a < b * (a \div b) + b
OBVIOUS

(* More items are no smaller percentage.                                   *)
LEMMA DivMonotone ==
  ASSUME NEW a \in Nat, NEW c \in Nat, NEW b \in Nat, b > 0, a <= c
  PROVE  a \div b <= c \div b
<1> DEFINE x == a \div b
           y == c \div b
<1>1. x \in Nat /\ y \in Nat /\ b * x <= a /\ c < b * y + b
  BY DivFloor
<1> HIDE DEF x, y
<1>2. ASSUME y < x PROVE FALSE
  <2>1. x - y - 1 \in Nat
    BY <1>1, <1>2
  <2>2. b * x = b * y + b + b * (x - y - 1)
    BY <1>1
  <2>3. b * (x - y - 1) \in Nat
    BY <2>1
  <2> QED
    BY <1>1, <2>2, <2>3
<1> QED
  BY <1>1, <1>2 DEF x, y

(* Percentages lie between 0 and 100 and grow with the items done.         *)
LEMMA PctFacts ==
  ASSUME n \in Nat, NEW i \in Nat, i <= n
  PROVE  /\ PctOf(i) \in Pct
         /\ \A k \in Nat : k <= i => PctOf(k) <= PctOf(i)
<1>1. CASE n = 0
  BY <1>1 DEF PctOf, Pct
<1>2. CASE n > 0
  <2>1. (100 * n) \div n = 100
    BY <1>2
  <2>2. 100 * i \in Nat /\ 100 * n \in Nat /\ 100 * i <= 100 * n
    OBVIOUS
  <2>3. (100 * i) \div n \in Nat /\ (100 * i) \div n <= 100
    BY <1>2, <2>1, <2>2, DivFloor, DivMonotone
  <2>4. ASSUME NEW k \in Nat, k <= i
        PROVE  (100 * k) \div n <= (100 * i) \div n
    <3>1. 100 * k \in Nat /\ 100 * k <= 100 * i
      BY <2>4
    <3> QED
      BY <1>2, <2>2, <3>1, DivMonotone
  <2> QED
    BY <1>2, <2>3, <2>4 DEF PctOf, Pct
<1> QED
  BY <1>1, <1>2

(* What the statements write.                                              *)
LEMMA RowWrites ==
  ASSUME NEW r \in Row
  PROVE  /\ claim_job(r) \in Row /\ claim_job(r).status = "processing"
         /\ complete_job(r) \in Row /\ complete_job(r).status = "completed"
         /\ fail_job(r) \in Row /\ fail_job(r).status = "failed"
         /\ cancel_job(r) \in Row /\ cancel_job(r).status = "cancelled"
         /\ cancel_pending_or_scheduled(r) \in Row
         /\ cancel_pending_or_scheduled(r).status = "cancelled"
         /\ request_cancel(r) \in Row /\ request_cancel(r).status = r.status
         /\ mark_synced(reset_failed_to_pending(r)) \in Row
         /\ mark_synced(reset_failed_to_pending(r)).status = "pending"
<1>1. r.attempts \in Nat /\ r.attempts + 1 \in Nat
  BY DEF Row
<1> QED
  BY <1>1 DEF Row, Status, Final, Waiting, claim_job, complete_job, fail_job, cancel_job,
              cancel_pending_or_scheduled, request_cancel, mark_synced,
              reset_failed_to_pending

(* Only a new request changes whether a cancellation was requested.        *)
LEMMA AskedKept ==
  ASSUME NEW r \in Row
  PROVE  /\ claim_job(r).cancelReq = r.cancelReq
         /\ complete_job(r).cancelReq = r.cancelReq
         /\ fail_job(r).cancelReq = r.cancelReq
         /\ cancel_job(r).cancelReq = r.cancelReq
         /\ cancel_pending_or_scheduled(r).cancelReq = r.cancelReq
         /\ request_cancel(r).cancelReq = TRUE
         /\ mark_synced(reset_failed_to_pending(r)).cancelReq = r.cancelReq
BY DEF Row, claim_job, complete_job, fail_job, cancel_job, cancel_pending_or_scheduled,
       request_cancel, mark_synced, reset_failed_to_pending

(* A batch has one attempt: whoever ends it with an error fails the job.   *)
LEMMA OneAttempt == \A att \in Nat : RetryRow(TheJob, att, row) = fail_job(row)
BY BatchRunAssumption DEF RetryRow, Exhausted, Budget

(* A task without an attempt.                                              *)
LEMMA NoRunFacts ==
  /\ NoRun \in Run
  /\ NoRun.pc = "none" /\ NoRun.i = 0 /\ NoRun.pending = 0 /\ NoRun.since = Interval
BY BatchRunAssumption DEF NoRun, Run, NoPct, Pct

(* It is in order whatever the row says.                                   *)
LEMMA NoRunOK ==
  ASSUME n \in Nat
  PROVE  CountOK(NoRun) /\ HeedOK(NoRun)
<1>1. PctOf(0) \in Pct
  BY PctFacts
<1> QED
  BY <1>1, NoRunFacts DEF CountOK, HeedOK, Pct

(* The facts the steps below start from.                                   *)
LEMMA BatchFacts ==
  ASSUME BatchInv
  PROVE  /\ n \in Nat /\ n <= MaxItems /\ MaxItems \in Nat
         /\ row \in Row /\ progress \in Pct \cup {NoPct} /\ result \in 0..n
         /\ h \in [Workers -> Run] /\ asked \in Nat
         /\ \A p \in Workers : h[p] \in Run /\ CountOK(h[p]) /\ HeedOK(h[p])
         /\ IsProcessing(row) => result = 0
         /\ OwnerOK /\ Reached /\ EndOK /\ (~row.cancelReq => asked = 0)
<1>1. result \in 0..n => (result > 0 \/ result = 0)
  OBVIOUS
<1>2. n \in 0..MaxItems /\ asked \in 0..MaxAsked /\ MaxAsked \in Nat
  BY BatchRunAssumption DEF BatchInv, BatchTypeOK, MaxAsked
<1> QED
  BY <1>1, <1>2, BatchRunAssumption DEF BatchInv, BatchTypeOK, EndOK, IsProcessing

(***************************************************************************)
(* The steps.                                                              *)
(***************************************************************************)

(* A handler goes on with its attempt.                                     *)
LEMMA HandlerMoves ==
  ASSUME BatchInv, NEW p \in Workers, NEW v \in Run, Live(p), v.pc # "none",
         h' = [h EXCEPT ![p] = v], UNCHANGED <<n, row, result, asked, late>>,
         CountOK(v), HeedOK(v),
         progress' \in Pct \cup {NoPct}, IsProcessing(row) \/ progress' = progress,
         ~late /\ v.pc # "init" => progress' \in 0..PctOf(v.i)
  PROVE  BatchInv'
<1>0. /\ h \in [Workers -> Run] /\ result \in 0..n /\ n \in Nat
      /\ \A q \in Workers : CountOK(h[q]) /\ HeedOK(h[q])
      /\ IsProcessing(row) => result = 0
      /\ OwnerOK /\ Reached /\ EndOK /\ (~row.cancelReq => asked = 0)
  BY BatchFacts
<1>1. h' \in [Workers -> Run] /\ \A q \in Workers : h'[q] = IF q = p THEN v ELSE h[q]
  BY <1>0
<1>2. BatchTypeOK'
  BY <1>1 DEF BatchInv, BatchTypeOK, Row
<1>3. \A q \in Workers : (CountOK(h[q]) /\ HeedOK(h[q]))'
  BY <1>0, <1>1 DEF CountOK, HeedOK, PctOf
<1>4. OwnerOK'
  BY <1>0, <1>1 DEF OwnerOK, Live, IsProcessing
<1>5. Reached'
  <2> SUFFICES ASSUME ~late, NEW q \in Workers, h'[q].pc \notin {"none", "init"}
               PROVE  progress' \in 0..PctOf(h'[q].i)
    BY DEF Reached, PctOf
  <2>1. q = p
    BY <1>0, <1>1 DEF OwnerOK, Live
  <2> QED
    BY <1>1, <2>1
<1>6. EndOK'
  <2>1. CASE IsProcessing(row)
    BY <1>0, <2>1 DEF EndOK, IsProcessing
  <2>2. CASE progress' = progress
    BY <1>0, <2>2 DEF EndOK, PctOf
  <2> QED
    BY <2>1, <2>2
<1> QED
  BY <1>0, <1>2, <1>3, <1>4, <1>5, <1>6 DEF BatchInv

(* A handler is gone: nothing it knew matters any more.                    *)
LEMMA HandlerGone ==
  ASSUME BatchInv, NEW p \in Workers, h' = [h EXCEPT ![p] = NoRun],
         UNCHANGED <<n, asked, late>>, row'.cancelReq = row.cancelReq,
         ~late => \A q \in Workers : q # p /\ Live(q) => IsProcessing(row'),
         progress' = progress \/ \A q \in Workers : ~late /\ Live(q) => q = p
  PROVE  /\ h' \in [Workers -> Run]
         /\ \A q \in Workers : (CountOK(h[q]) /\ HeedOK(h[q]))'
         /\ OwnerOK' /\ Reached' /\ (~row.cancelReq => asked = 0)'
<1>0. /\ h \in [Workers -> Run] /\ n \in Nat
      /\ \A q \in Workers : CountOK(h[q]) /\ HeedOK(h[q])
      /\ OwnerOK /\ Reached /\ (~row.cancelReq => asked = 0)
  BY BatchFacts
<1>1. CountOK(NoRun) /\ HeedOK(NoRun) /\ NoRun \in Run /\ NoRun.pc = "none"
  BY <1>0, NoRunOK, NoRunFacts
<1>2. h' \in [Workers -> Run] /\ \A q \in Workers : h'[q] = IF q = p THEN NoRun ELSE h[q]
  BY <1>0, <1>1
<1>3. \A q \in Workers : (CountOK(h[q]) /\ HeedOK(h[q]))'
  BY <1>0, <1>1, <1>2 DEF CountOK, HeedOK, PctOf
<1>4. OwnerOK'
  BY <1>0, <1>1, <1>2 DEF OwnerOK, Live
<1>5. Reached'
  BY <1>0, <1>1, <1>2 DEF Reached, Live, PctOf
<1> QED
  BY <1>0, <1>2, <1>3, <1>4, <1>5

(* A crash leaves the row as it is.                                        *)
LEMMA CrashKeeps ==
  ASSUME BatchInv, NEW p \in Workers, Crash(p)
  PROVE  BatchInv'
<1> USE DEF Crash, unrow
<1>0. OwnerOK /\ EndOK
  BY BatchFacts
<1>1. /\ h' \in [Workers -> Run]
      /\ \A q \in Workers : (CountOK(h[q]) /\ HeedOK(h[q]))'
      /\ OwnerOK' /\ Reached' /\ (~row.cancelReq => asked = 0)'
  <2>1. ~late => \A q \in Workers : q # p /\ Live(q) => IsProcessing(row')
    BY <1>0 DEF OwnerOK
  <2> QED
    BY <2>1, HandlerGone
<1>2. BatchTypeOK'
  BY <1>1 DEF BatchInv, BatchTypeOK
<1>3. EndOK'
  BY <1>0 DEF EndOK, PctOf
<1> QED
  BY <1>1, <1>2, <1>3 DEF BatchInv

(* An attempt ends: the row says how, and with how many items.             *)
LEMMA HandlerEnds ==
  ASSUME BatchInv, NEW p \in Workers, Live(p), NEW r \in Row, NEW pct, NEW res,
         EndWith(p, r, pct, res),
         r.status \in {"completed", "failed", "cancelled"}, r.cancelReq = row.cancelReq,
         IsProcessing(row) =>
           /\ pct \in Pct \cup {NoPct} /\ res \in 0..n
           /\ r.status = "failed" => res = 0
           /\ r.status = "completed" => pct = 100 /\ res = n
           /\ r.status = "cancelled" /\ ~late => pct \in 0..PctOf(res)
  PROVE  BatchInv'
<1> USE DEF EndWith
<1>0. /\ row \in Row /\ progress \in Pct \cup {NoPct} /\ result \in 0..n
      /\ OwnerOK /\ EndOK
  BY BatchFacts
<1>1. row' \in Row /\ progress' \in Pct \cup {NoPct} /\ result' \in 0..n
  BY <1>0
<1>2. /\ h' \in [Workers -> Run]
      /\ \A q \in Workers : (CountOK(h[q]) /\ HeedOK(h[q]))'
      /\ OwnerOK' /\ Reached' /\ (~row.cancelReq => asked = 0)'
  <2>1. ~late => \A q \in Workers : Live(q) => q = p
    BY <1>0 DEF OwnerOK
  <2>2. row'.cancelReq = row.cancelReq
    OBVIOUS
  <2> QED
    BY <2>1, <2>2, HandlerGone
<1>3. BatchTypeOK'
  BY <1>1, <1>2 DEF BatchInv, BatchTypeOK
<1>4. EndOK'
  <2>1. CASE IsProcessing(row)
    BY <1>0, <2>1 DEF EndOK, PctOf
  <2>2. CASE ~IsProcessing(row)
    BY <1>0, <2>2 DEF EndOK, PctOf
  <2> QED
    BY <2>1, <2>2
<1> QED
  BY <1>2, <1>3, <1>4 DEF BatchInv

(* The reaper or a request writes the row of a job that has not ended for  *)
(* good.                                                                   *)
LEMMA RowMoves ==
  ASSUME BatchInv, UNCHANGED rest, row' \in Row, late' \in BOOLEAN,
         row.cancelReq => row'.cancelReq, late => late',
         row.status \notin {"completed", "cancelled"}, row'.status # "completed",
         ~late' => \A p \in Workers : Live(p) => IsProcessing(row')
  PROVE  BatchInv'
<1> USE DEF rest
<1>0. /\ result \in 0..n /\ \A p \in Workers : h[p] \in Run /\ CountOK(h[p]) /\ HeedOK(h[p])
      /\ OwnerOK /\ Reached /\ EndOK /\ (~row.cancelReq => asked = 0) /\ asked \in Nat
  BY BatchFacts
<1>1. BatchTypeOK'
  BY DEF BatchInv, BatchTypeOK
<1>2. ASSUME NEW p \in Workers
      PROVE  (CountOK(h[p]) /\ HeedOK(h[p]))'
  <2>1. h[p].wait \in Nat /\ h[p].since \in Nat
    BY <1>0, BatchRunAssumption DEF Run
  <2>2. CountOK(h[p])'
    BY <1>0 DEF CountOK, PctOf
  <2>3. HeedOK(h[p])'
    BY <1>0, <2>1 DEF HeedOK
  <2> QED
    BY <2>2, <2>3
<1>3. OwnerOK' /\ Reached'
  BY <1>0 DEF OwnerOK, Reached, Live, PctOf
<1>4. result = 0
  BY <1>0 DEF EndOK
<1>5. EndOK'
  BY <1>4 DEF EndOK
<1> QED
  BY <1>0, <1>1, <1>2, <1>3, <1>5 DEF BatchInv

(* The steps of the reaper and of the API.                                 *)
LEMMA OthersKeep ==
  ASSUME BatchInv, Reap \/ CancelWaiting \/ RequestCancel \/ Retry
  PROVE  BatchInv'
<1>0. /\ row \in Row /\ late \in BOOLEAN /\ OwnerOK
      /\ \A r \in Row : fail_job(r).status = "failed" /\ fail_job(r) \in Row
  BY BatchFacts, RowWrites DEF BatchInv, BatchTypeOK
<1>1. CASE Reap
  <2>1. row.attempts \in Nat
    BY <1>0 DEF Row
  <2>2. /\ row' = fail_job(row) /\ late' = (late \/ \E p \in Workers : Live(p))
        /\ IsProcessing(row) /\ UNCHANGED rest
    BY <1>1, <2>1, OneAttempt DEF Reap, Live
  <2>3. late' \in BOOLEAN /\ (late => late') /\ (~late' => \A p \in Workers : ~Live(p))
    BY <1>0, <2>2
  <2>4. /\ row' \in Row /\ row'.status = "failed" /\ row'.cancelReq = row.cancelReq
        /\ row.status = "processing"
    BY <1>0, <2>2, AskedKept DEF IsProcessing
  <2> QED
    BY <2>2, <2>3, <2>4, RowMoves
<1>2. CASE CancelWaiting
  <2>1. /\ row' = cancel_pending_or_scheduled(row) /\ late' = late /\ UNCHANGED rest
        /\ row.status \in Waiting
    BY <1>2 DEF CancelWaiting, CanCancel, rest
  <2>2. row' \in Row /\ row'.status = "cancelled" /\ row'.cancelReq = row.cancelReq
    BY <1>0, <2>1, RowWrites, AskedKept
  <2>3. ~late => \A p \in Workers : ~Live(p)
    BY <1>0, <2>1 DEF OwnerOK, IsProcessing, Waiting
  <2> QED
    BY <1>0, <2>1, <2>2, <2>3, RowMoves DEF Waiting
<1>3. CASE RequestCancel
  <2>1. /\ row' = request_cancel(row) /\ late' = late /\ UNCHANGED rest
        /\ row.status = "processing"
    BY <1>3 DEF RequestCancel, IsProcessing, rest
  <2>2. row' \in Row /\ row'.status = "processing" /\ row'.cancelReq = TRUE
    BY <1>0, <2>1, RowWrites, AskedKept
  <2> QED
    BY <1>0, <2>1, <2>2, RowMoves DEF IsProcessing
<1>4. CASE Retry
  <2>1. /\ row' = mark_synced(reset_failed_to_pending(row)) /\ late' = late
        /\ UNCHANGED rest /\ row.status = "failed"
    BY <1>4 DEF Retry, CanReset, rest
  <2>2. row' \in Row /\ row'.status = "pending" /\ row'.cancelReq = row.cancelReq
    BY <1>0, <2>1, RowWrites, AskedKept
  <2>3. ~late => \A p \in Workers : ~Live(p)
    BY <1>0, <2>1 DEF OwnerOK, IsProcessing
  <2> QED
    BY <1>0, <2>1, <2>2, <2>3, RowMoves
<1> QED
  BY <1>1, <1>2, <1>3, <1>4

(* A claim: the row was waiting, so nobody else has it unless the reaper   *)
(* took it from him.                                                       *)
LEMMA ClaimKeeps ==
  ASSUME BatchInv, NEW p \in Workers, Claim(p)
  PROVE  BatchInv'
<1>0. /\ row \in Row /\ h \in [Workers -> Run] /\ n \in Nat
      /\ \A q \in Workers : CountOK(h[q]) /\ HeedOK(h[q])
      /\ OwnerOK /\ Reached /\ EndOK /\ (~row.cancelReq => asked = 0)
      /\ result \in 0..n
  BY BatchFacts
<1> DEFINE v == [NoRun EXCEPT !.pc = "init", !.att = row.attempts]
<1>1. /\ v \in Run /\ v.pc = "init" /\ v.i = 0 /\ v.pending = 0 /\ v.since = Interval
  <2>1. row.attempts \in Nat
    BY <1>0 DEF Row
  <2> QED
    BY <2>1, NoRunFacts DEF Run
<1>2. /\ row' = claim_job(row) /\ h' = [h EXCEPT ![p] = v]
      /\ row.status \in Waiting /\ UNCHANGED <<n, progress, result, asked, late>>
  BY DEF Claim, CanClaim
<1> HIDE DEF v
<1>3. row' \in Row /\ row'.status = "processing" /\ row'.cancelReq = row.cancelReq
  BY <1>0, <1>2, RowWrites, AskedKept
<1>4. h' \in [Workers -> Run] /\ \A q \in Workers : h'[q] = IF q = p THEN v ELSE h[q]
  BY <1>0, <1>1, <1>2
<1>5. ~late => \A q \in Workers : ~Live(q)
  BY <1>0, <1>2 DEF OwnerOK, IsProcessing, Waiting
<1>6. BatchTypeOK'
  BY <1>2, <1>3, <1>4 DEF BatchInv, BatchTypeOK
<1>7. \A q \in Workers : (CountOK(h[q]) /\ HeedOK(h[q]))'
  <2>1. PctOf(0) \in Pct
    BY <1>0, PctFacts
  <2>2. CountOK(v) /\ HeedOK(v)
    BY <1>0, <1>1, <2>1 DEF CountOK, HeedOK, Pct
  <2> QED
    BY <1>0, <1>2, <1>3, <1>4, <2>2 DEF CountOK, HeedOK, PctOf
<1>8. OwnerOK' /\ Reached'
  BY <1>1, <1>2, <1>3, <1>4, <1>5 DEF OwnerOK, Reached, Live, IsProcessing
<1>9. result = 0
  BY <1>0, <1>2 DEF EndOK, Waiting
<1>10. EndOK'
  BY <1>2, <1>3, <1>9 DEF EndOK
<1> QED
  BY <1>0, <1>2, <1>3, <1>6, <1>7, <1>8, <1>10 DEF BatchInv

(* Time passes for the request to cancel and for the polls alike.          *)
LEMMA TickKeeps ==
  ASSUME BatchInv, Tick
  PROVE  BatchInv'
<1>0. /\ h \in [Workers -> Run] /\ n \in Nat /\ asked \in 0..MaxAsked /\ MaxAsked \in Nat
      /\ OwnerOK /\ Reached /\ EndOK /\ (~row.cancelReq => asked = 0)
      /\ UNCHANGED <<n, row, progress, result, late>>
  BY BatchFacts, BatchRunAssumption DEF BatchInv, BatchTypeOK, MaxAsked, Tick
<1>1. asked' \in 0..MaxAsked /\ asked' <= asked + 1 /\ (~row.cancelReq => asked' = 0)
  BY <1>0 DEF Tick, UpTo
<1>2. ASSUME NEW p \in Workers
      PROVE  /\ h'[p] \in Run /\ h'[p].pc = h[p].pc /\ h'[p].i = h[p].i
             /\ CountOK(h'[p]) /\ (HeedOK(h[p]))'
  <2>1. /\ h[p] \in Run /\ CountOK(h[p]) /\ HeedOK(h[p])
        /\ h[p].pc # "check" /\ (Polling(p) => h[p].wait < Latency) /\ h'[p] = Older(p)
    BY BatchFacts DEF Tick
  <2> DEFINE r == h[p]
             s == IF Polling(p) \/ r.pc = "item" THEN UpTo(Interval, r.since) ELSE r.since
             w == IF Polling(p) THEN r.wait + 1 ELSE r.wait
  <2>2. r.since \in 0..Interval /\ r.wait \in 0..Latency /\ Interval \in Nat /\ Latency \in Nat
    BY <2>1, BatchRunAssumption DEF Run
  <2>3. s \in 0..Interval /\ w \in 0..Latency
    BY <2>1, <2>2 DEF UpTo
  <2>4. h'[p] = [pc |-> r.pc, att |-> r.att, i |-> r.i, pending |-> r.pending,
                 written |-> r.written, since |-> s, wait |-> w, cached |-> r.cached]
    BY <2>1 DEF Older, Run
  <2>5. /\ Polling(p) <=> r.pc \in {"ask", "told"}
    BY DEF Polling
  <2>6. /\ r.pc = "told" => w = r.wait + 1
        /\ r.pc = "item" /\ s < Interval => s = r.since + 1 /\ r.since < Interval
        /\ r.pc \in {"none", "init", "validate"} => s = r.since
    BY <2>2, <2>5 DEF UpTo
  <2> HIDE DEF s, w
  <2>7. h'[p] \in Run
    BY <2>1, <2>3, <2>4 DEF Run
  <2>8. CountOK(h'[p])
    BY <2>1, <2>4, <2>6 DEF CountOK
  <2>9. (HeedOK(h[p]))'
    BY <1>0, <1>1, <2>1, <2>2, <2>3, <2>4, <2>6 DEF HeedOK
  <2> QED
    BY <2>4, <2>7, <2>8, <2>9
<1>3. h' \in [Workers -> Run]
  BY <1>2 DEF Tick
<1>4. BatchTypeOK'
  BY <1>0, <1>1, <1>3 DEF BatchInv, BatchTypeOK, MaxAsked
<1>5. \A p \in Workers : (CountOK(h[p]) /\ HeedOK(h[p]))'
  BY <1>0, <1>2 DEF CountOK, PctOf
<1>6. OwnerOK' /\ Reached' /\ EndOK'
  BY <1>0, <1>2 DEF OwnerOK, Reached, EndOK, Live, PctOf
<1> QED
  BY <1>0, <1>1, <1>4, <1>5, <1>6 DEF BatchInv

(* Every step of a handler within its attempt, one by one.                 *)
LEMMA AttemptKeeps ==
  ASSUME BatchInv, NEW p \in Workers, Attempt(p)
  PROVE  BatchInv'
<1> USE DEF unrow
<1>0. /\ n \in Nat /\ n <= MaxItems /\ MaxItems \in Nat /\ row \in Row
      /\ progress \in Pct \cup {NoPct} /\ h \in [Workers -> Run] /\ h[p] \in Run
      /\ CountOK(h[p]) /\ HeedOK(h[p]) /\ asked \in Nat
      /\ IsProcessing(row) => result = 0
      /\ OwnerOK /\ Reached /\ (~row.cancelReq => asked = 0)
  BY BatchFacts
<1>1. /\ h[p].i \in Nat /\ PctOf(h[p].i) \in Pct /\ h[p].pending \in Pct
      /\ h[p].since \in 0..Interval /\ h[p].wait \in 0..Latency
      /\ Interval \in Nat /\ Latency \in Nat
  <2>1. h[p].i \in Nat /\ h[p].i <= n
    BY <1>0 DEF Run, CountOK
  <2> QED
    BY <1>0, <2>1, PctFacts, BatchRunAssumption DEF Run
<1>2. ASSUME NEW x \in {"init", "validate", "check", "ask", "told", "item", "cancel"}
      PROVE  /\ [h[p] EXCEPT !.pc = x] \in Run
             /\ [h[p] EXCEPT !.pc = x].pc = x
             /\ [h[p] EXCEPT !.pc = x].i = h[p].i
             /\ [h[p] EXCEPT !.pc = x].pending = h[p].pending
             /\ [h[p] EXCEPT !.pc = x].since = h[p].since
             /\ [h[p] EXCEPT !.pc = x].wait = h[p].wait
             /\ [h[p] EXCEPT !.pc = x].cached = h[p].cached
             /\ Goto(p, x) => h' = [h EXCEPT ![p] = [h[p] EXCEPT !.pc = x]]
  BY <1>0, <1>2 DEF Run, Goto
<1>3. CASE init_progress(p)
  <2> DEFINE v == [h[p] EXCEPT !.pc = "validate"]
  <2>1. /\ v \in Run /\ v.pc = "validate" /\ v.i = h[p].i /\ v.pending = h[p].pending
        /\ v.since = h[p].since /\ h' = [h EXCEPT ![p] = v]
    BY <1>2, <1>3 DEF init_progress
  <2>2. h[p].pc = "init" /\ UNCHANGED <<n, row, result, asked, late>>
    BY <1>3 DEF init_progress
  <2> HIDE DEF v
  <2>3. CountOK(v) /\ HeedOK(v) /\ Live(p)
    BY <1>0, <2>1, <2>2 DEF CountOK, HeedOK, Live
  <2>4. /\ progress' \in Pct \cup {NoPct} /\ (IsProcessing(row) \/ progress' = progress)
        /\ IsProcessing(row) => progress' = 0
    BY <1>0, <1>3 DEF init_progress, Pct
  <2>5. ~late => progress' \in 0..PctOf(v.i)
    BY <1>0, <1>1, <2>1, <2>3, <2>4 DEF OwnerOK, Pct
  <2> QED
    BY <2>1, <2>2, <2>3, <2>4, <2>5, HandlerMoves
<1>4. CASE Validate(p)
  <2> DEFINE v == [h[p] EXCEPT !.pc = "check"]
  <2>1. /\ v \in Run /\ v.pc = "check" /\ v.i = h[p].i /\ v.pending = h[p].pending
        /\ v.since = h[p].since /\ h' = [h EXCEPT ![p] = v]
    BY <1>2, <1>4 DEF Validate
  <2>2. /\ h[p].pc = "validate" /\ UNCHANGED <<n, row, result, asked, late>>
        /\ progress' = progress
    BY <1>4 DEF Validate
  <2> HIDE DEF v
  <2>3. CountOK(v) /\ HeedOK(v) /\ Live(p)
    BY <1>0, <1>1, <2>1, <2>2 DEF CountOK, HeedOK, Live
  <2>4. ~late => progress' \in 0..PctOf(v.i)
    BY <1>0, <2>1, <2>2 DEF Reached
  <2> QED
    BY <1>0, <2>1, <2>2, <2>3, <2>4, HandlerMoves
<1>5. CASE cancelled(p)
  <2>1. PICK x \in {"ask", "item", "cancel"} :
          /\ Goto(p, x)
          /\ x = "item" => h[p].since < Interval /\ ~h[p].cached
    BY <1>1, <1>5 DEF cancelled, Obey
  <2> DEFINE v == [h[p] EXCEPT !.pc = x]
  <2>2. /\ v \in Run /\ v.pc = x /\ v.i = h[p].i /\ v.pending = h[p].pending
        /\ v.since = h[p].since /\ v.cached = h[p].cached /\ h' = [h EXCEPT ![p] = v]
    BY <1>2, <2>1
  <2>3. /\ h[p].pc = "check" /\ h[p].i < n /\ UNCHANGED <<n, row, result, asked, late>>
        /\ progress' = progress
    BY <1>5 DEF cancelled
  <2> HIDE DEF v
  <2>4. CountOK(v) /\ HeedOK(v) /\ Live(p)
    BY <1>0, <2>1, <2>2, <2>3 DEF CountOK, HeedOK, Live
  <2>5. ~late => progress' \in 0..PctOf(v.i)
    BY <1>0, <2>2, <2>3 DEF Reached
  <2> QED
    BY <1>0, <2>1, <2>2, <2>3, <2>4, <2>5, HandlerMoves
<1>6. CASE Poll(p)
  <2> DEFINE r == h[p]
             c == row.cancelReq \/ ~IsProcessing(row)
             v == [r EXCEPT !.pc = "told", !.written = r.pending, !.cached = c]
  <2>1. c \in BOOLEAN
    BY <1>0 DEF Row
  <2>2. /\ h' = [h EXCEPT ![p] = v] /\ r.pc = "ask"
        /\ UNCHANGED <<n, row, result, asked, late>>
    BY <1>6 DEF Poll
  <2>3. /\ v \in Run /\ v.pc = "told" /\ v.i = r.i /\ v.pending = r.pending
        /\ v.since = r.since
    BY <1>0, <2>1 DEF Run
  <2>4. row.cancelReq => v.cached
    BY <1>0, <2>1 DEF Run
  <2> HIDE DEF v, c
  <2>5. CountOK(v) /\ HeedOK(v) /\ Live(p)
    BY <1>0, <2>2, <2>3, <2>4 DEF CountOK, HeedOK, Live
  <2>6. /\ progress' \in {progress, r.pending} /\ (IsProcessing(row) \/ progress' = progress)
    BY <1>6 DEF Poll
  <2>7. r.pending \in 0..PctOf(r.i)
    BY <1>0, <1>1 DEF CountOK, Pct
  <2>8. ~late => progress' \in 0..PctOf(v.i)
    BY <1>0, <2>2, <2>3, <2>6, <2>7 DEF Reached
  <2> QED
    BY <1>0, <1>1, <2>2, <2>3, <2>5, <2>6, <2>8, HandlerMoves
<1>7. CASE Answer(p)
  <2> DEFINE r == h[p]
             s == IF r.wait < Interval THEN r.wait ELSE Interval
             v == [r EXCEPT !.pc = Obey(p), !.wait = 0, !.since = s]
  <2>1. /\ h' = [h EXCEPT ![p] = v] /\ r.pc = "told" /\ progress' = progress
        /\ UNCHANGED <<n, row, result, asked, late>>
    BY <1>7 DEF Answer
  <2>2. /\ Obey(p) \in {"cancel", "item"} /\ (Obey(p) = "item" => ~r.cached)
        /\ s \in 0..Interval /\ 0 \in 0..Latency /\ (s < Interval => s = r.wait)
    BY <1>1 DEF Obey
  <2>3. /\ v \in Run /\ v.pc = Obey(p) /\ v.i = r.i /\ v.pending = r.pending
        /\ v.since = s
    BY <1>0, <2>2 DEF Run
  <2> HIDE DEF v, s
  <2>4. CountOK(v) /\ HeedOK(v) /\ Live(p)
    BY <1>0, <1>1, <2>1, <2>2, <2>3 DEF CountOK, HeedOK, Live
  <2>5. ~late => progress' \in 0..PctOf(v.i)
    BY <1>0, <2>1, <2>3 DEF Reached
  <2> QED
    BY <1>0, <2>1, <2>2, <2>3, <2>4, <2>5, HandlerMoves
<1>8. CASE ItemEnds(p)
  <2> DEFINE r == h[p]
             j == r.i + 1
             v == [r EXCEPT !.pc = "check", !.i = j, !.pending = PctOf(j)]
  <2>1. /\ h' = [h EXCEPT ![p] = v] /\ r.pc = "item" /\ progress' = progress
        /\ UNCHANGED <<n, row, result, asked, late>>
    BY <1>8 DEF ItemEnds
  <2>2. j \in Nat /\ j <= n /\ r.i <= j /\ j \in 0..MaxItems
    BY <1>0, <1>1, <2>1 DEF CountOK
  <2> HIDE DEF j
  <2>3. PctOf(j) \in Pct /\ PctOf(r.i) <= PctOf(j)
    BY <1>0, <1>1, <2>2, PctFacts
  <2>4. /\ v \in Run /\ v.pc = "check" /\ v.i = j /\ v.pending = PctOf(j)
        /\ v.since = r.since /\ (v.cached = r.cached)
    BY <1>0, <2>2, <2>3 DEF Run
  <2> HIDE DEF v
  <2>5. CountOK(v) /\ HeedOK(v) /\ Live(p)
    BY <1>0, <2>1, <2>2, <2>3, <2>4 DEF CountOK, HeedOK, Live, Pct
  <2>6. ~late => progress' \in 0..PctOf(v.i)
    BY <1>0, <1>1, <2>1, <2>3, <2>4 DEF Reached, Pct
  <2> QED
    BY <1>0, <2>1, <2>4, <2>5, <2>6, HandlerMoves
<1>9. CASE Complete(p)
  <2>1. /\ EndWith(p, complete_job(row), 100, h[p].i) /\ h[p].pc = "check" /\ h[p].i = n
    BY <1>9 DEF Complete
  <2>2. /\ complete_job(row) \in Row /\ complete_job(row).status = "completed"
        /\ complete_job(row).cancelReq = row.cancelReq
    BY <1>0, RowWrites, AskedKept
  <2>3. 100 \in Pct /\ n \in 0..n /\ Live(p)
    BY <1>0, <2>1 DEF Pct, Live
  <2> QED
    BY <2>1, <2>2, <2>3, HandlerEnds
<1>10. CASE CancelJob(p)
  <2>1. EndWith(p, cancel_job(row), progress, h[p].i) /\ h[p].pc = "cancel"
    BY <1>10 DEF CancelJob
  <2>2. /\ cancel_job(row) \in Row /\ cancel_job(row).status = "cancelled"
        /\ cancel_job(row).cancelReq = row.cancelReq
    BY <1>0, RowWrites, AskedKept
  <2>3. h[p].i \in 0..n /\ Live(p) /\ (~late => progress \in 0..PctOf(h[p].i))
    BY <1>0, <1>1, <2>1 DEF CountOK, Live, Reached
  <2> QED
    BY <1>0, <2>1, <2>2, <2>3, HandlerEnds
<1> QED
  BY <1>3, <1>4, <1>5, <1>6, <1>7, <1>8, <1>9, <1>10 DEF Attempt

(* An attempt that fails, or is rejected, fails the job.                   *)
LEMMA FailKeeps ==
  ASSUME BatchInv, NEW p \in Workers, Reject(p) \/ AttemptFails(p)
  PROVE  BatchInv'
<1>0. /\ row \in Row /\ progress \in Pct \cup {NoPct} /\ result \in 0..n /\ h[p] \in Run
      /\ IsProcessing(row) => result = 0
  BY BatchFacts
<1>1. h[p].att \in Nat
  BY <1>0 DEF Run
<1>2. EndWith(p, fail_job(row), progress, result) /\ Live(p)
  BY <1>1, OneAttempt DEF Reject, AttemptFails, Live
<1>3. /\ fail_job(row) \in Row /\ fail_job(row).status = "failed"
      /\ fail_job(row).cancelReq = row.cancelReq
  BY <1>0, RowWrites, AskedKept
<1> QED
  BY <1>0, <1>2, <1>3, HandlerEnds

(* At first the row waits, and nobody runs it.                             *)
LEMMA BatchInitInv == BatchInit => BatchInv
<1> SUFFICES ASSUME BatchInit PROVE BatchInv
  OBVIOUS
<1> DEFINE r == [create_job("stream") EXCEPT !.synced = TRUE]
<1>1. r \in Row /\ r.status = "pending" /\ r.cancelReq = FALSE
  BY DEF create_job, NoRow, Row, Status, Waiting, Final
<1>2. /\ row = r /\ n \in 0..MaxItems /\ n \in Nat /\ progress = NoPct /\ result = 0
      /\ h = [p \in Workers |-> NoRun] /\ asked = 0 /\ late = FALSE
  BY BatchRunAssumption DEF BatchInit
<1> HIDE DEF r
<1>3. NoRun \in Run /\ NoRun.pc = "none" /\ CountOK(NoRun) /\ HeedOK(NoRun)
  BY <1>2, NoRunFacts, NoRunOK
<1>4. h \in [Workers -> Run] /\ \A p \in Workers : h[p] = NoRun
  BY <1>2, <1>3
<1>5. BatchTypeOK
  <2>1. 0 \in 0..MaxAsked /\ 0 \in 0..n
    BY <1>2, BatchRunAssumption DEF MaxAsked
  <2> QED
    BY <1>1, <1>2, <1>4, <2>1 DEF BatchTypeOK
<1>6. OwnerOK /\ Reached /\ EndOK
  BY <1>1, <1>2, <1>3, <1>4 DEF OwnerOK, Reached, EndOK, Live
<1> QED
  BY <1>2, <1>3, <1>4, <1>5, <1>6 DEF BatchInv

(* Every step keeps the invariant.                                         *)
LEMMA BatchStepInv == BatchInv /\ [BatchNext]_batchVars => BatchInv'
<1> SUFFICES ASSUME BatchInv, [BatchNext]_batchVars PROVE BatchInv'
  OBVIOUS
<1>1. CASE UNCHANGED batchVars
  BY <1>1 DEF batchVars, BatchInv, BatchTypeOK, CountOK, HeedOK, OwnerOK, Reached, EndOK,
              Live, PctOf
<1>2. CASE BatchNext
  BY <1>2, ClaimKeeps, AttemptKeeps, FailKeeps, CrashKeeps, OthersKeep, TickKeeps
     DEF BatchNext
<1> QED
  BY <1>1, <1>2

(***************************************************************************)
(* The theorems.                                                           *)
(***************************************************************************)

(* The invariant holds throughout.                                         *)
THEOREM BatchInvHolds == BatchSpec => []BatchInv
BY BatchInitInv, BatchStepInv, PTL DEF BatchSpec

(* Every variable keeps its type: no handler counts more items than the    *)
(* payload has (app/jobs/handlers.py), and the summary written into the    *)
(* row accounts for items that exist.                                      *)
THEOREM BatchTypeCorrect == BatchSpec => []BatchTypeOK
<1>1. BatchInv => BatchTypeOK
  BY DEF BatchInv
<1> QED
  BY <1>1, BatchInvHolds, PTL

(* The percentage GET /jobs/{id} shows is never ahead of the items done,   *)
(* for every payload and whenever the handler polls, dies or is retried    *)
(* (app/worker/context.py, app/worker/runner.py).                          *)
THEOREM ProgressStaysHonest == BatchSpec => []ProgressIsHonest
<1>1. BatchInv => ProgressIsHonest
  BY DEF BatchInv, Reached, EndOK, ProgressIsHonest
<1> QED
  BY <1>1, BatchInvHolds, PTL

(* An item begins after a look at the cached answer, or when a poll        *)
(* returns.                                                                *)
LEMMA ItemStarts ==
  ASSUME h \in [Workers -> Run], BatchNext, NEW p \in Workers,
         h[p].pc # "item", h'[p].pc = "item"
  PROVE  cancelled(p) \/ Answer(p)
<1>1. ASSUME NEW q \in Workers, NEW v, h' = [h EXCEPT ![q] = v], v.pc # "item"
      PROVE  FALSE
  BY <1>1
<1>2. ASSUME NEW q \in Workers, NEW v, h' = [h EXCEPT ![q] = v]
      PROVE  q = p
  BY <1>2
<1>3. ASSUME NEW q \in Workers, NEW x, Goto(q, x)
      PROVE  q = p /\ x = "item"
  <2> DEFINE v == [h[q] EXCEPT !.pc = x]
  <2>1. h' = [h EXCEPT ![q] = v] /\ v.pc = x
    BY <1>3 DEF Goto, Run
  <2> HIDE DEF v
  <2> QED
    BY <1>1, <1>2, <2>1
<1>4. ASSUME NEW q \in Workers, NEW r, NEW pct, NEW res, EndWith(q, r, pct, res)
      PROVE  FALSE
  BY <1>1, <1>4, NoRunFacts DEF EndWith
<1>5. ASSUME NEW q \in Workers, Claim(q)
      PROVE  FALSE
  <2> DEFINE v == [NoRun EXCEPT !.pc = "init", !.att = row.attempts]
  <2>1. h' = [h EXCEPT ![q] = v] /\ v.pc = "init"
    BY <1>5 DEF Claim, NoRun
  <2> HIDE DEF v
  <2> QED
    BY <1>1, <2>1
<1>6. ASSUME NEW q \in Workers, init_progress(q) \/ Validate(q)
      PROVE  FALSE
  BY <1>3, <1>6 DEF init_progress, Validate
<1>7. ASSUME NEW q \in Workers, cancelled(q)
      PROVE  cancelled(p)
  BY <1>3, <1>7 DEF cancelled
<1>8. ASSUME NEW q \in Workers, Poll(q)
      PROVE  FALSE
  <2> DEFINE c == row.cancelReq \/ ~IsProcessing(row)
             v == [h[q] EXCEPT !.pc = "told", !.written = h[q].pending, !.cached = c]
  <2>1. h' = [h EXCEPT ![q] = v] /\ v.pc = "told"
    BY <1>8 DEF Poll, Run
  <2> HIDE DEF v
  <2> QED
    BY <1>1, <2>1
<1>9. ASSUME NEW q \in Workers, Answer(q)
      PROVE  Answer(p)
  BY <1>2, <1>9 DEF Answer
<1>10. ASSUME NEW q \in Workers, ItemEnds(q)
       PROVE  FALSE
  <2> DEFINE v == [h[q] EXCEPT !.pc = "check", !.i = h[q].i + 1,
                               !.pending = PctOf(h[q].i + 1)]
  <2>1. h' = [h EXCEPT ![q] = v] /\ v.pc = "check"
    BY <1>10 DEF ItemEnds, Run
  <2> HIDE DEF v
  <2> QED
    BY <1>1, <2>1
<1>11. ASSUME NEW q \in Workers, Complete(q) \/ CancelJob(q) \/ Reject(q) \/ AttemptFails(q)
       PROVE  FALSE
  BY <1>4, <1>11 DEF Complete, CancelJob, Reject, AttemptFails
<1>12. ASSUME NEW q \in Workers, Crash(q)
       PROVE  FALSE
  BY <1>1, <1>12, NoRunFacts DEF Crash
<1>13. ~(Reap \/ CancelWaiting \/ RequestCancel \/ Retry)
  BY DEF Reap, CancelWaiting, RequestCancel, Retry, rest
<1>14. ~Tick
  <2> SUFFICES ASSUME Tick PROVE FALSE
    OBVIOUS
  <2>1. h'[p] = Older(p) /\ Older(p).pc = h[p].pc
    BY DEF Tick, Older, Run
  <2> QED
    BY <2>1
<1> QED
  BY <1>5, <1>6, <1>7, <1>8, <1>9, <1>10, <1>11, <1>12, <1>13, <1>14
     DEF BatchNext, Attempt

(* No item begins once a request to cancel is as old as the poll interval, *)
(* unless the poll itself took that long (app/worker/context.py            *)
(* cancelled), whatever the interval and the latency are.                  *)
THEOREM CancelIsHeeded == BatchSpec => CancelHeeded
<1> DEFINE Heeded == ItemBegins /\ row.cancelReq => asked < Interval \/ asked <= Latency
<1>1. BatchInv /\ [BatchNext]_batchVars => [Heeded]_batchVars
  <2> SUFFICES ASSUME BatchInv, BatchNext, NEW p \in Workers, h[p].pc # "item",
                      h'[p].pc = "item", row.cancelReq
               PROVE  asked < Interval \/ asked <= Latency
    BY DEF ItemBegins
  <2>0. /\ h \in [Workers -> Run] /\ h[p] \in Run /\ HeedOK(h[p]) /\ asked \in Nat
        /\ h[p].since \in 0..Interval /\ h[p].wait \in 0..Latency
        /\ Interval \in Nat /\ Latency \in Nat
    <3>1. h[p] \in Run
      BY BatchFacts
    <3>2. h[p].since \in 0..Interval /\ h[p].wait \in 0..Latency
      BY <3>1 DEF Run
    <3> QED
      BY <3>1, <3>2, BatchFacts, BatchRunAssumption
  <2>1. cancelled(p) \/ Answer(p)
    BY <2>0, ItemStarts
  <2>2. ~h[p].cached /\ (h[p].pc = "told" \/ (h[p].pc = "check" /\ h[p].since < Interval))
    <3>1. CASE cancelled(p)
      <4>1. PICK x : Goto(p, x) /\ x = (IF h[p].since >= Interval THEN "ask" ELSE Obey(p))
        BY <3>1 DEF cancelled
      <4>2. x = "item"
        BY <2>0, <4>1 DEF Goto, Run
      <4> QED
        BY <2>0, <3>1, <4>1, <4>2 DEF cancelled, Obey
    <3>2. CASE Answer(p)
      <4> DEFINE s == IF h[p].wait < Interval THEN h[p].wait ELSE Interval
                 v == [h[p] EXCEPT !.pc = Obey(p), !.wait = 0, !.since = s]
      <4>1. h' = [h EXCEPT ![p] = v]
        BY <3>2 DEF Answer
      <4>2. v.pc = Obey(p)
        BY <2>0 DEF Run
      <4> HIDE DEF v, s
      <4>3. Obey(p) = "item"
        BY <2>0, <4>1, <4>2
      <4> QED
        BY <3>2, <4>3 DEF Answer, Obey
    <3> QED
      BY <2>1, <3>1, <3>2
  <2> QED
    BY <2>0, <2>2 DEF HeedOK
<1> QED
  BY <1>1, BatchInvHolds, PTL DEF BatchSpec, CancelHeeded
=============================================================================
