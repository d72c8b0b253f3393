---------------------------- MODULE FleetProofs ----------------------------
(***************************************************************************)
(* Theorems about the worker processes (Fleet) and about the consumer      *)
(* group (Group), for any number of processes, slots, jobs, streams and    *)
(* losses of Redis and any timeouts: a worker that is busy looks healthy   *)
(* and is counted as alive, and a row marked as handed over was handed     *)
(* over within the group's reach.                                          *)
(***************************************************************************)
EXTENDS Fleet, Group, TLAPS

-----------------------------------------------------------------------------
(***************************************************************************)
(* A worker process and its clocks.                                        *)
(***************************************************************************)
RunsOf(k) == {s \in Slots : k.run[s].busy}

(* The age of the heartbeat, by where the loop is: what is not accounted   *)
(* for by being behind was spent waiting for a slot, which takes no longer *)
(* than the youngest task in the other slots has run, or for a message.    *)
AgeInv(k) ==
  /\ k.pc = "slot" => /\ k.age <= k.late + Timeout
                      /\ \A s \in RunsOf(k) : k.age <= k.late + k.run[s].ran
  /\ k.pc = "read" => k.age <= k.late + Timeout
  /\ k.pc = "block" => k.age <= k.late + Timeout + k.waited
  /\ k.pc = "top" => k.age <= k.late + Timeout + Block
  /\ k.pc = "down" => k.age = 0

(* Some stream was read when a task was spawned, or later.                 *)
IdleInv(k) == \A s \in RunsOf(k) : \E i \in 1..2 : k.idle[i] <= k.run[s].ran

(* The inductive invariants: one for counted workers, and one for the age  *)
(* of the heartbeat.                                                       *)
FleetInv == FleetTypeOK /\ \A p \in Workers : IdleInv(w[p])

AgesInv == \A p \in Workers : AgeInv(w[p])

-----------------------------------------------------------------------------
(***************************************************************************)
(* What one process does to its own record.  Turn(k, v): from k to v the   *)
(* types and both clocks' invariants are kept.                             *)
(***************************************************************************)
Turn(k, v) == v \in Worker /\ IdleInv(v) /\ (AgeInv(k) => AgeInv(v))

LEMMA Clocks ==
  /\ 0 \in 0..MaxAge /\ 0 \in 0..Visibility /\ 0 \in 0..Block /\ 0 \in 0..Slack
  /\ 0 \in 0..(Grace + 1) /\ 0 \in 0..(Timeout + Slack) /\ Visibility \in 0..Visibility
  /\ MaxAge \in Nat
  BY FleetAssumption DEF MaxAge

LEMMA DownOK == Down \in Worker /\ RunsOf(Down) = {}
<1>1. Empty \in [busy : BOOLEAN, ran : 0..(Timeout + Slack)]
  BY Clocks DEF Empty
<1>2. Down \in Worker
  BY <1>1, Clocks DEF Down, Worker
<1>3. RunsOf(Down) = {}
  BY DEF RunsOf, Down, Empty
<1> QED BY <1>2, <1>3

LEMMA DownTurn == ASSUME NEW k PROVE Turn(k, Down)
<1>1. IdleInv(Down)
  BY DownOK DEF IdleInv
<1>2. AgeInv(Down)
  BY DEF AgeInv, Down
<1> QED BY <1>1, <1>2, DownOK DEF Turn

LEMMA LaunchTurn ==
  ASSUME NEW k
  PROVE  Turn(k, [Down EXCEPT !.pc = "top"]) /\ RunsOf([Down EXCEPT !.pc = "top"]) = {}
<1> DEFINE v == [Down EXCEPT !.pc = "top"]
<1>1. v \in Worker
  BY DownOK DEF Worker
<1>2. v.pc = "top" /\ v.age = 0 /\ v.late = 0 /\ v.run = Down.run
  BY DEF Down
<1> HIDE DEF v
<1>3. RunsOf(v) = {}
  BY <1>2, DownOK DEF RunsOf
<1>4. IdleInv(v)
  BY <1>3 DEF IdleInv
<1>5. AgeInv(v)
  BY <1>2, FleetAssumption DEF AgeInv
<1> QED BY <1>1, <1>3, <1>4, <1>5 DEF Turn, v

(* The fields of a worker and their ranges.                                *)
LEMMA Fields ==
  ASSUME NEW k \in Worker
  PROVE  /\ k.age \in 0..MaxAge /\ k.waited \in 0..Block /\ k.late \in 0..Slack
         /\ k.since \in 0..(Grace + 1) /\ k.idle \in [1..2 -> 0..Visibility]
         /\ k.run \in [Slots -> [busy : BOOLEAN, ran : 0..(Timeout + Slack)]]
         /\ k.stop \in BOOLEAN
         /\ k.age \in Nat /\ k.late \in Nat /\ k.waited \in Nat /\ k.since \in Nat
         /\ \A s \in Slots : k.run[s].ran \in Nat /\ k.run[s].busy \in BOOLEAN
         /\ k.idle[1] \in Nat /\ k.idle[2] \in Nat
<1>1. /\ k.age \in 0..MaxAge /\ k.waited \in 0..Block /\ k.late \in 0..Slack
      /\ k.since \in 0..(Grace + 1) /\ k.idle \in [1..2 -> 0..Visibility]
      /\ k.run \in [Slots -> [busy : BOOLEAN, ran : 0..(Timeout + Slack)]]
      /\ k.stop \in BOOLEAN
  BY DEF Worker
<1>2. k.age \in Nat /\ k.late \in Nat /\ k.waited \in Nat /\ k.since \in Nat
  BY <1>1, Clocks, FleetAssumption
<1>3. \A s \in Slots : /\ k.run[s].ran \in 0..(Timeout + Slack)
                       /\ k.run[s].busy \in BOOLEAN
  BY <1>1
<1>4. k.idle[1] \in 0..Visibility /\ k.idle[2] \in 0..Visibility
  BY <1>1
<1> QED BY <1>1, <1>2, <1>3, <1>4, FleetAssumption

(* Same tasks, same idle times: the process is counted as it was.          *)
LEMMA SameIdle ==
  ASSUME NEW k, NEW v, IdleInv(k), v.run = k.run, v.idle = k.idle
  PROVE  IdleInv(v) /\ RunsOf(v) = RunsOf(k)
  BY DEF IdleInv, RunsOf

LEMMA StopTurn ==
  ASSUME NEW k \in Worker, IdleInv(k)
  PROVE  LET v == [k EXCEPT !.stop = TRUE] IN Turn(k, v) /\ RunsOf(v) = RunsOf(k)
<1> DEFINE v == [k EXCEPT !.stop = TRUE]
<1>1. v \in Worker
  BY DEF Worker
<1>2. /\ v.pc = k.pc /\ v.age = k.age /\ v.late = k.late /\ v.waited = k.waited
      /\ v.run = k.run /\ v.idle = k.idle
  BY DEF Worker
<1> HIDE DEF v
<1>3. IdleInv(v) /\ RunsOf(v) = RunsOf(k)
  BY <1>2, SameIdle
<1>4. AgeInv(k) => AgeInv(v)
  BY <1>2, <1>3 DEF AgeInv
<1> QED BY <1>1, <1>3, <1>4 DEF Turn, v

LEMMA DrainTurn ==
  ASSUME NEW k \in Worker, IdleInv(k)
  PROVE  LET v == [k EXCEPT !.pc = "drain"] IN Turn(k, v) /\ RunsOf(v) = RunsOf(k)
<1> DEFINE v == [k EXCEPT !.pc = "drain"]
<1>1. v \in Worker
  BY DEF Worker
<1>2. v.pc = "drain" /\ v.run = k.run /\ v.idle = k.idle
  BY DEF Worker
<1> HIDE DEF v
<1>3. IdleInv(v) /\ RunsOf(v) = RunsOf(k)
  BY <1>2, SameIdle
<1>4. AgeInv(v)
  BY <1>2 DEF AgeInv
<1> QED BY <1>1, <1>3, <1>4 DEF Turn, v

LEMMA BeatTurn ==
  ASSUME NEW k \in Worker, IdleInv(k)
  PROVE  LET v == [k EXCEPT !.pc = "slot", !.age = 0, !.late = 0]
         IN Turn(k, v) /\ RunsOf(v) = RunsOf(k)
<1> DEFINE v == [k EXCEPT !.pc = "slot", !.age = 0, !.late = 0]
<1>1. v \in Worker
  BY Clocks DEF Worker
<1>2. v.pc = "slot" /\ v.age = 0 /\ v.late = 0 /\ v.run = k.run /\ v.idle = k.idle
  BY DEF Worker
<1> HIDE DEF v
<1>3. IdleInv(v) /\ RunsOf(v) = RunsOf(k)
  BY <1>2, SameIdle
<1>4. \A s \in RunsOf(v) : v.run[s].ran \in Nat
  BY <1>2, Fields DEF RunsOf
<1>5. AgeInv(v)
  BY <1>2, <1>4, FleetAssumption DEF AgeInv
<1> QED BY <1>1, <1>3, <1>5 DEF Turn, v

LEMMA AcquireTurn ==
  ASSUME NEW k \in Worker, IdleInv(k), k.pc = "slot"
  PROVE  LET v == [k EXCEPT !.pc = "read"] IN Turn(k, v) /\ RunsOf(v) = RunsOf(k)
<1> DEFINE v == [k EXCEPT !.pc = "read"]
<1>1. v \in Worker
  BY DEF Worker
<1>2. v.pc = "read" /\ v.age = k.age /\ v.late = k.late /\ v.run = k.run /\ v.idle = k.idle
  BY DEF Worker
<1> HIDE DEF v
<1>3. IdleInv(v) /\ RunsOf(v) = RunsOf(k)
  BY <1>2, SameIdle
<1>4. AgeInv(k) => AgeInv(v)
  BY <1>2 DEF AgeInv
<1> QED BY <1>1, <1>3, <1>4 DEF Turn, v

LEMMA BlockTurn ==
  ASSUME NEW k \in Worker, IdleInv(k), k.pc = "read"
  PROVE  LET v == [k EXCEPT !.pc = "block", !.idle = [i \in 1..2 |-> 0]]
         IN Turn(k, v) /\ RunsOf(v) = RunsOf(k)
<1> DEFINE v == [k EXCEPT !.pc = "block", !.idle = [i \in 1..2 |-> 0]]
<1>1. v \in Worker
  BY Clocks DEF Worker
<1>2. /\ v.pc = "block" /\ v.age = k.age /\ v.late = k.late /\ v.run = k.run
      /\ v.waited = k.waited /\ v.idle = [i \in 1..2 |-> 0]
  BY DEF Worker
<1> HIDE DEF v
<1>3. RunsOf(v) = RunsOf(k)
  BY <1>2 DEF RunsOf
<1>4. IdleInv(v)
  <2>1. 1 \in 1..2 /\ v.idle[1] = 0
    BY <1>2
  <2>2. \A s \in RunsOf(v) : v.run[s].ran \in Nat
    BY <1>2, Fields DEF RunsOf
  <2>3. \A s \in RunsOf(v) : v.idle[1] <= v.run[s].ran
    BY <2>1, <2>2
  <2> QED BY <2>1, <2>3 DEF IdleInv
<1>5. AgeInv(k) => AgeInv(v)
  BY <1>2, Fields, FleetAssumption DEF AgeInv
<1> QED BY <1>1, <1>3, <1>4, <1>5 DEF Turn, v

LEMMA UnblockTurn ==
  ASSUME NEW k \in Worker, IdleInv(k), k.pc = "block"
  PROVE  LET v == [k EXCEPT !.pc = "top", !.waited = 0]
         IN Turn(k, v) /\ RunsOf(v) = RunsOf(k)
<1> DEFINE v == [k EXCEPT !.pc = "top", !.waited = 0]
<1>1. v \in Worker
  BY Clocks DEF Worker
<1>2. v.pc = "top" /\ v.age = k.age /\ v.late = k.late /\ v.run = k.run /\ v.idle = k.idle
  BY DEF Worker
<1> HIDE DEF v
<1>3. IdleInv(v) /\ RunsOf(v) = RunsOf(k)
  BY <1>2, SameIdle
<1>4. k.waited <= Block /\ k.waited \in Nat /\ k.age \in Nat /\ k.late \in Nat
  BY Fields, FleetAssumption
<1>5. AgeInv(k) => AgeInv(v)
  BY <1>2, <1>4, FleetAssumption DEF AgeInv
<1> QED BY <1>1, <1>3, <1>5 DEF Turn, v

(* A message is read, and a task is spawned in slot s.                     *)
LEMMA SpawnTurn ==
  ASSUME NEW k \in Worker, IdleInv(k), k.pc \in {"read", "block"}, NEW s \in Slots,
         NEW read, NEW i \in 1..2, i \in read
  PROVE  Turn(k, [k EXCEPT !.pc = "top", !.waited = 0,
                           !.idle = [h \in 1..2 |-> IF h \in read THEN 0 ELSE k.idle[h]],
                           !.run = [k.run EXCEPT ![s] = [busy |-> TRUE, ran |-> 0]]])
<1> DEFINE idl == [h \in 1..2 |-> IF h \in read THEN 0 ELSE k.idle[h]]
           rn == [k.run EXCEPT ![s] = [busy |-> TRUE, ran |-> 0]]
           v == [k EXCEPT !.pc = "top", !.waited = 0, !.idle = idl, !.run = rn]
<1>1. k.run \in [Slots -> [busy : BOOLEAN, ran : 0..(Timeout + Slack)]]
  BY Fields
<1>2. [busy |-> TRUE, ran |-> 0] \in [busy : BOOLEAN, ran : 0..(Timeout + Slack)]
  BY Clocks
<1>3. rn \in [Slots -> [busy : BOOLEAN, ran : 0..(Timeout + Slack)]]
  BY <1>1, <1>2
<1>4. idl \in [1..2 -> 0..Visibility] /\ idl[i] = 0
  BY Fields, Clocks
<1> HIDE DEF idl, rn
<1>5. v \in Worker
  BY <1>3, <1>4, Clocks DEF Worker
<1>6. v.pc = "top" /\ v.age = k.age /\ v.late = k.late /\ v.run = rn /\ v.idle = idl
  BY DEF Worker
<1> HIDE DEF v
<1>7. IdleInv(v)
  <2>1. \A t \in Slots : v.run[t].ran \in Nat
    BY <1>5, Fields
  <2>2. \A t \in Slots : v.idle[i] <= v.run[t].ran
    BY <1>4, <1>6, <2>1
  <2> QED BY <2>2 DEF IdleInv, RunsOf
<1>8. k.waited <= Block /\ k.waited \in Nat /\ k.age \in Nat /\ k.late \in Nat
  BY Fields, FleetAssumption
<1>9. AgeInv(k) => AgeInv(v)
  BY <1>6, <1>8, FleetAssumption DEF AgeInv
<1> QED BY <1>5, <1>7, <1>9 DEF Turn, v, idl, rn

(* The task in slot s ends.                                                *)
LEMMA EndTurn ==
  ASSUME NEW k \in Worker, IdleInv(k), NEW s \in Slots
  PROVE  LET v == [k EXCEPT !.run[s] = Empty] IN Turn(k, v) /\ RunsOf(v) \subseteq RunsOf(k)
<1> DEFINE rn == [k.run EXCEPT ![s] = Empty]
           v == [k EXCEPT !.run = rn]
<1>0. [k EXCEPT !.run[s] = Empty] = v
  OBVIOUS
<1>1. Empty \in [busy : BOOLEAN, ran : 0..(Timeout + Slack)] /\ ~Empty.busy
  BY Clocks DEF Empty
<1>2. /\ rn \in [Slots -> [busy : BOOLEAN, ran : 0..(Timeout + Slack)]]
      /\ ~rn[s].busy /\ \A t \in Slots \ {s} : rn[t] = k.run[t]
  BY <1>1, Fields
<1> HIDE DEF rn
<1>3. v \in Worker
  BY <1>2 DEF Worker
<1>4. /\ v.pc = k.pc /\ v.age = k.age /\ v.late = k.late /\ v.run = rn /\ v.idle = k.idle
      /\ v.waited = k.waited
  BY DEF Worker
<1> HIDE DEF v
<1>5. /\ RunsOf(v) \subseteq RunsOf(k)
      /\ \A t \in RunsOf(v) : v.run[t] = k.run[t]
  BY <1>2, <1>4 DEF RunsOf
<1>6. IdleInv(v)
  BY <1>4, <1>5 DEF IdleInv
<1>7. AgeInv(k) => AgeInv(v)
  BY <1>4, <1>5 DEF AgeInv
<1> QED BY <1>0, <1>3, <1>5, <1>6, <1>7 DEF Turn

-----------------------------------------------------------------------------
LEMMA UpToOK ==
  ASSUME NEW m \in Nat, NEW n \in 0..m
  PROVE  UpTo(m, n) \in 0..m /\ UpTo(m, n) <= n + 1
  BY DEF UpTo

(* A unit of time passes for process p.                                    *)
LEMMA OlderFields ==
  ASSUME FleetTypeOK, NEW p \in Workers, Due(p) => w[p].late < Slack,
         \A s \in Busy(p) : w[p].run[s].ran < Timeout + Slack
  PROVE  /\ Older(p) \in Worker /\ Older(p).pc = w[p].pc
         /\ Older(p).age <= w[p].age + 1
         /\ Older(p).late = IF Due(p) THEN w[p].late + 1 ELSE w[p].late
         /\ Older(p).waited = IF w[p].pc = "block" THEN UpTo(Block, w[p].waited)
                              ELSE w[p].waited
         /\ \A i \in 1..2 : Older(p).idle[i] <= w[p].idle[i] + 1
         /\ RunsOf(Older(p)) = Busy(p)
         /\ \A s \in Busy(p) : Older(p).run[s].ran = w[p].run[s].ran + 1
<1> DEFINE k == w[p]
           ag == UpTo(MaxAge, k.age)
           idl == [i \in 1..2 |-> UpTo(Visibility, k.idle[i])]
           wa == IF k.pc = "block" THEN UpTo(Block, k.waited) ELSE k.waited
           la == IF Due(p) THEN k.late + 1 ELSE k.late
           si == IF k.stop THEN UpTo(Grace + 1, k.since) ELSE k.since
           rn == [s \in Slots |-> IF s \in Busy(p)
                                  THEN [busy |-> TRUE, ran |-> k.run[s].ran + 1]
                                  ELSE k.run[s]]
           v == [k EXCEPT !.age = ag, !.idle = idl, !.waited = wa, !.late = la,
                          !.since = si, !.run = rn]
<1>1. k \in Worker
  BY DEF FleetTypeOK
<1>2. Older(p) = v
  BY DEF Older
<1>3. /\ k.age \in 0..MaxAge /\ k.waited \in 0..Block /\ k.late \in 0..Slack
      /\ k.since \in 0..(Grace + 1) /\ k.idle \in [1..2 -> 0..Visibility]
      /\ k.run \in [Slots -> [busy : BOOLEAN, ran : 0..(Timeout + Slack)]]
      /\ \A s \in Slots : k.run[s].ran \in Nat
  BY <1>1, Fields
<1>4. MaxAge \in Nat /\ Visibility \in Nat /\ Block \in Nat /\ Grace + 1 \in Nat
  BY Clocks, FleetAssumption
<1>5. ag \in 0..MaxAge /\ ag <= k.age + 1
  BY <1>3, <1>4, UpToOK
<1>6. idl \in [1..2 -> 0..Visibility] /\ \A i \in 1..2 : idl[i] <= k.idle[i] + 1
  <2>1. \A i \in 1..2 : k.idle[i] \in 0..Visibility
    BY <1>3
  <2>2. \A i \in 1..2 : /\ UpTo(Visibility, k.idle[i]) \in 0..Visibility
                        /\ UpTo(Visibility, k.idle[i]) <= k.idle[i] + 1
    BY <1>4, <2>1, UpToOK
  <2> QED BY <2>2
<1>7. wa \in 0..Block
  BY <1>3, <1>4, UpToOK
<1>8. la \in 0..Slack
  BY <1>3, FleetAssumption
<1>9. si \in 0..(Grace + 1)
  BY <1>3, <1>4, UpToOK
<1>10. rn \in [Slots -> [busy : BOOLEAN, ran : 0..(Timeout + Slack)]]
  <2>1. \A s \in Busy(p) : s \in Slots /\ k.run[s].ran + 1 \in 0..(Timeout + Slack)
    BY <1>3, FleetAssumption DEF Busy
  <2> QED BY <1>3, <2>1
<1>11. /\ \A s \in Busy(p) : rn[s].ran = k.run[s].ran + 1
       /\ \A s \in Slots : rn[s].busy = k.run[s].busy
  BY DEF Busy
<1> HIDE DEF ag, idl, wa, la, si, rn
<1>12. v \in Worker
  BY <1>1, <1>5, <1>6, <1>7, <1>8, <1>9, <1>10 DEF Worker
<1>13. /\ v.pc = k.pc /\ v.age = ag /\ v.idle = idl /\ v.waited = wa /\ v.late = la
       /\ v.run = rn
  BY <1>1 DEF Worker
<1> HIDE DEF v
<1>14. RunsOf(v) = Busy(p)
  BY <1>11, <1>13 DEF RunsOf, Busy
<1> QED BY <1>2, <1>5, <1>6, <1>11, <1>12, <1>13, <1>14 DEF wa, la

LEMMA OlderCounted ==
  ASSUME FleetTypeOK, NEW p \in Workers, IdleInv(w[p]), Due(p) => w[p].late < Slack,
         \A s \in Busy(p) : w[p].run[s].ran < Timeout + Slack
  PROVE  IdleInv(Older(p))
<1> DEFINE k == w[p]
           v == Older(p)
<1>1. /\ RunsOf(v) = Busy(p) /\ v \in Worker /\ k \in Worker
      /\ \A i \in 1..2 : v.idle[i] <= k.idle[i] + 1
      /\ \A s \in Busy(p) : v.run[s].ran = k.run[s].ran + 1
  BY OlderFields DEF FleetTypeOK
<1> HIDE DEF v, k
<1> SUFFICES ASSUME NEW s \in RunsOf(v) PROVE \E i \in 1..2 : v.idle[i] <= v.run[s].ran
  BY DEF IdleInv, v
<1>2. s \in Busy(p) /\ s \in RunsOf(k) /\ s \in Slots
  BY <1>1 DEF Busy, RunsOf, k
<1>3. PICK i \in 1..2 : k.idle[i] <= k.run[s].ran
  BY <1>2 DEF IdleInv, k
<1>4. /\ k.idle[1] \in Nat /\ k.idle[2] \in Nat /\ k.run[s].ran \in Nat
      /\ v.idle[1] \in Nat /\ v.idle[2] \in Nat
  BY <1>1, <1>2, Fields
<1>5. k.idle[i] \in Nat /\ v.idle[i] \in Nat
  BY <1>3, <1>4
<1>6. v.idle[i] <= k.idle[i] + 1 /\ v.run[s].ran = k.run[s].ran + 1
  BY <1>1, <1>2, <1>3
<1>7. v.idle[i] <= v.run[s].ran
  BY <1>3, <1>4, <1>5, <1>6
<1> QED BY <1>3, <1>7

(* Time that passes while nothing is due is time that every task runs.     *)
LEMMA OlderAge ==
  ASSUME FleetTypeOK, Slots # {}, NEW p \in Workers, w[p].pc # "down", AgeInv(w[p]),
         Due(p) => w[p].late < Slack,
         \A s \in Busy(p) : w[p].run[s].ran < Timeout + Slack
  PROVE  AgeInv(Older(p))
<1> DEFINE k == w[p]
           v == Older(p)
<1>1. /\ v \in Worker /\ k \in Worker /\ v.pc = k.pc
      /\ v.age <= k.age + 1
      /\ v.late = IF Due(p) THEN k.late + 1 ELSE k.late
      /\ v.waited = IF k.pc = "block" THEN UpTo(Block, k.waited) ELSE k.waited
      /\ RunsOf(v) = Busy(p)
      /\ \A s \in Busy(p) : v.run[s].ran = k.run[s].ran + 1
  BY OlderFields DEF FleetTypeOK
<1>2. /\ Busy(p) = RunsOf(k) /\ Busy(p) \subseteq Slots /\ AgeInv(k) /\ k.pc # "down"
  BY DEF Busy, RunsOf
<1>3. /\ k.pc \in {"top", "read"} => Due(p)
      /\ k.pc = "slot" /\ ~Due(p) => Busy(p) = Slots
      /\ k.pc = "block" /\ ~Due(p) => k.waited # Block
      /\ ~Due(p) => \A s \in Busy(p) : ~(k.run[s].ran >= Timeout)
  BY DEF Due
<1> HIDE DEF v, k
<1>4. /\ k.age \in Nat /\ k.late \in Nat /\ k.waited \in 0..Block /\ k.waited \in Nat
      /\ v.age \in Nat /\ v.late \in Nat /\ v.waited \in Nat
      /\ \A s \in Slots : k.run[s].ran \in Nat /\ v.run[s].ran \in Nat
  BY <1>1, Fields
<1>5. Timeout \in Nat /\ Block \in Nat
  BY FleetAssumption
<1>6. CASE k.pc = "slot"
  <2>1. k.age <= k.late + Timeout /\ \A s \in Busy(p) : k.age <= k.late + k.run[s].ran
    BY <1>2, <1>6 DEF AgeInv
  <2>2. v.age <= v.late + Timeout
    <3>1. CASE Due(p)
      BY <1>1, <1>4, <1>5, <2>1, <3>1
    <3>2. CASE ~Due(p)
      <4>1. PICK s \in Slots : TRUE
        OBVIOUS
      <4>2. s \in Busy(p) /\ k.run[s].ran \in Nat /\ ~(k.run[s].ran >= Timeout)
        BY <1>3, <1>4, <1>6, <3>2
      <4>3. k.age <= k.late + k.run[s].ran /\ v.late = k.late
        BY <1>1, <2>1, <3>2, <4>2
      <4> QED BY <1>1, <1>4, <1>5, <4>2, <4>3
    <3> QED BY <3>1, <3>2
  <2>3. ASSUME NEW s \in RunsOf(v) PROVE v.age <= v.late + v.run[s].ran
    <3>1. /\ s \in Busy(p) /\ k.run[s].ran \in Nat /\ v.run[s].ran = k.run[s].ran + 1
          /\ k.age <= k.late + k.run[s].ran
      BY <1>1, <1>2, <1>4, <2>1, <2>3
    <3>2. v.late \in {k.late, k.late + 1}
      BY <1>1
    <3> QED BY <1>1, <1>4, <3>1, <3>2
  <2> QED BY <1>1, <1>6, <2>2, <2>3 DEF AgeInv, v
<1>7. CASE k.pc = "read"
  <2>1. k.age <= k.late + Timeout /\ v.late = k.late + 1
    BY <1>1, <1>2, <1>3, <1>7 DEF AgeInv
  <2>2. v.age <= v.late + Timeout
    BY <1>1, <1>4, <1>5, <2>1
  <2> QED BY <1>1, <1>7, <2>2 DEF AgeInv, v
<1>8. CASE k.pc = "top"
  <2>1. k.age <= k.late + Timeout + Block /\ v.late = k.late + 1
    BY <1>1, <1>2, <1>3, <1>8 DEF AgeInv
  <2>2. v.age <= v.late + Timeout + Block
    BY <1>1, <1>4, <1>5, <2>1
  <2> QED BY <1>1, <1>8, <2>2 DEF AgeInv, v
<1>9. CASE k.pc = "block"
  <2>1. k.age <= k.late + Timeout + k.waited /\ v.waited = UpTo(Block, k.waited)
    BY <1>1, <1>2, <1>9 DEF AgeInv
  <2>2. v.age <= v.late + Timeout + v.waited
    <3>1. CASE Due(p)
      <4>1. v.late = k.late + 1 /\ v.waited >= k.waited
        BY <1>1, <1>4, <1>5, <2>1, <3>1 DEF UpTo
      <4> QED BY <1>1, <1>4, <1>5, <2>1, <4>1
    <3>2. CASE ~Due(p)
      <4>1. v.late = k.late /\ v.waited = k.waited + 1
        BY <1>1, <1>3, <1>4, <1>5, <1>9, <2>1, <3>2 DEF UpTo
      <4> QED BY <1>1, <1>4, <1>5, <2>1, <4>1
    <3> QED BY <3>1, <3>2
  <2> QED BY <1>1, <1>9, <2>2 DEF AgeInv, v
<1>10. CASE k.pc = "drain"
  BY <1>1, <1>10 DEF AgeInv, v
<1>11. k.pc \in {"down", "top", "slot", "read", "block", "drain"}
  BY <1>1 DEF Worker
<1> QED BY <1>2, <1>6, <1>7, <1>8, <1>9, <1>10, <1>11

-----------------------------------------------------------------------------
(***************************************************************************)
(* Every step keeps the invariants.                                        *)
(***************************************************************************)
(* Busy, of the state after the step too.                                  *)
LEMMA BusyIs ==
  \A p \in Workers : Busy(p) = RunsOf(w[p]) /\ Busy(p)' = RunsOf(w'[p])
  BY DEF Busy, RunsOf

-----------------------------------------------------------------------------
(* Process p, and no other, takes a turn.                                  *)
Turns(p) ==
  /\ w' \in [Workers -> Worker]
  /\ \A q \in Workers \ {p} : w'[q] = w[q]
  /\ IdleInv(w'[p])
  /\ AgeInv(w[p]) => AgeInv(w'[p])

LEMMA TurnTaken ==
  ASSUME FleetInv, NEW p \in Workers, NEW v, Turn(w[p], v), w' = [w EXCEPT ![p] = v]
  PROVE  Turns(p) /\ w'[p] = v
<1>1. w \in [Workers -> Worker]
  BY DEF FleetInv, FleetTypeOK
<1> QED BY <1>1 DEF Turn, Turns

LEMMA TurnKeeps ==
  ASSUME FleetInv, NEW p \in Workers, NEW v, Turn(w[p], v), w' = [w EXCEPT ![p] = v]
  PROVE  FleetInv' /\ Turns(p)
  BY TurnTaken DEF Turns, FleetInv, FleetTypeOK

(* A process is given a message.                                           *)
LEMMA SpawnKeeps ==
  ASSUME FleetInv, NEW p \in Workers, NEW read, NEW i \in 1..2, i \in read,
         w[p].pc \in {"read", "block"}, Spawn(p, read)
  PROVE  FleetInv' /\ Turns(p)
<1>1. w[p] \in Worker /\ IdleInv(w[p])
  BY DEF FleetInv, FleetTypeOK
<1>2. PICK s \in Slots \ Busy(p) :
        w' = [w EXCEPT ![p] = [w[p] EXCEPT
               !.pc     = "top",
               !.waited = 0,
               !.idle   = [h \in 1..2 |-> IF h \in read THEN 0 ELSE w[p].idle[h]],
               !.run    = [w[p].run EXCEPT ![s] = [busy |-> TRUE, ran |-> 0]]]]
  BY DEF Spawn
<1> DEFINE v == [w[p] EXCEPT !.pc = "top", !.waited = 0,
                   !.idle = [h \in 1..2 |-> IF h \in read THEN 0 ELSE w[p].idle[h]],
                   !.run = [w[p].run EXCEPT ![s] = [busy |-> TRUE, ran |-> 0]]]
<1>3. Turn(w[p], v)
  BY <1>1, SpawnTurn
<1>4. w' = [w EXCEPT ![p] = v]
  BY <1>2
<1> HIDE DEF v
<1> QED BY <1>3, <1>4, TurnKeeps

LEMMA WorkerKeeps ==
  ASSUME FleetInv, NEW p \in Workers, WorkerStep(p)
  PROVE  FleetInv' /\ Turns(p)
<1>1. w[p] \in Worker /\ IdleInv(w[p])
  BY DEF FleetInv, FleetTypeOK
<1>2. ASSUME NEW v, Turn(w[p], v), w' = [w EXCEPT ![p] = v]
      PROVE  FleetInv' /\ Turns(p)
  BY <1>2, TurnKeeps
<1>3. CASE Launch(p)
  <2> DEFINE v == [Down EXCEPT !.pc = "top"]
  <2>1. Turn(w[p], v)
    BY LaunchTurn
  <2>2. w' = [w EXCEPT ![p] = v]
    BY <1>3 DEF Launch
  <2> HIDE DEF v
  <2> QED BY <1>2, <2>1, <2>2
<1>4. CASE Sigterm(p)
  BY <1>1, <1>2, <1>4, StopTurn DEF Sigterm
<1>5. CASE Acquire(p)
  BY <1>1, <1>2, <1>5, AcquireTurn DEF Acquire
<1>6. CASE Probe(p)
  <2>1. PICK i \in 1..2 : Spawn(p, 1..i)
    BY <1>6 DEF Probe
  <2>2. i \in 1..i /\ w[p].pc \in {"read", "block"}
    BY <1>6 DEF Probe
  <2> QED BY <2>1, <2>2, SpawnKeeps
<1>7. CASE ProbeEmpty(p)
  <2> DEFINE v == [w[p] EXCEPT !.pc = "block", !.idle = [i \in 1..2 |-> 0]]
  <2>1. w' = [w EXCEPT ![p] = v] /\ w[p].pc = "read"
    BY <1>7 DEF ProbeEmpty
  <2>2. Turn(w[p], v)
    BY <1>1, <2>1, BlockTurn
  <2> HIDE DEF v
  <2> QED BY <1>2, <2>1, <2>2
<1>13. CASE BlockingRead(p)
  <2>1. PICK i \in 1..2 : Spawn(p, {i})
    BY <1>13 DEF BlockingRead
  <2>2. i \in {i} /\ w[p].pc \in {"read", "block"}
    BY <1>13 DEF BlockingRead
  <2> QED BY <2>1, <2>2, SpawnKeeps
<1>8. CASE BlockEnds(p)
  <2> DEFINE v == [w[p] EXCEPT !.pc = "top", !.waited = 0]
  <2>1. w' = [w EXCEPT ![p] = v] /\ w[p].pc = "block"
    BY <1>8 DEF BlockEnds
  <2>2. Turn(w[p], v) /\ RunsOf(v) = RunsOf(w[p])
    BY <1>1, <2>1, UnblockTurn
  <2> HIDE DEF v
  <2> QED BY <1>2, <2>1, <2>2
<1>9. CASE Exit(p)
  BY <1>2, <1>9, DownTurn, DownOK DEF Exit
<1>10. CASE Die(p)
  BY <1>2, <1>10, DownTurn, DownOK DEF Die
<1>11. ASSUME NEW over \in BOOLEAN, LoopHead(p, over) PROVE FleetInv' /\ Turns(p)
  <2>1. CASE w[p].stop \/ over
    <3> DEFINE v == [w[p] EXCEPT !.pc = "drain"]
    <3>1. w' = [w EXCEPT ![p] = v]
      BY <1>11, <2>1 DEF LoopHead
    <3>2. Turn(w[p], v) /\ RunsOf(v) = RunsOf(w[p])
      BY <1>1, DrainTurn
    <3> HIDE DEF v
    <3> QED BY <1>2, <3>1, <3>2
  <2>2. CASE ~(w[p].stop \/ over)
    <3> DEFINE v == [w[p] EXCEPT !.pc = "slot", !.age = 0, !.late = 0]
    <3>1. w' = [w EXCEPT ![p] = v]
      BY <1>11, <2>2 DEF LoopHead
    <3>2. Turn(w[p], v) /\ RunsOf(v) = RunsOf(w[p])
      BY <1>1, BeatTurn
    <3> HIDE DEF v
    <3> QED BY <1>2, <3>1, <3>2
  <2> QED BY <2>1, <2>2
<1>12. ASSUME NEW s \in Slots, TaskEnds(p, s)
       PROVE  FleetInv' /\ Turns(p)
  <2> DEFINE v == [w[p] EXCEPT !.run[s] = Empty]
  <2>1. w' = [w EXCEPT ![p] = v]
    BY <1>12 DEF TaskEnds
  <2>2. Turn(w[p], v)
    BY <1>1, EndTurn
  <2> HIDE DEF v
  <2> QED BY <1>2, <2>1, <2>2
<1> QED BY <1>3, <1>4, <1>5, <1>6, <1>7, <1>8, <1>9, <1>10, <1>11, <1>12, <1>13
        DEF WorkerStep

LEMMA TickKeeps ==
  ASSUME FleetInv, Tick
  PROVE  FleetInv'
<1>1. w \in [Workers -> Worker] /\ FleetTypeOK /\ \A q \in Workers : IdleInv(w[q])
  BY DEF FleetInv, FleetTypeOK
<1>2. ASSUME NEW p \in Workers
      PROVE  w'[p] \in Worker /\ IdleInv(w'[p])
  <2>1. CASE w[p].pc = "down"
    BY <1>1, <2>1 DEF Tick
  <2>2. CASE w[p].pc # "down"
    <3>1. w'[p] = Older(p)
      BY <2>2 DEF Tick
    <3>2. /\ Due(p) => w[p].late < Slack
          /\ \A s \in Busy(p) : w[p].run[s].ran < Timeout + Slack
      BY DEF Tick
    <3>3. Older(p) \in Worker
      BY <1>1, <3>2, OlderFields
    <3>4. IdleInv(Older(p))
      BY <1>1, <3>2, OlderCounted
    <3> QED BY <3>1, <3>3, <3>4
  <2> QED BY <2>1, <2>2
<1>3. w' \in [Workers -> Worker]
  <2>1. w' = [p \in Workers |-> w'[p]]
    BY DEF Tick
  <2> QED BY <1>2, <2>1
<1> QED BY <1>2, <1>3 DEF FleetInv, FleetTypeOK

LEMMA FleetInitOK == FleetInit => FleetInv /\ AgesInv
<1> SUFFICES ASSUME FleetInit PROVE FleetInv /\ AgesInv
  OBVIOUS
<1>1. w = [p \in Workers |-> Down]
  BY DEF FleetInit
<1>2. FleetTypeOK
  BY <1>1, DownOK DEF FleetTypeOK
<1>3. IdleInv(Down) /\ AgeInv(Down)
  BY DownOK DEF IdleInv, AgeInv, Down
<1> QED BY <1>1, <1>2, <1>3 DEF FleetInv, AgesInv

LEMMA FleetNextKeeps == FleetInv /\ [FleetNext]_w => FleetInv'
<1> SUFFICES ASSUME FleetInv, [FleetNext]_w PROVE FleetInv'
  OBVIOUS
<1>1. CASE UNCHANGED w
  BY <1>1 DEF FleetInv, FleetTypeOK
<1> QED BY <1>1, WorkerKeeps, TickKeeps DEF FleetNext

LEMMA AgesKept ==
  ASSUME Slots # {}
  PROVE  FleetInv /\ AgesInv /\ [FleetNext]_w => AgesInv'
<1> SUFFICES ASSUME FleetInv, AgesInv, [FleetNext]_w, NEW q \in Workers
             PROVE  AgeInv(w'[q])
  BY DEF AgesInv
<1>0. AgeInv(w[q])
  BY DEF AgesInv
<1>1. ASSUME w' = w PROVE AgeInv(w'[q])
  BY <1>0, <1>1
<1>2. ASSUME NEW p \in Workers, WorkerStep(p) PROVE AgeInv(w'[q])
  BY <1>0, <1>2, WorkerKeeps DEF Turns
<1>3. ASSUME Tick PROVE AgeInv(w'[q])
  <2>1. CASE w[q].pc = "down"
    BY <1>0, <1>3, <2>1 DEF Tick
  <2>2. CASE w[q].pc # "down"
    <3>1. w'[q] = Older(q)
      BY <1>3, <2>2 DEF Tick
    <3>2. /\ Due(q) => w[q].late < Slack
          /\ \A s \in Busy(q) : w[q].run[s].ran < Timeout + Slack
      BY <1>3 DEF Tick
    <3> QED BY <1>0, <2>2, <3>1, <3>2, OlderAge DEF FleetInv
  <2> QED BY <2>1, <2>2
<1> QED BY <1>1, <1>2, <1>3 DEF FleetNext

-----------------------------------------------------------------------------
(* Every reachable state satisfies the inductive invariant.                *)
THEOREM FleetInvHolds == FleetSpec => []FleetInv
  BY FleetInitOK, FleetNextKeeps, PTL DEF FleetSpec

(* Processes and clocks keep their types; in particular no task runs       *)
(* longer than its timeout and the slack, and no process is behind for     *)
(* more than the slack between two heartbeats.                             *)
THEOREM FleetTypeCorrect == FleetSpec => []FleetTypeOK
<1>1. FleetInv => FleetTypeOK
  BY DEF FleetInv
<1> QED BY <1>1, FleetInvHolds, PTL

(* live_worker_count counts every process that runs a task, for any        *)
(* timeouts with job_handler_timeout_s and its slack below the visibility  *)
(* timeout.                                                                *)
THEOREM BusyWorkersCount == FleetSpec => []BusyIsCounted
<1>1. FleetInv => BusyIsCounted
  <2> SUFFICES ASSUME FleetInv, NEW p \in Workers, Busy(p) # {}
               PROVE  live_worker_count(p)
    BY DEF BusyIsCounted
  <2>1. w[p] \in Worker /\ IdleInv(w[p])
    BY DEF FleetInv, FleetTypeOK
  <2>2. PICK s \in RunsOf(w[p]) : TRUE
    BY BusyIs
  <2>3. PICK i \in 1..2 : w[p].idle[i] <= w[p].run[s].ran
    BY <2>1 DEF IdleInv
  <2>4. s \in Slots
    BY DEF RunsOf
  <2>5. w[p].run[s].ran \in 0..(Timeout + Slack) /\ w[p].idle[i] \in 0..Visibility
    BY <2>1, <2>3, <2>4, Fields
  <2>6. w[p].idle[i] < Visibility
    BY <2>3, <2>5, FleetAssumption
  <2> QED BY <2>3, <2>6 DEF live_worker_count
<1> QED BY <1>1, FleetInvHolds, PTL

(* /health never takes a process whose loop goes round for a hung one, as  *)
(* long as it has a slot at all: worker_heartbeat_threshold_s covers the   *)
(* wait for a slot and the wait for a message together.                    *)
THEOREM BusyWorkersHealthy ==
  ASSUME Slots # {}
  PROVE  FleetSpec => []BusyIsHealthy
<1>1. FleetInv /\ AgesInv => BusyIsHealthy
  <2> SUFFICES ASSUME FleetInv, AgesInv, NEW p \in Workers, w[p].pc # "drain"
               PROVE  health(p)
    BY DEF BusyIsHealthy
  <2>1. w[p] \in Worker /\ AgeInv(w[p])
    BY DEF FleetInv, FleetTypeOK, AgesInv
  <2>2. /\ w[p].age \in Nat /\ w[p].late \in 0..Slack /\ w[p].waited \in 0..Block
    BY <2>1, Fields
  <2>3. w[p].pc \in {"down", "top", "slot", "read", "block"}
    BY <2>1 DEF Worker
  <2>4. w[p].age <= Block + Timeout + Slack
    BY <2>1, <2>2, <2>3, FleetAssumption DEF AgeInv
  <2> QED BY <2>4 DEF health, worker_heartbeat_threshold_s
<1> QED BY <1>1, FleetInvHolds, FleetInitOK, AgesKept, PTL DEF FleetSpec

-----------------------------------------------------------------------------
(***************************************************************************)
(* The consumer group (Group).                                             *)
(***************************************************************************)
(* A process that serves, or has come that far in its start, has ensured   *)
(* the group; where the group is gone since, Redis has lost it.            *)
Ensured == \A x \in Hosts, k \in Streams : k < host[x] => k \in group \cup lost

(* Only a process that serves has work in hand.                            *)
HandsServe == \A x \in Hosts, j \in Jobs : hand[x][j] # "none" => Serving(x)

(* A handoff that is about to be marked, and that nothing has overtaken,   *)
(* is in reach still, or a loss has cost it its place.                     *)
MarkOK(j) == row[j].st \in Active => j \in reach \cup owed
MarksHold == \A x \in Hosts, j \in Jobs : hand[x][j] = "mark" => MarkOK(j)

SyncOK(j) == j \notin owed \cup late /\ row[j].st \in Waiting /\ row[j].synced => j \in reach

GroupInv ==
  /\ GroupTypeOK /\ Ensured /\ HandsServe /\ MarksHold
  /\ \A j \in Jobs : SyncOK(j)

-----------------------------------------------------------------------------
LEMMA RowBecomes ==
  ASSUME row \in [Jobs -> Rows], NEW j \in Jobs, NEW r \in Rows, row' = [row EXCEPT ![j] = r]
  PROVE  /\ row' \in [Jobs -> Rows] /\ row'[j] = r
         /\ \A i \in Jobs \ {j} : row'[i] = row[i]
  OBVIOUS

LEMMA RowMoves ==
  ASSUME row \in [Jobs -> Rows], NEW j \in Jobs,
         NEW st \in Active \cup {"none", "failed", "ended"},
         row' = [row EXCEPT ![j].st = st]
  PROVE  /\ row' \in [Jobs -> Rows] /\ row'[j].st = st /\ row'[j].synced = row[j].synced
         /\ \A i \in Jobs \ {j} : row'[i] = row[i]
<1> DEFINE r == [row[j] EXCEPT !.st = st]
<1>1. row[j] \in Rows
  OBVIOUS
<1>2. r \in Rows /\ r.st = st /\ r.synced = row[j].synced
  BY <1>1 DEF Rows
<1>3. row' = [row EXCEPT ![j] = r]
  OBVIOUS
<1> HIDE DEF r
<1> QED BY <1>2, <1>3, RowBecomes

LEMMA RowSynced ==
  ASSUME row \in [Jobs -> Rows], NEW j \in Jobs, row' = [row EXCEPT ![j].synced = TRUE]
  PROVE  /\ row' \in [Jobs -> Rows] /\ row'[j].st = row[j].st
         /\ \A i \in Jobs \ {j} : row'[i] = row[i]
<1> DEFINE r == [row[j] EXCEPT !.synced = TRUE]
<1>1. row[j] \in Rows
  OBVIOUS
<1>2. r \in Rows /\ r.st = row[j].st
  BY <1>1 DEF Rows
<1>3. row' = [row EXCEPT ![j] = r]
  OBVIOUS
<1> HIDE DEF r
<1> QED BY <1>2, <1>3, RowBecomes

(* Process x does what about j next.                                       *)
LEMMA HandBecomes ==
  ASSUME hand \in [Hosts -> [Jobs -> Hands]], NEW x \in Hosts, NEW j \in Jobs,
         NEW what \in Hands, Does(x, j, what)
  PROVE  /\ hand' \in [Hosts -> [Jobs -> Hands]] /\ hand'[x][j] = what
         /\ \A y \in Hosts, i \in Jobs : y # x \/ i # j => hand'[y][i] = hand[y][i]
<1> DEFINE f == [hand[x] EXCEPT ![j] = what]
<1>1. f \in [Jobs -> Hands] /\ f[j] = what /\ \A i \in Jobs \ {j} : f[i] = hand[x][i]
  OBVIOUS
<1>2. hand' = [hand EXCEPT ![x] = f]
  BY DEF Does
<1> HIDE DEF f
<1>3. hand' \in [Hosts -> [Jobs -> Hands]] /\ hand'[x] = f
      /\ \A y \in Hosts \ {x} : hand'[y] = hand[y]
  BY <1>1, <1>2
<1> QED BY <1>1, <1>3

(* The marks of j that are under way are late.                             *)
LEMMA Overtaken ==
  ASSUME hand \in [Hosts -> [Jobs -> Hands]], NEW j \in Jobs
  PROVE  /\ Overtake(j) \in [Hosts -> [Jobs -> Hands]]
         /\ \A y \in Hosts : /\ Overtake(j)[y][j] # "mark"
                             /\ Overtake(j)[y][j] # "none" => hand[y][j] # "none"
                             /\ \A i \in Jobs \ {j} : Overtake(j)[y][i] = hand[y][i]
<1>1. ASSUME NEW y \in Hosts
      PROVE  LET f == [hand[y] EXCEPT ![j] = IF @ = "mark" THEN "late" ELSE @]
             IN  /\ f \in [Jobs -> Hands] /\ f[j] # "mark"
                 /\ f[j] # "none" => hand[y][j] # "none"
                 /\ \A i \in Jobs \ {j} : f[i] = hand[y][i]
  <2> DEFINE h == IF hand[y][j] = "mark" THEN "late" ELSE hand[y][j]
  <2>1. h \in Hands /\ h # "mark" /\ (h # "none" => hand[y][j] # "none")
    BY DEF Hands
  <2> HIDE DEF h
  <2>2. LET f == [hand[y] EXCEPT ![j] = h]
        IN  /\ f \in [Jobs -> Hands] /\ f[j] = h
            /\ \A i \in Jobs \ {j} : f[i] = hand[y][i]
    BY <2>1
  <2> QED BY <2>1, <2>2 DEF h
<1> QED BY <1>1 DEF Overtake

(* A step about job j alone.                                               *)
LEMMA JobOnly ==
  ASSUME GroupInv, GroupTypeOK', NEW j \in Jobs,
         UNCHANGED <<host, group, lost>>,
         \A i \in Jobs \ {j} : row'[i] = row[i],
         \A i \in Jobs \ {j} : /\ i \in reach' <=> i \in reach
                               /\ i \in owed' <=> i \in owed
                               /\ i \in late' <=> i \in late,
         \A y \in Hosts, i \in Jobs : i # j => hand'[y][i] = hand[y][i],
         \A y \in Hosts : hand'[y][j] # "none" => hand[y][j] # "none" \/ Serving(y),
         (\E y \in Hosts : hand'[y][j] = "mark") => MarkOK(j)',
         SyncOK(j)'
  PROVE  GroupInv'
<1>1. Ensured'
  BY DEF GroupInv, Ensured
<1>2. HandsServe'
  <2> SUFFICES ASSUME NEW y \in Hosts, NEW i \in Jobs, hand'[y][i] # "none"
               PROVE  Serving(y)'
    BY DEF HandsServe
  <2>1. Serving(y)
    BY DEF GroupInv, HandsServe
  <2> QED BY <2>1 DEF Serving
<1>3. MarksHold'
  <2> SUFFICES ASSUME NEW y \in Hosts, NEW i \in Jobs, hand'[y][i] = "mark"
               PROVE  MarkOK(i)'
    BY DEF MarksHold
  <2>1. CASE i = j
    BY <2>1
  <2>2. CASE i # j
    <3>1. MarkOK(i)
      BY <2>2 DEF GroupInv, MarksHold
    <3> QED BY <2>2, <3>1 DEF MarkOK
  <2> QED BY <2>1, <2>2
<1>4. ASSUME NEW i \in Jobs PROVE SyncOK(i)'
  <2>1. CASE i = j
    BY <2>1
  <2>2. CASE i # j
    <3>1. SyncOK(i)
      BY DEF GroupInv
    <3> QED BY <2>2, <3>1 DEF SyncOK
  <2> QED BY <2>1, <2>2
<1> QED BY <1>1, <1>2, <1>3, <1>4 DEF GroupInv


-----------------------------------------------------------------------------
LEMMA GroupFacts ==
  ASSUME GroupInv
  PROVE  /\ GroupTypeOK /\ row \in [Jobs -> Rows] /\ hand \in [Hosts -> [Jobs -> Hands]]
         /\ group \subseteq Streams /\ zset \subseteq Jobs /\ given \subseteq Jobs
         /\ host \in [Hosts -> 0..(NumStreams + 1)] /\ lost \subseteq Streams
         /\ reach \subseteq Jobs /\ owed \subseteq Jobs /\ late \subseteq Jobs
         /\ losses \in 0..MaxLosses
         /\ \A j \in Jobs : SyncOK(j)
         /\ \A x \in Hosts, j \in Jobs : hand[x][j] = "mark" => MarkOK(j)
         /\ \A x \in Hosts, j \in Jobs : hand[x][j] # "none" => Serving(x)
  BY DEF GroupInv, GroupTypeOK, MarksHold, HandsServe

(* What a process does next about j changes, and perhaps the ZSET, but     *)
(* neither the row nor the history.                                        *)
LEMMA HandOnly ==
  ASSUME GroupInv, NEW x \in Hosts, NEW j \in Jobs, NEW what \in Hands \ {"mark"},
         hand[x][j] # "none" \/ Serving(x), Does(x, j, what),
         zset' \subseteq zset, UNCHANGED <<row, group, given, host, history, losses>>
  PROVE  GroupInv'
<1>1. /\ hand' \in [Hosts -> [Jobs -> Hands]] /\ hand'[x][j] = what
      /\ \A y \in Hosts, i \in Jobs : y # x \/ i # j => hand'[y][i] = hand[y][i]
  BY GroupFacts, HandBecomes
<1>2. GroupTypeOK'
  BY <1>1, GroupFacts DEF GroupTypeOK, history
<1>3. SyncOK(j)' /\ (MarkOK(j) => MarkOK(j)')
  BY GroupFacts DEF SyncOK, MarkOK, history
<1>4. (\E y \in Hosts : hand'[y][j] = "mark") => MarkOK(j)'
  BY <1>1, <1>3, GroupFacts
<1>5. \A y \in Hosts : hand'[y][j] # "none" => hand[y][j] # "none" \/ Serving(y)
  BY <1>1
<1>6. UNCHANGED <<lost, reach, owed, late>>
  BY DEF history
<1> QED BY <1>1, <1>2, <1>3, <1>4, <1>5, <1>6, JobOnly

(* Row j gets the status st, which is none it can wait in unless it waited *)
(* before; at the same time x may go on to something else.                 *)
LEMMA RowOnly ==
  ASSUME GroupInv, NEW j \in Jobs, NEW st \in Active \cup {"none", "failed", "ended"},
         row' = [row EXCEPT ![j].st = st], st \in Waiting => row[j].st \in Waiting,
         st \in Active => row[j].st \in Active,
         hand' \in [Hosts -> [Jobs -> Hands]],
         \A y \in Hosts, i \in Jobs : i # j => hand'[y][i] = hand[y][i],
         \A y \in Hosts : /\ hand'[y][j] # "none" => hand[y][j] # "none" \/ Serving(y)
                          /\ hand'[y][j] = "mark" => hand[y][j] = "mark",
         UNCHANGED <<redis, host, history, losses>>
  PROVE  GroupInv'
<1>1. /\ row' \in [Jobs -> Rows] /\ row'[j].st = st /\ row'[j].synced = row[j].synced
      /\ \A i \in Jobs \ {j} : row'[i] = row[i]
  BY GroupFacts, RowMoves
<1>2. UNCHANGED <<lost, reach, owed, late, group, zset, given>>
  BY DEF history, redis
<1>3. GroupTypeOK'
  BY <1>1, <1>2, GroupFacts DEF GroupTypeOK
<1>4. SyncOK(j)'
  BY <1>1, <1>2, GroupFacts DEF SyncOK
<1>5. MarkOK(j) => MarkOK(j)'
  BY <1>1, <1>2 DEF MarkOK
<1>6. (\E y \in Hosts : hand'[y][j] = "mark") => MarkOK(j)'
  BY <1>5, GroupFacts
<1> QED BY <1>1, <1>2, <1>3, <1>4, <1>6, JobOnly

LEMMA CommitKeeps ==
  ASSUME GroupInv, NEW x \in Hosts, NEW j \in Jobs, NEW st \in Waiting,
         hand[x][j] # "none" \/ Serving(x), Commit(x, j, st)
  PROVE  GroupInv'
<1> DEFINE r == [st |-> st, synced |-> FALSE]
           o == Overtake(j)
           f == [o[x] EXCEPT ![j] = Handoff(st)]
<1>1. r \in Rows /\ r.st = st /\ r.synced = FALSE /\ row' = [row EXCEPT ![j] = r]
  BY DEF Commit, Rows, Active
<1> HIDE DEF r
<1>2. row' \in [Jobs -> Rows] /\ row'[j] = r /\ \A i \in Jobs \ {j} : row'[i] = row[i]
  BY <1>1, GroupFacts, RowBecomes
<1>3. Handoff(st) \in Hands \ {"mark", "none"}
  BY DEF Handoff, Hands
<1>4. /\ o \in [Hosts -> [Jobs -> Hands]]
      /\ \A y \in Hosts : /\ o[y][j] # "mark"
                          /\ o[y][j] # "none" => hand[y][j] # "none"
                          /\ \A i \in Jobs \ {j} : o[y][i] = hand[y][i]
  BY GroupFacts, Overtaken
<1>5. hand' = [o EXCEPT ![x] = f]
  BY DEF Commit
<1>6. f \in [Jobs -> Hands] /\ f[j] # "mark" /\ \A i \in Jobs \ {j} : f[i] = hand[x][i]
  <2> HIDE DEF o
  <2> QED BY <1>3, <1>4
<1> HIDE DEF o, f
<1>7. /\ hand' \in [Hosts -> [Jobs -> Hands]]
      /\ hand'[x] = f /\ \A y \in Hosts \ {x} : hand'[y] = o[y]
  BY <1>4, <1>5, <1>6
<1>8. \A y \in Hosts : /\ hand'[y][j] # "mark"
                       /\ hand'[y][j] # "none" => hand[y][j] # "none" \/ Serving(y)
                       /\ \A i \in Jobs \ {j} : hand'[y][i] = hand[y][i]
  BY <1>4, <1>6, <1>7
<1>9. /\ reach' = reach \ {j} /\ late' = late \ {j}
      /\ UNCHANGED <<group, zset, given, host, lost, owed, losses>>
  BY DEF Commit, redis
<1>10. GroupTypeOK'
  BY <1>2, <1>7, <1>9, GroupFacts DEF GroupTypeOK
<1>11. SyncOK(j)'
  BY <1>1, <1>2 DEF SyncOK
<1> QED BY <1>2, <1>8, <1>9, <1>10, <1>11, JobOnly

(* An XADD: the process has served, so the stream has its group or Redis   *)
(* has lost it, and the job is in reach or owed.                           *)
LEMMA XAddHits ==
  ASSUME GroupInv, NEW x \in Hosts, NEW j \in Jobs, Serving(x), XAdd(j)
  PROVE  /\ j \in reach' \cup owed'
         /\ \A i \in Jobs \ {j} : /\ i \in reach' <=> i \in reach
                                  /\ i \in owed' <=> i \in owed
                                  /\ i \in late' <=> i \in late
         /\ reach' \subseteq Jobs /\ owed' \subseteq Jobs /\ late' \subseteq Jobs
         /\ given' \subseteq Jobs
         /\ j \notin owed' \cup late' => j \in reach'
         /\ UNCHANGED <<row, group, zset, host, lost, losses>>
<1>1. StreamOf[j] \in Streams /\ StreamOf[j] < NumStreams + 1
  BY GroupAssumption DEF Streams
<1>2. StreamOf[j] \in group \cup lost
  BY <1>1 DEF GroupInv, Ensured, Serving
<1>3. CASE StreamOf[j] \in group
  BY <1>3, GroupFacts DEF XAdd
<1>4. CASE StreamOf[j] \notin group
  BY <1>2, <1>4, GroupFacts DEF XAdd
<1> QED BY <1>3, <1>4

LEMMA SendKeeps ==
  ASSUME GroupInv, NEW x \in Hosts, NEW j \in Jobs, NEW what \in Hands \ {"none"},
         hand[x][j] # "none", Does(x, j, what), XAdd(j) \/ ZAdd(j)
  PROVE  GroupInv'
<1>1. /\ hand' \in [Hosts -> [Jobs -> Hands]] /\ hand'[x][j] = what
      /\ \A y \in Hosts, i \in Jobs : y # x \/ i # j => hand'[y][i] = hand[y][i]
  BY GroupFacts, HandBecomes
<1>2. /\ j \in reach' \cup owed'
      /\ \A i \in Jobs \ {j} : /\ i \in reach' <=> i \in reach
                               /\ i \in owed' <=> i \in owed
                               /\ i \in late' <=> i \in late
      /\ reach' \subseteq Jobs /\ owed' \subseteq Jobs /\ late' \subseteq Jobs
      /\ given' \subseteq Jobs /\ zset' \subseteq Jobs
      /\ j \notin owed' \cup late' => j \in reach'
      /\ UNCHANGED <<row, group, host, lost, losses>>
  <2>1. CASE XAdd(j)
    BY <2>1, XAddHits, GroupFacts
  <2>2. CASE ZAdd(j)
    BY <2>2, GroupFacts DEF ZAdd
  <2> QED BY <2>1, <2>2
<1>3. GroupTypeOK'
  BY <1>1, <1>2, GroupFacts DEF GroupTypeOK
<1>4. SyncOK(j)' /\ MarkOK(j)'
  BY <1>2 DEF SyncOK, MarkOK
<1>5. \A y \in Hosts : hand'[y][j] # "none" => hand[y][j] # "none" \/ Serving(y)
  BY <1>1
<1> QED BY <1>1, <1>2, <1>3, <1>4, <1>5, JobOnly

LEMMA MarkKeeps ==
  ASSUME GroupInv, NEW x \in Hosts, NEW j \in Jobs, mark_synced(x, j)
  PROVE  GroupInv'
<1>1. "none" \in Hands /\ Does(x, j, "none") /\ row' = [row EXCEPT ![j].synced = TRUE]
  BY DEF Hands, mark_synced
<1>2. /\ hand' \in [Hosts -> [Jobs -> Hands]] /\ hand'[x][j] = "none"
      /\ \A y \in Hosts, i \in Jobs : y # x \/ i # j => hand'[y][i] = hand[y][i]
  BY <1>1, GroupFacts, HandBecomes
<1>3. /\ row' \in [Jobs -> Rows] /\ row'[j].st = row[j].st
      /\ \A i \in Jobs \ {j} : row'[i] = row[i]
  BY <1>1, GroupFacts, RowSynced
<1>4. /\ UNCHANGED <<group, zset, given, host, lost, reach, owed, losses>>
      /\ late' = IF hand[x][j] = "late" /\ ~row[j].synced
                 THEN late \cup ({j} \ reach) ELSE late
      /\ hand[x][j] \in {"mark", "late"}
  BY DEF mark_synced, redis
<1>5. late' \subseteq Jobs /\ \A i \in Jobs \ {j} : i \in late' <=> i \in late
  BY <1>4, GroupFacts
<1>6. GroupTypeOK'
  BY <1>2, <1>3, <1>4, <1>5, GroupFacts DEF GroupTypeOK
<1>7. SyncOK(j)'
  <2>1. CASE hand[x][j] = "mark"
    <3>1. row[j].st \in Active => j \in reach \cup owed
      BY <2>1, GroupFacts DEF MarkOK
    <3>2. row[j].st \in Waiting => row[j].st \in Active
      BY DEF Active
    <3> QED BY <1>3, <1>4, <3>1, <3>2 DEF SyncOK
  <2>2. CASE hand[x][j] = "late" /\ ~row[j].synced
    BY <1>4, <2>2 DEF SyncOK
  <2>3. CASE hand[x][j] = "late" /\ row[j].synced
    BY <1>3, <1>4, <2>3, GroupFacts DEF SyncOK
  <2> QED BY <1>4, <2>1, <2>2, <2>3
<1>8. MarkOK(j) => MarkOK(j)'
  BY <1>3, <1>4 DEF MarkOK
<1>9. (\E y \in Hosts : hand'[y][j] = "mark") => MarkOK(j)'
  <2> SUFFICES ASSUME NEW y \in Hosts, hand'[y][j] = "mark" PROVE MarkOK(j)'
    OBVIOUS
  <2>1. hand[y][j] = "mark"
    BY <1>2
  <2> QED BY <1>8, <2>1, GroupFacts
<1>10. \A y \in Hosts : hand'[y][j] # "none" => hand[y][j] # "none" \/ Serving(y)
  BY <1>2
<1> QED BY <1>2, <1>3, <1>4, <1>5, <1>6, <1>7, <1>9, <1>10, JobOnly


-----------------------------------------------------------------------------
(* Rows, hands and history stay, and no group is forgotten.                *)
LEMMA HostsOnly ==
  ASSUME GroupInv, UNCHANGED <<row, zset, given, reach, owed, late, losses>>,
         group' \subseteq Streams, lost' \subseteq Streams,
         host' \in [Hosts -> 0..(NumStreams + 1)], Ensured',
         hand' \in [Hosts -> [Jobs -> Hands]],
         \A x \in Hosts, j \in Jobs : hand'[x][j] # "none" =>
            hand'[x][j] = hand[x][j] /\ host'[x] = host[x]
  PROVE  GroupInv'
<1>1. GroupTypeOK'
  BY GroupFacts DEF GroupTypeOK
<1>2. HandsServe'
  <2> SUFFICES ASSUME NEW x \in Hosts, NEW j \in Jobs, hand'[x][j] # "none"
               PROVE  Serving(x)'
    BY DEF HandsServe
  <2>1. Serving(x) /\ host'[x] = host[x]
    BY GroupFacts
  <2> QED BY <2>1 DEF Serving
<1>3. MarksHold'
  <2> SUFFICES ASSUME NEW x \in Hosts, NEW j \in Jobs, hand'[x][j] = "mark"
               PROVE  MarkOK(j)'
    BY DEF MarksHold
  <2>1. MarkOK(j)
    BY GroupFacts
  <2> QED BY <2>1 DEF MarkOK
<1>4. \A j \in Jobs : SyncOK(j)'
  BY GroupFacts DEF SyncOK
<1> QED BY <1>1, <1>2, <1>3, <1>4 DEF GroupInv

LEMMA EnsureKeeps ==
  ASSUME GroupInv, NEW k \in Streams, ensure_group(k),
         UNCHANGED <<row, zset, given, host, hand, owed, late, losses>>
  PROVE  GroupInv'
<1>1. Ensured'
  BY DEF GroupInv, Ensured, ensure_group
<1> QED BY <1>1, GroupFacts, HostsOnly DEF ensure_group

LEMMA BootKeeps ==
  ASSUME GroupInv, NEW x \in Hosts, Boot(x) \/ BootEnsure(x) \/ Fall(x)
  PROVE  GroupInv'
<1>0. NumStreams \in Nat /\ host[x] \in 0..(NumStreams + 1)
  BY GroupFacts, GroupAssumption
<1>1. CASE Boot(x)
  <2>1. host' = [host EXCEPT ![x] = 1] /\ host[x] = 0
        /\ UNCHANGED <<row, group, zset, given, hand, lost, reach, owed, late, losses>>
    BY <1>1 DEF Boot, redis, history
  <2>2. host' \in [Hosts -> 0..(NumStreams + 1)] /\ host'[x] = 1
        /\ \A y \in Hosts \ {x} : host'[y] = host[y]
    BY <1>0, <2>1, GroupFacts
  <2>3. \A k \in Streams : ~(k < 1)
    BY GroupAssumption DEF Streams
  <2>4. Ensured'
    BY <2>1, <2>2, <2>3 DEF GroupInv, Ensured
  <2>5. \A j \in Jobs : hand[x][j] = "none"
    BY <1>0, <2>1, GroupFacts DEF Serving
  <2> QED BY <2>1, <2>2, <2>4, <2>5, GroupFacts, HostsOnly
<1>2. CASE BootEnsure(x)
  <2> DEFINE k == host[x]
  <2>1. k \in Streams /\ ensure_group(k) /\ host' = [host EXCEPT ![x] = k + 1]
        /\ UNCHANGED <<row, zset, given, hand, owed, late, losses>>
    BY <1>2 DEF BootEnsure
  <2>2. k \in 1..NumStreams /\ k + 1 \in 0..(NumStreams + 1) /\ k # NumStreams + 1
    BY <1>0, <2>1 DEF Streams
  <2>3. host' \in [Hosts -> 0..(NumStreams + 1)] /\ host'[x] = k + 1
        /\ \A y \in Hosts \ {x} : host'[y] = host[y]
    BY <2>1, <2>2, GroupFacts
  <2>4. group' = group \cup {k} /\ lost' = lost \ {k} /\ UNCHANGED reach
    BY <2>1 DEF ensure_group
  <2>5. Ensured'
    <3> SUFFICES ASSUME NEW y \in Hosts, NEW i \in Streams, i < host'[y]
                 PROVE  i \in group' \cup lost'
      BY DEF Ensured
    <3>1. CASE y = x
      <4>1. i < k \/ i = k
        BY <2>2, <2>3, <3>1 DEF Streams
      <4> QED BY <2>4, <4>1 DEF GroupInv, Ensured
    <3>2. CASE y # x
      BY <2>3, <2>4, <3>2 DEF GroupInv, Ensured
    <3> QED BY <3>1, <3>2
  <2>6. \A j \in Jobs : hand[x][j] = "none"
    BY <2>2, GroupFacts DEF Serving
  <2> HIDE DEF k
  <2>7. group' \subseteq Streams /\ lost' \subseteq Streams
    BY <2>1, <2>4, GroupFacts
  <2> QED BY <2>1, <2>3, <2>4, <2>5, <2>6, <2>7, GroupFacts, HostsOnly
<1>3. CASE Fall(x)
  <2> DEFINE f == [j \in Jobs |-> "none"]
  <2>1. host' = [host EXCEPT ![x] = 0] /\ hand' = [hand EXCEPT ![x] = f]
        /\ UNCHANGED <<row, group, zset, given, lost, reach, owed, late, losses>>
    BY <1>3 DEF Fall, redis, history
  <2>2. f \in [Jobs -> Hands] /\ \A j \in Jobs : f[j] = "none"
    BY DEF Hands
  <2> HIDE DEF f
  <2>3. host' \in [Hosts -> 0..(NumStreams + 1)] /\ host'[x] = 0
        /\ \A y \in Hosts \ {x} : host'[y] = host[y]
    BY <1>0, <2>1, GroupFacts
  <2>4. hand' \in [Hosts -> [Jobs -> Hands]] /\ hand'[x] = f
        /\ \A y \in Hosts \ {x} : hand'[y] = hand[y]
    BY <2>1, <2>2, GroupFacts
  <2>5. \A k \in Streams : ~(k < 0)
    BY GroupAssumption DEF Streams
  <2>6. Ensured'
    BY <2>1, <2>3, <2>5 DEF GroupInv, Ensured
  <2> QED BY <2>1, <2>2, <2>3, <2>4, <2>6, GroupFacts, HostsOnly
<1> QED BY <1>1, <1>2, <1>3

LEMMA LossKeeps ==
  ASSUME GroupInv, RedisLoss
  PROVE  GroupInv'
<1>1. /\ losses < MaxLosses /\ losses' = losses + 1
      /\ group' = {} /\ zset' = {} /\ given' = {} /\ lost' = lost \cup group /\ reach' = {}
      /\ owed' = {j \in Jobs : row[j].st \in Active}
      /\ UNCHANGED <<row, host, hand, late>>
  BY DEF RedisLoss
<1>2. losses' \in 0..MaxLosses
  BY <1>1, GroupFacts, GroupAssumption
<1>3. GroupTypeOK'
  BY <1>1, <1>2, GroupFacts DEF GroupTypeOK
<1>4. Ensured'
  BY <1>1 DEF GroupInv, Ensured
<1>5. HandsServe'
  BY <1>1 DEF GroupInv, HandsServe, Serving
<1>6. \A j \in Jobs : MarkOK(j)'
  BY <1>1 DEF MarkOK
<1>7. \A j \in Jobs : SyncOK(j)'
  BY <1>1 DEF SyncOK, Active
<1> QED BY <1>3, <1>4, <1>5, <1>6, <1>7 DEF GroupInv, MarksHold

LEMMA RearmKeeps ==
  ASSUME GroupInv, Rearm
  PROVE  GroupInv'
<1> DEFINE rearmed == {j \in Jobs : row[j].st \in Waiting}
           re(j) == [row[j] EXCEPT !.synced = FALSE]
<1>1. /\ row' = [j \in Jobs |-> IF j \in rearmed THEN re(j) ELSE row[j]]
      /\ hand' = [x \in Hosts |-> [j \in Jobs |-> IF j \in rearmed /\ hand[x][j] = "mark"
                                                  THEN "late" ELSE hand[x][j]]]
      /\ owed' = owed \ rearmed /\ late' = late \ rearmed
      /\ UNCHANGED <<group, zset, given, host, lost, reach, losses>>
  BY DEF Rearm, redis
<1>2. ASSUME NEW j \in Jobs PROVE re(j) \in Rows /\ re(j).st = row[j].st /\ ~re(j).synced
  <2>1. row[j] \in Rows
    BY GroupFacts
  <2> QED BY <2>1 DEF Rows
<1> HIDE DEF re
<1>3. row' \in [Jobs -> Rows]
  BY <1>1, <1>2, GroupFacts
<1>4. \A j \in Jobs : /\ row'[j].st = row[j].st
                      /\ j \in rearmed => ~row'[j].synced
                      /\ j \notin rearmed => row'[j] = row[j]
  BY <1>1, <1>2
<1>5. hand' \in [Hosts -> [Jobs -> Hands]]
  <2>1. "late" \in Hands
    BY DEF Hands
  <2> QED BY <1>1, <2>1, GroupFacts
<1>6. \A x \in Hosts, j \in Jobs :
        /\ hand'[x][j] # "none" => hand[x][j] # "none"
        /\ hand'[x][j] = "mark" => hand[x][j] = "mark" /\ j \notin rearmed
  BY <1>1
<1>7. GroupTypeOK'
  BY <1>1, <1>3, <1>5, GroupFacts DEF GroupTypeOK
<1>8. Ensured'
  BY <1>1 DEF GroupInv, Ensured
<1>9. HandsServe'
  BY <1>1, <1>6 DEF GroupInv, HandsServe, Serving
<1>10. MarksHold'
  <2> SUFFICES ASSUME NEW x \in Hosts, NEW j \in Jobs, hand'[x][j] = "mark"
               PROVE  MarkOK(j)'
    BY DEF MarksHold
  <2>1. MarkOK(j) /\ j \notin rearmed
    BY <1>6, GroupFacts
  <2> QED BY <1>1, <1>4, <2>1 DEF MarkOK
<1>11. ASSUME NEW j \in Jobs PROVE SyncOK(j)'
  <2>1. CASE j \in rearmed
    BY <1>4, <2>1 DEF SyncOK
  <2>2. CASE j \notin rearmed
    BY <1>1, <1>4, <2>2, GroupFacts DEF SyncOK
  <2> QED BY <2>1, <2>2
<1> QED BY <1>7, <1>8, <1>9, <1>10, <1>11 DEF GroupInv

LEMMA ResetKeeps ==
  ASSUME GroupInv, NEW j \in Jobs, Reset(j)
  PROVE  GroupInv'
<1> DEFINE r == [st |-> "pending", synced |-> FALSE]
<1>1. r \in Rows /\ r.synced = FALSE /\ row' = [row EXCEPT ![j] = r]
  BY DEF Reset, Rows, Active, Waiting
<1> HIDE DEF r
<1>2. row' \in [Jobs -> Rows] /\ row'[j] = r /\ \A i \in Jobs \ {j} : row'[i] = row[i]
  BY <1>1, GroupFacts, RowBecomes
<1>3. hand' = Overtake(j) /\ reach' = reach \ {j} /\ owed' = owed \ {j} /\ late' = late \ {j}
      /\ UNCHANGED <<group, zset, given, host, lost, losses>>
  BY DEF Reset, redis
<1>4. /\ hand' \in [Hosts -> [Jobs -> Hands]]
      /\ \A y \in Hosts : /\ hand'[y][j] # "mark"
                          /\ hand'[y][j] # "none" => hand[y][j] # "none"
                          /\ \A i \in Jobs \ {j} : hand'[y][i] = hand[y][i]
  BY <1>3, GroupFacts, Overtaken
<1>5. GroupTypeOK'
  BY <1>2, <1>3, <1>4, GroupFacts DEF GroupTypeOK
<1>6. SyncOK(j)'
  BY <1>1, <1>2 DEF SyncOK
<1> QED BY <1>2, <1>3, <1>4, <1>5, <1>6, JobOnly

-----------------------------------------------------------------------------
LEMMA ApiKeeps ==
  ASSUME GroupInv, NEW x \in Hosts, NEW j \in Jobs, ApiDoes(x, j)
  PROVE  GroupInv'
<1>1. ASSUME NEW st \in Waiting, Submit(x, j, st) PROVE GroupInv'
  BY <1>1, CommitKeeps DEF Submit, Free
<1>2. CASE Retry(x, j)
  BY <1>2, CommitKeeps DEF Retry, Free, Waiting
<1>3. CASE Cancel(x, j)
  <2>1. /\ "drop" \in Hands /\ Does(x, j, "drop") /\ Serving(x) /\ hand[x][j] = "none"
        /\ row' = [row EXCEPT ![j].st = "ended"] /\ UNCHANGED <<redis, host, history, losses>>
    BY <1>3 DEF Cancel, Free, Hands
  <2>2. /\ hand' \in [Hosts -> [Jobs -> Hands]] /\ hand'[x][j] = "drop"
        /\ \A y \in Hosts, i \in Jobs : y # x \/ i # j => hand'[y][i] = hand[y][i]
    BY <2>1, GroupFacts, HandBecomes
  <2>3. "ended" \in Active \cup {"none", "failed", "ended"} /\ "ended" \notin Active
        /\ "ended" \notin Waiting
    BY DEF Active, Waiting
  <2> QED BY <2>1, <2>2, <2>3, RowOnly
<1>4. CASE CancelZrem(x, j)
  BY <1>4, GroupFacts, HandOnly DEF CancelZrem, Hands
<1> QED BY <1>1, <1>2, <1>3, <1>4 DEF ApiDoes


(* x goes on to what, and row j moves to st or stays as it is.             *)
LEMMA MoveKeeps ==
  ASSUME GroupInv, NEW x \in Hosts, NEW j \in Jobs, NEW what \in Hands \ {"mark"},
         hand[x][j] # "none" \/ Serving(x), Does(x, j, what),
         NEW st \in Active \cup {"none", "failed", "ended"},
         row' = [row EXCEPT ![j].st = st] \/ row' = row,
         st \in Waiting => row[j].st \in Waiting, st \in Active => row[j].st \in Active,
         UNCHANGED <<redis, host, history, losses>>
  PROVE  GroupInv'
<1>1. CASE row' = row
  BY <1>1, GroupFacts, HandOnly DEF redis
<1>2. CASE row' = [row EXCEPT ![j].st = st]
  <2>1. /\ hand' \in [Hosts -> [Jobs -> Hands]] /\ hand'[x][j] = what
        /\ \A y \in Hosts, i \in Jobs : y # x \/ i # j => hand'[y][i] = hand[y][i]
    BY GroupFacts, HandBecomes
  <2>2. \A y \in Hosts : /\ hand'[y][j] # "none" => hand[y][j] # "none" \/ Serving(y)
                         /\ hand'[y][j] = "mark" => hand[y][j] = "mark"
    BY <2>1
  <2> QED BY <1>2, <2>1, <2>2, RowOnly
<1> QED BY <1>1, <1>2

LEMMA ConsumerKeeps ==
  ASSUME GroupInv, NEW x \in Hosts, NEW j \in Jobs, ConsumerDoes(x, j)
  PROVE  GroupInv'
<1>0. /\ {"none", "claim", "run"} \subseteq Hands \ {"mark"}
      /\ {"running", "failed", "ended"} \subseteq Active \cup {"none", "failed", "ended"}
      /\ "running" \notin Waiting /\ {"failed", "ended"} \cap Active = {}
      /\ {"failed", "ended"} \cap Waiting = {} /\ Waiting \subseteq Active
  BY DEF Hands, Active, Waiting
<1>1. CASE Read(x, j)
  BY <1>0, <1>1, GroupFacts, HandOnly DEF Read, Free, redis
<1>2. CASE Claim(x, j)
  <2>1. CASE row[j].st \in Waiting
    <3>1. row' = [row EXCEPT ![j].st = "running"] /\ Does(x, j, "run")
          /\ hand[x][j] # "none" /\ UNCHANGED <<redis, host, history, losses>>
      BY <1>2, <2>1 DEF Claim
    <3> QED BY <1>0, <2>1, <3>1, MoveKeeps
  <2>2. CASE row[j].st \notin Waiting
    <3>1. row' = row /\ Does(x, j, "none")
          /\ hand[x][j] # "none" /\ UNCHANGED <<redis, host, history, losses>>
      BY <1>2, <2>2 DEF Claim
    <3> QED BY <1>0, <3>1, HandOnly, GroupFacts DEF redis
  <2> QED BY <2>1, <2>2
<1>3. ASSUME NEW st \in {"failed", "ended"}, RunEnds(x, j, st) PROVE GroupInv'
  <2>1. /\ row' = [row EXCEPT ![j].st = st] \/ row' = row
        /\ Does(x, j, "none") /\ hand[x][j] # "none"
        /\ UNCHANGED <<redis, host, history, losses>>
    BY <1>3 DEF RunEnds
  <2>2. st \notin Waiting /\ st \notin Active /\ st \in Active \cup {"none", "failed", "ended"}
    BY <1>0
  <2> QED BY <1>0, <2>1, <2>2, MoveKeeps
<1>4. ASSUME NEW st \in Waiting, RunFails(x, j, st) PROVE GroupInv'
  BY <1>4, CommitKeeps DEF RunFails
<1> QED BY <1>1, <1>2, <1>3, <1>4 DEF ConsumerDoes

LEMMA TickerKeeps ==
  ASSUME GroupInv, NEW x \in Hosts, NEW j \in Jobs, TickerDoes(x, j)
  PROVE  GroupInv'
<1>0. /\ {"none", "xadd", "zadd", "promote", "zrem", "flip"} \subseteq Hands \ {"mark"}
      /\ {"pending", "scheduled"} = Waiting /\ Waiting \subseteq Active
      /\ "failed" \notin Active /\ "failed" \notin Waiting
  BY DEF Hands, Active, Waiting
<1>1. CASE Promote(x, j)
  BY <1>0, <1>1, GroupFacts, HandOnly DEF Promote, Free, redis
<1>2. CASE PromoteXadd(x, j)
  BY <1>0, <1>2, SendKeeps DEF PromoteXadd
<1>3. CASE PromoteZrem(x, j)
  BY <1>0, <1>3, GroupFacts, HandOnly DEF PromoteZrem
<1>4. CASE PromoteFlip(x, j)
  <2>1. Does(x, j, "none") /\ hand[x][j] # "none" /\ UNCHANGED <<redis, host, history, losses>>
    BY <1>4 DEF PromoteFlip
  <2>2. CASE row[j].st = "scheduled"
    <3>1. row' = [row EXCEPT ![j].st = "pending"]
      BY <1>4, <2>2 DEF PromoteFlip
    <3> QED BY <1>0, <2>1, <2>2, <3>1, MoveKeeps
  <2>3. CASE row[j].st # "scheduled"
    <3>1. row' = row
      BY <1>4, <2>3 DEF PromoteFlip
    <3> QED BY <1>0, <2>1, <3>1, HandOnly, GroupFacts DEF redis
  <2> QED BY <2>2, <2>3
<1>5. CASE reconcile_orphans(x, j)
  <2>1. Handoff(row[j].st) \in Hands \ {"mark"}
    BY <1>0 DEF Handoff
  <2> QED BY <1>5, <2>1, GroupFacts, HandOnly DEF reconcile_orphans, Free, redis
<1>6. ASSUME NEW st \in Waiting \cup {"failed"}, reap_one(x, j, st) PROVE GroupInv'
  <2>1. CASE st \in Waiting /\ Commit(x, j, st)
    BY <1>6, <2>1, CommitKeeps DEF reap_one, Free
  <2>2. CASE /\ st = "failed" /\ row' = [row EXCEPT ![j].st = st]
             /\ UNCHANGED <<redis, host, hand, history, losses>>
    BY <1>0, <2>2, GroupFacts, RowOnly
  <2> QED BY <1>6, <2>1, <2>2 DEF reap_one
<1> QED BY <1>1, <1>2, <1>3, <1>4, <1>5, <1>6 DEF TickerDoes

LEMMA GroupInitOK == GroupInit => GroupInv
<1> SUFFICES ASSUME GroupInit PROVE GroupInv
  OBVIOUS
<1>1. /\ \A j \in Jobs : row[j] = [st |-> "none", synced |-> FALSE]
      /\ \A x \in Hosts : host[x] = 0 /\ \A j \in Jobs : hand[x][j] = "none"
  BY DEF GroupInit
<1>2. "none" \in Hands /\ [st |-> "none", synced |-> FALSE] \in Rows
  BY DEF Hands, Rows
<1>3. 0 \in 0..(NumStreams + 1) /\ 0 \in 0..MaxLosses
  BY GroupAssumption
<1>4. GroupTypeOK
  BY <1>2, <1>3 DEF GroupInit, GroupTypeOK
<1>5. \A k \in Streams : ~(k < 0)
  BY GroupAssumption DEF Streams
<1>6. Ensured /\ HandsServe /\ MarksHold
  BY <1>1, <1>5 DEF Ensured, HandsServe, MarksHold
<1>7. \A j \in Jobs : SyncOK(j)
  BY <1>1 DEF SyncOK
<1> QED BY <1>4, <1>6, <1>7 DEF GroupInv

LEMMA GroupNextKeeps == GroupInv /\ [GroupNext]_groupVars => GroupInv'
<1> SUFFICES ASSUME GroupInv, [GroupNext]_groupVars PROVE GroupInv'
  OBVIOUS
<1>0. Apis \subseteq Hosts /\ Consumers \subseteq Hosts /\ Tickers \subseteq Hosts
  BY DEF Hosts
<1>1. CASE UNCHANGED groupVars
  BY <1>1, GroupFacts, HostsOnly DEF groupVars, redis, history, GroupInv, Ensured
<1>2. ASSUME NEW x \in Hosts, Boot(x) \/ BootEnsure(x) \/ Fall(x) PROVE GroupInv'
  BY <1>2, BootKeeps
<1>3. ASSUME NEW x \in Hosts, NEW j \in Jobs, Send(x, j) PROVE GroupInv'
  <2>1. "mark" \in Hands \ {"none"}
    BY DEF Hands
  <2> QED BY <1>3, <2>1, SendKeeps DEF Send
<1>4. ASSUME NEW x \in Hosts, NEW j \in Jobs, mark_synced(x, j) PROVE GroupInv'
  BY <1>4, MarkKeeps
<1>5. ASSUME NEW x \in Apis, NEW j \in Jobs, ApiDoes(x, j) PROVE GroupInv'
  BY <1>0, <1>5, ApiKeeps
<1>6. ASSUME NEW x \in Consumers, NEW j \in Jobs, ConsumerDoes(x, j) PROVE GroupInv'
  BY <1>0, <1>6, ConsumerKeeps
<1>7. ASSUME NEW x \in Tickers, NEW j \in Jobs, TickerDoes(x, j) PROVE GroupInv'
  BY <1>0, <1>7, TickerKeeps
<1>8. ASSUME NEW x \in Tickers, NEW k \in Streams, ReapEnsure(x, k) PROVE GroupInv'
  BY <1>8, EnsureKeeps DEF ReapEnsure
<1>9. ASSUME NEW k \in Streams, CreateGroup(k) PROVE GroupInv'
  BY <1>9, EnsureKeeps DEF CreateGroup
<1>10. ASSUME NEW j \in Jobs, Reset(j) PROVE GroupInv'
  BY <1>10, ResetKeeps
<1> QED BY <1>1, <1>2, <1>3, <1>4, <1>5, <1>6, <1>7, <1>8, <1>9, <1>10,
           LossKeeps, RearmKeeps DEF GroupNext

(* Whenever Redis loses its data and whoever creates the group again, for  *)
(* any processes, streams and losses, with a process dead between any two  *)
(* steps: reconcile_orphans passes over no row whose handoff is out of the *)
(* group's reach, but for the two exceptions SyncedIsInReach names.        *)
THEOREM HandoffsReachTheGroup == GroupSpec => []SyncedIsInReach
<1>1. GroupInv => SyncedIsInReach
  BY DEF GroupInv, SyncOK, SyncedIsInReach
<1> QED BY <1>1, GroupInitOK, GroupNextKeeps, PTL DEF GroupSpec
=============================================================================
