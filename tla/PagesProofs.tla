---------------------------- MODULE PagesProofs ----------------------------
(***************************************************************************)
(* Theorems about the two readers of Pages, for any number of rows, any    *)
(* page sizes and any writes in between: a client that follows the cursors *)
(* of GET /jobs misses no row that was there all the while and sees none   *)
(* twice, and a pass of the reconciler leaves no orphan behind.            *)
(***************************************************************************)
EXTENDS Pages, FiniteSetTheorems, WellFoundedInduction, TLAPS

(* The listing: what has been shown lies at or above the cursor, and every *)
(* steady row there has been shown.                                        *)
WalkInv(k) ==
  /\ ~k.twice
  /\ k.seen \cap Theirs = {}
  /\ k.pc = "page" => /\ \A i \in k.seen : k.cursor <= i
                      /\ \A i \in k.steady : k.cursor <= i => i \in k.seen
  /\ k.pc = "done" => k.steady \subseteq k.seen

(* Steady rows still match, and belong to the user who lists.              *)
SteadyInv(k, st) == \A i \in k.steady : i \notin Theirs /\ Matches(st[i], k.filter)

(* The pass: what it owes are orphans still, what it has given is marked   *)
(* and not on the page in hand, and a page that is not full holds all that *)
(* is owed.                                                                *)
PassInv(p) ==
  /\ ~p.twice
  /\ p.todo \cap p.given = {}
  /\ p.owed \cap Untimed = {}
  /\ p.pc = "rows" => p.full \/ p.owed \subseteq p.todo
  /\ p.pc = "done" => p.owed = {}

OwedInv(p, st, sy) ==
  /\ \A i \in p.owed : i <= p.cutoff /\ st[i] \in Waiting /\ ~sy[i]
  /\ \A i \in p.given : sy[i]

(* The inductive invariant.                                                *)
PagesInv ==
  /\ PagesTypeOK
  /\ WalkInv(walk) /\ SteadyInv(walk, status)
  /\ PassInv(pass) /\ OwedInv(pass, status, synced)

-----------------------------------------------------------------------------
(* A page that is not all there is holds rows, as many as the limit.       *)
LEMMA FullPage ==
  ASSUME NEW P, NEW n \in Nat \ {0}, Cardinality(P) = n
  PROVE  P # {}
  BY FS_EmptySet

LEMMA IdsAreNaturals ==
  /\ Ids \subseteq Nat /\ Ids \subseteq Int
  /\ Ids \subseteq 1..(N + 1) /\ 1..(N + 1) \subseteq Int
  BY PagesAssumption DEF Ids

(* The last row of a page is the least of its rows.                        *)
LEMMA LastRowIsLeast ==
  ASSUME NEW P \in SUBSET Ids, P # {}
  PROVE  LastRow(P) \in P /\ \A k \in P : LastRow(P) <= k
<1>1. P \subseteq Nat
  BY IdsAreNaturals
<1>2. PICK i \in P : \A k \in P : ~ (<<k, i>> \in OpToRel(<, Nat))
  BY <1>1, NatLessThanWellFounded, WFMin
<1>3. \A k \in P : i <= k
  <2> TAKE k \in P
  <2>1. i \in Nat /\ k \in Nat
    BY <1>1
  <2>2. ~(k < i)
    BY <1>2, <2>1 DEF OpToRel
  <2> QED BY <2>1, <2>2
<1>4. \E x \in P : \A k \in P : x <= k
  BY <1>3
<1> QED BY <1>4 DEF LastRow

-----------------------------------------------------------------------------
(* The readers before they have begun.                                     *)
LEMMA IdleOK ==
  /\ IdleWalk \in Walk /\ WalkInv(IdleWalk) /\ (\A st : SteadyInv(IdleWalk, st))
  /\ IdlePass \in Pass /\ PassInv(IdlePass) /\ (\A st, sy : OwedInv(IdlePass, st, sy))
<1>1. N + 1 \in 1..(N + 1) /\ 0 \in 0..N
  BY PagesAssumption
<1>2. IdleWalk \in Walk
  BY <1>1 DEF IdleWalk, Walk, Filter
<1>3. IdlePass \in Pass
  BY <1>1 DEF IdlePass, Pass, NoPage
<1>4. WalkInv(IdleWalk) /\ \A st : SteadyInv(IdleWalk, st)
  BY DEF WalkInv, SteadyInv, IdleWalk
<1>5. PassInv(IdlePass) /\ \A st, sy : OwedInv(IdlePass, st, sy)
  BY DEF PassInv, OwedInv, IdlePass
<1> QED BY <1>2, <1>3, <1>4, <1>5

LEMMA PagesInitOK == PagesInit => PagesInv
<1> SUFFICES ASSUME PagesInit PROVE PagesInv
  OBVIOUS
<1>1. 0 \in 0..MaxRetries
  BY PagesAssumption
<1>2. PagesTypeOK
  BY <1>1, IdleOK DEF PagesInit, PagesTypeOK, Status, Waiting
<1> QED BY <1>2, IdleOK DEF PagesInit, PagesInv

(* Somebody else writes row i.                                             *)
LEMMA WriteKeeps ==
  ASSUME PagesInv, NEW i \in Ids, NEW st \in Status, NEW s \in BOOLEAN,
         Write(i, st, s), retries' \in 0..MaxRetries
  PROVE  PagesInv'
<1>1. /\ status \in [Ids -> Status \cup {"none"}] /\ synced \in [Ids -> BOOLEAN]
      /\ walk \in Walk /\ pass \in Pass
      /\ WalkInv(walk) /\ SteadyInv(walk, status)
      /\ PassInv(pass) /\ OwedInv(pass, status, synced)
  BY DEF PagesInv, PagesTypeOK
<1>2. /\ status' \in [Ids -> Status \cup {"none"}] /\ synced' \in [Ids -> BOOLEAN]
      /\ status'[i] = st
      /\ \A k \in Ids \ {i} : status'[k] = status[k] /\ synced'[k] = synced[k]
  BY <1>1 DEF Write
<1>3. walk' \in Walk /\ WalkInv(walk') /\ SteadyInv(walk', status')
  <2>1. CASE Matches(st, walk.filter)
    <3>1. walk' = walk
      BY <2>1 DEF Write
    <3>2. walk.steady \subseteq Ids
      BY <1>1 DEF Walk
    <3>3. SteadyInv(walk, status')
      BY <1>1, <1>2, <2>1, <3>2 DEF SteadyInv
    <3> QED BY <1>1, <3>1, <3>3
  <2>2. CASE ~Matches(st, walk.filter)
    <3> DEFINE v == [walk EXCEPT !.steady = @ \ {i}]
    <3>1. walk' = v
      BY <2>2 DEF Write
    <3>2. v \in Walk
      BY <1>1 DEF Walk
    <3>3. /\ v.pc = walk.pc /\ v.filter = walk.filter /\ v.cursor = walk.cursor
          /\ v.seen = walk.seen /\ v.steady = walk.steady \ {i}
          /\ v.twice = walk.twice /\ walk.steady \subseteq Ids
      BY <1>1 DEF Walk
    <3> HIDE DEF v
    <3>4. WalkInv(v)
      BY <1>1, <3>3 DEF WalkInv
    <3>5. SteadyInv(v, status')
      BY <1>1, <1>2, <3>3 DEF SteadyInv
    <3> QED BY <3>1, <3>2, <3>4, <3>5
  <2> QED BY <2>1, <2>2
<1>4. pass' \in Pass /\ PassInv(pass') /\ OwedInv(pass', status', synced')
  <2> DEFINE v == [pass EXCEPT !.owed = @ \ {i}, !.given = @ \ {i}]
  <2>1. pass' = v
    BY DEF Write
  <2>2. v \in Pass
    BY <1>1 DEF Pass
  <2>3. /\ v.pc = pass.pc /\ v.cutoff = pass.cutoff /\ v.todo = pass.todo
        /\ v.full = pass.full /\ v.owed = pass.owed \ {i}
        /\ v.given = pass.given \ {i} /\ v.twice = pass.twice
        /\ pass.owed \subseteq Ids /\ pass.given \subseteq Ids
    BY <1>1 DEF Pass
  <2> HIDE DEF v
  <2>4. PassInv(v)
    BY <1>1, <2>3 DEF PassInv
  <2>5. OwedInv(v, status', synced')
    BY <1>1, <1>2, <2>3 DEF OwedInv
  <2> QED BY <2>1, <2>2, <2>4, <2>5
<1> QED BY <1>2, <1>3, <1>4 DEF PagesInv, PagesTypeOK

LEMMA OthersKeep ==
  ASSUME PagesInv, NEW i \in Ids
  PROVE  /\ \A st \in Waiting : Create(i, st) \/ Retry(i, st) => PagesInv'
         /\ HandedOver(i) \/ Claim(i) \/ End(i) => PagesInv'
<1>1. /\ status[i] \in Status \cup {"none"} /\ synced[i] \in BOOLEAN
      /\ retries \in 0..MaxRetries
  BY DEF PagesInv, PagesTypeOK
<1>2. ASSUME NEW st \in Waiting, Create(i, st) PROVE PagesInv'
  BY <1>1, <1>2, WriteKeeps DEF Create, Status
<1>3. ASSUME NEW st \in Waiting, Retry(i, st) PROVE PagesInv'
  <2>1. retries + 1 \in 0..MaxRetries
    BY <1>1, <1>3, PagesAssumption DEF Retry
  <2> QED BY <1>3, <2>1, WriteKeeps DEF Retry, Status
<1>4. ASSUME HandedOver(i) PROVE PagesInv'
  BY <1>1, <1>4, WriteKeeps DEF HandedOver
<1>5. ASSUME Claim(i) PROVE PagesInv'
  BY <1>1, <1>5, WriteKeeps DEF Claim, Status
<1>6. ASSUME End(i) PROVE PagesInv'
  BY <1>1, <1>6, WriteKeeps DEF End, Status
<1> QED BY <1>2, <1>3, <1>4, <1>5, <1>6

-----------------------------------------------------------------------------
(* Only the listing moves, or only the pass, or the pass and what is       *)
(* marked.                                                                 *)
LEMMA WalkKeeps ==
  ASSUME PagesInv, UNCHANGED <<status, synced, retries, pass>>,
         walk' \in Walk, WalkInv(walk'), SteadyInv(walk', status)
  PROVE  PagesInv'
  BY DEF PagesInv, PagesTypeOK

LEMMA PassKeeps ==
  ASSUME PagesInv, UNCHANGED <<status, retries, walk>>, synced' \in [Ids -> BOOLEAN],
         pass' \in Pass, PassInv(pass'), OwedInv(pass', status, synced')
  PROVE  PagesInv'
  BY DEF PagesInv, PagesTypeOK

LEMMA StartWalkKeeps ==
  ASSUME PagesInv, NEW f \in Filter, StartWalk(f)
  PROVE  PagesInv'
<1> DEFINE v == [pc |-> "page", filter |-> f, cursor |-> N + 1, seen |-> {},
                 steady |-> Mine(f), twice |-> FALSE]
<1>1. N + 1 \in 1..(N + 1) /\ Mine(f) \subseteq Ids
  BY PagesAssumption DEF Mine
<1>2. v \in Walk
  BY <1>1 DEF Walk
<1>3. walk' = v /\ pass' = IdlePass /\ UNCHANGED <<status, synced, retries>>
  BY DEF StartWalk
<1>4. WalkInv(v)
  <2>1. \A i \in Mine(f) : ~(N + 1 <= i)
    BY PagesAssumption DEF Mine, Ids
  <2> QED BY <2>1 DEF WalkInv
<1>5. SteadyInv(v, status)
  BY DEF SteadyInv, Mine
<1> HIDE DEF v
<1> QED BY <1>2, <1>3, <1>4, <1>5, IdleOK DEF PagesInv, PagesTypeOK

(* One page of the listing.                                                *)
LEMMA ListKeeps ==
  ASSUME PagesInv, NEW P \in SUBSET Ids, list_jobs(P)
  PROVE  PagesInv'
<1> DEFINE M == {i \in Mine(walk.filter) : i < walk.cursor}
           p == IF M = P THEN "done" ELSE "page"
           cur == IF M = P THEN walk.cursor ELSE LastRow(P)
           tw == walk.twice \/ P \cap walk.seen # {}
           v == [walk EXCEPT !.pc = p, !.cursor = cur, !.seen = @ \cup P, !.twice = tw]
<1>1. /\ walk \in Walk /\ WalkInv(walk) /\ SteadyInv(walk, status)
      /\ walk.pc = "page" /\ IsLast(P, M, Limit)
      /\ UNCHANGED <<status, synced, retries, pass>>
  BY DEF PagesInv, PagesTypeOK, list_jobs
<1>2. walk' = v
  BY DEF list_jobs
<1>3. /\ walk.cursor \in 1..(N + 1) /\ walk.seen \subseteq Ids /\ walk.steady \subseteq Ids
  BY <1>1 DEF Walk
<1>4. P \subseteq M /\ (\A i \in P, k \in M \ P : k < i) /\ (M # P => P # {})
  <2>1. M # P => Cardinality(P) = Limit
    BY <1>1 DEF IsLast
  <2> QED BY <1>1, <2>1, FullPage, PagesAssumption DEF IsLast
<1>5. M # P => cur \in P /\ (\A k \in P : cur <= k) /\ cur \in 1..(N + 1)
  <2> SUFFICES ASSUME M # P PROVE cur \in P /\ (\A k \in P : cur <= k) /\ cur \in 1..(N + 1)
    OBVIOUS
  <2>1. cur \in P /\ \A k \in P : cur <= k
    BY <1>4, LastRowIsLeast
  <2>2. cur \in Ids
    BY <2>1
  <2> HIDE DEF cur
  <2> QED BY <2>1, <2>2, IdsAreNaturals
<1>6. M = P => cur = walk.cursor
  OBVIOUS
<1>7. ~tw
  <2>1. \A i \in P : i \in Ids /\ i < walk.cursor
    BY <1>4
  <2>2. \A i \in walk.seen : walk.cursor <= i
    BY <1>1 DEF WalkInv
  <2>3. \A i \in P : i \notin walk.seen
    <3> SUFFICES ASSUME NEW i \in P, i \in walk.seen PROVE FALSE
      OBVIOUS
    <3>1. i \in Int /\ walk.cursor \in Int
      BY <1>3, IdsAreNaturals
    <3> QED BY <2>1, <2>2, <3>1
  <2> QED BY <1>1, <2>3 DEF WalkInv
<1>8. p \in {"page", "done"} /\ (p = "done" <=> M = P) /\ tw \in BOOLEAN
  BY <1>7
<1>9. \A i \in M : i \in Ids \ Theirs /\ i < walk.cursor
  BY DEF Mine
<1>10. \A i \in walk.steady : i < walk.cursor => i \in M
  BY <1>1, <1>3 DEF SteadyInv, Mine
<1> HIDE DEF M, p, cur, tw
<1>11. cur \in 1..(N + 1)
  BY <1>3, <1>5, <1>6
<1>12. v \in Walk
  BY <1>1, <1>8, <1>11 DEF Walk
<1>13. /\ v.pc = p /\ v.filter = walk.filter /\ v.cursor = cur
       /\ v.seen = walk.seen \cup P /\ v.steady = walk.steady /\ v.twice = tw
  BY <1>1 DEF Walk
<1> HIDE DEF v
<1>14. SteadyInv(v, status)
  BY <1>1, <1>13 DEF SteadyInv
<1>15. v.seen \cap Theirs = {}
  BY <1>1, <1>4, <1>9, <1>13 DEF WalkInv
<1>16. ASSUME v.pc = "page" PROVE \A i \in v.seen : v.cursor <= i
  <2>1. M # P
    BY <1>8, <1>13, <1>16
  <2>2. cur \in P /\ (\A k \in P : cur <= k) /\ cur < walk.cursor
    BY <1>4, <1>5, <1>9, <2>1
  <2>3. \A i \in walk.seen : cur <= i
    <3> TAKE i \in walk.seen
    <3>1. walk.cursor <= i
      BY <1>1 DEF WalkInv
    <3>2. i \in Int /\ cur \in Int /\ walk.cursor \in Int
      BY <1>3, <1>11, IdsAreNaturals
    <3> QED BY <2>2, <3>1, <3>2
  <2> QED BY <1>13, <2>2, <2>3
<1>17. ASSUME v.pc = "page" PROVE \A i \in v.steady : v.cursor <= i => i \in v.seen
  <2>1. M # P
    BY <1>8, <1>13, <1>17
  <2>2. cur \in P /\ cur < walk.cursor
    BY <1>4, <1>5, <1>9, <2>1
  <2> SUFFICES ASSUME NEW i \in walk.steady, cur <= i, i \notin walk.seen, i \notin P
               PROVE  FALSE
    BY <1>13
  <2>3. i \in Int /\ cur \in Int /\ walk.cursor \in Int
    <3>1. i \in Ids /\ cur \in 1..(N + 1) /\ walk.cursor \in 1..(N + 1)
      BY <1>3, <1>11
    <3> QED BY <3>1, IdsAreNaturals
  <2>4. ~(walk.cursor <= i)
    BY <1>1 DEF WalkInv
  <2>5. i \in M \ P
    BY <1>10, <2>3, <2>4
  <2>6. i < cur
    BY <1>4, <2>2, <2>5
  <2> QED BY <2>3, <2>6
<1>18. ASSUME v.pc = "done" PROVE v.steady \subseteq v.seen
  <2>1. M = P
    BY <1>8, <1>13, <1>18
  <2> SUFFICES ASSUME NEW i \in walk.steady PROVE i \in walk.seen \cup P
    BY <1>13
  <2>2. i \in Ids /\ i \in Int /\ walk.cursor \in Int
    <3>1. i \in Ids /\ walk.cursor \in 1..(N + 1)
      BY <1>3
    <3> QED BY <3>1, IdsAreNaturals
  <2>3. walk.cursor <= i => i \in walk.seen
    BY <1>1 DEF WalkInv
  <2> QED BY <1>10, <2>1, <2>2, <2>3
<1>19. WalkInv(v)
  BY <1>7, <1>13, <1>15, <1>16, <1>17, <1>18 DEF WalkInv
<1> QED BY <1>1, <1>2, <1>12, <1>14, <1>19, WalkKeeps

-----------------------------------------------------------------------------
LEMMA StartPassKeeps ==
  ASSUME PagesInv, NEW k \in 0..N, StartPass(k)
  PROVE  PagesInv'
<1> DEFINE o == Orphans(k) \ Untimed
           v == [IdlePass EXCEPT !.pc = "read", !.cutoff = k, !.owed = o]
<1>1. /\ pass' = v /\ walk' = IdleWalk /\ UNCHANGED <<status, synced, retries>>
  BY DEF StartPass
<1>2. o \subseteq Ids /\ o \cap Untimed = {}
      /\ \A i \in o : i <= k /\ status[i] \in Waiting /\ ~synced[i]
  BY DEF Orphans, IsOrphan
<1> HIDE DEF o
<1>3. v \in Pass
  BY <1>2, IdleOK DEF Pass
<1>4. /\ v.pc = "read" /\ v.cutoff = k /\ v.owed = o /\ v.todo = {} /\ v.given = {}
      /\ v.twice = FALSE
  BY DEF IdlePass
<1> HIDE DEF v
<1>5. PassInv(v) /\ OwedInv(v, status, synced)
  BY <1>2, <1>4 DEF PassInv, OwedInv
<1> QED BY <1>1, <1>3, <1>5, IdleOK DEF PagesInv, PagesTypeOK

(* A page of orphans is read: it is empty only if none is left, and short  *)
(* only if it has them all.                                                *)
LEMMA ReadKeeps ==
  ASSUME PagesInv, NEW P \in SUBSET Ids, list_unsynced(P)
  PROVE  PagesInv'
<1> DEFINE O == Orphans(pass.cutoff)
           pc == IF P = {} THEN "done" ELSE "rows"
           fu == Cardinality(P) = BatchSize
           pg == [i \in Ids |-> IF i \in P THEN Loaded(i) ELSE "none"]
           v == [pass EXCEPT !.pc = pc, !.todo = P, !.full = fu, !.page = pg]
<1>1. /\ pass \in Pass /\ PassInv(pass) /\ OwedInv(pass, status, synced)
      /\ synced \in [Ids -> BOOLEAN]
      /\ IsFirst(P, O, BatchSize) /\ pass' = v
      /\ UNCHANGED <<status, synced, retries, walk>>
  BY DEF PagesInv, PagesTypeOK, list_unsynced
<1>2. P \subseteq O /\ (P # O => fu)
  BY <1>1 DEF IsFirst
<1>3. P = {} => O = {}
  BY <1>2, FullPage, PagesAssumption
<1>4. pg \in [Ids -> Waiting \cup {"none"}]
  <2>1. \A i \in P : status[i] \in Waiting
    BY <1>2 DEF Orphans, IsOrphan
  <2>2. pass.page \in [Ids -> Waiting \cup {"none"}]
    BY <1>1 DEF Pass
  <2>3. \A i \in P : Loaded(i) \in Waiting \cup {"none"}
    BY <2>1, <2>2 DEF Loaded
  <2> QED BY <2>3
<1>5. pass.owed \subseteq O
  <2>1. pass.owed \subseteq Ids
    BY <1>1 DEF Pass
  <2> QED BY <1>1, <2>1 DEF OwedInv, Orphans, IsOrphan
<1>6. \A i \in O : ~synced[i]
  BY DEF Orphans, IsOrphan
<1>7. pc \in {"rows", "done"} /\ (pc = "done" <=> P = {}) /\ fu \in BOOLEAN
  OBVIOUS
<1> HIDE DEF O, pc, fu, pg
<1>8. v \in Pass
  BY <1>1, <1>4, <1>7 DEF Pass
<1>9. /\ v.pc = pc /\ v.cutoff = pass.cutoff /\ v.todo = P /\ v.full = fu
      /\ v.owed = pass.owed /\ v.given = pass.given /\ v.twice = pass.twice
  BY <1>1 DEF Pass
<1> HIDE DEF v
<1>10. v.todo \cap v.given = {}
  BY <1>1, <1>2, <1>6, <1>9 DEF OwedInv
<1>11. v.pc = "rows" => v.full \/ v.owed \subseteq v.todo
  BY <1>2, <1>5, <1>9
<1>12. v.pc = "done" => v.owed = {}
  BY <1>3, <1>5, <1>7, <1>9
<1>13. PassInv(v)
  BY <1>1, <1>9, <1>10, <1>11, <1>12 DEF PassInv
<1>14. OwedInv(v, status, synced)
  BY <1>1, <1>9 DEF OwedInv
<1> QED BY <1>1, <1>8, <1>13, <1>14, PassKeeps

(* Where the loop goes after row i, and what it may leave behind there.    *)
LEMMA AfterRow ==
  ASSUME NEW i \in pass.todo
  PROVE  /\ After(i) \in {"rows", "read", "done"}
         /\ After(i) = "done" => pass.todo = {i} /\ ~pass.full
  BY DEF After

LEMMA SkipKeeps ==
  ASSUME PagesInv, NEW i \in Ids, Skip(i)
  PROVE  PagesInv'
<1> DEFINE a == After(i)
           v == [pass EXCEPT !.pc = a, !.todo = @ \ {i}]
<1>1. /\ pass \in Pass /\ PassInv(pass) /\ OwedInv(pass, status, synced)
      /\ synced \in [Ids -> BOOLEAN]
      /\ pass.pc = "rows" /\ i \in pass.todo /\ i \in Untimed
      /\ pass' = v /\ UNCHANGED <<status, synced, retries, walk>>
  BY DEF PagesInv, PagesTypeOK, Skip
<1>2. a \in {"rows", "read", "done"} /\ (a = "done" => pass.todo = {i} /\ ~pass.full)
  BY <1>1, AfterRow
<1> HIDE DEF a
<1>3. v \in Pass
  BY <1>1, <1>2 DEF Pass
<1>4. /\ v.pc = a /\ v.cutoff = pass.cutoff /\ v.todo = pass.todo \ {i}
      /\ v.full = pass.full
      /\ v.owed = pass.owed /\ v.given = pass.given /\ v.twice = pass.twice
  BY <1>1 DEF Pass
<1> HIDE DEF v
<1>5. i \notin pass.owed /\ (pass.full \/ pass.owed \subseteq pass.todo)
  BY <1>1 DEF PassInv
<1>6. PassInv(v)
  BY <1>1, <1>2, <1>4, <1>5 DEF PassInv
<1>7. OwedInv(v, status, synced)
  BY <1>1, <1>4 DEF OwedInv
<1> QED BY <1>1, <1>3, <1>6, <1>7, PassKeeps

LEMMA GiveKeeps ==
  ASSUME PagesInv, NEW i \in Ids, Give(i)
  PROVE  PagesInv'
<1> DEFINE a == After(i)
           tw == pass.twice \/ i \in pass.given
           v == [pass EXCEPT !.pc = a, !.todo = @ \ {i}, !.owed = @ \ {i},
                             !.given = @ \cup {i}, !.twice = tw]
<1>1. /\ pass \in Pass /\ PassInv(pass) /\ OwedInv(pass, status, synced)
      /\ pass.pc = "rows" /\ i \in pass.todo /\ UNCHANGED <<status, retries, walk>>
  BY DEF PagesInv, PagesTypeOK, Give
<1>2. pass' = v
  BY DEF Give
<1>3. /\ synced' \in [Ids -> BOOLEAN] /\ synced'[i]
      /\ \A k \in Ids \ {i} : synced'[k] = synced[k]
  BY DEF PagesInv, PagesTypeOK, Give
<1>4. a \in {"rows", "read", "done"} /\ (a = "done" => pass.todo = {i} /\ ~pass.full)
  BY <1>1, AfterRow
<1>5. ~tw /\ tw \in BOOLEAN
  BY <1>1 DEF PassInv
<1> HIDE DEF a, tw
<1>6. v \in Pass
  BY <1>1, <1>4, <1>5 DEF Pass
<1>7. /\ v.pc = a /\ v.cutoff = pass.cutoff /\ v.todo = pass.todo \ {i}
      /\ v.full = pass.full /\ v.owed = pass.owed \ {i}
      /\ v.given = pass.given \cup {i} /\ v.twice = tw
      /\ pass.owed \subseteq Ids /\ pass.given \subseteq Ids
  BY <1>1 DEF Pass
<1> HIDE DEF v
<1>8. pass.full \/ pass.owed \subseteq pass.todo
  BY <1>1 DEF PassInv
<1>9. PassInv(v)
  BY <1>1, <1>4, <1>5, <1>7, <1>8 DEF PassInv
<1>10. OwedInv(v, status, synced')
  BY <1>1, <1>3, <1>7 DEF OwedInv
<1> QED BY <1>1, <1>2, <1>3, <1>6, <1>9, <1>10, PassKeeps

LEMMA PagesNextKeeps == PagesInv /\ [PagesNext]_pageVars => PagesInv'
<1> SUFFICES ASSUME PagesInv, [PagesNext]_pageVars PROVE PagesInv'
  OBVIOUS
<1>1. ASSUME PassStep PROVE PagesInv'
  BY <1>1, ReadKeeps, SkipKeeps, GiveKeeps DEF PassStep
<1>2. CASE UNCHANGED pageVars
  BY <1>2 DEF pageVars, PagesInv, PagesTypeOK
<1> QED BY <1>1, <1>2, OthersKeep, StartWalkKeeps, ListKeeps, StartPassKeeps DEF PagesNext

-----------------------------------------------------------------------------
(* Every reachable state satisfies the inductive invariant.                *)
THEOREM PagesInvHolds == PagesSpec => []PagesInv
  BY PagesInitOK, PagesNextKeeps, PTL DEF PagesSpec

(* Rows, listing and pass keep their types; a page in hand holds rows that *)
(* waited when they were loaded.                                           *)
THEOREM PagesTypeCorrect == PagesSpec => []PagesTypeOK
<1>1. PagesInv => PagesTypeOK
  BY DEF PagesInv
<1> QED BY <1>1, PagesInvHolds, PTL

(* Following next_cursor of GET /jobs to its end shows every row that      *)
(* matched all the while, none twice and none of another user, for any     *)
(* limit and any writes between two pages.                                 *)
THEOREM ListingMissesNothing == PagesSpec => []ListingComplete
<1>1. PagesInv => ListingComplete
  BY DEF PagesInv, WalkInv, ListingComplete
<1> QED BY <1>1, PagesInvHolds, PTL

(* A pass of reconcile_orphans that ends has handed over every orphan it   *)
(* began with that nobody else has written, and none twice, for any        *)
(* reconcile_batch_size.                                                   *)
THEOREM PassMissesNothing == PagesSpec => []PassComplete
<1>1. PagesInv => PassComplete
  BY DEF PagesInv, PassInv, PassComplete
<1> QED BY <1>1, PagesInvHolds, PTL
=============================================================================
