------------------------------- MODULE Pages -------------------------------
(***************************************************************************)
(* Two readers that go through the jobs table page by page while others    *)
(* write to it: a client that follows next_cursor of GET /jobs, and a pass *)
(* of the reconciler, which asks for the first page of orphans again until *)
(* a short one comes back.                                                 *)
(*                                                                         *)
(* A row is known by its place in the order of (created_at, id), which is  *)
(* all a cursor holds.  The database stamps created_at when a transaction  *)
(* starts, so a row may appear before rows that are already there.         *)
(***************************************************************************)
EXTENDS Naturals, FiniteSets

CONSTANTS
  N,           \* bound: rows 1..N, the last one being the youngest
  Theirs,      \* rows of other users than the one who lists
  Untimed,     \* scheduled rows whose scheduled_at is NULL
  Limit,       \* page size of the listing
  BatchSize,   \* settings.reconcile_batch_size
  MaxRetries   \* bound: attempts that end in a retry

Ids == 1..N

ASSUME PagesAssumption ==
  /\ N \in Nat /\ MaxRetries \in Nat
  /\ Limit \in Nat \ {0} /\ BatchSize \in Nat \ {0}
  /\ Theirs \subseteq Ids /\ Untimed \subseteq Ids

VARIABLES
  status,   \* status[i], "none" before the row is committed
  synced,   \* is_synced_to_redis
  retries,  \* retries so far, of all rows
  walk,     \* the client that lists
  pass      \* the reconciler

pageVars == <<status, synced, retries, walk, pass>>

Waiting == {"pending", "scheduled"}
Status  == Waiting \cup {"processing", "ended"}
Filter  == Status \cup {"all"}

(* The listing: steady are the rows that have matched ever since it began. *)
Walk == [pc : {"idle", "page", "done"}, filter : Filter, cursor : 1..(N + 1),
         seen : SUBSET Ids, steady : SUBSET Ids, twice : BOOLEAN]
IdleWalk == [pc |-> "idle", filter |-> "all", cursor |-> N + 1, seen |-> {},
             steady |-> {}, twice |-> FALSE]

(* The pass: page is the rows list in hand with the status each object was *)
(* loaded with, todo what is left of it; owed are the orphans it began     *)
(* with, given those it has handed over, as long as nobody else has        *)
(* written them since.                                                     *)
Pass == [pc : {"idle", "read", "rows", "done"}, cutoff : 0..N, todo : SUBSET Ids,
         full : BOOLEAN, page : [Ids -> Waiting \cup {"none"}],
         owed : SUBSET Ids, given : SUBSET Ids, twice : BOOLEAN]
NoPage   == [i \in Ids |-> "none"]
IdlePass == [pc |-> "idle", cutoff |-> 0, todo |-> {}, full |-> FALSE, page |-> NoPage,
             owed |-> {}, given |-> {}, twice |-> FALSE]

PagesInit ==
  /\ status = [i \in Ids |-> IF i \in Untimed THEN "scheduled" ELSE "none"]
  /\ synced = [i \in Ids |-> FALSE]
  /\ retries = 0
  /\ walk = IdleWalk
  /\ pass = IdlePass

-----------------------------------------------------------------------------
(***************************************************************************)
(* The others: the API, workers and the reaper, by what they do to a row.  *)
(***************************************************************************)
Matches(st, f) == st # "none" /\ (f = "all" \/ st = f)

(* Row i is written by somebody else than the two readers.                 *)
Write(i, st, s) ==
  /\ status' = [status EXCEPT ![i] = st]
  /\ synced' = [synced EXCEPT ![i] = s]
  /\ walk' = IF Matches(st, walk.filter) THEN walk
             ELSE [walk EXCEPT !.steady = @ \ {i}]
  /\ pass' = [pass EXCEPT !.owed = @ \ {i}, !.given = @ \ {i}]

(* A submission commits; it may hand the row over itself, or die.  A late  *)
(* mark_synced goes by the id, whatever the status is by then.             *)
Create(i, st) ==
  /\ status[i] = "none" /\ Write(i, st, FALSE) /\ UNCHANGED retries
HandedOver(i) ==
  /\ status[i] # "none" /\ ~synced[i] /\ i \notin Untimed
  /\ Write(i, status[i], TRUE) /\ UNCHANGED retries

(* A worker may be given the message before the row is marked as synced.   *)
Claim(i) ==
  /\ status[i] \in Waiting /\ i \notin Untimed
  /\ Write(i, "processing", synced[i]) /\ UNCHANGED retries
End(i) ==
  /\ status[i] = "processing"
  /\ Write(i, "ended", synced[i]) /\ UNCHANGED retries
Retry(i, st) ==
  /\ status[i] = "processing" /\ retries < MaxRetries
  /\ Write(i, st, FALSE) /\ retries' = retries + 1

-----------------------------------------------------------------------------
(***************************************************************************)
(* GET /jobs.                                                              *)
(***************************************************************************)
Mine(f) == {i \in Ids \ Theirs : Matches(status[i], f)}

(* P is what ORDER BY ... DESC LIMIT n returns from M, and ASC.            *)
IsLast(P, M, n) ==
  /\ P \subseteq M /\ \A i \in P, k \in M \ P : k < i
  /\ IF Cardinality(M) <= n THEN P = M ELSE Cardinality(P) = n
IsFirst(P, M, n) ==
  /\ P \subseteq M /\ \A i \in P, k \in M \ P : i < k
  /\ IF Cardinality(M) <= n THEN P = M ELSE Cardinality(P) = n

StartWalk(f) ==
  /\ walk.pc # "page" /\ pass.pc \in {"idle", "done"}
  /\ walk' = [pc |-> "page", filter |-> f, cursor |-> N + 1, seen |-> {},
              steady |-> Mine(f), twice |-> FALSE]
  /\ pass' = IdlePass
  /\ UNCHANGED <<status, synced, retries>>

(* The rows left of M after the page P, if any, start below its last row.  *)
LastRow(P) == CHOOSE i \in P : \A k \in P : i <= k

(* Mutant of list_jobs: the cursor is that of the extra row.               *)
list_jobs_extra_row(P) ==
  LET M == {i \in Mine(walk.filter) : i < walk.cursor}
  IN /\ walk.pc = "page" /\ IsLast(P, M, Limit)
     /\ walk' = [walk EXCEPT
          !.pc     = IF M = P THEN "done" ELSE "page",
          !.cursor = IF M = P THEN @ ELSE CHOOSE i \in M \ P : \A k \in M \ P : k <= i,
          !.seen   = @ \cup P,
          !.twice  = @ \/ P \cap walk.seen # {}]
     /\ UNCHANGED <<status, synced, retries, pass>>

(* One request: limit + 1 rows below the cursor are read, the extra one    *)
(* only tells that there is a next page.                                   *)
list_jobs(P) ==
  LET M == {i \in Mine(walk.filter) : i < walk.cursor}
  IN /\ walk.pc = "page" /\ IsLast(P, M, Limit)
     /\ walk' = [walk EXCEPT
          !.pc     = IF M = P THEN "done" ELSE "page",
          !.cursor = IF M = P THEN @ ELSE LastRow(P),
          !.seen   = @ \cup P,
          !.twice  = @ \/ P \cap walk.seen # {}]
     /\ UNCHANGED <<status, synced, retries, pass>>

-----------------------------------------------------------------------------
(***************************************************************************)
(* reconcile_orphans.                                                      *)
(***************************************************************************)
IsOrphanAnyStatus(i, cutoff) == i <= cutoff /\ status[i] # "none" /\ ~synced[i]
IsOrphan(i, cutoff) == i <= cutoff /\ status[i] \in Waiting /\ ~synced[i]
Orphans(cutoff) == {i \in Ids : IsOrphan(i, cutoff)}

StartPass(k) ==
  /\ pass.pc \in {"idle", "done"} /\ walk.pc # "page"
  /\ pass' = [IdlePass EXCEPT !.pc = "read", !.cutoff = k,
                              !.owed = Orphans(k) \ Untimed]
  /\ walk' = IdleWalk
  /\ UNCHANGED <<status, synced, retries>>

(* list_unsynced.  An object of the page before is still referenced, so    *)
(* the session returns it as it was loaded then.                           *)
Loaded(i) == IF pass.page[i] # "none" THEN pass.page[i] ELSE status[i]

list_unsynced(P) ==
  /\ pass.pc = "read" /\ IsFirst(P, Orphans(pass.cutoff), BatchSize)
  /\ pass' = [pass EXCEPT
       !.pc   = IF P = {} THEN "done" ELSE "rows",
       !.todo = P,
       !.full = Cardinality(P) = BatchSize,
       !.page = [i \in Ids |-> IF i \in P THEN Loaded(i) ELSE "none"]]
  /\ UNCHANGED <<status, synced, retries, walk>>

(* The loop body has dealt with row i, and the loop goes on, asks for the  *)
(* next page, or is over.                                                  *)
After(i) == IF pass.todo # {i} THEN "rows" ELSE IF pass.full THEN "read" ELSE "done"

(* A scheduled row without a time is skipped: nothing marks it.            *)
Skip(i) ==
  /\ pass.pc = "rows" /\ i \in pass.todo /\ \A k \in pass.todo : i <= k
  /\ pass.page[i] = "scheduled" /\ i \in Untimed
  /\ pass' = [pass EXCEPT !.pc = After(i), !.todo = @ \ {i}]
  /\ UNCHANGED <<status, synced, retries, walk>>

(* Mutant of Give: the row is not marked.                                  *)
GiveUnmarked(i) ==
  /\ pass.pc = "rows" /\ i \in pass.todo /\ \A k \in pass.todo : i <= k
  /\ ~(pass.page[i] = "scheduled" /\ i \in Untimed)
  /\ pass' = [pass EXCEPT !.pc = After(i), !.todo = @ \ {i}, !.owed = @ \ {i},
                          !.given = @ \cup {i}, !.twice = @ \/ i \in pass.given]
  /\ UNCHANGED <<status, synced, retries, walk>>

(* XADD or ZADD, then mark_synced; Ticker has the steps between.           *)
Give(i) ==
  /\ pass.pc = "rows" /\ i \in pass.todo /\ \A k \in pass.todo : i <= k
  /\ ~(pass.page[i] = "scheduled" /\ i \in Untimed)
  /\ synced' = [synced EXCEPT ![i] = TRUE]
  /\ pass' = [pass EXCEPT !.pc = After(i), !.todo = @ \ {i}, !.owed = @ \ {i},
                          !.given = @ \cup {i}, !.twice = @ \/ i \in pass.given]
  /\ UNCHANGED <<status, retries, walk>>

PassStep == \/ \E P \in SUBSET Ids : list_unsynced(P)
            \/ \E i \in Ids : Skip(i) \/ Give(i)

PagesNext ==
  \/ \E i \in Ids, st \in Waiting : Create(i, st) \/ Retry(i, st)
  \/ \E i \in Ids : HandedOver(i) \/ Claim(i) \/ End(i)
  \/ \E f \in Filter : StartWalk(f)
  \/ \E P \in SUBSET Ids : list_jobs(P)
  \/ \E k \in 0..N : StartPass(k)
  \/ PassStep

PagesSpec == PagesInit /\ [][PagesNext]_pageVars

-----------------------------------------------------------------------------
PagesTypeOK ==
  /\ status \in [Ids -> Status \cup {"none"}]
  /\ synced \in [Ids -> BOOLEAN]
  /\ retries \in 0..MaxRetries
  /\ walk \in Walk
  /\ pass \in Pass

(* A client that has followed the cursors to the end has been shown every  *)
(* row that matched all the while, no row twice and no row of another      *)
(* user, whatever was inserted or changed its status in between.           *)
ListingComplete ==
  /\ walk.pc = "done" => walk.steady \subseteq walk.seen
  /\ ~walk.twice
  /\ walk.seen \cap Theirs = {}

(* When a pass is over it has handed over every orphan it began with that  *)
(* nobody else has taken care of, however many pages that took, and none   *)
(* of them twice.                                                          *)
PassComplete == (pass.pc = "done" => pass.owed = {}) /\ ~pass.twice
=============================================================================
