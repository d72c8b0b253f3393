---------------------------- MODULE Submission ----------------------------
(***************************************************************************)
(* POST /jobs with idempotency keys: the lookup, the INSERT under the      *)
(* unique index on user and key, the handoff to Redis and mark_synced, for *)
(* concurrent requests that may end between any two of them, and the       *)
(* reconciler that hands over what such a request left behind.             *)
(***************************************************************************)
EXTENDS Admission

CONSTANTS
  Requests,  \* what clients submit: user, key and payload
  Allowed    \* the hashes of payloads that pass validate_payload

ASSUME SubmissionAssumption ==
  /\ Requests \subseteq [user : Users, key : Keys \cup {NoKey}, hash : Hashes]
  /\ Allowed \subseteq Hashes

VARIABLE table     \* table[j]: the row of job j

subVars == <<call, count, loaded, table>>

NoRow == [user |-> NoUser, key |-> NoKey, hash |-> NoHash, synced |-> FALSE,
          queued |-> FALSE]

Row == [user : Users, key : Keys \cup {NoKey}, hash : Hashes,
        synced : BOOLEAN,
        queued : BOOLEAN]    \* Redis has been given the job

SubInit == AdmissionInit /\ table = [j \in Jobs |-> NoRow]

Exists(j) == table[j] # NoRow

(* SELECT ... WHERE idempotency_key = :key AND user_id = :user             *)
get_by_idempotency_key(k, u) ==
  {j \in Jobs : Exists(j) /\ k # NoKey /\ table[j].key = k /\ table[j].user = u}

(* The submission r is parsed and validated; without a key it goes         *)
(* straight to the INSERT.                                                 *)
Route(c, r) ==
  /\ At(c, "route") /\ call[c].user = r.user
  /\ IF r.hash \notin Allowed THEN Reject(c, "invalid")
     ELSE call' = [call EXCEPT ![c].key = r.key, ![c].hash = r.hash,
                               ![c].pc = IF r.key = NoKey THEN "insert" ELSE "lookup"]
  /\ UNCHANGED <<count, loaded, table>>

(* The row found decides by its hash; no row at all is a conflict too.     *)
_replay_or_conflict_blindly(c, found) ==
  IF found = {} THEN Reply(c, "conflict", NoJob)
  ELSE \E j \in found : Reply(c, "replayed", j)

_replay_or_conflict(c, found) ==
  IF \E j \in found : table[j].hash = call[c].hash
  THEN \E j \in found : table[j].hash = call[c].hash /\ Reply(c, "replayed", j)
  ELSE Reply(c, "conflict", NoJob)

Lookup(c) ==
  LET found == get_by_idempotency_key(call[c].key, call[c].user)
  IN /\ At(c, "lookup")
     /\ IF found = {} THEN Goto(c, "insert") ELSE _replay_or_conflict(c, found)
     /\ UNCHANGED <<count, loaded, table>>

NewRow(c) == [user |-> call[c].user, key |-> call[c].key, hash |-> call[c].hash,
              synced |-> FALSE, queued |-> FALSE]

(* Mutant of create_job: the INSERT without the unique index.              *)
create_job_unindexed(c, j) ==
  /\ At(c, "insert") /\ ~Exists(j)
  /\ table' = [table EXCEPT ![j] = NewRow(c)]
  /\ call' = [call EXCEPT ![c].pc = "handoff", ![c].job = j]
  /\ UNCHANGED <<count, loaded>>

(* INSERT and commit under a new id.  The unique index lets it in only if  *)
(* the user has no row with this key, whatever the lookup had seen.        *)
create_job(c, j) ==
  /\ At(c, "insert") /\ ~Exists(j)
  /\ get_by_idempotency_key(call[c].key, call[c].user) = {}
  /\ table' = [table EXCEPT ![j] = NewRow(c)]
  /\ call' = [call EXCEPT ![c].pc = "handoff", ![c].job = j]
  /\ UNCHANGED <<count, loaded>>

(* IntegrityError: roll back and look again.                               *)
IntegrityError(c) ==
  /\ At(c, "insert")
  /\ get_by_idempotency_key(call[c].key, call[c].user) # {}
  /\ Goto(c, "relookup")
  /\ UNCHANGED <<count, loaded, table>>

Relookup(c) ==
  /\ At(c, "relookup")
  /\ _replay_or_conflict(c, get_by_idempotency_key(call[c].key, call[c].user))
  /\ UNCHANGED <<count, loaded, table>>

(* Mutant of Handoff: mark first, then hand over.                          *)
HandoffMarked(c) ==
  /\ At(c, "handoff")
  /\ table' = [table EXCEPT ![call[c].job].synced = TRUE]
  /\ Goto(c, "sync")
  /\ UNCHANGED <<count, loaded>>

(* XADD or ZADD.                                                           *)
Handoff(c) ==
  /\ At(c, "handoff")
  /\ table' = [table EXCEPT ![call[c].job].queued = TRUE]
  /\ Goto(c, "sync")
  /\ UNCHANGED <<count, loaded>>

MarkSynced(c) ==
  /\ At(c, "sync")
  /\ table' = [table EXCEPT ![call[c].job].synced = TRUE]
  /\ Reply(c, "accepted", call[c].job)
  /\ UNCHANGED <<count, loaded>>

(* One row of a reconcile pass (Pages has the pass): hand over, mark.      *)
Reconcile(j) ==
  /\ Exists(j) /\ ~table[j].synced
  /\ table' = [table EXCEPT ![j].queued = TRUE, ![j].synced = TRUE]
  /\ UNCHANGED admissionVars

SubmitStep(c) ==
  \/ \E r \in Requests : Route(c, r)
  \/ Lookup(c)
  \/ \E j \in Jobs : create_job(c, j)
  \/ IntegrityError(c)
  \/ Relookup(c)
  \/ Handoff(c)
  \/ MarkSynced(c)

SubNext ==
  \/ AdmissionNext /\ UNCHANGED table
  \/ \E c \in Clients : SubmitStep(c)
  \/ \E j \in Jobs : Reconcile(j)

SubSpec == SubInit /\ [][SubNext]_subVars

-----------------------------------------------------------------------------
(* Types; a request past the middleware never holds more than MaxBytes.    *)
SubTypeOK ==
  /\ call \in [Clients -> Call]
  /\ count \in [Users -> Nat]
  /\ loaded \in BOOLEAN
  /\ table \in [Jobs -> Row \cup {NoRow}]

(* The refinement mapping.  A request counts once it has been let in, and  *)
(* is carried out when its row is committed or when a lookup has found the *)
(* row of an earlier one.                                                  *)
AskedOf(c) ==
  LET r == call[c]
      Seen(st, j) == [st |-> st, user |-> r.user, key |-> r.key, hash |-> r.hash,
                      job |-> j]
  IN IF r.hash = NoHash
     THEN [st |-> "idle", job |-> NoJob]
     ELSE IF r.pc \in {"handoff", "sync"} \/ r.reply = "accepted" THEN Seen("new", r.job)
     ELSE IF r.reply = "replayed" THEN Seen("same", r.job)
     ELSE IF r.reply = "conflict" THEN Seen("other", NoJob)
     ELSE Seen("open", NoJob)

EntryOf(j) == [id |-> j, user |-> table[j].user, key |-> table[j].key,
               hash |-> table[j].hash]

Book == INSTANCE KeyBook WITH
          book  <- {EntryOf(j) : j \in {i \in Jobs : Exists(i)}},
          asked <- [c \in Clients |-> AskedOf(c)]

(* However lookups, inserts and crashes of several requests interleave,    *)
(* submissions behave as if each were carried out in one step: one job per *)
(* user and key, repetitions get that job, 409 only for another payload.   *)
ImplementsKeyBook == Book!BookSpec

(* A job that Redis was never given stays visible to the reconciler.  No   *)
(* repetition with the same key hands over anything, so this is all that   *)
(* stands between a request that died after its commit and a lost job.     *)
UnqueuedIsUnsynced == \A j \in Jobs : Exists(j) /\ table[j].synced => table[j].queued
=============================================================================
