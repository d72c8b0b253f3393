----------------------------- MODULE Admission -----------------------------
(***************************************************************************)
(* What a submission passes before its route runs: the body limit of       *)
(* api/middleware.py and the rate limit of api/ratelimit.py, whose counter *)
(* and Lua script live in Redis.  Authentication comes between the two; it *)
(* has a module of its own (Auth) and is taken as passed here.             *)
(***************************************************************************)
EXTENDS Naturals

CONSTANTS
  Clients,     \* connections that submit
  Users,       \* validated identities
  Keys,        \* idempotency keys
  Hashes,      \* canonical hashes of type and payload
  Jobs,        \* job ids
  MaxBytes,    \* settings.max_request_body_bytes
  MaxChunk,    \* bound: the largest body message
  Times,       \* settings.submit_rate_limit_per_min
  NoKey, NoJob, NoUser, NoHash

ASSUME AdmissionAssumption ==
  /\ MaxBytes \in Nat /\ MaxChunk \in Nat /\ Times \in Nat
  /\ NoKey \notin Keys /\ NoJob \notin Jobs /\ NoUser \notin Users
  /\ NoHash \notin Hashes

VARIABLES
  call,    \* call[c]: the request client c has under way
  count,   \* count[u]: the counter of user u in the current window
  loaded   \* the Lua script is in the script cache of Redis

admissionVars == <<call, count, loaded>>

Before == {"recv", "limit", "reload", "again", "route"}
Inside == {"lookup", "insert", "relookup", "handoff", "sync"}
Replies == {"none", "accepted", "replayed", "conflict", "too_large", "limited",
            "invalid", "error"}

Call == [pc    : {"idle", "done"} \cup Before \cup Inside,
         user  : Users \cup {NoUser},
         key   : Keys \cup {NoKey},
         hash  : Hashes \cup {NoHash},
         got   : 0..MaxBytes,      \* bytes the middleware has buffered so far
         lost  : BOOLEAN,          \* the script it loaded was dropped again
         reply : Replies,
         job   : Jobs \cup {NoJob}]

IdleCall == [pc |-> "idle", user |-> NoUser, key |-> NoKey, hash |-> NoHash, got |-> 0,
             lost |-> FALSE, reply |-> "none", job |-> NoJob]

AdmissionInit ==
  /\ call = [c \in Clients |-> IdleCall]
  /\ count = [u \in Users |-> 0]
  /\ loaded = TRUE                    \* FastAPILimiter.init

(* The request of c goes on at pc, is answered, or is turned away.         *)
At(c, pc)    == call[c].pc = pc
Goto(c, pc)  == call' = [call EXCEPT ![c].pc = pc]
Reply(c, r, j) == call' = [call EXCEPT ![c].pc = "done", ![c].reply = r, ![c].job = j]
Reject(c, r) ==
  call' = [call EXCEPT ![c] = [pc |-> "done", user |-> NoUser, key |-> NoKey,
                               hash |-> NoHash, got |-> 0, lost |-> call[c].lost,
                               reply |-> r, job |-> NoJob]]

(* A client of user u submits.  What it asks for is read by the route.     *)
Arrive(c, u) ==
  /\ At(c, "idle")
  /\ call' = [call EXCEPT ![c].pc = "recv", ![c].user = u]
  /\ UNCHANGED <<count, loaded>>

(* A Content-Length above the limit is answered before anything is read.   *)
DeclaredTooLarge(c) ==
  /\ At(c, "recv") /\ call[c].got = 0
  /\ Reject(c, "too_large")
  /\ UNCHANGED <<count, loaded>>

(* One http.request message of n bytes; the inner application starts, and  *)
(* is given what was buffered, after the last one.                         *)
Buffer(c, n, more) ==
  IF more THEN call' = [call EXCEPT ![c].got = @ + n]
          ELSE call' = [call EXCEPT ![c].got = 0, ![c].pc = "limit"]

ReceiveUnbounded(c, n, more) ==
  /\ At(c, "recv")
  /\ Buffer(c, n, more)
  /\ UNCHANGED <<count, loaded>>

Receive(c, n, more) ==
  /\ At(c, "recv")
  /\ IF call[c].got + n > MaxBytes
     THEN Reject(c, "too_large")
     ELSE Buffer(c, n, more)
  /\ UNCHANGED <<count, loaded>>

(* The Lua script of fastapi-limiter: a fixed window that starts with the  *)
(* first request and holds Times of them.                                  *)
Admitted(n) == n = 0 \/ n + 1 <= Times
Counted(n)  == IF n = 0 THEN 1 ELSE n + 1

RunScript(c) ==
  LET u == call[c].user
  IN IF Admitted(count[u])
     THEN /\ call' = [call EXCEPT ![c].pc = "route", ![c].lost = FALSE]
          /\ count' = [count EXCEPT ![u] = Counted(@)]
     ELSE Reject(c, "limited") /\ UNCHANGED count

(* EVALSHA.  A script that Redis does not know is loaded again, once.      *)
CheckRateUnloaded(c) ==
  /\ call[c].pc \in {"limit", "again"}
  /\ IF loaded THEN RunScript(c) ELSE Reject(c, "error") /\ UNCHANGED count
  /\ UNCHANGED loaded

CheckRate(c) ==
  /\ call[c].pc \in {"limit", "again"}
  /\ IF loaded THEN RunScript(c)
     ELSE /\ IF At(c, "limit") THEN Goto(c, "reload") ELSE Reject(c, "error")
          /\ UNCHANGED count
  /\ UNCHANGED loaded

ReloadScript(c) ==
  /\ At(c, "reload")
  /\ loaded' = TRUE
  /\ call' = [call EXCEPT ![c].pc = "again"]
  /\ UNCHANGED count

(* The counter expires, and the next request starts a new window.          *)
WindowEnds(u) ==
  /\ count[u] > 0
  /\ count' = [count EXCEPT ![u] = 0]
  /\ UNCHANGED <<call, loaded>>

(* Redis is restarted from its AOF, or SCRIPT FLUSH: the data stays, the   *)
(* script cache does not.                                                  *)
ScriptFlush ==
  /\ loaded
  /\ loaded' = FALSE
  /\ call' = [c \in Clients |-> [call[c] EXCEPT !.lost = @ \/ At(c, "again")]]
  /\ UNCHANGED count

(* The request is over: the client has read the answer, or it gets none    *)
(* because the process died, the handler raised or the client went away.   *)
Drop(c) ==
  /\ ~At(c, "idle")
  /\ call' = [call EXCEPT ![c] = IdleCall]
  /\ UNCHANGED <<count, loaded>>

AdmissionStep(c) ==
  \/ \E u \in Users : Arrive(c, u)
  \/ DeclaredTooLarge(c)
  \/ \E n \in 0..MaxChunk, more \in BOOLEAN : Receive(c, n, more)
  \/ CheckRate(c)
  \/ ReloadScript(c)
  \/ Drop(c)

AdmissionNext ==
  \/ \E c \in Clients : AdmissionStep(c)
  \/ \E u \in Users : WindowEnds(u)
  \/ ScriptFlush

-----------------------------------------------------------------------------
(* A script cache that Redis loses costs a request nothing: the rate limit *)
(* fails it only if the script was dropped again after this very request   *)
(* had put it back.                                                        *)
ScriptLossAbsorbed ==
  \A c \in Clients : call[c].reply = "error" => call[c].lost
=============================================================================
