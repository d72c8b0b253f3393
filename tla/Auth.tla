-------------------------------- MODULE Auth --------------------------------
(***************************************************************************)
(* Authentication of API requests (api/deps.py, auth/cache.py,             *)
(* auth/tokenreview.py): a bounded cache of accepted tokens in front of    *)
(* the TokenReview service of the cluster, which authenticates this        *)
(* service by a ServiceAccount token that is rotated from time to time.    *)
(* Concurrent requests share the cache and the ServiceAccount token; they  *)
(* interleave where a request awaits the answer of the cluster.            *)
(***************************************************************************)
EXTENDS Integers, FiniteSets

CONSTANTS
  Tokens,        \* bearer tokens
  Members,       \* those of users in the required group, with a UUID uid
  Clients,       \* requests in progress at a time
  TTL,           \* settings.auth_cache_ttl_s
  Timeout,       \* bounds the way of an answer: settings.auth_timeout_s for each
                 \* network operation of the request
  MaxEntries,    \* TokenCache max_entries
  MaxTime,       \* bound on the clock
  MaxRotations,  \* bound on the rotations of the ServiceAccount token
  NoToken

ASSUME AuthAssumption ==
  /\ Members \subseteq Tokens
  /\ TTL \in Nat
  /\ Timeout \in Nat
  /\ MaxEntries \in Nat \ {0}
  /\ MaxTime \in Nat
  /\ MaxRotations \in Nat
  /\ NoToken \notin Tokens

VARIABLES
  now,        \* the clock
  cached,     \* the keys of TokenCache._entries
  expires,    \* expires_at of the entries
  older,      \* <<u, t>>: the entry of u was inserted before that of t
  revoked,    \* tokens the cluster no longer accepts
  revokedAt,  \* since when
  current,    \* version of the ServiceAccount token in the projected file
  held,       \* version TokenReviewer._sa_token holds
  call        \* the requests in progress

cache == <<cached, expires, older>>
cluster == <<revoked, revokedAt, current>>
authVars == <<now, cache, cluster, held, call>>

(* "post": the review is on its way to the cluster; "answer": on its way   *)
(* back with the verdict of time at; "in": accepted at time at; "down":    *)
(* refused because the cluster rejected our own credentials.               *)
Verdict == {"none", "ok", "refused", "unauthorized"}
Call == [pc : {"idle", "post", "answer", "in", "down"}, tok : Tokens \cup {NoToken},
         try : 0..2, sent : Nat, verdict : Verdict, at : Nat, born : Nat]
IdleCall == [pc |-> "idle", tok |-> NoToken, try |-> 0, sent |-> 0,
             verdict |-> "none", at |-> 0, born |-> 0]

AuthInit ==
  /\ now = 0
  /\ cached = {}
  /\ expires = [t \in Tokens |-> 0]
  /\ older = {}
  /\ revoked = {}
  /\ revokedAt = [t \in Tokens |-> 0]
  /\ current = 0
  /\ held = 0
  /\ call = [c \in Clients |-> IdleCall]

(***************************************************************************)
(* TokenCache.                                                             *)
(***************************************************************************)
(* Mutant: an entry is still good at its expires_at.                       *)
FreshLate(t) == t \in cached /\ now <= expires[t]

Fresh(t) == t \in cached /\ now < expires[t]

(* The keys kept are exactly those of set keep; expires is 0 without key.  *)
Retain(keep) ==
  /\ cached' = keep
  /\ expires' = [u \in Tokens |-> IF u \in keep THEN expires[u] ELSE 0]
  /\ older' = older \cap (keep \X keep)

(* get pops an expired entry.                                              *)
Forget(t) == Retain(cached \ {t})

(* Mutant: only expired entries make room.                                 *)
evict_expired == {t \in cached : expires[t] > now}

(* _evict: drop what has expired, then the oldest insertions until there   *)
(* is room for one more.                                                   *)
evict ==
  LET live == {t \in cached : expires[t] > now} IN
  {t \in live : Cardinality({u \in live : <<t, u>> \in older}) < MaxEntries - 1}

(* Assigning to a key the dict already has keeps its place in the order.   *)
put(t) ==
  LET keep == IF t \notin cached /\ Cardinality(cached) >= MaxEntries
              THEN evict ELSE cached
  IN
  /\ cached' = keep \cup {t}
  /\ expires' = [u \in Tokens |-> IF u = t THEN now + TTL
                                  ELSE IF u \in keep THEN expires[u] ELSE 0]
  /\ older' = (older \cap (keep \X keep))
              \cup (IF t \in cached THEN {} ELSE keep \X {t})

(***************************************************************************)
(* get_current_user and TokenReviewer.review.                              *)
(***************************************************************************)
Accept(c, t) ==
  call' = [call EXCEPT ![c] = [IdleCall EXCEPT !.pc = "in", !.tok = t, !.at = now]]

(* A request with token t finds it in the cache,                           *)
Hit(c, t) ==
  /\ call[c].pc = "idle"
  /\ Fresh(t)
  /\ Accept(c, t)
  /\ UNCHANGED <<now, cache, cluster, held>>

(* or posts a review, with the ServiceAccount token in memory.             *)
Miss(c, t) ==
  /\ call[c].pc = "idle"
  /\ ~Fresh(t)
  /\ Forget(t)
  /\ call' = [call EXCEPT ![c] =
                [pc |-> "post", tok |-> t, try |-> 1, sent |-> held,
                 verdict |-> "none", at |-> 0, born |-> current]]
  /\ UNCHANGED <<now, cluster, held>>

(* The cluster looks at a review and answers.                              *)
Review(c) ==
  LET t == call[c].tok
      v == IF call[c].sent # current THEN "unauthorized"
           ELSE IF t \in Members \ revoked THEN "ok" ELSE "refused"
  IN
  /\ call[c].pc = "post"
  /\ call' = [call EXCEPT ![c].pc = "answer", ![c].verdict = v, ![c].at = now]
  /\ UNCHANGED <<now, cache, cluster, held>>

(* Mutant: the second post uses the ServiceAccount token of the first.     *)
RepostBlindly(c) ==
  /\ call[c].pc = "answer"
  /\ call[c].verdict = "unauthorized"
  /\ call[c].try = 1
  /\ call' = [call EXCEPT ![c].pc = "post", ![c].try = 2, ![c].verdict = "none",
                          ![c].at = 0]
  /\ UNCHANGED <<now, cache, cluster, held>>

(* Mutant: posted again as long as the answer is 401.                      *)
RepostForever(c) ==
  /\ call[c].pc = "answer"
  /\ call[c].verdict = "unauthorized"
  /\ held' = current
  /\ call' = [call EXCEPT ![c].pc = "post", ![c].try = @ + 1, ![c].sent = current,
                          ![c].verdict = "none", ![c].at = 0]
  /\ UNCHANGED <<now, cache, cluster>>

(* A first 401 can only mean our own credential: read it again, post again.*)
Repost(c) ==
  /\ call[c].pc = "answer"
  /\ call[c].verdict = "unauthorized"
  /\ call[c].try = 1
  /\ held' = current
  /\ call' = [call EXCEPT ![c].pc = "post", ![c].try = 2, ![c].sent = current,
                          ![c].verdict = "none", ![c].at = 0]
  /\ UNCHANGED <<now, cache, cluster>>

(* A second 401 is TokenReviewUnavailable: 503.                            *)
GiveUp(c) ==
  /\ call[c].pc = "answer"
  /\ call[c].verdict = "unauthorized"
  /\ call[c].try = 2
  /\ call' = [call EXCEPT ![c] = [IdleCall EXCEPT !.pc = "down", !.born = call[c].born]]
  /\ UNCHANGED <<now, cache, cluster, held>>

Validated(c) ==
  /\ call[c].pc = "answer"
  /\ call[c].verdict = "ok"
  /\ IF TTL = 0 THEN UNCHANGED cache ELSE put(call[c].tok)
  /\ Accept(c, call[c].tok)
  /\ UNCHANGED <<now, cluster, held>>

(* 401 or 403 for the token.                                               *)
Refused(c) ==
  /\ call[c].pc = "answer"
  /\ call[c].verdict = "refused"
  /\ call' = [call EXCEPT ![c] = IdleCall]
  /\ UNCHANGED <<now, cache, cluster, held>>

(* The post fails, times out or is answered by an error of the cluster:    *)
(* TokenReviewUnavailable, 503.                                            *)
Unreachable(c) ==
  /\ call[c].pc \in {"post", "answer"}
  /\ call' = [call EXCEPT ![c] = IdleCall]
  /\ UNCHANGED <<now, cache, cluster, held>>

(* The request is over.                                                    *)
Done(c) ==
  /\ call[c].pc \in {"in", "down"}
  /\ call' = [call EXCEPT ![c] = IdleCall]
  /\ UNCHANGED <<now, cache, cluster, held>>

(***************************************************************************)
(* The cluster and the clock.                                              *)
(***************************************************************************)
Revoke(t) ==
  /\ t \in Members \ revoked
  /\ revoked' = revoked \cup {t}
  /\ revokedAt' = [revokedAt EXCEPT ![t] = now]
  /\ UNCHANGED <<now, cache, current, held, call>>

Rotate ==
  /\ current < MaxRotations
  /\ current' = current + 1
  /\ UNCHANGED <<now, cache, revoked, revokedAt, held, call>>

(* The client does not wait for an answer longer than its timeouts allow   *)
(* for connecting, writing and reading together.                           *)
Tick ==
  /\ now < MaxTime
  /\ \A c \in Clients : call[c].pc = "answer" => now < call[c].at + Timeout
  /\ now' = now + 1
  /\ UNCHANGED <<cache, cluster, held, call>>

AuthNext ==
  \/ \E c \in Clients :
       \/ \E t \in Tokens : Hit(c, t) \/ Miss(c, t)
       \/ Review(c) \/ Repost(c) \/ GiveUp(c) \/ Validated(c) \/ Refused(c)
       \/ Unreachable(c) \/ Done(c)
  \/ \E t \in Tokens : Revoke(t)
  \/ Rotate
  \/ Tick

AuthSpec == AuthInit /\ [][AuthNext]_authVars

AuthTypeOK ==
  /\ now \in Nat
  /\ cached \subseteq Tokens
  /\ expires \in [Tokens -> Nat]
  /\ older \subseteq Tokens \X Tokens
  /\ revoked \subseteq Tokens
  /\ revokedAt \in [Tokens -> Nat]
  /\ current \in Nat
  /\ held \in Nat
  /\ call \in [Clients -> Call]

-----------------------------------------------------------------------------
(* How long after its revocation a token may still be accepted: one TTL,   *)
(* counted from the arrival of an answer that was given before it.         *)
Window == IF TTL = 0 THEN Timeout + 1 ELSE Timeout + TTL

(* Nobody outside the required group gets in, and a revoked token gets in  *)
(* for a bounded time only, whatever answers were under way when it was    *)
(* revoked and whichever requests have renewed its entry.                  *)
RevocationBounded ==
  \A c \in Clients : call[c].pc = "in" =>
    /\ call[c].tok \in Members
    /\ call[c].tok \in revoked => call[c].at < revokedAt[call[c].tok] + Window

(* A revoked token gets in for no longer than one TTL.                     *)
RevokedWithinTTL ==
  \A c \in Clients : call[c].pc = "in" /\ call[c].tok \in revoked =>
    call[c].at <= revokedAt[call[c].tok] + TTL

(* The cache never outgrows max_entries.                                   *)
CacheBounded == Cardinality(cached) <= MaxEntries

(* A rotation of the ServiceAccount token is absorbed: a request is turned *)
(* away for our own credentials only if they were rotated while it was     *)
(* under way, never because an earlier rotation went unnoticed.            *)
RotationAbsorbed == \A c \in Clients : call[c].pc = "down" => current > call[c].born
=============================================================================
