----------------------------- MODULE AuthProofs -----------------------------
(***************************************************************************)
(* A revoked token is accepted for a bounded time only, and a rotation of  *)
(* the ServiceAccount token is absorbed, for any number of tokens and      *)
(* concurrent requests and any TTL, timeout and cache size.                *)
(***************************************************************************)
EXTENDS Auth, FiniteSetTheorems, WellFoundedInduction, TLAPS

USE AuthAssumption

(* An entry of a revoked token was put there by an answer that had been    *)
(* given before the revocation and took at most Timeout to arrive.         *)
EntryOK ==
  \A t \in cached :
    /\ TTL > 0
    /\ t \in Members
    /\ expires[t] <= now + TTL
    /\ t \in revoked => expires[t] <= revokedAt[t] + Timeout + TTL

(* A positive answer under way was given before the revocation, and is     *)
(* younger than the timeout.                                               *)
AnswerOK ==
  \A c \in Clients : call[c].pc = "answer" =>
    /\ call[c].at <= now
    /\ now <= call[c].at + Timeout
    /\ call[c].verdict = "ok" =>
         /\ call[c].tok \in Members
         /\ call[c].tok \in revoked => call[c].at <= revokedAt[call[c].tok]

(* An accepted request was accepted in the past, within the window.        *)
AcceptedOK ==
  \A c \in Clients : call[c].pc = "in" =>
    /\ call[c].at <= now
    /\ call[c].tok \in Members
    /\ call[c].tok \in revoked => call[c].at < revokedAt[call[c].tok] + Window

(* What the versions of the ServiceAccount token say about a review.       *)
VersionOK ==
  /\ held <= current
  /\ \A c \in Clients :
       /\ call[c].pc \in {"post", "answer"} =>
            /\ call[c].tok \in Tokens
            /\ call[c].sent <= current
            /\ call[c].born <= current
            /\ call[c].try = 2 => call[c].born <= call[c].sent
       /\ call[c].pc = "answer" /\ call[c].verdict = "unauthorized" =>
            call[c].sent < current
       /\ call[c].pc = "down" => call[c].born < current

AuthInv == AuthTypeOK /\ EntryOK /\ AnswerOK /\ AcceptedOK /\ VersionOK

(* Only _evict's choice of survivors matters, not which ones they are.     *)
LEMMA EvictKeeps == evict \subseteq cached
BY DEF evict

(* The window is at least one unit of time longer than the timeout.        *)
LEMMA WindowOpen ==
  /\ Window \in Nat
  /\ Window >= Timeout + 1
  /\ TTL > 0 => Window = Timeout + TTL
BY DEF Window

(* Initially nothing is cached and nothing is under way.                   *)
LEMMA AuthInitInv == AuthInit => AuthInv
BY DEF AuthInit, AuthInv, AuthTypeOK, EntryOK, AnswerOK, AcceptedOK, VersionOK,
       IdleCall, Call, Verdict

(* What the invariant asks of the record of one request.                   *)
RecordOK(r) ==
  /\ r.pc = "answer" =>
       /\ r.at <= now
       /\ now <= r.at + Timeout
       /\ r.verdict = "ok" => /\ r.tok \in Members
                              /\ r.tok \in revoked => r.at <= revokedAt[r.tok]
  /\ r.pc = "in" =>
       /\ r.at <= now
       /\ r.tok \in Members
       /\ r.tok \in revoked => r.at < revokedAt[r.tok] + Window
  /\ r.pc \in {"post", "answer"} =>
       /\ r.tok \in Tokens
       /\ r.sent <= current
       /\ r.born <= current
       /\ r.try = 2 => r.born <= r.sent
  /\ r.pc = "answer" /\ r.verdict = "unauthorized" => r.sent < current
  /\ r.pc = "down" => r.born < current

(* A request that changes its own record only keeps the invariant.         *)
LEMMA CallWrite ==
  ASSUME AuthInv, NEW c \in Clients, NEW r \in Call, RecordOK(r),
         call' = [call EXCEPT ![c] = r],
         UNCHANGED <<now, cache, cluster, held>>
  PROVE  AuthInv'
<1>1. AuthTypeOK'
  BY DEF AuthInv, AuthTypeOK, cache, cluster
<1>2. EntryOK'
  BY DEF AuthInv, EntryOK, cache, cluster
<1>3. /\ \A d \in Clients : call'[d] = IF d = c THEN r ELSE call[d]
      /\ now' = now /\ revoked' = revoked /\ revokedAt' = revokedAt
      /\ current' = current /\ held' = held
  BY DEF AuthInv, AuthTypeOK, cluster
<1>4. AnswerOK'
  BY <1>3 DEF AuthInv, AnswerOK, RecordOK
<1>5. AcceptedOK'
  BY <1>3 DEF AuthInv, AcceptedOK, RecordOK, Window
<1>6. VersionOK'
  BY <1>3 DEF AuthInv, VersionOK, RecordOK
<1> QED
  BY <1>1, <1>2, <1>4, <1>5, <1>6 DEF AuthInv

(* Every step keeps the invariant.                                         *)
LEMMA AuthNextInv == AuthInv /\ [AuthNext]_authVars => AuthInv'
<1> SUFFICES ASSUME AuthInv, [AuthNext]_authVars PROVE AuthInv'
  OBVIOUS
<1>0. /\ AuthTypeOK /\ EntryOK /\ AnswerOK /\ AcceptedOK /\ VersionOK
      /\ IdleCall \in Call
      /\ \A c \in Clients : call[c] \in Call
  BY DEF AuthInv, AuthTypeOK, IdleCall, Call, Verdict
<1>1. ASSUME NEW c \in Clients, NEW t \in Tokens, Hit(c, t) PROVE AuthInv'
  <2> DEFINE r == [IdleCall EXCEPT !.pc = "in", !.tok = t, !.at = now]
  <2>1. /\ r \in Call /\ r.pc = "in" /\ r.tok = t /\ r.at = now
        /\ call' = [call EXCEPT ![c] = r]
        /\ UNCHANGED <<now, cache, cluster, held>>
    BY <1>0, <1>1 DEF Hit, Accept, AuthTypeOK, Call, IdleCall, Verdict
  <2>2. t \in Members /\ (t \in revoked => now < revokedAt[t] + Window)
    BY <1>0, <1>1, WindowOpen DEF Hit, Fresh, EntryOK, AuthTypeOK
  <2> HIDE DEF r
  <2>3. RecordOK(r)
    BY <1>0, <2>1, <2>2 DEF RecordOK, AuthTypeOK
  <2> QED
    BY <2>1, <2>3, CallWrite
<1>2. ASSUME NEW c \in Clients, NEW t \in Tokens, Miss(c, t) PROVE AuthInv'
  <2> DEFINE r == [pc |-> "post", tok |-> t, try |-> 1, sent |-> held,
                   verdict |-> "none", at |-> 0, born |-> current]
  <2>1. /\ r \in Call /\ r.pc = "post" /\ r.tok = t /\ r.sent = held
        /\ r.born = current /\ r.try = 1
    BY <1>0 DEF AuthTypeOK, Call, Verdict
  <2>0. call' = [call EXCEPT ![c] = r]
    BY <1>2 DEF Miss
  <2> HIDE DEF r
  <2>2. /\ cached' = cached \ {t}
        /\ expires' = [u \in Tokens |-> IF u \in cached \ {t} THEN expires[u] ELSE 0]
        /\ older' \subseteq older
        /\ UNCHANGED <<now, revoked, revokedAt, current, held>>
    BY <1>2 DEF Miss, Forget, Retain, cluster
  <2>3. AuthTypeOK'
    BY <1>0, <2>0, <2>1, <2>2 DEF AuthTypeOK
  <2>4. EntryOK'
    BY <1>0, <2>2 DEF EntryOK, AuthTypeOK
  <2>5. \A d \in Clients : call'[d] = IF d = c THEN r ELSE call[d]
    BY <1>0, <2>0 DEF AuthTypeOK
  <2>6. AnswerOK' /\ AcceptedOK'
    BY <1>0, <2>1, <2>2, <2>5 DEF AnswerOK, AcceptedOK, Window
  <2>7. VersionOK'
    BY <1>0, <2>1, <2>2, <2>5 DEF VersionOK, AuthTypeOK
  <2> QED
    BY <2>3, <2>4, <2>6, <2>7 DEF AuthInv
<1>3. ASSUME NEW c \in Clients, Review(c) PROVE AuthInv'
  <2> DEFINE v == IF call[c].sent # current THEN "unauthorized"
                  ELSE IF call[c].tok \in Members \ revoked THEN "ok" ELSE "refused"
             r == [call[c] EXCEPT !.pc = "answer", !.verdict = v, !.at = now]
  <2>1. /\ call[c].pc = "post" /\ UNCHANGED <<now, cache, cluster, held>>
        /\ call' = [call EXCEPT ![c].pc = "answer", ![c].verdict = v, ![c].at = now]
    BY <1>3 DEF Review
  <2>2. /\ v \in Verdict
        /\ v = "ok" => call[c].tok \in Members /\ call[c].tok \notin revoked
        /\ v = "unauthorized" => call[c].sent # current
    BY DEF Verdict
  <2> HIDE DEF v
  <2>3. /\ r \in Call /\ r.pc = "answer" /\ r.verdict = v /\ r.at = now
        /\ r.tok = call[c].tok /\ r.sent = call[c].sent /\ r.born = call[c].born
        /\ r.try = call[c].try
        /\ call' = [call EXCEPT ![c] = r]
    BY <1>0, <2>1, <2>2 DEF AuthTypeOK, Call
  <2> HIDE DEF r
  <2>4. v = "unauthorized" => call[c].sent < current
    <3>1. call[c].sent \in Nat /\ current \in Nat
      BY <1>0 DEF AuthTypeOK, Call
    <3>2. call[c].sent <= current
      BY <1>0, <2>1 DEF VersionOK
    <3> QED
      BY <2>2, <3>1, <3>2
  <2>5. RecordOK(r)
    BY <1>0, <2>1, <2>2, <2>3, <2>4 DEF RecordOK, VersionOK, AuthTypeOK
  <2> QED
    BY <2>1, <2>3, <2>5, CallWrite
<1>4. ASSUME NEW c \in Clients, Repost(c) PROVE AuthInv'
  <2> DEFINE r == [call[c] EXCEPT !.pc = "post", !.try = 2, !.sent = current,
                                  !.verdict = "none", !.at = 0]
  <2>1. /\ r \in Call /\ r.pc = "post" /\ r.tok = call[c].tok
        /\ r.sent = current /\ r.born = call[c].born
        /\ call' = [call EXCEPT ![c] = r]
    BY <1>0, <1>4 DEF Repost, AuthTypeOK, Call, Verdict
  <2>2. /\ call[c].pc = "answer" /\ held' = current
        /\ UNCHANGED <<now, cached, expires, older, revoked, revokedAt, current>>
    BY <1>4 DEF Repost, cache, cluster
  <2> HIDE DEF r
  <2>3. \A d \in Clients : call'[d] = IF d = c THEN r ELSE call[d]
    BY <1>0, <2>1 DEF AuthTypeOK
  <2>4. AuthTypeOK' /\ EntryOK'
    BY <1>0, <2>1, <2>2 DEF AuthTypeOK, EntryOK
  <2>5. AnswerOK' /\ AcceptedOK'
    BY <1>0, <2>1, <2>2, <2>3 DEF AnswerOK, AcceptedOK, Window
  <2>6. VersionOK'
    BY <1>0, <2>1, <2>2, <2>3 DEF VersionOK, AuthTypeOK
  <2> QED
    BY <2>4, <2>5, <2>6 DEF AuthInv
<1>5. ASSUME NEW c \in Clients, GiveUp(c) PROVE AuthInv'
  <2> DEFINE r == [IdleCall EXCEPT !.pc = "down", !.born = call[c].born]
  <2>1. /\ r \in Call /\ r.pc = "down" /\ r.born = call[c].born
        /\ call' = [call EXCEPT ![c] = r]
        /\ UNCHANGED <<now, cache, cluster, held>>
    BY <1>0, <1>5 DEF GiveUp, AuthTypeOK, Call, IdleCall, Verdict
  <2>2. call[c].born < current
    BY <1>0, <1>5 DEF GiveUp, VersionOK, AuthTypeOK, Call
  <2> HIDE DEF r
  <2>3. RecordOK(r)
    BY <2>1, <2>2 DEF RecordOK
  <2> QED
    BY <2>1, <2>3, CallWrite
<1>6. ASSUME NEW c \in Clients, Validated(c) PROVE AuthInv'
  <2> DEFINE t == call[c].tok
             r == [IdleCall EXCEPT !.pc = "in", !.tok = t, !.at = now]
  <2>1. /\ r \in Call /\ r.pc = "in" /\ r.tok = t /\ r.at = now
        /\ call' = [call EXCEPT ![c] = r]
    BY <1>0, <1>6 DEF Validated, Accept, AuthTypeOK, Call, IdleCall, Verdict
  <2>2. /\ t \in Members /\ t \in Tokens
        /\ t \in revoked => now <= revokedAt[t] + Timeout
        /\ UNCHANGED <<now, cluster, held>>
    BY <1>0, <1>6 DEF Validated, AnswerOK, AuthTypeOK, Call
  <2> HIDE DEF r
  <2>3. t \in revoked => now < revokedAt[t] + Window
    BY <1>0, <2>2, WindowOpen DEF AuthTypeOK
  <2>4. CASE TTL = 0
    <3>1. RecordOK(r)
      BY <1>0, <2>1, <2>2, <2>3 DEF RecordOK, AuthTypeOK
    <3>2. UNCHANGED <<now, cache, cluster, held>>
      BY <1>6, <2>4 DEF Validated
    <3> QED
      BY <2>1, <3>1, <3>2, CallWrite
  <2>5. CASE TTL # 0
    <3>1. put(t)
      BY <1>6, <2>5 DEF Validated
    <3>2. PICK keep \in SUBSET cached :
             /\ cached' = keep \cup {t}
             /\ expires' = [u \in Tokens |-> IF u = t THEN now + TTL
                               ELSE IF u \in keep THEN expires[u] ELSE 0]
             /\ older' \subseteq older \cup (keep \X {t})
      BY <3>1, EvictKeeps DEF put
    <3>3. \A d \in Clients : call'[d] = IF d = c THEN r ELSE call[d]
      BY <1>0, <2>1 DEF AuthTypeOK
    <3>4. AuthTypeOK'
      BY <1>0, <2>1, <2>2, <3>2 DEF AuthTypeOK, cluster
    <3>5. EntryOK'
      BY <1>0, <2>2, <2>5, <3>2 DEF EntryOK, AuthTypeOK, cluster
    <3>6. AnswerOK' /\ AcceptedOK'
      BY <1>0, <2>1, <2>2, <2>3, <3>3 DEF AnswerOK, AcceptedOK, AuthTypeOK, Window, cluster
    <3>7. VersionOK'
      BY <1>0, <2>1, <2>2, <3>3 DEF VersionOK, AuthTypeOK, cluster
    <3> QED
      BY <3>4, <3>5, <3>6, <3>7 DEF AuthInv
  <2> QED
    BY <2>4, <2>5
<1>7. ASSUME NEW c \in Clients, Refused(c) \/ Unreachable(c) \/ Done(c) PROVE AuthInv'
  <2>1. /\ call' = [call EXCEPT ![c] = IdleCall] /\ IdleCall.pc = "idle"
        /\ UNCHANGED <<now, cache, cluster, held>>
    BY <1>7 DEF Refused, Unreachable, Done, IdleCall
  <2>2. RecordOK(IdleCall)
    BY <2>1 DEF RecordOK
  <2> QED
    BY <1>0, <2>1, <2>2, CallWrite
<1>8. ASSUME NEW t \in Tokens, Revoke(t) PROVE AuthInv'
  <2>1. /\ revoked' = revoked \cup {t} /\ revokedAt' = [revokedAt EXCEPT ![t] = now]
        /\ t \notin revoked
        /\ UNCHANGED <<now, cached, expires, older, current, held, call>>
    BY <1>8 DEF Revoke, cache
  <2>2. /\ AuthTypeOK'
        /\ \A u \in Tokens : revokedAt'[u] = IF u = t THEN now ELSE revokedAt[u]
    BY <1>0, <2>1 DEF AuthTypeOK
  <2>3. EntryOK'
    BY <1>0, <2>1, <2>2 DEF EntryOK, AuthTypeOK
  <2>4. AnswerOK' /\ VersionOK'
    BY <1>0, <2>1, <2>2 DEF AnswerOK, VersionOK, AuthTypeOK, Call
  <2>5. AcceptedOK'
    BY <1>0, <2>1, <2>2, WindowOpen DEF AcceptedOK, AuthTypeOK, Call, Window
  <2> QED
    BY <2>2, <2>3, <2>4, <2>5 DEF AuthInv
<1>9. CASE Rotate
  <2>1. /\ current' = current + 1 /\ current \in Nat
        /\ UNCHANGED <<now, cached, expires, older, revoked, revokedAt, held, call>>
    BY <1>0, <1>9 DEF Rotate, cache, AuthTypeOK
  <2>2. AuthTypeOK' /\ EntryOK' /\ AnswerOK' /\ AcceptedOK'
    BY <1>0, <2>1 DEF AuthTypeOK, EntryOK, AnswerOK, AcceptedOK, Window
  <2>3. VersionOK'
    BY <1>0, <2>1 DEF VersionOK, AuthTypeOK, Call
  <2> QED
    BY <2>2, <2>3 DEF AuthInv
<1>10. CASE Tick
  <2>1. /\ now' = now + 1 /\ now \in Nat
        /\ \A c \in Clients : call[c].pc = "answer" => now < call[c].at + Timeout
        /\ UNCHANGED <<cached, expires, older, revoked, revokedAt, current, held, call>>
    BY <1>0, <1>10 DEF Tick, cache, cluster, AuthTypeOK
  <2>2. AuthTypeOK' /\ VersionOK'
    BY <1>0, <2>1 DEF AuthTypeOK, VersionOK
  <2>3. EntryOK'
    BY <1>0, <2>1 DEF EntryOK, AuthTypeOK
  <2>4. AnswerOK'
    BY <1>0, <2>1 DEF AnswerOK, Call
  <2>5. AcceptedOK'
    BY <1>0, <2>1 DEF AcceptedOK, Call, Window
  <2> QED
    BY <2>2, <2>3, <2>4, <2>5 DEF AuthInv
<1>11. CASE UNCHANGED authVars
  BY <1>0, <1>11 DEF authVars, cache, cluster, AuthInv, AuthTypeOK, EntryOK, AnswerOK,
                     AcceptedOK, VersionOK, Window
<1> QED
  BY <1>1, <1>2, <1>3, <1>4, <1>5, <1>6, <1>7, <1>8, <1>9, <1>10, <1>11 DEF AuthNext

(* The invariant holds in every reachable state.                           *)
LEMMA AuthInvHolds == AuthSpec => []AuthInv
BY AuthInitInv, AuthNextInv, PTL DEF AuthSpec

(* get_current_user lets a revoked token in for at most one TTL plus the   *)
(* time an answer of the cluster may be under way, and nobody outside the  *)
(* required group: whatever requests race each other at the cache.         *)
THEOREM RevocationIsBounded == AuthSpec => []RevocationBounded
<1>1. AuthInv => RevocationBounded
  BY DEF AuthInv, AcceptedOK, RevocationBounded
<1> QED
  BY <1>1, AuthInvHolds, PTL

(* One re-read of the ServiceAccount token is enough for every rotation    *)
(* that happened before a request, also when requests share the reviewer.  *)
THEOREM RotationIsAbsorbed == AuthSpec => []RotationAbsorbed
<1>1. AuthInv => RotationAbsorbed
  BY DEF AuthInv, VersionOK, AuthTypeOK, Call, RotationAbsorbed
<1> QED
  BY <1>1, AuthInvHolds, PTL

(* Every variable keeps its type.                                          *)
THEOREM AuthTypeCorrect == AuthSpec => []AuthTypeOK
<1>1. AuthInv => AuthTypeOK
  BY DEF AuthInv
<1> QED
  BY <1>1, AuthInvHolds, PTL

(***************************************************************************)
(* The size of the cache.                                                  *)
(***************************************************************************)

(* R orders the elements of S, one after the other.                        *)
Ordered(R, S) ==
  /\ \A t \in S : <<t, t>> \notin R
  /\ \A t, u, v \in S : <<t, u>> \in R /\ <<u, v>> \in R => <<t, v>> \in R
  /\ \A t, u \in S : t = u \/ <<t, u>> \in R \/ <<u, t>> \in R

CacheInv ==
  /\ IsFiniteSet(cached)
  /\ older \subseteq cached \X cached
  /\ Ordered(older, cached)
  /\ Cardinality(cached) <= MaxEntries

(* Something of what is ordered was inserted first.                        *)
LEMMA Oldest ==
  ASSUME NEW R, NEW S, IsFiniteSet(S), S # {}, Ordered(R, S)
  PROVE  \E t \in S : \A u \in S : <<u, t>> \notin R
<1> DEFINE Before(t) == {u \in S : <<u, t>> \in R}
           T == {Before(t) : t \in S}
<1>1. \A t \in S : Before(t) \in FiniteSubsetsOf(S)
  BY FS_Subset DEF FiniteSubsetsOf
<1>2. T \subseteq FiniteSubsetsOf(S) /\ T # {}
  BY <1>1
<1>3. IsWellFoundedOn(StrictSubsetOrdering(S), FiniteSubsetsOf(S))
  BY FS_StrictSubsetOrderingWellFounded
<1>4. PICK x \in T : \A y \in T : <<y, x>> \notin StrictSubsetOrdering(S)
  BY <1>2, <1>3, WFMin
<1>5. PICK t \in S : x = Before(t)
  BY <1>4
<1>6. ASSUME NEW u \in S, <<u, t>> \in R
      PROVE  FALSE
  <2>1. Before(u) \subseteq Before(t) /\ u \in Before(t) /\ u \notin Before(u)
    BY <1>6 DEF Ordered
  <2>2. <<Before(u), Before(t)>> \in StrictSubsetOrdering(S)
    BY <2>1 DEF StrictSubsetOrdering
  <2> QED
    BY <1>4, <1>5, <2>2
<1> QED
  BY <1>6

(* _evict leaves room for one more entry, whatever has expired.            *)
LEMMA EvictMakesRoom ==
  ASSUME CacheInv
  PROVE  IsFiniteSet(evict) /\ Cardinality(evict) <= MaxEntries - 1
<1> DEFINE live == {t \in cached : expires[t] > now}
           Newer(t) == {u \in live : <<t, u>> \in older}
<1>1. /\ evict = {t \in live : Cardinality(Newer(t)) < MaxEntries - 1}
      /\ evict \subseteq live /\ live \subseteq cached
  BY DEF evict
<1>2. /\ IsFiniteSet(cached) /\ IsFiniteSet(evict) /\ IsFiniteSet(live)
      /\ Cardinality(evict) \in Nat /\ MaxEntries - 1 \in Nat
  <2>1. IsFiniteSet(cached) /\ live \in SUBSET cached /\ evict \in SUBSET cached
    BY <1>1 DEF CacheInv
  <2> HIDE DEF live
  <2>2. IsFiniteSet(live) /\ IsFiniteSet(evict)
    BY <2>1, FS_Subset
  <2>3. Cardinality(evict) \in Nat
    BY <2>2, FS_CardinalityType
  <2> QED
    BY <2>1, <2>2, <2>3
<1>3. CASE evict = {}
  BY <1>2, <1>3, FS_EmptySet
<1>4. CASE evict # {}
  <2>1. Ordered(older, evict)
    BY <1>1 DEF CacheInv, Ordered
  <2>2. PICK t \in evict : \A u \in evict : <<u, t>> \notin older
    BY <1>2, <1>4, <2>1, Oldest
  <2>3. evict \ {t} \subseteq Newer(t)
    BY <1>1, <2>1, <2>2 DEF Ordered
  <2>4. IsFiniteSet(Newer(t)) /\ Cardinality(Newer(t)) \in Nat
    BY <1>2, FS_Subset, FS_CardinalityType
  <2>5. Cardinality(evict \ {t}) <= Cardinality(Newer(t))
    BY <2>3, <2>4, FS_Subset
  <2>6. Cardinality(evict \ {t}) = Cardinality(evict) - 1
    BY <1>2, FS_RemoveElement
  <2>7. Cardinality(Newer(t)) < MaxEntries - 1
    BY <1>1
  <2> QED
    BY <1>2, <2>4, <2>5, <2>6, <2>7
<1> QED
  BY <1>3, <1>4

(* Entries that go leave the others in order.                              *)
LEMMA RetainKeeps ==
  ASSUME CacheInv, NEW keep, keep \subseteq cached
  PROVE  /\ IsFiniteSet(keep) /\ Cardinality(keep) <= Cardinality(cached)
         /\ Cardinality(keep) \in Nat /\ Cardinality(cached) \in Nat
         /\ Ordered(older \cap (keep \X keep), keep)
<1>1. IsFiniteSet(keep) /\ Cardinality(keep) <= Cardinality(cached)
  BY FS_Subset DEF CacheInv
<1>2. Ordered(older \cap (keep \X keep), keep)
  BY DEF CacheInv, Ordered
<1> QED
  BY <1>1, <1>2, FS_CardinalityType DEF CacheInv

(* A new entry is the youngest, and there is room for it.                  *)
LEMMA PutKeeps ==
  ASSUME CacheInv, NEW t, put(t)
  PROVE  CacheInv'
<1> DEFINE full == t \notin cached /\ Cardinality(cached) >= MaxEntries
           keep == IF full THEN evict ELSE cached
<1>1. /\ cached' = keep \cup {t} /\ keep \subseteq cached
      /\ older' = (older \cap (keep \X keep))
                  \cup (IF t \in cached THEN {} ELSE keep \X {t})
  BY EvictKeeps DEF put
<1>2. /\ IsFiniteSet(keep) /\ Cardinality(keep) <= Cardinality(cached)
      /\ Cardinality(keep) \in Nat /\ Cardinality(cached) \in Nat
      /\ Ordered(older \cap (keep \X keep), keep)
  BY <1>1, RetainKeeps
<1>3. full => Cardinality(keep) <= MaxEntries - 1
  BY EvictMakesRoom
<1>4. t \in cached => keep = cached
  OBVIOUS
<1>5. ~full => t \in cached \/ Cardinality(cached) < MaxEntries
  BY <1>2
<1> HIDE DEF keep, full
<1>6. IsFiniteSet(cached') /\ Cardinality(cached') = IF t \in keep THEN Cardinality(keep)
                                                     ELSE Cardinality(keep) + 1
  BY <1>1, <1>2, FS_AddElement
<1>7. Cardinality(cached') <= MaxEntries
  BY <1>1, <1>2, <1>3, <1>4, <1>5, <1>6 DEF CacheInv
<1>8. older' \subseteq cached' \X cached'
  BY <1>1
<1>9. Ordered(older', cached')
  <2>1. CASE t \in cached
    <3>1. cached' = keep /\ older' = older \cap (keep \X keep)
      BY <1>1, <1>4, <2>1
    <3> QED
      BY <1>2, <3>1
  <2>2. CASE t \notin cached
    <3>1. /\ t \notin keep /\ cached' = keep \cup {t}
          /\ \A u, v : <<u, v>> \in older' <=>
               \/ u \in keep /\ v \in keep /\ <<u, v>> \in older
               \/ u \in keep /\ v = t
      BY <1>1, <2>2
    <3>2. \A u, v \in keep : <<u, v>> \in older \cap (keep \X keep) <=> <<u, v>> \in older
      OBVIOUS
    <3> QED
      BY <1>2, <3>1, <3>2 DEF Ordered
  <2> QED
    BY <2>1, <2>2
<1> QED
  BY <1>6, <1>7, <1>8, <1>9 DEF CacheInv

(* Every step keeps the cache ordered and small enough.                    *)
LEMMA CacheNextInv == CacheInv /\ [AuthNext]_authVars => CacheInv'
<1> SUFFICES ASSUME CacheInv, [AuthNext]_authVars PROVE CacheInv'
  OBVIOUS
<1>1. ASSUME UNCHANGED cache PROVE CacheInv'
  BY <1>1 DEF CacheInv, cache, Ordered
<1>2. ASSUME NEW c \in Clients, NEW t \in Tokens, Miss(c, t) PROVE CacheInv'
  <2> DEFINE keep == cached \ {t}
  <2>1. cached' = keep /\ older' = older \cap (keep \X keep) /\ keep \subseteq cached
    BY <1>2 DEF Miss, Forget, Retain
  <2> HIDE DEF keep
  <2>2. /\ IsFiniteSet(keep) /\ Cardinality(keep) <= Cardinality(cached)
        /\ Cardinality(keep) \in Nat /\ Cardinality(cached) \in Nat
        /\ Ordered(older \cap (keep \X keep), keep)
    BY <2>1, RetainKeeps
  <2> QED
    BY <2>1, <2>2 DEF CacheInv
<1>3. ASSUME NEW c \in Clients, Validated(c) PROVE CacheInv'
  BY <1>1, <1>3, PutKeeps DEF Validated
<1>4. ASSUME NEW c \in Clients, NEW t \in Tokens, Hit(c, t) PROVE CacheInv'
  BY <1>1, <1>4 DEF Hit
<1>5. ASSUME NEW c \in Clients,
             \/ Review(c) \/ Repost(c) \/ GiveUp(c) \/ Refused(c) \/ Unreachable(c)
             \/ Done(c)
      PROVE  CacheInv'
  BY <1>1, <1>5 DEF Review, Repost, GiveUp, Refused, Unreachable, Done
<1>6. ASSUME (\E t \in Tokens : Revoke(t)) \/ Rotate \/ Tick \/ UNCHANGED authVars
      PROVE  CacheInv'
  BY <1>1, <1>6 DEF Revoke, Rotate, Tick, authVars
<1> QED
  BY <1>2, <1>3, <1>4, <1>5, <1>6 DEF AuthNext

(* The cache never outgrows max_entries (app/auth/cache.py put and         *)
(* _evict), for every size and every order of insertions, expirations and  *)
(* renewals.                                                               *)
THEOREM CacheStaysBounded == AuthSpec => []CacheBounded
<1>1. AuthInit => CacheInv
  BY FS_EmptySet DEF AuthInit, CacheInv, Ordered
<1>2. CacheInv => CacheBounded
  BY DEF CacheInv, CacheBounded
<1> QED
  BY <1>1, <1>2, CacheNextInv, PTL DEF AuthSpec
=============================================================================
