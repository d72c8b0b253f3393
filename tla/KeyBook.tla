------------------------------ MODULE KeyBook ------------------------------
(***************************************************************************)
(* What POST /jobs promises a client that sends an idempotency key, as if  *)
(* every submission were carried out in one step: the first one with a key *)
(* makes a job, a repetition gets that job, and a different payload under  *)
(* the same key is refused.  A call may also end without having been       *)
(* carried out, or without its answer being heard.                         *)
(***************************************************************************)
CONSTANTS Clients, Users, Keys, Hashes, Jobs, NoKey, NoJob

VARIABLES
  book,   \* the jobs made so far, with the request each one answers
  asked   \* asked[c]: the request of client c and its answer

Entry == [id : Jobs, user : Users, key : Keys \cup {NoKey}, hash : Hashes]
Nothing == [st |-> "idle", job |-> NoJob]

BookInit == book = {} /\ asked = [c \in Clients |-> Nothing]

Ask(c) ==
  /\ asked[c] = Nothing
  /\ \E u \in Users, k \in Keys \cup {NoKey}, h \in Hashes :
       asked' = [asked EXCEPT ![c] = [st |-> "open", user |-> u, key |-> k,
                                      hash |-> h, job |-> NoJob]]
  /\ UNCHANGED book

(* The entries that a request r is a repetition of, or conflicts with.     *)
SameKey(r) == {e \in book : r.key # NoKey /\ e.user = r.user /\ e.key = r.key}

Answer(c, st, j) ==
  asked' = [asked EXCEPT ![c] = [st |-> st, user |-> asked[c].user,
                                 key |-> asked[c].key, hash |-> asked[c].hash,
                                 job |-> j]]

Make(c) ==
  /\ asked[c].st = "open"
  /\ SameKey(asked[c]) = {}
  /\ \E j \in Jobs :
       /\ \A e \in book : e.id # j
       /\ book' = book \cup {[id |-> j, user |-> asked[c].user,
                              key |-> asked[c].key, hash |-> asked[c].hash]}
       /\ Answer(c, "new", j)

Repeat(c) ==
  /\ asked[c].st = "open"
  /\ \E e \in SameKey(asked[c]) :
       /\ e.hash = asked[c].hash
       /\ Answer(c, "same", e.id)
  /\ UNCHANGED book

Refuse(c) ==
  /\ asked[c].st = "open"
  /\ \E e \in SameKey(asked[c]) : e.hash # asked[c].hash
  /\ Answer(c, "other", NoJob)
  /\ UNCHANGED book

Leave(c) ==
  /\ asked[c] # Nothing
  /\ asked' = [asked EXCEPT ![c] = Nothing]
  /\ UNCHANGED book

BookNext == \E c \in Clients : Ask(c) \/ Make(c) \/ Repeat(c) \/ Refuse(c) \/ Leave(c)

BookSpec == BookInit /\ [][BookNext]_<<book, asked>>
=============================================================================
