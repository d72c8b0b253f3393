-------------------------- MODULE SubmissionProofs --------------------------
(***************************************************************************)
(* Theorems about POST /jobs (Submission), for any number of clients,      *)
(* users, keys, payloads and jobs: no row is marked as handed over before  *)
(* Redis has been given its job, a lost script cache fails no request that *)
(* has not itself seen it lost twice, and submissions implement KeyBook.   *)
(***************************************************************************)
EXTENDS Submission, TLAPS

(* Some row of tab is found by the key and the user of request r.          *)
Named(r, tab) ==
  \E j \in Jobs : tab[j] # NoRow /\ r.key # NoKey /\ tab[j].key = r.key
                                 /\ tab[j].user = r.user

(* What a request knows in the middle of its work: whose it is, what it    *)
(* asks for, that the row it writes is there, that the row it collided     *)
(* with can be found again, and what became of the script it loaded.       *)
Knows(r, tab, ld) ==
  /\ r.pc \in Before \cup Inside => r.user \in Users
  /\ r.pc \in {"idle"} \cup Before \cup Inside => r.reply = "none"
  /\ r.pc \in {"idle"} \cup Before => r.hash = NoHash
  /\ r.pc \in Inside => r.hash \in Hashes
  /\ r.pc \in {"handoff", "sync"} => r.job \in Jobs /\ tab[r.job] # NoRow
  /\ r.pc = "sync" => tab[r.job].queued
  /\ r.pc = "relookup" => Named(r, tab)
  /\ r.reply = "error" => r.lost
  /\ r.pc = "again" /\ ~ld => r.lost

(* The inductive invariant.                                                *)
SubInv ==
  /\ SubTypeOK
  /\ \A c \in Clients : Knows(call[c], table, loaded)
  /\ UnqueuedIsUnsynced

(* NoRow is no row.                                                        *)
LEMMA NoRowIsNone == NoRow \notin Row
  BY AdmissionAssumption DEF NoRow, Row

-----------------------------------------------------------------------------
(* The request of c, and no other, moves.                                  *)
Moves(c) ==
  /\ call' \in [Clients -> Call]
  /\ \A d \in Clients \ {c} : call'[d] = call[d]

(* It moves and keeps what it asks for and what became of its script.      *)
Keeps(c) ==
  /\ Moves(c)
  /\ call'[c].user = call[c].user
  /\ call'[c].key = call[c].key
  /\ call'[c].hash = call[c].hash
  /\ call'[c].lost = call[c].lost

Pcs == {"idle", "done"} \cup Before \cup Inside

LEMMA GotoMoves ==
  ASSUME SubTypeOK, NEW c \in Clients, NEW p \in Pcs, Goto(c, p)
  PROVE  /\ Keeps(c)
         /\ call'[c].pc = p /\ call'[c].reply = call[c].reply
         /\ call'[c].job = call[c].job
<1> DEFINE v == [call[c] EXCEPT !.pc = p]
<1>1. call[c] \in Call
  BY DEF SubTypeOK
<1>2. v \in Call
  BY <1>1 DEF Call, Pcs
<1>3. /\ v.pc = p /\ v.user = call[c].user /\ v.key = call[c].key
      /\ v.hash = call[c].hash /\ v.lost = call[c].lost
      /\ v.reply = call[c].reply /\ v.job = call[c].job
  BY <1>1 DEF Call
<1>4. call' = [call EXCEPT ![c] = v]
  BY DEF Goto
<1> HIDE DEF v
<1> QED BY <1>2, <1>3, <1>4 DEF Keeps, Moves, SubTypeOK

LEMMA ReplyMoves ==
  ASSUME SubTypeOK, NEW c \in Clients, NEW r \in Replies, NEW j \in Jobs \cup {NoJob},
         Reply(c, r, j)
  PROVE  /\ Keeps(c)
         /\ call'[c].pc = "done" /\ call'[c].reply = r /\ call'[c].job = j
<1> DEFINE v == [call[c] EXCEPT !.pc = "done", !.reply = r, !.job = j]
<1>1. call[c] \in Call
  BY DEF SubTypeOK
<1>2. v \in Call
  BY <1>1 DEF Call
<1>3. /\ v.pc = "done" /\ v.user = call[c].user /\ v.key = call[c].key
      /\ v.hash = call[c].hash /\ v.lost = call[c].lost
      /\ v.reply = r /\ v.job = j
  BY <1>1 DEF Call
<1>4. call' = [call EXCEPT ![c] = v]
  BY DEF Reply, SubTypeOK
<1> HIDE DEF v
<1> QED BY <1>2, <1>3, <1>4 DEF Keeps, Moves, SubTypeOK

LEMMA RejectMoves ==
  ASSUME SubTypeOK, NEW c \in Clients, NEW r \in Replies, Reject(c, r)
  PROVE  /\ Moves(c)
         /\ call'[c].pc = "done" /\ call'[c].hash = NoHash
         /\ call'[c].reply = r /\ call'[c].lost = call[c].lost
<1>1. call[c] \in Call
  BY DEF SubTypeOK
<1> DEFINE v == [pc |-> "done", user |-> NoUser, key |-> NoKey, hash |-> NoHash,
                 got |-> 0, lost |-> call[c].lost, reply |-> r, job |-> NoJob]
<1>2. v \in Call
  BY <1>1, AdmissionAssumption DEF Call
<1>3. v.pc = "done" /\ v.hash = NoHash /\ v.reply = r /\ v.lost = call[c].lost
  OBVIOUS
<1>4. call' = [call EXCEPT ![c] = v]
  BY DEF Reject
<1> HIDE DEF v
<1> QED BY <1>2, <1>3, <1>4 DEF Moves, SubTypeOK

-----------------------------------------------------------------------------
(* Rows only gain: they stay, keep whose they are and what they answer,    *)
(* and what Redis was given stays given.                                   *)
Gains ==
  \A j \in Jobs : table[j] # NoRow =>
    /\ table'[j] # NoRow
    /\ table'[j].user = table[j].user
    /\ table'[j].key = table[j].key
    /\ table'[j].hash = table[j].hash
    /\ table[j].queued => table'[j].queued

(* What a request knows stays true while rows gain and the script cache    *)
(* is not flushed.                                                         *)
LEMMA StillKnows ==
  ASSUME Gains, loaded => loaded', NEW r, Knows(r, table, loaded)
  PROVE  Knows(r, table', loaded')
<1>1. Named(r, table) => Named(r, table')
  <2> SUFFICES ASSUME Named(r, table) PROVE Named(r, table')
    OBVIOUS
  <2>1. PICK j \in Jobs : /\ table[j] # NoRow /\ r.key # NoKey
                          /\ table[j].key = r.key /\ table[j].user = r.user
    BY DEF Named
  <2>2. table'[j] # NoRow /\ table'[j].key = r.key /\ table'[j].user = r.user
    BY <2>1 DEF Gains
  <2> QED BY <2>1, <2>2 DEF Named
<1>2. /\ r.pc \in {"handoff", "sync"} => r.job \in Jobs /\ table'[r.job] # NoRow
      /\ r.pc = "sync" => table'[r.job].queued
  BY DEF Gains, Knows
<1> QED BY <1>1, <1>2 DEF Knows

(* One request moves on and rows gain.                                     *)
LEMMA MoveKeeps ==
  ASSUME SubInv, NEW c \in Clients, Moves(c), Gains, loaded => loaded',
         count' \in [Users -> Nat], loaded' \in BOOLEAN,
         table' \in [Jobs -> Row \cup {NoRow}],
         Knows(call'[c], table', loaded'), UnqueuedIsUnsynced'
  PROVE  SubInv'
<1>1. SubTypeOK'
  BY DEF SubTypeOK, Moves
<1>2. ASSUME NEW d \in Clients PROVE Knows(call'[d], table', loaded')
  <2>1. CASE d = c
    BY <2>1
  <2>2. CASE d # c
    <3>1. call'[d] = call[d]
      BY <2>2 DEF Moves
    <3>2. Knows(call[d], table, loaded)
      BY DEF SubInv
    <3> QED BY <3>1, <3>2, StillKnows
  <2> QED BY <2>1, <2>2
<1> QED BY <1>1, <1>2 DEF SubInv

(* The same when the table stays.                                          *)
LEMMA CallKeeps ==
  ASSUME SubInv, NEW c \in Clients, Moves(c), UNCHANGED table, loaded => loaded',
         count' \in [Users -> Nat], loaded' \in BOOLEAN,
         Knows(call'[c], table, loaded')
  PROVE  SubInv'
<1>1. Gains
  BY DEF Gains
<1>2. UnqueuedIsUnsynced'
  BY DEF SubInv, UnqueuedIsUnsynced, Exists
<1> QED BY <1>1, <1>2, MoveKeeps DEF SubInv, SubTypeOK

(* A request that has been turned away, for any reason but a lost script.  *)
LEMMA RejectKeeps ==
  ASSUME SubInv, NEW c \in Clients, NEW r \in Replies, Reject(c, r),
         r = "error" => call[c].lost, UNCHANGED <<table, loaded>>,
         count' \in [Users -> Nat]
  PROVE  SubInv'
<1>0. SubTypeOK
  BY DEF SubInv
<1>1. /\ Moves(c)
      /\ call'[c].pc = "done" /\ call'[c].hash = NoHash
      /\ call'[c].reply = r /\ call'[c].lost = call[c].lost
  BY <1>0, RejectMoves
<1>2. Knows(call'[c], table, loaded')
  BY <1>1 DEF Knows, Before, Inside
<1> QED BY <1>0, <1>1, <1>2, CallKeeps DEF SubTypeOK

-----------------------------------------------------------------------------
(* The invariant holds at first, and every action keeps it.                *)
LEMMA SubInitOK == SubInit => SubInv
<1> SUFFICES ASSUME SubInit PROVE SubInv
  OBVIOUS
<1>1. IdleCall \in Call
  BY AdmissionAssumption DEF IdleCall, Call, Replies
<1>2. SubTypeOK
  BY <1>1 DEF SubInit, AdmissionInit, SubTypeOK
<1>3. Knows(IdleCall, table, loaded)
  BY DEF Knows, IdleCall, Before, Inside
<1>4. UnqueuedIsUnsynced
  BY DEF SubInit, UnqueuedIsUnsynced, Exists
<1> QED BY <1>2, <1>3, <1>4 DEF SubInit, AdmissionInit, SubInv

LEMMA ArriveKeeps ==
  ASSUME SubInv, NEW c \in Clients, NEW u \in Users, Arrive(c, u), UNCHANGED table
  PROVE  SubInv' /\ Moves(c) /\ call'[c].hash = NoHash
<1> DEFINE v == [call[c] EXCEPT !.pc = "recv", !.user = u]
<1>1. call[c] \in Call /\ Knows(call[c], table, loaded)
  BY DEF SubInv, SubTypeOK
<1>2. v \in Call
  BY <1>1 DEF Call, Before
<1>3. /\ v.pc = "recv" /\ v.user = u /\ v.hash = call[c].hash
      /\ v.reply = call[c].reply
  BY <1>1 DEF Call
<1>4. call' = [call EXCEPT ![c] = v]
  BY DEF Arrive, SubInv, SubTypeOK
<1>5. call[c].hash = NoHash /\ call[c].reply = "none"
  BY <1>1 DEF Arrive, At, Knows
<1> HIDE DEF v
<1>6. Moves(c) /\ call'[c] = v
  BY <1>2, <1>4 DEF Moves, SubInv, SubTypeOK
<1>7. Knows(call'[c], table, loaded')
  BY <1>3, <1>5, <1>6 DEF Knows, Before, Inside
<1> QED BY <1>3, <1>5, <1>6, <1>7, CallKeeps DEF SubInv, SubTypeOK, Arrive

LEMMA ReceiveKeeps ==
  ASSUME SubInv, NEW c \in Clients, NEW n \in 0..MaxChunk, NEW more \in BOOLEAN,
         Receive(c, n, more), UNCHANGED table
  PROVE  SubInv' /\ Moves(c) /\ call'[c].hash = NoHash
<1>1. call[c] \in Call /\ Knows(call[c], table, loaded) /\ call[c].got \in 0..MaxBytes
  BY DEF SubInv, SubTypeOK, Call
<1>2. /\ call[c].user \in Users /\ call[c].reply = "none" /\ call[c].hash = NoHash
      /\ call[c].pc = "recv"
  BY <1>1 DEF Receive, At, Knows, Before
<1>3. CASE call[c].got + n > MaxBytes
  <2>1. Reject(c, "too_large") /\ "too_large" \in Replies
    BY <1>3 DEF Receive, Replies
  <2> QED BY <2>1, RejectKeeps, RejectMoves DEF Receive, SubInv, SubTypeOK
<1>4. CASE ~(call[c].got + n > MaxBytes) /\ more
  <2> DEFINE v == [call[c] EXCEPT !.got = @ + n]
  <2>1. call[c].got + n \in 0..MaxBytes
    BY <1>1, <1>4, AdmissionAssumption
  <2>2. v \in Call
    BY <1>1, <2>1 DEF Call
  <2>3. /\ v.pc = "recv" /\ v.user = call[c].user /\ v.hash = NoHash
        /\ v.reply = "none"
    BY <1>1, <1>2 DEF Call
  <2>4. call' = [call EXCEPT ![c] = v]
    BY <1>4 DEF Receive, Buffer
  <2> HIDE DEF v
  <2>5. Moves(c) /\ call'[c] = v
    BY <2>2, <2>4 DEF Moves, SubInv, SubTypeOK
  <2>6. Knows(call'[c], table, loaded')
    BY <1>2, <2>3, <2>5 DEF Knows, Before, Inside
  <2> QED BY <2>3, <2>5, <2>6, CallKeeps DEF SubInv, SubTypeOK, Receive
<1>5. CASE ~(call[c].got + n > MaxBytes) /\ ~more
  <2> DEFINE v == [call[c] EXCEPT !.got = 0, !.pc = "limit"]
  <2>1. 0 \in 0..MaxBytes
    BY AdmissionAssumption
  <2>2. v \in Call
    BY <1>1, <2>1 DEF Call, Before
  <2>3. /\ v.pc = "limit" /\ v.user = call[c].user /\ v.hash = NoHash
        /\ v.reply = "none"
    BY <1>1, <1>2 DEF Call
  <2>4. call' = [call EXCEPT ![c] = v]
    <3>1. call' = [call EXCEPT ![c].got = 0, ![c].pc = "limit"]
      BY <1>5 DEF Receive, Buffer
    <3> QED BY <3>1 DEF SubInv, SubTypeOK
  <2> HIDE DEF v
  <2>5. Moves(c) /\ call'[c] = v
    BY <2>2, <2>4 DEF Moves, SubInv, SubTypeOK
  <2>6. Knows(call'[c], table, loaded')
    BY <1>2, <2>3, <2>5 DEF Knows, Before, Inside
  <2> QED BY <2>3, <2>5, <2>6, CallKeeps DEF SubInv, SubTypeOK, Receive
<1> QED BY <1>3, <1>4, <1>5

LEMMA TooLargeKeeps ==
  ASSUME SubInv, NEW c \in Clients, DeclaredTooLarge(c), UNCHANGED table
  PROVE  SubInv' /\ Moves(c) /\ call'[c].hash = NoHash
<1>1. Reject(c, "too_large") /\ "too_large" \in Replies
  BY DEF DeclaredTooLarge, Replies
<1> QED BY <1>1, RejectKeeps, RejectMoves DEF DeclaredTooLarge, SubInv, SubTypeOK

LEMMA CheckRateKeeps ==
  ASSUME SubInv, NEW c \in Clients, CheckRate(c), UNCHANGED table
  PROVE  SubInv' /\ Moves(c) /\ call'[c].hash = NoHash
<1>1. call[c] \in Call /\ Knows(call[c], table, loaded)
  BY DEF SubInv, SubTypeOK
<1>2. /\ call[c].user \in Users /\ call[c].reply = "none" /\ call[c].hash = NoHash
      /\ call[c].pc \in {"limit", "again"}
  BY <1>1 DEF CheckRate, Knows, Before
<1>3. CASE loaded /\ Admitted(count[call[c].user])
  <2> DEFINE v == [call[c] EXCEPT !.pc = "route", !.lost = FALSE]
             u == call[c].user
  <2>1. v \in Call
    BY <1>1 DEF Call, Before
  <2>2. /\ v.pc = "route" /\ v.user = u /\ v.hash = NoHash
        /\ v.reply = "none"
    BY <1>1, <1>2 DEF Call
  <2>3. call' = [call EXCEPT ![c] = v] /\ count' = [count EXCEPT ![u] = Counted(@)]
    BY <1>3 DEF CheckRate, RunScript, SubInv, SubTypeOK
  <2>4. Counted(count[u]) \in Nat
    BY <1>2 DEF SubInv, SubTypeOK, Counted
  <2>5. count' \in [Users -> Nat]
    BY <2>3, <2>4 DEF SubInv, SubTypeOK
  <2> HIDE DEF v
  <2>6. Moves(c) /\ call'[c] = v
    BY <2>1, <2>3 DEF Moves, SubInv, SubTypeOK
  <2>7. Knows(call'[c], table, loaded')
    BY <1>2, <2>2, <2>6 DEF Knows, Before, Inside
  <2> QED BY <2>2, <2>5, <2>6, <2>7, CallKeeps DEF SubInv, SubTypeOK, CheckRate
<1>4. CASE loaded /\ ~Admitted(count[call[c].user])
  <2>1. Reject(c, "limited") /\ "limited" \in Replies /\ UNCHANGED <<count, loaded>>
    BY <1>4 DEF CheckRate, RunScript, Replies
  <2> QED BY <2>1, RejectKeeps, RejectMoves DEF SubInv, SubTypeOK
<1>5. CASE ~loaded /\ At(c, "limit")
  <2>1. Goto(c, "reload") /\ "reload" \in Pcs /\ UNCHANGED <<count, loaded>>
    BY <1>5 DEF CheckRate, Pcs, Before
  <2>2. /\ Keeps(c) /\ call'[c].pc = "reload" /\ call'[c].reply = call[c].reply
    BY <2>1, GotoMoves DEF SubInv
  <2>3. Knows(call'[c], table, loaded')
    BY <1>2, <2>2 DEF Keeps, Knows, Before, Inside
  <2> QED BY <1>2, <2>1, <2>2, <2>3, CallKeeps DEF Keeps, SubInv, SubTypeOK
<1>6. CASE ~loaded /\ ~At(c, "limit")
  <2>1. Reject(c, "error") /\ "error" \in Replies /\ UNCHANGED <<count, loaded>>
    BY <1>6 DEF CheckRate, Replies
  <2>2. call[c].lost
    BY <1>1, <1>2, <1>6 DEF At, Knows
  <2> QED BY <2>1, <2>2, RejectKeeps, RejectMoves DEF SubInv, SubTypeOK
<1> QED BY <1>3, <1>4, <1>5, <1>6

LEMMA ReloadKeeps ==
  ASSUME SubInv, NEW c \in Clients, ReloadScript(c), UNCHANGED table
  PROVE  SubInv' /\ Moves(c) /\ call'[c].hash = NoHash
<1>1. call[c] \in Call /\ Knows(call[c], table, loaded)
  BY DEF SubInv, SubTypeOK
<1>2. /\ call[c].user \in Users /\ call[c].reply = "none" /\ call[c].hash = NoHash
  BY <1>1 DEF ReloadScript, At, Knows, Before
<1>3. Goto(c, "again") /\ "again" \in Pcs /\ UNCHANGED count /\ loaded' = TRUE
  BY DEF ReloadScript, Goto, Pcs, Before
<1>4. Keeps(c) /\ call'[c].pc = "again" /\ call'[c].reply = call[c].reply
  BY <1>3, GotoMoves DEF SubInv
<1>5. Knows(call'[c], table, loaded')
  BY <1>2, <1>3, <1>4 DEF Keeps, Knows, Before, Inside
<1> QED BY <1>2, <1>3, <1>4, <1>5, CallKeeps DEF Keeps, SubInv, SubTypeOK

LEMMA DropKeeps ==
  ASSUME SubInv, NEW c \in Clients, Drop(c), UNCHANGED table
  PROVE  SubInv' /\ Moves(c) /\ call'[c] = IdleCall
<1>1. IdleCall \in Call
  BY AdmissionAssumption DEF IdleCall, Call, Replies
<1>2. Moves(c) /\ call'[c] = IdleCall
  BY <1>1 DEF Drop, Moves, SubInv, SubTypeOK
<1>3. Knows(IdleCall, table, loaded')
  BY DEF Knows, IdleCall, Before, Inside
<1> QED BY <1>2, <1>3, CallKeeps DEF SubInv, SubTypeOK, Drop

LEMMA WindowKeeps ==
  ASSUME SubInv, NEW u \in Users, WindowEnds(u), UNCHANGED table
  PROVE  SubInv'
<1>1. SubTypeOK'
  BY DEF WindowEnds, SubInv, SubTypeOK
<1> QED BY <1>1 DEF WindowEnds, SubInv, UnqueuedIsUnsynced, Exists

(* A flush marks the requests that are about to run the script they have   *)
(* just loaded, and changes nothing else about any request.                *)
LEMMA FlushMoves ==
  ASSUME SubInv, ScriptFlush, NEW c \in Clients
  PROVE  /\ call'[c] \in Call
         /\ call'[c].pc = call[c].pc /\ call'[c].user = call[c].user
         /\ call'[c].key = call[c].key /\ call'[c].hash = call[c].hash
         /\ call'[c].reply = call[c].reply /\ call'[c].job = call[c].job
         /\ (call[c].lost => call'[c].lost) /\ (call[c].pc = "again" => call'[c].lost)
<1> DEFINE b == call[c].lost \/ At(c, "again")
           v == [call[c] EXCEPT !.lost = b]
<1>1. call[c] \in Call
  BY DEF SubInv, SubTypeOK
<1>2. b \in BOOLEAN /\ (call[c].lost => b) /\ (call[c].pc = "again" => b)
  BY <1>1 DEF At
<1>3. call'[c] = v
  BY DEF ScriptFlush
<1> HIDE DEF b
<1>4. v \in Call
  BY <1>1, <1>2 DEF Call
<1>5. /\ v.pc = call[c].pc /\ v.user = call[c].user /\ v.key = call[c].key
      /\ v.hash = call[c].hash /\ v.reply = call[c].reply /\ v.job = call[c].job
      /\ v.lost = b
  BY <1>1 DEF Call
<1> HIDE DEF v
<1> QED BY <1>2, <1>3, <1>4, <1>5

LEMMA FlushKeeps ==
  ASSUME SubInv, ScriptFlush, UNCHANGED table
  PROVE  SubInv'
<1>1. SubTypeOK'
  <2>1. \A c \in Clients : call'[c] \in Call
    BY FlushMoves
  <2>2. call' = [c \in Clients |-> call'[c]]
    BY DEF ScriptFlush
  <2> HIDE DEF ScriptFlush
  <2>3. call' \in [Clients -> Call]
    BY <2>1, <2>2
  <2> QED BY <2>3 DEF ScriptFlush, SubInv, SubTypeOK
<1>2. ASSUME NEW c \in Clients PROVE Knows(call'[c], table', loaded')
  <2> DEFINE r == call'[c]
  <2>1. /\ r.pc = call[c].pc /\ r.user = call[c].user
        /\ r.key = call[c].key /\ r.hash = call[c].hash
        /\ r.reply = call[c].reply /\ r.job = call[c].job
        /\ (call[c].lost => r.lost) /\ (call[c].pc = "again" => r.lost)
    BY FlushMoves
  <2>2. Knows(call[c], table, loaded)
    BY DEF SubInv
  <2> HIDE DEF r
  <2>3. Named(call[c], table) => Named(r, table)
    BY <2>1 DEF Named
  <2>4. Knows(r, table, loaded')
    BY <2>1, <2>2, <2>3 DEF Knows
  <2> QED BY <2>4 DEF r
<1> QED BY <1>1, <1>2 DEF SubInv, UnqueuedIsUnsynced, Exists

(* Row j is written, for the first time or without losing what it said.    *)
LEMMA RowWrite ==
  ASSUME SubInv, NEW j \in Jobs, NEW v \in Row, table' = [table EXCEPT ![j] = v],
         v.synced => v.queued,
         table[j] # NoRow => /\ v.user = table[j].user /\ v.key = table[j].key
                             /\ v.hash = table[j].hash
                             /\ (table[j].queued => v.queued)
  PROVE  Gains /\ table' \in [Jobs -> Row \cup {NoRow}] /\ UnqueuedIsUnsynced'
<1>1. table' \in [Jobs -> Row \cup {NoRow}] /\ v # NoRow
  BY NoRowIsNone DEF SubInv, SubTypeOK
<1>2. \A i \in Jobs : table'[i] = IF i = j THEN v ELSE table[i]
  BY DEF SubInv, SubTypeOK
<1>3. Gains
  BY <1>1, <1>2 DEF Gains
<1>4. UnqueuedIsUnsynced'
  BY <1>2 DEF SubInv, UnqueuedIsUnsynced, Exists
<1> QED BY <1>1, <1>3, <1>4

LEMMA RouteKeeps ==
  ASSUME SubInv, NEW c \in Clients, NEW r \in Requests, Route(c, r)
  PROVE  /\ SubInv' /\ Moves(c)
         /\ \/ call'[c].hash = NoHash
            \/ /\ call'[c].pc \in {"insert", "lookup"} /\ call'[c].reply = "none"
               /\ call'[c].user \in Users /\ call'[c].key \in Keys \cup {NoKey}
               /\ call'[c].hash \in Hashes
<1>1. call[c] \in Call /\ Knows(call[c], table, loaded)
  BY DEF SubInv, SubTypeOK
<1>2. /\ call[c].user \in Users /\ call[c].reply = "none"
      /\ r.key \in Keys \cup {NoKey} /\ r.hash \in Hashes
  BY <1>1, SubmissionAssumption DEF Route, At, Knows, Before
<1>3. CASE r.hash \notin Allowed
  <2>1. Reject(c, "invalid") /\ "invalid" \in Replies
    BY <1>3 DEF Route, Replies
  <2> QED BY <2>1, RejectKeeps, RejectMoves DEF Route, SubInv, SubTypeOK
<1>4. CASE r.hash \in Allowed
  <2> DEFINE p == IF r.key = NoKey THEN "insert" ELSE "lookup"
             v == [call[c] EXCEPT !.key = r.key, !.hash = r.hash, !.pc = p]
  <2>1. p \in {"insert", "lookup"}
    OBVIOUS
  <2>2. call' = [call EXCEPT ![c] = v]
    <3>1. call' = [call EXCEPT ![c].key = r.key, ![c].hash = r.hash, ![c].pc = p]
      BY <1>4 DEF Route
    <3> HIDE DEF p
    <3> QED BY <3>1 DEF SubInv, SubTypeOK
  <2> HIDE DEF p
  <2>3. v \in Call
    BY <1>1, <1>2, <2>1 DEF Call, Inside
  <2>4. /\ v.pc = p /\ v.key = r.key /\ v.hash = r.hash /\ v.user = call[c].user
        /\ v.reply = call[c].reply
    BY <1>1 DEF Call
  <2> HIDE DEF v
  <2>5. Moves(c) /\ call'[c] = v
    BY <2>2, <2>3 DEF Moves, SubInv, SubTypeOK
  <2>6. Knows(v, table, loaded')
    BY <1>2, <2>1, <2>4 DEF Knows, Before, Inside
  <2>7. SubInv'
    BY <2>5, <2>6, CallKeeps DEF Route, SubInv, SubTypeOK
  <2> QED BY <1>2, <2>1, <2>4, <2>5, <2>7
<1> QED BY <1>3, <1>4

LEMMA AnswerKeeps ==
  ASSUME SubInv, NEW c \in Clients, NEW r \in Replies \ {"error"},
         NEW j \in Jobs \cup {NoJob}, Reply(c, r, j), UNCHANGED <<count, loaded, table>>
  PROVE  SubInv'
<1>1. Keeps(c) /\ call'[c].pc = "done" /\ call'[c].reply = r
  BY ReplyMoves DEF SubInv
<1>2. Knows(call'[c], table, loaded')
  BY <1>1 DEF Knows, Before, Inside
<1> QED BY <1>1, <1>2, CallKeeps DEF Keeps, SubInv, SubTypeOK

(* The two answers a lookup can lead to.                                   *)
LEMMA LookedUp ==
  ASSUME SubInv, NEW c \in Clients, NEW found \in SUBSET Jobs,
         _replay_or_conflict(c, found), UNCHANGED <<count, loaded, table>>
  PROVE  /\ SubInv' /\ Keeps(c) /\ call'[c].pc = "done"
         /\ \/ /\ call'[c].reply = "replayed"
               /\ \E j \in found : table[j].hash = call[c].hash /\ call'[c].job = j
            \/ /\ call'[c].reply = "conflict" /\ call'[c].job = NoJob
               /\ \A j \in found : table[j].hash # call[c].hash
<1>0. SubTypeOK /\ {"replayed", "conflict"} \subseteq Replies \ {"error"}
  BY DEF SubInv, Replies
<1>1. CASE \E j \in found : table[j].hash = call[c].hash
  <2>1. PICK j \in found : table[j].hash = call[c].hash /\ Reply(c, "replayed", j)
    BY <1>1 DEF _replay_or_conflict
  <2>2. j \in Jobs \cup {NoJob}
    OBVIOUS
  <2>3. /\ Keeps(c)
        /\ call'[c].pc = "done" /\ call'[c].reply = "replayed" /\ call'[c].job = j
    BY <1>0, <2>1, <2>2, ReplyMoves
  <2>4. SubInv'
    BY <1>0, <2>1, <2>2, AnswerKeeps
  <2> QED BY <2>1, <2>3, <2>4
<1>2. CASE ~\E j \in found : table[j].hash = call[c].hash
  <2>1. Reply(c, "conflict", NoJob)
    BY <1>2 DEF _replay_or_conflict
  <2>3. /\ Keeps(c)
        /\ call'[c].pc = "done" /\ call'[c].reply = "conflict" /\ call'[c].job = NoJob
    BY <1>0, <2>1, ReplyMoves
  <2>4. SubInv'
    BY <1>0, <2>1, AnswerKeeps
  <2> QED BY <1>2, <2>3, <2>4
<1> QED BY <1>1, <1>2

(* A request that goes from one database statement to another.             *)
LEMMA GotoKeeps ==
  ASSUME SubInv, NEW c \in Clients, call[c].pc \in Inside, NEW p \in {"insert", "relookup"},
         Goto(c, p), p = "relookup" => Named(call[c], table),
         UNCHANGED <<count, loaded, table>>
  PROVE  /\ SubInv' /\ Keeps(c)
         /\ call'[c].pc = p /\ call'[c].reply = call[c].reply
<1>1. p \in Pcs /\ p \in Inside /\ SubTypeOK
  BY DEF Pcs, Inside, SubInv
<1>2. Keeps(c) /\ call'[c].pc = p /\ call'[c].reply = call[c].reply
  BY <1>1, GotoMoves
<1>3. Knows(call[c], table, loaded)
  BY DEF SubInv
<1>4. Named(call[c], table) => Named(call'[c], table)
  BY <1>2 DEF Named, Keeps
<1>5. call[c].user \in Users /\ call[c].reply = "none" /\ call[c].hash \in Hashes
  BY <1>3 DEF Knows
<1>6. Knows(call'[c], table, loaded')
  BY <1>2, <1>4, <1>5 DEF Keeps, Knows, Before, Inside
<1> QED BY <1>1, <1>2, <1>6, CallKeeps DEF Keeps, SubTypeOK

LEMMA IntegrityKeeps ==
  ASSUME SubInv, NEW c \in Clients, IntegrityError(c)
  PROVE  /\ SubInv' /\ Keeps(c)
         /\ call'[c].pc = "relookup" /\ call'[c].reply = call[c].reply
<1>1. Named(call[c], table)
  BY DEF IntegrityError, get_by_idempotency_key, Exists, Named
<1> QED BY <1>1, GotoKeeps DEF IntegrityError, At, Inside

LEMMA CreateKeeps ==
  ASSUME SubInv, NEW c \in Clients, NEW j \in Jobs, create_job(c, j)
  PROVE  /\ SubInv' /\ Keeps(c) /\ NewRow(c) \in Row
         /\ call'[c].pc = "handoff" /\ call'[c].job = j
<1>1. call[c] \in Call /\ Knows(call[c], table, loaded)
  BY DEF SubInv, SubTypeOK
<1>2. /\ call[c].user \in Users /\ call[c].reply = "none"
      /\ call[c].hash \in Hashes /\ call[c].key \in Keys \cup {NoKey}
  BY <1>1 DEF create_job, At, Knows, Inside, Call
<1>3. NewRow(c) \in Row /\ ~NewRow(c).synced
  BY <1>2 DEF NewRow, Row
<1>4. table[j] = NoRow /\ table' = [table EXCEPT ![j] = NewRow(c)]
  BY DEF create_job, Exists
<1>5. Gains /\ table' \in [Jobs -> Row \cup {NoRow}] /\ UnqueuedIsUnsynced'
  BY <1>3, <1>4, RowWrite
<1> DEFINE v == [call[c] EXCEPT !.pc = "handoff", !.job = j]
<1>6. call' = [call EXCEPT ![c] = v]
  BY DEF create_job, SubInv, SubTypeOK
<1>7. v \in Call
  BY <1>1 DEF Call, Inside
<1>8. /\ v.pc = "handoff" /\ v.key = call[c].key /\ v.hash = call[c].hash
      /\ v.user = call[c].user /\ v.lost = call[c].lost
      /\ v.reply = call[c].reply /\ v.job = j
  BY <1>1 DEF Call
<1> HIDE DEF v
<1>9. Moves(c) /\ call'[c] = v
  BY <1>6, <1>7 DEF Moves, SubInv, SubTypeOK
<1>10. Keeps(c)
  BY <1>8, <1>9 DEF Keeps
<1>11. table'[j] # NoRow
  BY <1>3, <1>4, NoRowIsNone DEF SubInv, SubTypeOK
<1>12. Knows(v, table', loaded')
  BY <1>2, <1>8, <1>11 DEF Knows, Before, Inside
<1>13. SubInv'
  BY <1>5, <1>9, <1>12, MoveKeeps DEF create_job, SubInv, SubTypeOK
<1> QED BY <1>3, <1>8, <1>9, <1>10, <1>13

(* The row of a request that has just committed it.                        *)
LEMMA OwnRow ==
  ASSUME SubInv, NEW c \in Clients, call[c].pc \in {"handoff", "sync"}
  PROVE  /\ call[c].job \in Jobs /\ table[call[c].job] \in Row
         /\ call[c].user \in Users /\ call[c].reply = "none" /\ call[c].hash \in Hashes
         /\ call[c].pc = "sync" => table[call[c].job].queued
<1>1. Knows(call[c], table, loaded)
  BY DEF SubInv
<1> QED BY <1>1 DEF Knows, Inside, SubInv, SubTypeOK

(* What a write that hands over or marks does to a row.                    *)
LEMMA QueuedRow ==
  ASSUME NEW w \in Row
  PROVE  LET v == [w EXCEPT !.queued = TRUE]
         IN  /\ v \in Row /\ v.user = w.user /\ v.key = w.key /\ v.hash = w.hash
             /\ v.queued
  BY DEF Row

LEMMA SyncedRow ==
  ASSUME NEW w \in Row, w.queued
  PROVE  LET v == [w EXCEPT !.synced = TRUE]
         IN  /\ v \in Row /\ v.user = w.user /\ v.key = w.key /\ v.hash = w.hash
             /\ v.queued
  BY DEF Row

LEMMA HandedRow ==
  ASSUME NEW w \in Row
  PROVE  LET v == [w EXCEPT !.queued = TRUE, !.synced = TRUE]
         IN  /\ v \in Row /\ v.user = w.user /\ v.key = w.key /\ v.hash = w.hash
             /\ v.queued
  BY DEF Row

LEMMA HandoffKeeps ==
  ASSUME SubInv, NEW c \in Clients, Handoff(c)
  PROVE  /\ SubInv' /\ Keeps(c) /\ Gains
         /\ call'[c].pc = "sync" /\ call'[c].reply = call[c].reply
         /\ call'[c].job = call[c].job
         /\ \E v \in Row : table' = [table EXCEPT ![call[c].job] = v]
<1> DEFINE j == call[c].job
           v == [table[j] EXCEPT !.queued = TRUE]
<1>1. /\ j \in Jobs /\ table[j] \in Row
      /\ call[c].user \in Users /\ call[c].reply = "none" /\ call[c].hash \in Hashes
  BY OwnRow DEF Handoff, At
<1>2. /\ v \in Row /\ v.user = table[j].user /\ v.key = table[j].key
      /\ v.hash = table[j].hash /\ v.queued
  BY <1>1, QueuedRow
<1>3. table' = [table EXCEPT ![j] = v]
  BY DEF Handoff
<1> HIDE DEF v
<1>4. Gains /\ table' \in [Jobs -> Row \cup {NoRow}] /\ UnqueuedIsUnsynced'
  BY <1>1, <1>2, <1>3, RowWrite
<1>5. table'[j] # NoRow /\ table'[j].queued
  BY <1>1, <1>2, <1>3, NoRowIsNone DEF SubInv, SubTypeOK
<1>6. Goto(c, "sync") /\ "sync" \in Pcs /\ SubTypeOK /\ UNCHANGED <<count, loaded>>
  BY DEF Handoff, Pcs, Inside, SubInv
<1>7. /\ Keeps(c) /\ call'[c].pc = "sync" /\ call'[c].reply = call[c].reply
      /\ call'[c].job = j
  BY <1>6, GotoMoves
<1>8. Knows(call'[c], table', loaded')
  BY <1>1, <1>5, <1>7 DEF Keeps, Knows, Before, Inside
<1>9. SubInv'
  BY <1>4, <1>6, <1>7, <1>8, MoveKeeps DEF Keeps, SubTypeOK
<1> QED BY <1>2, <1>3, <1>4, <1>7, <1>9

LEMMA MarkKeeps ==
  ASSUME SubInv, NEW c \in Clients, MarkSynced(c)
  PROVE  /\ SubInv' /\ Keeps(c) /\ Gains
         /\ call'[c].pc = "done" /\ call'[c].reply = "accepted"
         /\ call'[c].job = call[c].job
         /\ \E v \in Row : table' = [table EXCEPT ![call[c].job] = v]
<1> DEFINE j == call[c].job
           v == [table[j] EXCEPT !.synced = TRUE]
<1>1. /\ j \in Jobs /\ table[j] \in Row /\ table[j].queued
  BY OwnRow DEF MarkSynced, At
<1>2. /\ v \in Row /\ v.user = table[j].user /\ v.key = table[j].key
      /\ v.hash = table[j].hash /\ v.queued
  BY <1>1, SyncedRow
<1>3. table' = [table EXCEPT ![j] = v]
  BY DEF MarkSynced
<1> HIDE DEF v
<1>4. Gains /\ table' \in [Jobs -> Row \cup {NoRow}] /\ UnqueuedIsUnsynced'
  BY <1>1, <1>2, <1>3, RowWrite
<1>5. /\ Reply(c, "accepted", j) /\ "accepted" \in Replies /\ j \in Jobs \cup {NoJob}
      /\ SubTypeOK /\ UNCHANGED <<count, loaded>>
  BY <1>1 DEF MarkSynced, Replies, SubInv
<1>6. Keeps(c) /\ call'[c].pc = "done" /\ call'[c].reply = "accepted" /\ call'[c].job = j
  BY <1>5, ReplyMoves
<1>7. Knows(call'[c], table', loaded')
  BY <1>6 DEF Knows, Before, Inside
<1>8. SubInv'
  BY <1>4, <1>5, <1>6, <1>7, MoveKeeps DEF Keeps, SubTypeOK
<1> QED BY <1>2, <1>3, <1>4, <1>6, <1>8

LEMMA ReconcileKeeps ==
  ASSUME SubInv, NEW j \in Jobs, Reconcile(j)
  PROVE  /\ SubInv' /\ Gains
         /\ \E v \in Row : table' = [table EXCEPT ![j] = v]
<1> DEFINE v == [table[j] EXCEPT !.queued = TRUE, !.synced = TRUE]
<1>1. table[j] \in Row
  BY DEF Reconcile, Exists, SubInv, SubTypeOK
<1>2. /\ v \in Row /\ v.user = table[j].user /\ v.key = table[j].key
      /\ v.hash = table[j].hash /\ v.queued
  BY <1>1, HandedRow
<1>3. table' = [table EXCEPT ![j] = v]
  BY DEF Reconcile, SubInv, SubTypeOK
<1> HIDE DEF v
<1>4. Gains /\ table' \in [Jobs -> Row \cup {NoRow}] /\ UnqueuedIsUnsynced'
  BY <1>1, <1>2, <1>3, RowWrite
<1>5. SubTypeOK'
  BY <1>4 DEF Reconcile, admissionVars, SubInv, SubTypeOK
<1>6. ASSUME NEW c \in Clients PROVE Knows(call'[c], table', loaded')
  <2>1. Knows(call[c], table, loaded) /\ call' = call /\ loaded' = loaded
    BY DEF SubInv, Reconcile, admissionVars
  <2>2. Knows(call[c], table', loaded')
    BY <1>4, <2>1, StillKnows
  <2> QED BY <2>1, <2>2
<1> QED BY <1>2, <1>3, <1>4, <1>5, <1>6 DEF SubInv

LEMMA LookupKeeps ==
  ASSUME SubInv, NEW c \in Clients, Lookup(c)
  PROVE  /\ SubInv' /\ Keeps(c)
         /\ \/ call'[c].pc = "insert" /\ call'[c].reply = call[c].reply
            \/ /\ get_by_idempotency_key(call[c].key, call[c].user) # {}
               /\ _replay_or_conflict(c, get_by_idempotency_key(call[c].key, call[c].user))
<1> DEFINE found == get_by_idempotency_key(call[c].key, call[c].user)
<1>1. found \in SUBSET Jobs /\ call[c].pc \in Inside /\ UNCHANGED <<count, loaded, table>>
  BY DEF get_by_idempotency_key, Lookup, At, Inside
<1>2. CASE found = {}
  <2>1. Goto(c, "insert")
    BY <1>2 DEF Lookup
  <2> QED BY <1>1, <2>1, GotoKeeps
<1>3. CASE found # {}
  <2>1. _replay_or_conflict(c, found)
    BY <1>3 DEF Lookup
  <2> QED BY <1>1, <1>3, <2>1, LookedUp
<1> QED BY <1>2, <1>3

LEMMA RelookupKeeps ==
  ASSUME SubInv, NEW c \in Clients, Relookup(c)
  PROVE  /\ SubInv' /\ Keeps(c)
         /\ get_by_idempotency_key(call[c].key, call[c].user) # {}
<1> DEFINE found == get_by_idempotency_key(call[c].key, call[c].user)
<1>1. found \in SUBSET Jobs /\ _replay_or_conflict(c, found)
  BY DEF get_by_idempotency_key, Relookup
<1>2. Named(call[c], table)
  BY DEF Relookup, At, SubInv, Knows
<1>3. found # {}
  BY <1>2 DEF Named, get_by_idempotency_key, Exists
<1> QED BY <1>1, <1>3, LookedUp DEF Relookup

LEMMA SubNextKeeps == SubInv /\ [SubNext]_subVars => SubInv'
<1> SUFFICES ASSUME SubInv, [SubNext]_subVars PROVE SubInv'
  OBVIOUS
<1>1. ASSUME NEW c \in Clients, AdmissionStep(c), UNCHANGED table PROVE SubInv'
  <2>1. CASE \E u \in Users : Arrive(c, u)
    BY <1>1, <2>1, ArriveKeeps
  <2>2. CASE DeclaredTooLarge(c)
    BY <1>1, <2>2, TooLargeKeeps
  <2>3. CASE \E n \in 0..MaxChunk, more \in BOOLEAN : Receive(c, n, more)
    BY <1>1, <2>3, ReceiveKeeps
  <2>4. CASE CheckRate(c)
    BY <1>1, <2>4, CheckRateKeeps
  <2>5. CASE ReloadScript(c)
    BY <1>1, <2>5, ReloadKeeps
  <2>6. CASE Drop(c)
    BY <1>1, <2>6, DropKeeps
  <2> QED BY <1>1, <2>1, <2>2, <2>3, <2>4, <2>5, <2>6 DEF AdmissionStep
<1>2. ASSUME AdmissionNext, UNCHANGED table PROVE SubInv'
  BY <1>1, <1>2, WindowKeeps, FlushKeeps DEF AdmissionNext
<1>3. ASSUME NEW c \in Clients, SubmitStep(c) PROVE SubInv'
  BY <1>3, RouteKeeps, LookupKeeps, CreateKeeps, IntegrityKeeps, RelookupKeeps,
     HandoffKeeps, MarkKeeps DEF SubmitStep
<1>4. ASSUME NEW j \in Jobs, Reconcile(j) PROVE SubInv'
  BY <1>4, ReconcileKeeps
<1>5. CASE UNCHANGED subVars
  BY <1>5 DEF subVars, SubInv, SubTypeOK, UnqueuedIsUnsynced, Exists
<1> QED BY <1>2, <1>3, <1>4, <1>5 DEF SubNext

-----------------------------------------------------------------------------
(* Every reachable state satisfies the inductive invariant.                *)
THEOREM SubInvHolds == SubSpec => []SubInv
  BY SubInitOK, SubNextKeeps, PTL DEF SubSpec

(* Requests, counters and rows keep their types; in particular the         *)
(* middleware never holds more than max_request_body_bytes of a body.      *)
THEOREM SubmissionTypeCorrect == SubSpec => []SubTypeOK
<1>1. SubInv => SubTypeOK
  BY DEF SubInv
<1> QED BY <1>1, SubInvHolds, PTL

(* Whatever order requests, their deaths and the reconciler's passes come  *)
(* in, mark_synced never runs ahead of the handoff to Redis.               *)
THEOREM NoneSyncedUnqueued == SubSpec => []UnqueuedIsUnsynced
<1>1. SubInv => UnqueuedIsUnsynced
  BY DEF SubInv
<1> QED BY <1>1, SubInvHolds, PTL

(* The rate limiter fails a request only if Redis dropped the script again *)
(* between the reload and the second EVALSHA of that request.              *)
THEOREM OneFlushAbsorbed == SubSpec => []ScriptLossAbsorbed
<1>1. SubInv => ScriptLossAbsorbed
  BY DEF SubInv, Knows, ScriptLossAbsorbed
<1> QED BY <1>1, SubInvHolds, PTL

-----------------------------------------------------------------------------
(* The refinement mapping as functions of the state.                       *)
BookOf == {EntryOf(j) : j \in {i \in Jobs : Exists(i)}}
AskedMap == [c \in Clients |-> AskedOf(c)]

Seen(r, st, j) == [st |-> st, user |-> r.user, key |-> r.key, hash |-> r.hash, job |-> j]
Idle == [st |-> "idle", job |-> NoJob]

Asked(r) ==
  IF r.hash = NoHash THEN Idle
  ELSE IF r.pc \in {"handoff", "sync"} \/ r.reply = "accepted" THEN Seen(r, "new", r.job)
  ELSE IF r.reply = "replayed" THEN Seen(r, "same", r.job)
  ELSE IF r.reply = "conflict" THEN Seen(r, "other", NoJob)
  ELSE Seen(r, "open", NoJob)

LEMMA AskedIs == \A c \in Clients : /\ AskedMap[c] = Asked(call[c])
                                    /\ AskedMap'[c] = Asked(call'[c])
  BY DEF AskedMap, AskedOf, Asked, Seen, Idle

(* When one request moves, the others ask what they asked.                 *)
LEMMA AskedMoves ==
  ASSUME NEW c \in Clients, Moves(c)
  PROVE  AskedMap' = [AskedMap EXCEPT ![c] = Asked(call'[c])]
<1>1. \A d \in Clients \ {c} : AskedMap'[d] = AskedMap[d]
  BY AskedIs DEF Moves
<1>2. AskedMap'[c] = Asked(call'[c])
  BY AskedIs
<1>3. /\ AskedMap = [d \in Clients |-> AskedMap[d]]
      /\ AskedMap' = [d \in Clients |-> AskedMap'[d]]
  BY DEF AskedMap
<1> QED BY <1>1, <1>2, <1>3

LEMMA AskedStays ==
  ASSUME \A c \in Clients : Asked(call'[c]) = Asked(call[c])
  PROVE  AskedMap' = AskedMap
<1>1. \A c \in Clients : AskedMap'[c] = AskedMap[c]
  BY AskedIs
<1>2. /\ AskedMap = [d \in Clients |-> AskedMap[d]]
      /\ AskedMap' = [d \in Clients |-> AskedMap'[d]]
  BY DEF AskedMap
<1> QED BY <1>1, <1>2

LEMMA AskedStaysOne ==
  ASSUME NEW c \in Clients, Moves(c), Asked(call'[c]) = Asked(call[c])
  PROVE  AskedMap' = AskedMap
  BY AskedStays DEF Moves

(* The jobs of the book are the rows of the table.                         *)
LEMMA BookHas ==
  /\ \A e : e \in BookOf <=> \E j \in Jobs : table[j] # NoRow /\ e = EntryOf(j)
  /\ \A e : e \in BookOf' <=> \E j \in Jobs : table'[j] # NoRow /\ e = EntryOf(j)'
  BY DEF BookOf, Exists

LEMMA BookStays ==
  ASSUME Gains, \A j \in Jobs : table'[j] # NoRow => table[j] # NoRow
  PROVE  BookOf' = BookOf
<1>1. \A j \in Jobs : table[j] # NoRow => EntryOf(j)' = EntryOf(j)
  BY DEF Gains, EntryOf
<1>2. \A e : e \in BookOf' <=> e \in BookOf
  BY <1>1, BookHas DEF Gains
<1> QED BY <1>2

LEMMA BookStaysToo ==
  ASSUME UNCHANGED table
  PROVE  BookOf' = BookOf
  BY DEF BookOf, Exists, EntryOf

(* Rewriting a row that is there.                                          *)
LEMMA BookRewritten ==
  ASSUME SubInv, Gains, NEW j \in Jobs, table[j] # NoRow,
         \E v \in Row : table' = [table EXCEPT ![j] = v]
  PROVE  BookOf' = BookOf
<1>1. \A i \in Jobs : table'[i] # NoRow => table[i] # NoRow
  BY DEF SubInv, SubTypeOK
<1> QED BY <1>1, BookStays

(* A new row is a new entry.                                               *)
LEMMA BookGrows ==
  ASSUME SubInv, NEW j \in Jobs, NEW v \in Row, table[j] = NoRow,
         table' = [table EXCEPT ![j] = v]
  PROVE  BookOf' = BookOf \cup {[id |-> j, user |-> v.user, key |-> v.key,
                                 hash |-> v.hash]}
<1> DEFINE new == [id |-> j, user |-> v.user, key |-> v.key, hash |-> v.hash]
<1>1. \A i \in Jobs : table'[i] = IF i = j THEN v ELSE table[i]
  BY DEF SubInv, SubTypeOK
<1>2. v # NoRow
  BY NoRowIsNone
<1>3. EntryOf(j)' = new
  BY <1>1 DEF EntryOf
<1>4. \A i \in Jobs \ {j} : EntryOf(i)' = EntryOf(i)
  BY <1>1 DEF EntryOf
<1> HIDE DEF new
<1>5. \A e : e \in BookOf' <=> e \in BookOf \/ e = new
  BY <1>1, <1>2, <1>3, <1>4, BookHas
<1> QED BY <1>5 DEF new

(* What Book's actions mean over the mapped variables.                     *)
Booked == [Book!BookNext]_<<BookOf, AskedMap>>

(* An open request, one that has been routed and not been carried out.     *)
LEMMA OpenRequest ==
  ASSUME SubInv, NEW c \in Clients, call[c].pc \in {"lookup", "insert", "relookup"}
  PROVE  /\ Asked(call[c]) = Seen(call[c], "open", NoJob)
         /\ call[c].hash # NoHash /\ call[c].reply = "none"
<1>1. Knows(call[c], table, loaded)
  BY DEF SubInv
<1>2. call[c].hash \in Hashes /\ call[c].reply = "none"
  BY <1>1 DEF Knows, Inside
<1>3. call[c].hash # NoHash
  BY <1>2, AdmissionAssumption
<1> QED BY <1>2, <1>3 DEF Asked

LEMMA RouteBooked ==
  ASSUME SubInv, NEW c \in Clients, NEW r \in Requests, Route(c, r)
  PROVE  Booked
<1>1. BookOf' = BookOf
  BY BookStaysToo DEF Route
<1>2. Asked(call[c]) = Idle
  BY DEF SubInv, Knows, Route, At, Before, Asked
<1>3. CASE call'[c].hash = NoHash
  <2>1. Asked(call'[c]) = Idle
    BY <1>3 DEF Asked
  <2>2. AskedMap' = AskedMap
    BY <1>2, <2>1, RouteKeeps, AskedStaysOne
  <2> QED BY <1>1, <2>2 DEF Booked
<1>4. CASE call'[c].hash # NoHash
  <2> DEFINE q == call'[c]
  <2>1. /\ Moves(c) /\ q.pc \in {"insert", "lookup"} /\ q.reply = "none"
        /\ q.user \in Users /\ q.key \in Keys \cup {NoKey} /\ q.hash \in Hashes
    BY <1>4, RouteKeeps
  <2>2. Asked(q) = Seen(q, "open", NoJob)
    BY <1>4, <2>1 DEF Asked
  <2>3. AskedMap' = [AskedMap EXCEPT ![c] = Asked(q)]
    BY <2>1, AskedMoves
  <2> HIDE DEF q
  <2>4. AskedMap[c] = Idle
    BY <1>2, AskedIs
  <2>5. AskedMap' = [AskedMap EXCEPT ![c] = [st |-> "open", user |-> q.user, key |-> q.key,
                                             hash |-> q.hash, job |-> NoJob]]
    BY <2>2, <2>3 DEF Seen
  <2>6. Book!Ask(c)
    BY <1>1, <2>1, <2>4, <2>5 DEF Book!Ask, Book!Nothing, Idle, AskedMap, BookOf
  <2> QED BY <2>6 DEF Booked, Book!BookNext
<1> QED BY <1>3, <1>4

(* The book entries that conflict with an open request are the rows that   *)
(* its lookup finds.                                                       *)
LEMMA FoundIsSameKey ==
  ASSUME SubInv, NEW c \in Clients, call[c].pc \in {"lookup", "insert", "relookup"},
         NEW e
  PROVE  e \in Book!SameKey(Seen(call[c], "open", NoJob)) <=>
           \E j \in get_by_idempotency_key(call[c].key, call[c].user) : e = EntryOf(j)
<1> DEFINE s == Seen(call[c], "open", NoJob)
<1>1. s.key = call[c].key /\ s.user = call[c].user
  BY DEF Seen
<1> HIDE DEF s
<1>2. e \in Book!SameKey(s) <=>
        e \in BookOf /\ s.key # NoKey /\ e.user = s.user /\ e.key = s.key
  BY DEF Book!SameKey, BookOf
<1>3. \A j \in Jobs : EntryOf(j).user = table[j].user /\ EntryOf(j).key = table[j].key
  BY DEF EntryOf
<1>4. e \in Book!SameKey(s) <=>
        \E j \in Jobs : /\ table[j] # NoRow /\ e = EntryOf(j) /\ call[c].key # NoKey
                        /\ table[j].user = call[c].user /\ table[j].key = call[c].key
  BY <1>1, <1>2, <1>3, BookHas
<1> QED BY <1>4 DEF s, get_by_idempotency_key, Exists

LEMMA FoundBooked ==
  ASSUME SubInv, NEW c \in Clients, call[c].pc \in {"lookup", "relookup"},
         UNCHANGED <<count, loaded, table>>,
         get_by_idempotency_key(call[c].key, call[c].user) # {},
         _replay_or_conflict(c, get_by_idempotency_key(call[c].key, call[c].user))
  PROVE  Booked
<1> DEFINE found == get_by_idempotency_key(call[c].key, call[c].user)
           q == call'[c]
           s == Seen(call[c], "open", NoJob)
<1>0. BookOf' = BookOf /\ found \in SUBSET Jobs /\ found # {}
  BY BookStaysToo DEF get_by_idempotency_key
<1>1. Asked(call[c]) = s /\ call[c].hash # NoHash
  BY OpenRequest
<1>2. AskedMap[c] = s
  BY <1>1, AskedIs
<1>3. /\ Keeps(c) /\ q.pc = "done"
      /\ \/ /\ q.reply = "replayed"
            /\ \E j \in found : table[j].hash = call[c].hash /\ q.job = j
         \/ /\ q.reply = "conflict" /\ q.job = NoJob
            /\ \A j \in found : table[j].hash # call[c].hash
  BY <1>0, LookedUp
<1>4. AskedMap' = [AskedMap EXCEPT ![c] = Asked(q)]
  BY <1>3, AskedMoves DEF Keeps
<1>5. /\ s.st = "open" /\ s.user = call[c].user /\ s.key = call[c].key
      /\ s.hash = call[c].hash
  BY DEF Seen
<1>6. \A e : e \in Book!SameKey(s) <=> \E j \in found : e = EntryOf(j)
  BY FoundIsSameKey
<1>7. \A j \in Jobs : EntryOf(j).id = j /\ EntryOf(j).hash = table[j].hash
  BY DEF EntryOf
<1>8. /\ q.user = s.user /\ q.key = s.key /\ q.hash = s.hash /\ q.hash # NoHash
  BY <1>1, <1>3, <1>5 DEF Keeps
<1> HIDE DEF found, q, s
<1>9. CASE q.reply = "replayed"
  <2>1. PICK j \in found : table[j].hash = call[c].hash /\ q.job = j
    BY <1>3, <1>9
  <2>2. EntryOf(j) \in Book!SameKey(s) /\ EntryOf(j).hash = s.hash /\ EntryOf(j).id = j
    BY <1>0, <1>5, <1>6, <1>7, <2>1
  <2>3. Asked(q) = [st |-> "same", user |-> s.user, key |-> s.key, hash |-> s.hash,
                    job |-> EntryOf(j).id]
    BY <1>3, <1>8, <1>9, <2>1, <2>2 DEF Asked, Seen
  <2>4. Book!Answer(c, "same", EntryOf(j).id)
    BY <1>2, <1>4, <2>3 DEF Book!Answer, AskedMap
  <2>5. Book!Repeat(c)
    BY <1>0, <1>2, <1>5, <2>2, <2>4 DEF Book!Repeat, AskedMap, BookOf
  <2> QED BY <2>5 DEF Booked, Book!BookNext
<1>10. CASE q.reply = "conflict"
  <2>1. PICK j \in found : TRUE
    BY <1>0
  <2>2. EntryOf(j) \in Book!SameKey(s) /\ EntryOf(j).hash # s.hash
    BY <1>0, <1>3, <1>5, <1>6, <1>7, <1>10, <2>1
  <2>3. Asked(q) = [st |-> "other", user |-> s.user, key |-> s.key, hash |-> s.hash,
                    job |-> NoJob]
    BY <1>3, <1>8, <1>10 DEF Asked, Seen
  <2>4. Book!Answer(c, "other", NoJob)
    BY <1>2, <1>4, <2>3 DEF Book!Answer, AskedMap
  <2>5. Book!Refuse(c)
    BY <1>0, <1>2, <1>5, <2>2, <2>4 DEF Book!Refuse, AskedMap, BookOf
  <2> QED BY <2>5 DEF Booked, Book!BookNext
<1> QED BY <1>3, <1>9, <1>10

LEMMA CreateBooked ==
  ASSUME SubInv, NEW c \in Clients, NEW j \in Jobs, create_job(c, j)
  PROVE  Booked
<1> DEFINE q == call'[c]
           s == Seen(call[c], "open", NoJob)
           v == NewRow(c)
<1>1. call[c].pc \in {"lookup", "insert", "relookup"}
  BY DEF create_job, At
<1>2. Asked(call[c]) = s /\ call[c].hash # NoHash
  BY <1>1, OpenRequest
<1>3. AskedMap[c] = s
  BY <1>2, AskedIs
<1>4. Keeps(c) /\ v \in Row /\ q.pc = "handoff" /\ q.job = j
  BY CreateKeeps
<1>5. AskedMap' = [AskedMap EXCEPT ![c] = Asked(q)]
  BY <1>4, AskedMoves DEF Keeps
<1>6. table[j] = NoRow /\ table' = [table EXCEPT ![j] = v]
  BY DEF create_job, Exists
<1>7. BookOf' = BookOf \cup {[id |-> j, user |-> v.user, key |-> v.key, hash |-> v.hash]}
  BY <1>4, <1>6, BookGrows
<1>8. \A e \in BookOf : e.id # j
  <2>1. \A i \in Jobs : EntryOf(i).id = i
    BY DEF EntryOf
  <2> QED BY <1>6, <2>1, BookHas
<1>9. Book!SameKey(s) = {}
  BY <1>1, FoundIsSameKey DEF create_job
<1>10. /\ s.st = "open" /\ s.user = call[c].user /\ s.key = call[c].key
       /\ s.hash = call[c].hash
  BY DEF Seen
<1>11. v.user = s.user /\ v.key = s.key /\ v.hash = s.hash
  BY <1>10 DEF NewRow
<1>12. /\ q.user = s.user /\ q.key = s.key /\ q.hash = s.hash /\ q.hash # NoHash
  BY <1>2, <1>4, <1>10 DEF Keeps
<1> HIDE DEF q, s, v
<1>13. Asked(q) = [st |-> "new", user |-> s.user, key |-> s.key, hash |-> s.hash,
                   job |-> j]
  BY <1>4, <1>12 DEF Asked, Seen
<1>14. Book!Answer(c, "new", j)
  BY <1>3, <1>5, <1>13 DEF Book!Answer, AskedMap
<1>15. Book!Make(c)
  BY <1>3, <1>7, <1>8, <1>9, <1>10, <1>11, <1>14 DEF Book!Make, AskedMap, BookOf
<1> QED BY <1>15 DEF Booked, Book!BookNext

LEMMA DropBooked ==
  ASSUME SubInv, NEW c \in Clients, Drop(c), UNCHANGED table
  PROVE  Booked
<1>1. BookOf' = BookOf
  BY BookStaysToo
<1>2. Moves(c) /\ Asked(call'[c]) = Idle
  BY DropKeeps DEF Asked, IdleCall
<1>3. CASE Asked(call[c]) = Idle
  BY <1>1, <1>2, <1>3, AskedStaysOne DEF Booked
<1>4. CASE Asked(call[c]) # Idle
  <2>1. AskedMap' = [AskedMap EXCEPT ![c] = Idle]
    BY <1>2, AskedMoves
  <2>2. AskedMap[c] # Idle
    BY <1>4, AskedIs
  <2>3. Book!Leave(c)
    BY <1>1, <2>1, <2>2 DEF Book!Leave, Book!Nothing, Idle, AskedMap, BookOf
  <2> QED BY <2>3 DEF Booked, Book!BookNext
<1> QED BY <1>3, <1>4

(* Steps that the book does not see.                                       *)
LEMMA OutsideBooked ==
  ASSUME NEW c \in Clients, UNCHANGED table, call[c].hash = NoHash, Moves(c),
         call'[c].hash = NoHash
  PROVE  Booked
<1>1. Asked(call[c]) = Idle /\ Asked(call'[c]) = Idle
  BY DEF Asked
<1> QED BY <1>1, AskedStaysOne, BookStaysToo DEF Booked

LEMMA AdmissionBooked ==
  ASSUME SubInv, NEW c \in Clients, AdmissionStep(c), UNCHANGED table
  PROVE  Booked
<1>1. call[c].pc \in {"idle"} \cup Before => call[c].hash = NoHash
  BY DEF SubInv, Knows
<1>2. CASE \E u \in Users : Arrive(c, u)
  <2>1. call[c].hash = NoHash
    BY <1>1, <1>2 DEF Arrive, At
  <2> QED BY <1>2, <2>1, ArriveKeeps, OutsideBooked
<1>3. CASE DeclaredTooLarge(c)
  <2>1. call[c].hash = NoHash
    BY <1>1, <1>3 DEF DeclaredTooLarge, At, Before
  <2> QED BY <1>3, <2>1, TooLargeKeeps, OutsideBooked
<1>4. CASE \E n \in 0..MaxChunk, more \in BOOLEAN : Receive(c, n, more)
  <2>1. call[c].hash = NoHash
    BY <1>1, <1>4 DEF Receive, At, Before
  <2> QED BY <1>4, <2>1, ReceiveKeeps, OutsideBooked
<1>5. CASE CheckRate(c)
  <2>1. call[c].hash = NoHash
    BY <1>1, <1>5 DEF CheckRate, Before
  <2> QED BY <1>5, <2>1, CheckRateKeeps, OutsideBooked
<1>6. CASE ReloadScript(c)
  <2>1. call[c].hash = NoHash
    BY <1>1, <1>6 DEF ReloadScript, At, Before
  <2> QED BY <1>6, <2>1, ReloadKeeps, OutsideBooked
<1>7. CASE Drop(c)
  BY <1>7, DropBooked
<1> QED BY <1>2, <1>3, <1>4, <1>5, <1>6, <1>7 DEF AdmissionStep

LEMMA FlushBooked ==
  ASSUME SubInv, ScriptFlush, UNCHANGED table
  PROVE  Booked
<1>1. ASSUME NEW c \in Clients PROVE Asked(call'[c]) = Asked(call[c])
  <2>1. /\ call'[c].pc = call[c].pc /\ call'[c].user = call[c].user
        /\ call'[c].key = call[c].key /\ call'[c].hash = call[c].hash
        /\ call'[c].reply = call[c].reply /\ call'[c].job = call[c].job
    BY FlushMoves
  <2> QED BY <2>1 DEF Asked, Seen
<1> QED BY <1>1, AskedStays, BookStaysToo DEF Booked

LEMMA StillOpen ==
  ASSUME SubInv, NEW c \in Clients, call[c].pc \in {"lookup", "insert", "relookup"},
         Keeps(c), call'[c].pc \in {"insert", "relookup"},
         call'[c].reply = call[c].reply, UNCHANGED table
  PROVE  Booked
<1>1. Asked(call[c]) = Seen(call[c], "open", NoJob) /\ call[c].hash # NoHash
      /\ call[c].reply = "none"
  BY OpenRequest
<1>2. Asked(call'[c]) = Asked(call[c])
  BY <1>1 DEF Keeps, Asked, Seen
<1> QED BY <1>2, AskedStaysOne, BookStaysToo DEF Keeps, Booked

LEMMA StillNew ==
  ASSUME SubInv, NEW c \in Clients, call[c].pc \in {"handoff", "sync"}, Keeps(c), Gains,
         call'[c].pc = "sync" \/ call'[c].reply = "accepted",
         call'[c].job = call[c].job,
         \E v \in Row : table' = [table EXCEPT ![call[c].job] = v]
  PROVE  Booked
<1>1. call[c].job \in Jobs /\ table[call[c].job] \in Row
  BY OwnRow
<1>2. BookOf' = BookOf
  BY <1>1, NoRowIsNone, BookRewritten
<1>3. Asked(call'[c]) = Asked(call[c])
  BY DEF Keeps, Asked, Seen
<1> QED BY <1>2, <1>3, AskedStaysOne DEF Keeps, Booked

LEMMA SubmitBooked ==
  ASSUME SubInv, NEW c \in Clients, SubmitStep(c)
  PROVE  Booked
<1>1. CASE \E r \in Requests : Route(c, r)
  BY <1>1, RouteBooked
<1>2. CASE Lookup(c)
  <2>1. call[c].pc = "lookup" /\ UNCHANGED <<count, loaded, table>>
    BY <1>2 DEF Lookup, At
  <2> QED BY <1>2, <2>1, LookupKeeps, StillOpen, FoundBooked
<1>3. CASE \E j \in Jobs : create_job(c, j)
  BY <1>3, CreateBooked
<1>4. CASE IntegrityError(c)
  <2>1. call[c].pc = "insert" /\ UNCHANGED <<count, loaded, table>>
    BY <1>4 DEF IntegrityError, At
  <2> QED BY <1>4, <2>1, IntegrityKeeps, StillOpen
<1>5. CASE Relookup(c)
  <2>1. /\ call[c].pc = "relookup" /\ UNCHANGED <<count, loaded, table>>
        /\ _replay_or_conflict(c, get_by_idempotency_key(call[c].key, call[c].user))
    BY <1>5 DEF Relookup, At
  <2> QED BY <1>5, <2>1, RelookupKeeps, FoundBooked
<1>6. CASE Handoff(c)
  <2>1. call[c].pc = "handoff"
    BY <1>6 DEF Handoff, At
  <2> QED BY <1>6, <2>1, HandoffKeeps, StillNew
<1>7. CASE MarkSynced(c)
  <2>1. call[c].pc = "sync"
    BY <1>7 DEF MarkSynced, At
  <2> QED BY <1>7, <2>1, MarkKeeps, StillNew
<1> QED BY <1>1, <1>2, <1>3, <1>4, <1>5, <1>6, <1>7 DEF SubmitStep

LEMMA SubNextBooked == SubInv /\ [SubNext]_subVars => Booked
<1> SUFFICES ASSUME SubInv, [SubNext]_subVars PROVE Booked
  OBVIOUS
<1>1. ASSUME call' = call, UNCHANGED table PROVE Booked
  BY <1>1, AskedStays, BookStaysToo DEF Booked
<1>2. ASSUME AdmissionNext, UNCHANGED table PROVE Booked
  <2>1. ASSUME NEW u \in Users, WindowEnds(u) PROVE Booked
    BY <1>1, <1>2, <2>1 DEF WindowEnds
  <2> QED BY <1>2, <2>1, AdmissionBooked, FlushBooked DEF AdmissionNext
<1>3. ASSUME NEW j \in Jobs, Reconcile(j) PROVE Booked
  <2>1. table[j] # NoRow /\ call' = call
    BY <1>3 DEF Reconcile, Exists, admissionVars
  <2>2. BookOf' = BookOf
    BY <1>3, <2>1, ReconcileKeeps, BookRewritten
  <2> QED BY <2>1, <2>2, AskedStays DEF Booked
<1>4. CASE UNCHANGED subVars
  BY <1>1, <1>4 DEF subVars
<1> QED BY <1>2, <1>3, <1>4, SubmitBooked DEF SubNext

(* Submissions implement KeyBook: lookups, inserts, collisions on the      *)
(* unique index, handoffs and deaths of any number of requests, in any     *)
(* order, look to clients as if each submission were one step.             *)
THEOREM KeyBookImplemented == SubSpec => ImplementsKeyBook
<1>1. SubInit => Book!BookInit
  <2> SUFFICES ASSUME SubInit PROVE Book!BookInit
    OBVIOUS
  <2>1. BookOf = {}
    BY DEF SubInit, BookOf, Exists
  <2>2. \A c \in Clients : AskedOf(c) = [st |-> "idle", job |-> NoJob]
    BY DEF SubInit, AdmissionInit, IdleCall, AskedOf
  <2> QED BY <2>1, <2>2 DEF Book!BookInit, Book!Nothing, BookOf
<1>2. SubInv /\ [SubNext]_subVars =>
        [Book!BookNext]_<<{EntryOf(j) : j \in {i \in Jobs : Exists(i)}},
                          [c \in Clients |-> AskedOf(c)]>>
  BY SubNextBooked DEF Booked, BookOf, AskedMap
<1> QED BY <1>1, <1>2, SubInvHolds, PTL DEF SubSpec, ImplementsKeyBook, Book!BookSpec
=============================================================================
