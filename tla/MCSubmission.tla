---------------------------- MODULE MCSubmission ----------------------------
(***************************************************************************)
(* The TLC instance of Submission and Pages, the API's writers and readers *)
(* of the jobs table.  The two modules share no variable, so what holds of *)
(* each while the other one is at rest holds of them together.             *)
(* Submission has two users with the same key, a payload, another one and  *)
(* a forbidden one, and a request without a key.                           *)
(***************************************************************************)
EXTENDS Submission, Pages, TLC

CONSTANTS u1, u2, k1, h1, h2, h3

Sent == {[user |-> u1, key |-> k1, hash |-> h1], [user |-> u1, key |-> k1, hash |-> h2],
         [user |-> u2, key |-> k1, hash |-> h1], [user |-> u2, key |-> NoKey, hash |-> h1],
         [user |-> u2, key |-> k1, hash |-> h3]}

TableNext ==
  \/ PagesInit /\ SubNext /\ UNCHANGED pageVars
  \/ SubInit /\ PagesNext /\ UNCHANGED subVars

TableInit == SubInit /\ PagesInit
TableSpec == TableInit /\ [][TableNext]_<<subVars, pageVars>>

(* Clients and job ids are interchangeable.                                *)
SubSym == Permutations(Clients) \cup Permutations(Jobs)
=============================================================================
