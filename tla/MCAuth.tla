------------------------------- MODULE MCAuth -------------------------------
(***************************************************************************)
(* Symmetries of the TLC instance of Auth.                                 *)
(***************************************************************************)
EXTENDS Auth, TLC

AuthSym == Permutations(Members) \cup Permutations(Clients)
=============================================================================
