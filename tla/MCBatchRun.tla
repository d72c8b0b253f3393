----------------------------- MODULE MCBatchRun -----------------------------
(***************************************************************************)
(* The TLC instance of BatchRun.                                           *)
(***************************************************************************)
EXTENDS BatchRun

Immediately == <<0>>
=============================================================================
