------------------------------ MODULE MCFleet ------------------------------
(***************************************************************************)
(* The TLC instance of Fleet and Group, a worker over time and the start   *)
(* of processes over a Redis that may lose its data.  The two modules      *)
(* share no variable, so what holds of each while the other one is at rest *)
(* holds of them together.                                                 *)
(***************************************************************************)
EXTENDS Fleet, Group

(* The first stream has no job: its group is there or lost all the same.   *)
LastStream == [j \in Jobs |-> NumStreams]

LifeNext ==
  \/ GroupInit /\ FleetNext /\ UNCHANGED groupVars
  \/ FleetInit /\ GroupNext /\ UNCHANGED w

LifeInit == FleetInit /\ GroupInit
LifeSpec == LifeInit /\ [][LifeNext]_<<w, groupVars>>
=============================================================================
