--------------------------- MODULE MCJobProcessor ---------------------------
(***************************************************************************)
(* Constants of the TLC instances of JobProcessor.                         *)
(***************************************************************************)
EXTENDS JobProcessor, TLC

OneStream   == [j \in Jobs |-> 1]

(* One job per stream.                                                     *)
TwoStreams  == CHOOSE f \in [Jobs -> 1..2] : \A i, j \in Jobs : i # j => f[i] # f[j]

(* Shapes of settings.retry_backoff_schedule: [0], [30] and [0, 30].       *)
Immediately == <<0>>
Delayed     == <<1>>
ThenDelayed == <<0, 1>>

(* Where a worker may die: in the handler, or anywhere.                    *)
InHandler == {"load", "run", "cancel"}
Anywhere  == {"claim", "load", "run", "cancel", "handoff", "sync", "ack"}
DyingWorkers    == InHandler \cup {"api"}
DyingOrStopping == InHandler \cup {"stop"}
AnyDeath        == Anywhere \cup {"api", "ticker"}
EveryFault      == AnyDeath \cup {"stop"}

(* Everything a process can suffer, except the steps by which a job can be *)
(* lost or be started too early.                                           *)
CarefulSpec == Init /\ [][Next /\ ~Losing /\ ~Outrunning]_vars

(* Processes run the same code and each has one slot in these instances,   *)
(* so permuting them is sound for the safety runs.                         *)
Sym == Permutations(Procs)
=============================================================================
