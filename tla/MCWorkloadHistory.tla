------------------------- MODULE MCWorkloadHistory -------------------------
(***************************************************************************)
(* Instances of WorkloadHistory: every workload belongs to the other node, *)
(* so both sweeps apply to it.                                             *)
(***************************************************************************)
EXTENDS WorkloadHistory

MCOrigin == [k \in Key |-> CHOOSE n \in Node : n # Self]
MCClientId == [k \in Key |-> k]
=============================================================================
