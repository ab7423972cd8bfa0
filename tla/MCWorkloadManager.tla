------------------------- MODULE MCWorkloadManager -------------------------
(***************************************************************************)
(* The two mechanisms of the workload-manager that hold state of their own *)
(* and share none: the dedup index of its listener and the re-sync set it  *)
(* gets back after a restart.  A behaviour exercises one of them.          *)
(***************************************************************************)
EXTENDS DedupIndex, ManagerRestart

VARIABLE part

vars == <<part, dedupVars, restartVars>>

Init ==
  /\ part \in {"dedup", "restart"}
  /\ IF part = "dedup" THEN DedupInit
     ELSE DedupInit /\ want = [r \in Req |-> CHOOSE k \in Id : TRUE]
  /\ RestartInit

Next ==
  /\ \/ part = "dedup" /\ DedupNext /\ UNCHANGED restartVars
     \/ part = "restart" /\ RestartNext /\ UNCHANGED dedupVars
  /\ UNCHANGED part

Spec == Init /\ [][Next]_vars /\ DedupFairness /\ RestartFairness
=============================================================================
