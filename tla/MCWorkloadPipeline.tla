------------------------ MODULE MCWorkloadPipeline -------------------------
(***************************************************************************)
(* Instances of WorkloadPipeline.                                          *)
(* FairSpec adds that a frame sent again and again is delivered at last,   *)
(* which is what "a wrong guess is corrected" needs.                       *)
(***************************************************************************)
EXTENDS WorkloadPipeline

FairSpec == Spec /\ \A f \in Frame : SF_vars(f \in flight /\ Handle(f, FALSE))

\* A peer that wrongly guessed a running workload failed learns better, as
\* long as re-assertions reach it (resyncLoop, provenance merge), unless the
\* origin itself guessed or restarted its manager meanwhile.
WrongGuessCorrected ==
  \A k \in Key :
    (job[k].state = "running" /\ pstore[k] # Absent /\ pstore[k].inferred)
      ~> (\/ job[k].state # "running"
          \/ pstore[k] # Absent /\ ~pstore[k].inferred
          \/ active[k].state = "none")
=============================================================================
