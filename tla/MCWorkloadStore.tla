-------------------------- MODULE MCWorkloadStore --------------------------
(***************************************************************************)
(* Instances of WorkloadStore: the broker of node a (Self) also watches    *)
(* the workloads of node b.                                                *)
(***************************************************************************)
EXTENDS WorkloadStore

CONSTANTS j1, j2

Other == CHOOSE n \in Node : n # Self

\* j1 belongs to the other node, j2 to this one.
MCOrigin == [k \in Key |-> IF k = j2 THEN Self ELSE Other]
MCClientId == [k \in Key |-> k]

\* j1 and j2 are two runs of one proxy of the other node whose job ids
\* collide: the ids are counters that restart from 1 with the process.
MCCollidingOrigin == [k \in Key |-> Other]
MCCollidingId == [k \in Key |-> "1"]
=============================================================================
