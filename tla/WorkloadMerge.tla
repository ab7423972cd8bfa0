--------------------------- MODULE WorkloadMerge ---------------------------
(***************************************************************************)
(* The rules by which a workload record absorbs an event: workloadstore's  *)
(* applyLocked, putLocked and rank.  There is no state here; the modules   *)
(* that own a store (WorkloadStore, WorkloadPipeline) share these          *)
(* operators, as every caller of the Go package shares one Store.          *)
(*                                                                         *)
(* An event about a workload is a record with the fields that the merge    *)
(* rule reads:                                                             *)
(*    state        "queued", "running", "completed" or "failed"            *)
(*    createdAt    the generation the origin stamped                       *)
(*    scheduledOn  the node that executes it                               *)
(*    completedAt  the origin's completion time, 0 when it has none        *)
(* A stored record adds the store's own bookkeeping: inferred (the state   *)
(* was guessed here, not asserted by the origin), lastSeen (when the       *)
(* origin was last heard about this workload) and order, the retention key *)
(* of a terminal record (completionOrder: its completedAt, or the time it  *)
(* was stored when it has none; 0 while it is not terminal).               *)
(***************************************************************************)
EXTENDS Naturals

CONSTANTS Node,      \* nodes of the cluster
          Absent     \* stands for "no record under this key"

States == {"queued", "running", "completed", "failed"}

Event == [state : States, createdAt : Nat, scheduledOn : Node, completedAt : Nat]

Record == [state : States, createdAt : Nat, scheduledOn : Node, completedAt : Nat,
           inferred : BOOLEAN, lastSeen : Nat, order : Nat]

ASSUME AbsentAssumption == Absent \notin Record

IsTerminal(s) == s \in {"completed", "failed"}

\* queued < running < terminal.
rank(s) == CASE s = "queued" -> 1
             [] s = "running" -> 2
             [] IsTerminal(s) -> 3
             [] OTHER -> 0

\* A record the history file may hold: a terminal state the origin asserted.
Historic(r) == r # Absent /\ IsTerminal(r.state) /\ ~r.inferred

Live(r) == r # Absent /\ ~IsTerminal(r.state)

\* What a record says about the workload, without the store's bookkeeping.
EventOf(r) == [state |-> r.state, createdAt |-> r.createdAt,
               scheduledOn |-> r.scheduledOn, completedAt |-> r.completedAt]

-----------------------------------------------------------------------------
(* applyLocked, one operator per decision it takes.  cur is the record     *)
(* under the event's key (or Absent), in the event, inferred its           *)
(* provenance, now the store's clock.                                      *)

\* Mutant: the generation gate accepts an older generation.
AcceptsIgnoringGeneration(cur, in, inferred) ==
  \/ cur = Absent
  \/ inferred /\ ~cur.inferred /\ ~IsTerminal(cur.state)
  \/ ~inferred /\ cur.inferred
  \/ inferred = cur.inferred /\ rank(in.state) > rank(cur.state)

\* Mutant: a guess may overwrite the origin's own terminal.
AcceptsGuessOverTerminal(cur, in, inferred) ==
  \/ cur = Absent
  \/ in.createdAt > cur.createdAt
  \/ /\ in.createdAt = cur.createdAt
     /\ \/ ~inferred /\ cur.inferred
        \/ inferred /\ ~cur.inferred
        \/ inferred = cur.inferred /\ rank(in.state) > rank(cur.state)

\* Mutant: the forward-only rank test is dropped.
AcceptsAnyRank(cur, in, inferred) ==
  \/ cur = Absent
  \/ in.createdAt > cur.createdAt
  \/ /\ in.createdAt = cur.createdAt
     /\ \/ ~inferred
        \/ inferred /\ ~IsTerminal(cur.state)

\* Is the event stored?
Accepts(cur, in, inferred) ==
  \/ cur = Absent
  \/ in.createdAt > cur.createdAt
  \/ /\ in.createdAt = cur.createdAt
     /\ \/ ~inferred /\ cur.inferred
        \/ inferred /\ ~cur.inferred /\ ~IsTerminal(cur.state)
        \/ /\ inferred = cur.inferred
           /\ \/ rank(in.state) > rank(cur.state)
              \/ /\ rank(in.state) = rank(cur.state)
                 /\ in.scheduledOn # cur.scheduledOn

\* Is the event a sign of life from the origin?  A rejected one still is,
\* unless it belongs to an older generation.
Sights(cur, in, inferred) ==
  /\ ~inferred
  /\ cur = Absent \/ in.createdAt >= cur.createdAt

\* The retention key of an event stored now.
completionOrder(in, now) ==
  IF ~IsTerminal(in.state) THEN 0
  ELSE IF in.completedAt > 0 THEN in.completedAt ELSE now

\* Mutant: the provenance of a guess is forgotten.
PutAuthoritative(cur, in, inferred, now) ==
  [state |-> in.state, createdAt |-> in.createdAt,
   scheduledOn |-> in.scheduledOn, completedAt |-> in.completedAt,
   inferred |-> FALSE, order |-> completionOrder(in, now),
   lastSeen |-> IF inferred /\ cur # Absent THEN cur.lastSeen ELSE now]

\* recordFrom and putLocked: the record that replaces cur.
putLocked(cur, in, inferred, now) ==
  [state |-> in.state, createdAt |-> in.createdAt,
   scheduledOn |-> in.scheduledOn, completedAt |-> in.completedAt,
   inferred |-> inferred, order |-> completionOrder(in, now),
   lastSeen |-> IF inferred /\ cur # Absent THEN cur.lastSeen ELSE now]

\* The record under the key after the event.
applyLocked(cur, in, inferred, now) ==
  IF Accepts(cur, in, inferred) THEN putLocked(cur, in, inferred, now)
  ELSE IF Sights(cur, in, inferred) THEN [cur EXCEPT !.lastSeen = now]
  ELSE cur

\* Does the event change the set of records the history file holds?
Dirties(cur, in, inferred) ==
  /\ Accepts(cur, in, inferred)
  /\ Historic(cur) \/ (IsTerminal(in.state) /\ ~inferred)

=============================================================================
