--------------------------- MODULE WorkloadStore ---------------------------
(***************************************************************************)
(* The broker's workload store and the two sweeps that guess on its behalf.*)
(*                                                                         *)
(* One broker holds one store.  Events reach it from three directions:     *)
(*  - the origin of a workload asserts its state (Apply): a local proxy,   *)
(*    or a peer through the workload-manager, in any order, repeatedly;    *)
(*  - the node-loss sweep (failWorkloadsForNode) reads the live records of *)
(*    a departed node and, record by record, applies an inferred failure;  *)
(*  - the silence sweep (failStaleForeignWorkloads) does the same for the  *)
(*    foreign records whose origin has been quiet for StaleAfter.          *)
(* Both sweeps SELECT under the store's lock, release it, and APPLY later, *)
(* so every other action may run in between; that gap is modelled by the   *)
(* variables lossPicks and stalePicks.                                     *)
(*                                                                         *)
(* The history file and restarts are added by WorkloadHistory.             *)
(***************************************************************************)
EXTENDS WorkloadMerge, FiniteSets

CONSTANTS Key,         \* workload identities (origin, engine, run, id)
          Self,        \* the node whose broker this is
          Origin,      \* Origin[k]: the node that submitted k
          ClientId,    \* ClientId[k]: the id clients and removals use
          Executors,   \* the nodes workloads are placed on
          Generations, \* the createdAt stamps events may carry
          Stamps,      \* may a terminal event carry its completion time?
          StaleAfter,  \* workloadOriginSilenceTimeout, in clock ticks
          MaxClock,    \* bound on the clock
          MaxPicks     \* bound on node-loss guesses waiting to be applied

ASSUME StoreAssumption ==
  /\ Self \in Node
  /\ Origin \in [Key -> Node]
  /\ Executors \subseteq Node
  /\ Generations \subseteq Nat
  /\ Stamps \subseteq BOOLEAN
  /\ StaleAfter \in Nat \ {0}
  /\ MaxClock \in Nat
  /\ MaxPicks \in Nat

VARIABLES
  records,    \* the catalog
  dirty,      \* the history set changed since it was last written
  clock,      \* the broker's clock
  lossPicks,  \* node-loss guesses selected and not applied yet
  stalePicks, \* silence guesses selected and not applied yet
  concluded,  \* ghost: the terminals origins have concluded
  heard       \* ghost: when the store last heard the origin about a key

storeVars == <<records, dirty, clock, lossPicks, stalePicks, concluded, heard>>

SameClientKey(k, l) == Origin[k] = Origin[l] /\ ClientId[k] = ClientId[l]

\* The events an origin may send now: a terminal one may carry a completion time.
Incoming == [state : {"queued", "running"}, createdAt : Generations,
             scheduledOn : Executors, completedAt : {0}]
            \cup
            [state : {"completed", "failed"}, createdAt : Generations,
             scheduledOn : Executors, completedAt : {IF c THEN clock ELSE 0 : c \in Stamps}]

\* Mutant: a sweep uses a state of its own.
MarkWorkloadLost(r) ==
  [EventOf(r) EXCEPT !.state = "lost", !.completedAt = clock]

\* markWorkloadFailed: the terminal a sweep synthesizes from a record.
markWorkloadFailed(r) ==
  [EventOf(r) EXCEPT !.state = "failed", !.completedAt = clock]

StoreInit ==
  /\ records = [k \in Key |-> Absent]
  /\ dirty = FALSE
  /\ clock = 1
  /\ lossPicks = {}
  /\ stalePicks = {}
  /\ concluded = {}
  /\ heard = [k \in Key |-> 0]

Tick ==
  /\ clock < MaxClock
  /\ clock' = clock + 1
  /\ UNCHANGED <<records, dirty, lossPicks, stalePicks, concluded, heard>>

\* Store.Apply: an authoritative event.
Apply(k, e) ==
  /\ records' = [records EXCEPT ![k] = applyLocked(records[k], e, FALSE, clock)]
  /\ dirty' = (dirty \/ Dirties(records[k], e, FALSE))
  /\ concluded' = IF IsTerminal(e.state)
                  THEN concluded \cup {<<k, e.state, e.createdAt>>} ELSE concluded
  /\ heard' = IF Sights(records[k], e, FALSE) THEN [heard EXCEPT ![k] = clock]
                                              ELSE heard
  /\ UNCHANGED <<clock, lossPicks, stalePicks>>

\* Store.Remove: every record the removal's (origin, id) names.
Remove(k) ==
  LET gone == {l \in Key : SameClientKey(k, l) /\ records[l] # Absent}
  IN /\ gone # {}
     /\ records' = [l \in Key |-> IF l \in gone THEN Absent ELSE records[l]]
     /\ dirty' = (dirty \/ \E l \in gone : Historic(records[l]))
     /\ UNCHANGED <<clock, lossPicks, stalePicks, concluded, heard>>

-----------------------------------------------------------------------------
(* The node-loss sweep.                                                    *)

\* Store.ActiveForNode: n submitted the workload or was running it.
ActiveForNode(n) ==
  {k \in Key : Live(records[k]) /\ (Origin[k] = n \/ records[k].scheduledOn = n)}

\* failWorkloadsForNode, its selection.  Departures are reported by several
\* goroutines, so a second sweep may start before the first has applied.
SelectLost(n) ==
  /\ ActiveForNode(n) # {}
  /\ Cardinality(lossPicks) + Cardinality(ActiveForNode(n)) <= MaxPicks
  /\ lossPicks' = lossPicks \cup
       {[key |-> k, event |-> markWorkloadFailed(records[k])] : k \in ActiveForNode(n)}
  /\ UNCHANGED <<records, dirty, clock, stalePicks, concluded, heard>>

\* failWorkloadsForNode, one iteration of its apply loop: Store.ApplyInferred.
ApplyInferred(p) ==
  /\ records' = [records EXCEPT ![p.key] = applyLocked(@, p.event, TRUE, clock)]
  /\ dirty' = (dirty \/ Dirties(records[p.key], p.event, TRUE))
  /\ lossPicks' = lossPicks \ {p}
  /\ UNCHANGED <<clock, stalePicks, concluded, heard>>

-----------------------------------------------------------------------------
(* The silence sweep.                                                      *)

\* Store.StaleForeign: live, foreign, silent, and alone under its client key.
StaleForeign ==
  {k \in Key : /\ Live(records[k])
               /\ Origin[k] # Self
               /\ \A l \in Key \ {k} : SameClientKey(k, l) => ~Live(records[l])
               /\ clock - records[k].lastSeen >= StaleAfter}

\* failStaleForeignWorkloads, its selection.  One goroutine runs this sweep.
SelectStale ==
  /\ stalePicks = {}
  /\ StaleForeign # {}
  /\ stalePicks' =
       {[key |-> k, event |-> markWorkloadFailed(records[k]),
         seenAt |-> records[k].lastSeen] : k \in StaleForeign}
  /\ UNCHANGED <<records, dirty, clock, lossPicks, concluded, heard>>

\* Mutant: the sighting guard is missing.
UnchangedSinceAlways(p) == records[p.key] # Absent

\* Mutant: the guard forgets that the record may be gone.
UnchangedSinceOrGone(p) ==
  records[p.key] = Absent \/ records[p.key].lastSeen = p.seenAt

\* The guard of ApplyInferredUnchangedSince: the record is still there and its
\* origin has not spoken since the selection.
UnchangedSince(p) ==
  /\ records[p.key] # Absent
  /\ records[p.key].lastSeen = p.seenAt

\* failStaleForeignWorkloads, one iteration of its apply loop.
ApplyInferredUnchangedSince(p) ==
  /\ IF UnchangedSince(p)
     THEN /\ records' = [records EXCEPT ![p.key] = applyLocked(@, p.event, TRUE, clock)]
          /\ dirty' = (dirty \/ Dirties(records[p.key], p.event, TRUE))
     ELSE UNCHANGED <<records, dirty>>
  /\ stalePicks' = stalePicks \ {p}
  /\ UNCHANGED <<clock, lossPicks, concluded, heard>>

StoreNext ==
  \/ Tick
  \/ \E k \in Key, e \in Incoming : Apply(k, e)
  \/ \E k \in Key : Remove(k)
  \/ \E n \in Node : SelectLost(n)
  \/ \E p \in lossPicks : ApplyInferred(p)
  \/ SelectStale
  \/ \E p \in stalePicks : ApplyInferredUnchangedSince(p)

StoreSpec == StoreInit /\ [][StoreNext]_storeVars

-----------------------------------------------------------------------------
(* Properties.                                                             *)

Picks == [key : Key, event : Event]
StalePicks == [key : Key, event : Event, seenAt : Nat]

\* Every variable keeps its type.
TypeOK ==
  /\ records \in [Key -> Record \cup {Absent}]
  /\ dirty \in BOOLEAN
  /\ clock \in Nat
  /\ lossPicks \subseteq Picks
  /\ stalePicks \subseteq StalePicks
  /\ concluded \subseteq Key \X States \X Nat
  /\ heard \in [Key -> Nat]

\* A terminal record that is not marked inferred is one its origin asserted:
\* no path through the sweeps turns a guess into authoritative state.
TerminalIsAsserted ==
  \A k \in Key : Historic(records[k])
                    => <<k, records[k].state, records[k].createdAt>> \in concluded

\* While the record of a generation exists, the origin's word that it ended is
\* not taken back by an event that is late, duplicated or guessed, and the
\* outcome it names changes only with the executor: of two terminals the
\* later one replaces the earlier if it names another node (applyLocked:
\* forward-only rank, terminal beats a guess, equal rank needs another
\* scheduledOn).
TerminalIsFinal ==
  [][\A k \in Key :
       (Historic(records[k]) /\ records'[k] # Absent)
          => \/ records'[k].createdAt > records[k].createdAt
             \/ /\ Historic(records'[k])
                /\ \/ records'[k].state = records[k].state
                   \/ records'[k].scheduledOn # records[k].scheduledOn]_storeVars

\* Between two authoritative states of one generation the store only moves
\* forward, and the generation never moves back.
NeverBackwards ==
  [][\A k \in Key :
       (records[k] # Absent /\ records'[k] # Absent)
          => /\ records'[k].createdAt >= records[k].createdAt
             /\ (/\ records'[k].createdAt = records[k].createdAt
                 /\ records'[k].inferred = records[k].inferred)
                  => rank(records'[k].state) >= rank(records[k].state)]_storeVars

\* The silence sweep fails a workload only if its origin really has been
\* silent about it for StaleAfter at that moment, and only a workload of
\* another node: an origin that spoke between selection and application wins.
SilenceIsReal ==
  [][\A k \in Key :
       (/\ lossPicks' = lossPicks
        /\ records'[k] # records[k]
        /\ records'[k] # Absent
        /\ records'[k].inferred)
          => /\ Origin[k] # Self
             /\ clock - heard[k] >= StaleAfter]_storeVars

\* What the silence sweep selected is never re-created once it was removed:
\* only an origin's event or a node-loss guess brings a record into being.
SilenceNeverResurrects ==
  [][\A k \in Key :
       (records[k] = Absent /\ records'[k] # Absent)
          => \/ ~records'[k].inferred
             \/ lossPicks' # lossPicks]_storeVars

\* An inferred record is never a sighting: its lastSeen is the moment the
\* origin was last heard (store.go: "a local inferred guess must never make
\* a record look freshly confirmed").
GuessNeverConfirms ==
  \A k \in Key : (records[k] # Absent /\ records[k].inferred)
                    => records[k].lastSeen = heard[k]

=============================================================================
