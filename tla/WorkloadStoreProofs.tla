------------------------ MODULE WorkloadStoreProofs ------------------------
(***************************************************************************)
(* Proofs about WorkloadStore, for every set of nodes, keys and            *)
(* generations and every bound.                                            *)
(***************************************************************************)
EXTENDS WorkloadStore, TLAPS

-----------------------------------------------------------------------------
(* The merge rule.                                                         *)

\* applyLocked returns a record, or leaves an absent one absent.
LEMMA MergeType ==
  ASSUME NEW cur \in Record \cup {Absent}, NEW in \in Event,
         NEW inferred \in BOOLEAN, NEW now \in Nat
  PROVE  applyLocked(cur, in, inferred, now) \in Record \cup {Absent}
<1>1. completionOrder(in, now) \in Nat
  BY DEF completionOrder, Event
<1>2. CASE cur = Absent
  BY <1>1, <1>2 DEF applyLocked, Accepts, putLocked, Record, Event
<1>3. CASE cur \in Record
  BY <1>1, <1>3, AbsentAssumption DEF applyLocked, putLocked, Record, Event
<1> QED BY <1>2, <1>3

\* An event about an existing record never makes it absent.
LEMMA MergeKeeps ==
  ASSUME NEW cur \in Record, NEW in \in Event, NEW inferred \in BOOLEAN, NEW now \in Nat
  PROVE  applyLocked(cur, in, inferred, now) \in Record
<1>1. completionOrder(in, now) \in Nat
  BY DEF completionOrder, Event
<1> QED BY <1>1 DEF applyLocked, putLocked, Record, Event

\* The origin's terminal stays a terminal of the origin, within a generation,
\* and keeps its outcome unless another executor is named.
LEMMA MergeFinal ==
  ASSUME NEW cur \in Record, NEW in \in Event, NEW inferred \in BOOLEAN, NEW now \in Nat,
         Historic(cur)
  PROVE  LET new == applyLocked(cur, in, inferred, now)
         IN \/ new.createdAt > cur.createdAt
            \/ /\ Historic(new)
               /\ new.state = cur.state \/ new.scheduledOn # cur.scheduledOn
<1>1. applyLocked(cur, in, inferred, now) \in Record
  BY MergeKeeps
<1>2. cur # Absent /\ applyLocked(cur, in, inferred, now) # Absent
  BY <1>1, AbsentAssumption
<1> QED BY <1>1, <1>2 DEF applyLocked, Accepts, putLocked, Historic, IsTerminal, rank,
                          Record, Event, States

\* Generations never go back; within one, neither does an unchanged provenance.
LEMMA MergeForward ==
  ASSUME NEW cur \in Record, NEW in \in Event, NEW inferred \in BOOLEAN, NEW now \in Nat
  PROVE  LET new == applyLocked(cur, in, inferred, now)
         IN /\ new.createdAt >= cur.createdAt
            /\ (new.createdAt = cur.createdAt /\ new.inferred = cur.inferred)
                 => rank(new.state) >= rank(cur.state)
<1>1. cur # Absent
  BY AbsentAssumption
<1>2. rank(cur.state) \in Nat /\ rank(in.state) \in Nat
  BY DEF rank, IsTerminal, Record, Event, States
<1>3. CASE Accepts(cur, in, inferred)
  <2>1. applyLocked(cur, in, inferred, now) = putLocked(cur, in, inferred, now)
    BY <1>3 DEF applyLocked
  <2>2. /\ putLocked(cur, in, inferred, now).createdAt = in.createdAt
        /\ putLocked(cur, in, inferred, now).inferred = inferred
        /\ putLocked(cur, in, inferred, now).state = in.state
    BY DEF putLocked
  <2>3. /\ in.createdAt >= cur.createdAt
        /\ (in.createdAt = cur.createdAt /\ inferred = cur.inferred)
             => rank(in.state) >= rank(cur.state)
    BY <1>1, <1>2, <1>3 DEF Accepts, Record, Event
  <2> QED BY <2>1, <2>2, <2>3
<1>4. CASE ~Accepts(cur, in, inferred)
  BY <1>2, <1>4 DEF applyLocked, Record
<1> QED BY <1>3, <1>4

-----------------------------------------------------------------------------
(* The type invariant.                                                     *)

\* What a record says is an event, and so is the failure made from it.
LEMMA FailedType ==
  ASSUME NEW r \in Record, clock \in Nat
  PROVE  EventOf(r) \in Event /\ markWorkloadFailed(r) \in Event
<1>1. EventOf(r) \in Event
  BY DEF EventOf, Record, Event
<1> QED BY <1>1 DEF markWorkloadFailed, Event, States

\* An origin's event is an event.
LEMMA IncomingType ==
  ASSUME clock \in Nat
  PROVE  Incoming \subseteq Event
<1>1. Generations \subseteq Nat /\ Executors \subseteq Node
  BY StoreAssumption
<1>2. {IF c THEN clock ELSE 0 : c \in Stamps} \subseteq Nat
  OBVIOUS
<1>3. ASSUME NEW S \in SUBSET States, NEW C \in SUBSET Nat
      PROVE  [state : S, createdAt : Generations, scheduledOn : Executors,
              completedAt : C] \subseteq Event
  BY <1>1 DEF Event
<1>4. {"queued", "running"} \in SUBSET States /\ {"completed", "failed"} \in SUBSET States
  BY DEF States
<1>5. {0} \in SUBSET Nat
  OBVIOUS
<1> QED BY <1>2, <1>3, <1>4, <1>5 DEF Incoming

LEMMA TypeInit == StoreInit => TypeOK
<1> SUFFICES ASSUME StoreInit PROVE TypeOK
  OBVIOUS
<1> USE DEF StoreInit
<1>1. records \in [Key -> Record \cup {Absent}]
  OBVIOUS
<1>2. dirty \in BOOLEAN /\ clock \in Nat /\ heard \in [Key -> Nat]
  OBVIOUS
<1> QED BY <1>1, <1>2 DEF TypeOK

LEMMA TypeStep ==
  ASSUME TypeOK, [StoreNext]_storeVars
  PROVE  TypeOK'
<1> USE DEF TypeOK
<1>1. CASE Tick
  BY <1>1 DEF Tick
<1>2. ASSUME NEW k \in Key, NEW e \in Incoming, Apply(k, e)
      PROVE  TypeOK'
  <2>1. e \in Event
    BY IncomingType
  <2>2. records' \in [Key -> Record \cup {Absent}]
    BY <1>2, <2>1, MergeType DEF Apply
  <2>3. dirty' \in BOOLEAN
    BY <1>2 DEF Apply
  <2>4. concluded' \subseteq Key \X States \X Nat
    <3>1. <<k, e.state, e.createdAt>> \in Key \X States \X Nat
      BY <2>1 DEF Event
    <3> QED BY <1>2, <3>1 DEF Apply
  <2>5. heard' \in [Key -> Nat]
    BY <1>2 DEF Apply
  <2> QED BY <1>2, <2>2, <2>3, <2>4, <2>5 DEF Apply
<1>3. ASSUME NEW k \in Key, Remove(k)
      PROVE  TypeOK'
  BY <1>3 DEF Remove
<1>4. ASSUME NEW n \in Node, SelectLost(n)
      PROVE  TypeOK'
  <2>1. ASSUME NEW k \in ActiveForNode(n)
        PROVE  [key |-> k, event |-> markWorkloadFailed(records[k])] \in Picks
    BY FailedType DEF ActiveForNode, Live, Picks
  <2> QED BY <1>4, <2>1 DEF SelectLost
<1>5. ASSUME NEW p \in lossPicks, ApplyInferred(p)
      PROVE  TypeOK'
  <2>1. p.key \in Key /\ p.event \in Event
    BY DEF Picks
  <2>2. records' \in [Key -> Record \cup {Absent}]
    BY <1>5, <2>1, MergeType DEF ApplyInferred
  <2>3. dirty' \in BOOLEAN
    BY <1>5 DEF ApplyInferred
  <2> QED BY <1>5, <2>2, <2>3 DEF ApplyInferred
<1>6. CASE SelectStale
  <2>1. ASSUME NEW k \in StaleForeign
        PROVE  [key |-> k, event |-> markWorkloadFailed(records[k]),
                seenAt |-> records[k].lastSeen] \in StalePicks
    <3>1. k \in Key /\ records[k] \in Record
      BY DEF StaleForeign, Live
    <3>2. records[k].lastSeen \in Nat
      BY <3>1 DEF Record
    <3> QED BY <3>1, <3>2, FailedType DEF StalePicks
  <2> QED BY <1>6, <2>1 DEF SelectStale
<1>7. ASSUME NEW p \in stalePicks, ApplyInferredUnchangedSince(p)
      PROVE  TypeOK'
  <2>1. p.key \in Key /\ p.event \in Event
    BY DEF StalePicks
  <2>2. records' \in [Key -> Record \cup {Absent}]
    <3>1. applyLocked(records[p.key], p.event, TRUE, clock) \in Record \cup {Absent}
      BY <2>1, MergeType
    <3> QED BY <1>7, <2>1, <3>1 DEF ApplyInferredUnchangedSince
  <2>3. dirty' \in BOOLEAN
    BY <1>7 DEF ApplyInferredUnchangedSince
  <2> QED BY <1>7, <2>2, <2>3 DEF ApplyInferredUnchangedSince
<1>8. CASE UNCHANGED storeVars
  BY <1>8 DEF storeVars
<1> QED BY <1>1, <1>2, <1>3, <1>4, <1>5, <1>6, <1>7, <1>8 DEF StoreNext

\* The catalog, the waiting guesses and the bookkeeping keep their types
\* through every event, removal and sweep.
THEOREM StoreTypeCorrect == StoreSpec => []TypeOK
<1>1. TypeOK /\ [StoreNext]_storeVars => TypeOK'
  BY TypeStep
<1> QED BY TypeInit, <1>1, PTL DEF StoreSpec

-----------------------------------------------------------------------------
(* No laundering: an authoritative terminal is one its origin asserted.    *)

\* A guess yields an authoritative terminal only by leaving it as it was.
LEMMA GuessAsserts ==
  ASSUME NEW cur \in Record \cup {Absent}, NEW in \in Event, NEW now \in Nat,
         NEW new, new = applyLocked(cur, in, TRUE, now), Historic(new)
  PROVE  new = cur
<1>1. CASE Accepts(cur, in, TRUE)
  <2>1. new.inferred = TRUE
    BY <1>1 DEF applyLocked, putLocked
  <2> QED BY <2>1 DEF Historic
<1>2. CASE ~Accepts(cur, in, TRUE)
  BY <1>2 DEF applyLocked, Sights
<1> QED BY <1>1, <1>2

LEMMA AssertedStep ==
  ASSUME TypeOK, TerminalIsAsserted, [StoreNext]_storeVars
  PROVE  TerminalIsAsserted'
<1> SUFFICES ASSUME NEW l \in Key, Historic(records'[l])
             PROVE  <<l, records'[l].state, records'[l].createdAt>> \in concluded'
  BY DEF TerminalIsAsserted
<1>0. /\ records \in [Key -> Record \cup {Absent}] /\ clock \in Nat
      /\ records[l] \in Record \cup {Absent}
      /\ Historic(records[l]) => <<l, records[l].state, records[l].createdAt>> \in concluded
  BY DEF TypeOK, TerminalIsAsserted
<1>1. CASE records'[l] = records[l] /\ concluded \subseteq concluded'
  BY <1>0, <1>1
<1>2. ASSUME NEW k \in Key, NEW e \in Incoming, Apply(k, e)
      PROVE  <<l, records'[l].state, records'[l].createdAt>> \in concluded'
  <2>1. e \in Event
    BY <1>0, IncomingType
  <2>2. concluded \subseteq concluded'
    BY <1>2 DEF Apply
  <2>3. CASE l # k
    BY <1>0, <1>1, <1>2, <2>2, <2>3 DEF Apply
  <2>4. CASE l = k
    <3>1. records'[l] = applyLocked(records[l], e, FALSE, clock)
      BY <1>0, <1>2, <2>4 DEF Apply
    <3>2. CASE ~Accepts(records[l], e, FALSE)
      <4>1. Historic(records[l]) /\ records'[l].state = records[l].state
                                 /\ records'[l].createdAt = records[l].createdAt
        <5>1. records[l] # Absent /\ records[l] \in Record
          BY <1>0, <3>2 DEF Accepts
        <5> QED BY <3>1, <3>2, <5>1 DEF applyLocked, Historic, Record
      <4> QED BY <1>0, <2>2, <4>1
    <3>3. CASE Accepts(records[l], e, FALSE)
      <4>1. IsTerminal(e.state) /\ records'[l].state = e.state
                                /\ records'[l].createdAt = e.createdAt
        BY <3>1, <3>3 DEF applyLocked, putLocked, Historic
      <4>2. concluded' = concluded \cup {<<k, e.state, e.createdAt>>}
        BY <1>2, <4>1 DEF Apply
      <4> QED BY <2>4, <4>1, <4>2
    <3> QED BY <3>2, <3>3
  <2> QED BY <2>3, <2>4
<1>3. ASSUME NEW k \in Key, Remove(k)
      PROVE  <<l, records'[l].state, records'[l].createdAt>> \in concluded'
  BY <1>0, <1>3 DEF Remove, Historic
<1>4. ASSUME NEW p \in lossPicks, ApplyInferred(p)
      PROVE  <<l, records'[l].state, records'[l].createdAt>> \in concluded'
  <2>1. p.key \in Key /\ p.event \in Event
    BY DEF TypeOK, Picks
  <2>2. CASE l # p.key
    BY <1>0, <1>1, <1>4, <2>1, <2>2 DEF ApplyInferred
  <2>3. CASE l = p.key
    <3>1. records'[l] = applyLocked(records[l], p.event, TRUE, clock)
      BY <1>0, <1>4, <2>1, <2>3 DEF ApplyInferred
    <3>2. records'[l] = records[l]
      BY <1>0, <2>1, <3>1, GuessAsserts
    <3> QED BY <1>0, <1>4, <3>2 DEF ApplyInferred
  <2> QED BY <2>2, <2>3
<1>5. ASSUME NEW p \in stalePicks, ApplyInferredUnchangedSince(p)
      PROVE  <<l, records'[l].state, records'[l].createdAt>> \in concluded'
  <2>1. p.key \in Key /\ p.event \in Event
    BY DEF TypeOK, StalePicks
  <2>2. CASE l # p.key \/ ~UnchangedSince(p)
    BY <1>0, <1>1, <1>5, <2>1, <2>2 DEF ApplyInferredUnchangedSince
  <2>3. CASE l = p.key /\ UnchangedSince(p)
    <3>1. records'[l] = applyLocked(records[l], p.event, TRUE, clock)
      BY <1>0, <1>5, <2>1, <2>3 DEF ApplyInferredUnchangedSince
    <3>2. records'[l] = records[l]
      BY <1>0, <2>1, <3>1, GuessAsserts
    <3> QED BY <1>0, <1>5, <3>2 DEF ApplyInferredUnchangedSince
  <2> QED BY <2>2, <2>3
<1>6. CASE Tick \/ SelectStale \/ \E n \in Node : SelectLost(n)
  BY <1>1, <1>6 DEF Tick, SelectStale, SelectLost
<1>7. CASE UNCHANGED storeVars
  BY <1>1, <1>7 DEF storeVars
<1> QED BY <1>2, <1>3, <1>4, <1>5, <1>6, <1>7 DEF StoreNext

\* Whatever order events, removals and sweeps take, a terminal record that is
\* not marked inferred was asserted by its origin for that generation.
THEOREM NoLaundering == StoreSpec => []TerminalIsAsserted
<1>1. StoreInit => TerminalIsAsserted
  BY DEF StoreInit, TerminalIsAsserted, Historic
<1>2. TypeOK /\ TerminalIsAsserted /\ [StoreNext]_storeVars => TerminalIsAsserted'
  BY AssertedStep
<1> QED BY <1>1, <1>2, StoreTypeCorrect, PTL DEF StoreSpec

-----------------------------------------------------------------------------
(* What a step may do to a record.                                         *)

\* Every step leaves a record alone, removes it, or merges one event into it.
LEMMA StepShape ==
  ASSUME TypeOK, [StoreNext]_storeVars, NEW l \in Key
  PROVE  \/ records'[l] = records[l]
         \/ records'[l] = Absent
         \/ \E e \in Event : records'[l] = applyLocked(records[l], e, FALSE, clock)
         \/ \E e \in Event : records'[l] = applyLocked(records[l], e, TRUE, clock)
<1>0. records \in [Key -> Record \cup {Absent}] /\ clock \in Nat
  BY DEF TypeOK
<1>1. ASSUME NEW k \in Key, NEW e \in Incoming, Apply(k, e)
      PROVE  \/ records'[l] = records[l]
             \/ \E f \in Event : records'[l] = applyLocked(records[l], f, FALSE, clock)
  <2>1. e \in Event
    BY <1>0, IncomingType
  <2> QED BY <1>0, <1>1, <2>1 DEF Apply
<1>2. ASSUME NEW k \in Key, Remove(k)
      PROVE  records'[l] = records[l] \/ records'[l] = Absent
  BY <1>2 DEF Remove
<1>3. ASSUME NEW p \in lossPicks, ApplyInferred(p)
      PROVE  \/ records'[l] = records[l]
             \/ \E f \in Event : records'[l] = applyLocked(records[l], f, TRUE, clock)
  <2>1. p.key \in Key /\ p.event \in Event
    BY DEF TypeOK, Picks
  <2> QED BY <1>0, <1>3, <2>1 DEF ApplyInferred
<1>4. ASSUME NEW p \in stalePicks, ApplyInferredUnchangedSince(p)
      PROVE  \/ records'[l] = records[l]
             \/ \E f \in Event : records'[l] = applyLocked(records[l], f, TRUE, clock)
  <2>1. p.key \in Key /\ p.event \in Event
    BY DEF TypeOK, StalePicks
  <2> QED BY <1>0, <1>4, <2>1 DEF ApplyInferredUnchangedSince
<1>5. CASE Tick \/ SelectStale \/ (\E n \in Node : SelectLost(n)) \/ UNCHANGED storeVars
  BY <1>5 DEF Tick, SelectStale, SelectLost, storeVars
<1> QED BY <1>1, <1>2, <1>3, <1>4, <1>5 DEF StoreNext

\* Once the store holds the origin's terminal for a generation, nothing but a
\* newer generation or a removal takes it back, and its outcome changes only
\* with the executor.
THEOREM TerminalsAreFinal == StoreSpec => TerminalIsFinal
<1>1. ASSUME TypeOK, [StoreNext]_storeVars, NEW k \in Key,
             Historic(records[k]), records'[k] # Absent
      PROVE  \/ records'[k].createdAt > records[k].createdAt
             \/ /\ Historic(records'[k])
                /\ \/ records'[k].state = records[k].state
                   \/ records'[k].scheduledOn # records[k].scheduledOn
  <2>1. records[k] \in Record /\ clock \in Nat
    BY <1>1 DEF TypeOK, Historic
  <2>2. ASSUME NEW e \in Event, NEW i \in BOOLEAN,
               records'[k] = applyLocked(records[k], e, i, clock)
        PROVE  \/ records'[k].createdAt > records[k].createdAt
               \/ /\ Historic(records'[k])
                  /\ \/ records'[k].state = records[k].state
                     \/ records'[k].scheduledOn # records[k].scheduledOn
    BY <1>1, <2>1, <2>2, MergeFinal
  <2> QED BY <1>1, <2>2, StepShape
<1>2. TypeOK /\ [StoreNext]_storeVars
        => [\A k \in Key : (Historic(records[k]) /\ records'[k] # Absent)
               => \/ records'[k].createdAt > records[k].createdAt
                  \/ /\ Historic(records'[k])
                     /\ \/ records'[k].state = records[k].state
                        \/ records'[k].scheduledOn # records[k].scheduledOn]_storeVars
  BY <1>1
<1> QED BY <1>2, StoreTypeCorrect, PTL DEF StoreSpec, TerminalIsFinal

\* The generation of a record never goes back, and within a generation and a
\* provenance neither does its state.
THEOREM StoreNeverGoesBack == StoreSpec => NeverBackwards
<1>1. ASSUME TypeOK, [StoreNext]_storeVars, NEW k \in Key,
             records[k] # Absent, records'[k] # Absent
      PROVE  /\ records'[k].createdAt >= records[k].createdAt
             /\ (/\ records'[k].createdAt = records[k].createdAt
                 /\ records'[k].inferred = records[k].inferred)
                  => rank(records'[k].state) >= rank(records[k].state)
  <2>1. records[k] \in Record /\ clock \in Nat
    BY <1>1 DEF TypeOK
  <2>2. CASE records'[k] = records[k]
    <3>1. records[k].createdAt \in Nat /\ rank(records[k].state) \in Nat
      BY <2>1 DEF Record, rank, IsTerminal, States
    <3> QED BY <2>2, <3>1
  <2>3. ASSUME NEW e \in Event, NEW i \in BOOLEAN,
               records'[k] = applyLocked(records[k], e, i, clock)
        PROVE  /\ records'[k].createdAt >= records[k].createdAt
               /\ (/\ records'[k].createdAt = records[k].createdAt
                   /\ records'[k].inferred = records[k].inferred)
                    => rank(records'[k].state) >= rank(records[k].state)
    BY <2>1, <2>3, MergeForward
  <2> QED BY <1>1, <2>2, <2>3, StepShape
<1>2. TypeOK /\ [StoreNext]_storeVars
        => [\A k \in Key :
              (records[k] # Absent /\ records'[k] # Absent)
                 => /\ records'[k].createdAt >= records[k].createdAt
                    /\ (/\ records'[k].createdAt = records[k].createdAt
                        /\ records'[k].inferred = records[k].inferred)
                         => rank(records'[k].state) >= rank(records[k].state)]_storeVars
  BY <1>1
<1> QED BY <1>2, StoreTypeCorrect, PTL DEF StoreSpec, NeverBackwards

-----------------------------------------------------------------------------
(* The silence sweep.                                                      *)

\* The strengthening: an authoritative record carries the time its origin was
\* last heard; a waiting silence guess concerns another node's workload, was
\* selected after StaleAfter of silence, and, while the record still carries
\* the sighting it was selected on, that sighting is the latest one.  Guesses
\* are failures, so a live record is authoritative.
SilenceInv ==
  /\ \A k \in Key : (records[k] # Absent /\ ~records[k].inferred)
                        => records[k].lastSeen = heard[k]
  /\ \A p \in stalePicks :
       /\ Origin[p.key] # Self
       /\ clock - p.seenAt >= StaleAfter
       /\ (records[p.key] # Absent /\ records[p.key].lastSeen = p.seenAt)
             => heard[p.key] = p.seenAt
  /\ \A k \in Key : (records[k] # Absent /\ records[k].inferred) => IsTerminal(records[k].state)
  /\ \A p \in lossPicks \cup stalePicks : p.event.state = "failed"

\* A sighting leaves an authoritative record that carries the clock.
LEMMA EventSighting ==
  ASSUME NEW cur \in Record \cup {Absent}, NEW in \in Event, NEW now \in Nat,
         NEW new, new = applyLocked(cur, in, FALSE, now), Sights(cur, in, FALSE)
  PROVE  new \in Record /\ new.inferred = FALSE /\ new.lastSeen = now
<1>1. completionOrder(in, now) \in Nat
  BY DEF completionOrder, Event
<1>2. CASE Accepts(cur, in, FALSE)
  BY <1>1, <1>2 DEF applyLocked, putLocked, Record, Event
<1>3. CASE ~Accepts(cur, in, FALSE)
  <2>1. cur \in Record /\ cur # Absent
    BY <1>3 DEF Accepts
  <2>2. new = [cur EXCEPT !.lastSeen = now]
    BY <1>3 DEF applyLocked
  <2>3. in.createdAt = cur.createdAt
    BY <1>3, <2>1 DEF Accepts, Sights, Record, Event
  <2>4. cur.inferred = FALSE
    BY <1>3, <2>1, <2>3 DEF Accepts, Record
  <2> QED BY <2>1, <2>2, <2>4 DEF Record
<1> QED BY <1>2, <1>3

\* An authoritative event that is no sighting changes nothing.
LEMMA EventUnseen ==
  ASSUME NEW cur \in Record \cup {Absent}, NEW in \in Event, NEW now \in Nat,
         ~Sights(cur, in, FALSE)
  PROVE  applyLocked(cur, in, FALSE, now) = cur
<1>1. ~Accepts(cur, in, FALSE)
  BY DEF Accepts, Sights, Record, Event
<1> QED BY <1>1 DEF applyLocked

\* A guess of failure that is stored leaves an inferred terminal.
LEMMA GuessStored ==
  ASSUME NEW cur \in Record \cup {Absent}, NEW in \in Event, NEW now \in Nat,
         in.state = "failed",
         NEW new, new = applyLocked(cur, in, TRUE, now), new # cur
  PROVE  new.inferred = TRUE /\ IsTerminal(new.state)
<1>1. Accepts(cur, in, TRUE)
  BY DEF applyLocked, Sights
<1> QED BY <1>1 DEF applyLocked, putLocked, IsTerminal

\* A guess never changes the sighting of a record that exists ...
LEMMA GuessKeepsSighting ==
  ASSUME NEW cur \in Record, NEW in \in Event, NEW now \in Nat
  PROVE  applyLocked(cur, in, TRUE, now).lastSeen = cur.lastSeen
<1>1. cur # Absent
  BY AbsentAssumption
<1>2. CASE Accepts(cur, in, TRUE)
  BY <1>1, <1>2 DEF applyLocked, putLocked
<1>3. CASE ~Accepts(cur, in, TRUE)
  BY <1>3 DEF applyLocked, Sights
<1> QED BY <1>2, <1>3

\* ... and a record it creates carries the clock.
LEMMA GuessCreates ==
  ASSUME NEW in \in Event, NEW now \in Nat
  PROVE  applyLocked(Absent, in, TRUE, now).lastSeen = now
  BY DEF applyLocked, putLocked, Accepts

\* Applying one waiting guess, of either sweep, keeps the strengthening.
LEMMA GuessKeepsSilence ==
  ASSUME TypeOK, SilenceInv, NEW k \in Key, NEW e \in Event, e.state = "failed",
         records' = [records EXCEPT ![k] = applyLocked(records[k], e, TRUE, clock)],
         lossPicks' \subseteq lossPicks, stalePicks' \subseteq stalePicks,
         UNCHANGED <<clock, heard>>
  PROVE  SilenceInv'
<1>0. /\ records \in [Key -> Record \cup {Absent}] /\ clock \in Nat
      /\ records[k] \in Record \cup {Absent}
  BY DEF TypeOK
<1>1. records'[k] = applyLocked(records[k], e, TRUE, clock)
  BY <1>0
<1>2. \A l \in Key : l # k => records'[l] = records[l]
  BY <1>0
<1>3. /\ records'[k] # records[k] => records'[k].inferred = TRUE /\ IsTerminal(records'[k].state)
      /\ records[k] = Absent => records'[k].lastSeen = clock
      /\ records[k] # Absent => records'[k].lastSeen = records[k].lastSeen
  <2>1. /\ records[k] = Absent => records'[k].lastSeen = clock
        /\ records[k] # Absent => records'[k].lastSeen = records[k].lastSeen
    <3>1. CASE records[k] = Absent
      BY <1>0, <1>1, <3>1, GuessCreates
    <3>2. CASE records[k] # Absent
      BY <1>0, <1>1, <3>2, GuessKeepsSighting
    <3> QED BY <3>1, <3>2
  <2>2. CASE records'[k] # records[k]
    <3>1. records'[k].inferred = TRUE /\ IsTerminal(records'[k].state)
      BY <1>0, <1>1, <2>2, GuessStored
    <3> QED BY <2>1, <3>1
  <2>3. CASE records'[k] = records[k]
    BY <2>1, <2>3
  <2> QED BY <2>2, <2>3
<1>4. ASSUME NEW l \in Key, records'[l] # Absent, ~records'[l].inferred
      PROVE  records'[l].lastSeen = heard'[l]
  <2>1. records'[l] = records[l]
    BY <1>2, <1>3, <1>4
  <2> QED BY <1>4, <2>1 DEF SilenceInv
<1>5. ASSUME NEW l \in Key, records'[l] # Absent, records'[l].inferred
      PROVE  IsTerminal(records'[l].state)
  <2>1. CASE records'[l] = records[l]
    BY <1>5, <2>1 DEF SilenceInv
  <2>2. CASE records'[l] # records[l]
    BY <1>2, <1>3, <2>2
  <2> QED BY <2>1, <2>2
<1>6. ASSUME NEW p \in stalePicks'
      PROVE  /\ Origin[p.key] # Self
             /\ clock' - p.seenAt >= StaleAfter
             /\ (records'[p.key] # Absent /\ records'[p.key].lastSeen = p.seenAt)
                   => heard'[p.key] = p.seenAt
  <2>1. /\ p \in stalePicks /\ p.key \in Key /\ p.seenAt \in Nat
        /\ Origin[p.key] # Self /\ clock - p.seenAt >= StaleAfter
    BY DEF TypeOK, StalePicks, SilenceInv
  <2>2. clock # p.seenAt
    BY <1>0, <2>1, StoreAssumption
  <2>3. CASE p.key = k /\ records[k] = Absent
    BY <1>3, <2>1, <2>2, <2>3
  <2>4. CASE p.key # k \/ records[k] # Absent
    <3>1. /\ records'[p.key].lastSeen = records[p.key].lastSeen
          /\ records'[p.key] # Absent => records[p.key] # Absent
      BY <1>2, <1>3, <2>1, <2>4
    <3> QED BY <2>1, <3>1 DEF SilenceInv
  <2> QED BY <2>3, <2>4
<1>7. \A p \in lossPicks' \cup stalePicks' : p.event.state = "failed"
  BY DEF SilenceInv
<1> QED BY <1>4, <1>5, <1>6, <1>7 DEF SilenceInv

LEMMA SilenceStep ==
  ASSUME TypeOK, SilenceInv, [StoreNext]_storeVars
  PROVE  SilenceInv'
<1>0. /\ records \in [Key -> Record \cup {Absent}] /\ clock \in Nat
      /\ heard \in [Key -> Nat]
      /\ \A p \in lossPicks : p.key \in Key /\ p.event \in Event
      /\ \A p \in stalePicks : p.key \in Key /\ p.event \in Event /\ p.seenAt \in Nat
  BY DEF TypeOK, Picks, StalePicks
<1>1. CASE Tick
  <2>1. ASSUME NEW p \in stalePicks
        PROVE  clock' - p.seenAt >= StaleAfter
    BY <1>0, <1>1, StoreAssumption DEF Tick, SilenceInv
  <2> QED BY <1>1, <2>1 DEF Tick, SilenceInv
<1>2. ASSUME NEW k \in Key, NEW e \in Incoming, Apply(k, e)
      PROVE  SilenceInv'
  <2>1. e \in Event
    BY <1>0, IncomingType
  <2>2. /\ records'[k] = applyLocked(records[k], e, FALSE, clock)
        /\ \A l \in Key : l # k => records'[l] = records[l] /\ heard'[l] = heard[l]
    BY <1>0, <1>2 DEF Apply
  <2>3. CASE ~Sights(records[k], e, FALSE)
    <3>1. records'[k] = records[k]
      BY <1>0, <2>1, <2>2, <2>3, EventUnseen
    <3>2. heard' = heard
      BY <1>2, <2>3 DEF Apply
    <3>3. \A l \in Key : records'[l] = records[l]
      BY <2>2, <3>1
    <3>4. UNCHANGED <<clock, lossPicks, stalePicks>>
      BY <1>2 DEF Apply
    <3> QED BY <1>0, <3>2, <3>3, <3>4 DEF SilenceInv
  <2>4. CASE Sights(records[k], e, FALSE)
    <3>1. records'[k] # Absent /\ records'[k].inferred = FALSE /\ records'[k].lastSeen = clock
      <4>1. records'[k] \in Record /\ records'[k].inferred = FALSE /\ records'[k].lastSeen = clock
        BY <1>0, <2>1, <2>2, <2>4, EventSighting
      <4> QED BY <4>1, AbsentAssumption
    <3>2. heard'[k] = clock
      BY <1>0, <1>2, <2>4 DEF Apply
    <3> QED BY <1>0, <1>2, <2>2, <3>1, <3>2 DEF SilenceInv, Apply
  <2> QED BY <2>3, <2>4
<1>3. ASSUME NEW k \in Key, Remove(k)
      PROVE  SilenceInv'
  <2>1. \A l \in Key : records'[l] = Absent \/ records'[l] = records[l]
    BY <1>3 DEF Remove
  <2> QED BY <1>0, <1>3, <2>1 DEF SilenceInv, Remove
<1>4. ASSUME NEW n \in Node, SelectLost(n)
      PROVE  SilenceInv'
  <2>1. \A k \in ActiveForNode(n) : markWorkloadFailed(records[k]).state = "failed"
    BY DEF markWorkloadFailed, EventOf
  <2>2. \A p \in lossPicks' : p.event.state = "failed"
    BY <1>4, <2>1 DEF SelectLost, SilenceInv
  <2> QED BY <1>4, <2>2 DEF SelectLost, SilenceInv
<1>5. ASSUME NEW p \in lossPicks, ApplyInferred(p)
      PROVE  SilenceInv'
  <2>1. p.event.state = "failed"
    BY DEF SilenceInv
  <2> QED BY <1>0, <1>5, <2>1, GuessKeepsSilence DEF ApplyInferred
<1>6. CASE SelectStale
  <2>1. ASSUME NEW k \in StaleForeign
        PROVE  /\ markWorkloadFailed(records[k]).state = "failed"
               /\ Origin[k] # Self /\ clock - records[k].lastSeen >= StaleAfter
               /\ heard[k] = records[k].lastSeen
    <3>1. k \in Key /\ records[k] # Absent /\ ~IsTerminal(records[k].state)
      BY DEF StaleForeign, Live
    <3>2. ~records[k].inferred
      BY <3>1 DEF SilenceInv
    <3>3. heard[k] = records[k].lastSeen
      BY <3>1, <3>2 DEF SilenceInv
    <3>4. markWorkloadFailed(records[k]).state = "failed"
      BY DEF markWorkloadFailed, EventOf
    <3> QED BY <3>3, <3>4 DEF StaleForeign
  <2>2. ASSUME NEW p \in stalePicks'
        PROVE  /\ p.event.state = "failed" /\ Origin[p.key] # Self
               /\ clock' - p.seenAt >= StaleAfter /\ heard'[p.key] = p.seenAt
    BY <1>6, <2>1 DEF SelectStale
  <2> QED BY <1>6, <2>2 DEF SelectStale, SilenceInv
<1>7. ASSUME NEW p \in stalePicks, ApplyInferredUnchangedSince(p)
      PROVE  SilenceInv'
  <2>1. CASE UnchangedSince(p)
    <3>1. p.event.state = "failed"
      BY DEF SilenceInv
    <3> QED BY <1>0, <1>7, <2>1, <3>1, GuessKeepsSilence DEF ApplyInferredUnchangedSince
  <2>2. CASE ~UnchangedSince(p)
    BY <1>7, <2>2 DEF ApplyInferredUnchangedSince, SilenceInv
  <2> QED BY <2>1, <2>2
<1>8. CASE UNCHANGED storeVars
  BY <1>8 DEF storeVars, SilenceInv
<1> QED BY <1>1, <1>2, <1>3, <1>4, <1>5, <1>6, <1>7, <1>8 DEF StoreNext

\* The silence sweep fails a workload only of another node, and only when that
\* node has said nothing about it for StaleAfter, however long the guess
\* waited between its selection and its application.
THEOREM SilenceSweepIsSound == StoreSpec => SilenceIsReal
<1>1. StoreInit => SilenceInv
  BY DEF StoreInit, SilenceInv
<1>2. ASSUME TypeOK, SilenceInv, [StoreNext]_storeVars, NEW k \in Key,
             lossPicks' = lossPicks, records'[k] # records[k],
             records'[k] # Absent, records'[k].inferred
      PROVE  Origin[k] # Self /\ clock - heard[k] >= StaleAfter
  <2>0. /\ records \in [Key -> Record \cup {Absent}] /\ clock \in Nat
        /\ \A p \in stalePicks : p.key \in Key
    BY <1>2 DEF TypeOK, StalePicks
  <2>1. ASSUME NEW l \in Key, NEW e \in Incoming, Apply(l, e)
        PROVE  FALSE
    <3>1. e \in Event /\ records[k] \in Record \cup {Absent}
      BY <2>0, IncomingType
    <3>2. records'[k] = applyLocked(records[k], e, FALSE, clock)
      BY <1>2, <2>0, <2>1 DEF Apply
    <3>3. Sights(records[k], e, FALSE)
      BY <1>2, <2>0, <3>1, <3>2, EventUnseen
    <3>4. records'[k].inferred = FALSE
      BY <2>0, <3>1, <3>2, <3>3, EventSighting
    <3> QED BY <1>2, <3>4
  <2>2. ASSUME NEW l \in Key, Remove(l)
        PROVE  FALSE
    BY <1>2, <2>2 DEF Remove
  <2>3. ASSUME NEW p \in lossPicks, ApplyInferred(p)
        PROVE  FALSE
    BY <1>2, <2>3 DEF ApplyInferred
  <2>4. ASSUME NEW p \in stalePicks, ApplyInferredUnchangedSince(p)
        PROVE  Origin[k] # Self /\ clock - heard[k] >= StaleAfter
    <3>1. k = p.key /\ UnchangedSince(p)
      BY <1>2, <2>0, <2>4 DEF ApplyInferredUnchangedSince
    <3>2. heard[k] = p.seenAt
      BY <1>2, <3>1 DEF SilenceInv, UnchangedSince
    <3> QED BY <1>2, <3>1, <3>2 DEF SilenceInv
  <2>5. CASE Tick \/ SelectStale \/ (\E n \in Node : SelectLost(n)) \/ UNCHANGED storeVars
    BY <1>2, <2>5 DEF Tick, SelectStale, SelectLost, storeVars
  <2> QED BY <1>2, <2>1, <2>2, <2>3, <2>4, <2>5 DEF StoreNext
<1>3. TypeOK /\ SilenceInv /\ [StoreNext]_storeVars
        => [\A k \in Key :
              (/\ lossPicks' = lossPicks
               /\ records'[k] # records[k]
               /\ records'[k] # Absent
               /\ records'[k].inferred)
                 => /\ Origin[k] # Self
                    /\ clock - heard[k] >= StaleAfter]_storeVars
  BY <1>2
<1>4. TypeOK /\ SilenceInv /\ [StoreNext]_storeVars => SilenceInv'
  BY SilenceStep
<1> QED BY <1>1, <1>3, <1>4, StoreTypeCorrect, PTL DEF StoreSpec, SilenceIsReal

=============================================================================
