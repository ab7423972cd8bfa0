----------------------------- MODULE DedupIndex -----------------------------
(***************************************************************************)
(* The receiving side of a workload broadcast: the bounded LRU index that  *)
(* lets an event reach the broker once, under concurrent HTTP requests     *)
(* (senders retry after a timeout, so the same event is often handled by   *)
(* two requests at a time) and failing broker writes.                      *)
(***************************************************************************)
EXTENDS Naturals, Sequences, FiniteSets

CONSTANTS Req,      \* HTTP requests
          Id,       \* dedup keys (keyLifecycle, keyRemove)
          Capacity  \* size of the index

ASSUME DedupAssumption == Capacity \in Nat \ {0}

VARIABLES
  pc,       \* where each request is: new, check, wait, emit, duplicate, emitted, failed
  want,     \* the key each request carries
  items,    \* the index, most recently seen first
  inFlight, \* keys being emitted
  emitted,  \* ghost: events of each key the broker received
  evicted   \* ghost: times each key fell out of the index

dedupVars == <<pc, want, items, inFlight, emitted, evicted>>

Answered == {"duplicate", "emitted", "failed"}

Indexed == {items[i] : i \in DOMAIN items}
Without(k) == SelectSeq(items, LAMBDA x : x # k)

DedupInit ==
  /\ pc = [r \in Req |-> "new"]
  /\ want \in [Req -> Id]
  /\ items = <<>>
  /\ inFlight = {}
  /\ emitted = [k \in Id |-> 0]
  /\ evicted = [k \in Id |-> 0]

\* A request arrives.
Arrive(r) ==
  /\ pc[r] = "new"
  /\ pc' = [pc EXCEPT ![r] = "check"]
  /\ UNCHANGED <<want, items, inFlight, emitted, evicted>>

\* Mutant: the index is consulted, the emit in progress is not.
CheckIgnoringInFlight(r) ==
  LET k == want[r]
  IN /\ pc[r] = "check"
     /\ \/ /\ k \in Indexed
           /\ items' = <<k>> \o Without(k)
           /\ pc' = [pc EXCEPT ![r] = "duplicate"]
           /\ UNCHANGED inFlight
        \/ /\ k \notin Indexed
           /\ inFlight' = inFlight \cup {k}
           /\ pc' = [pc EXCEPT ![r] = "emit"]
           /\ UNCHANGED items
     /\ UNCHANGED <<want, emitted, evicted>>

\* Mutant: a request that finds an emit in progress is answered at once.
CheckNotWaiting(r) ==
  LET k == want[r]
  IN /\ pc[r] = "check"
     /\ \/ /\ k \in Indexed \cup inFlight
           /\ pc' = [pc EXCEPT ![r] = "duplicate"]
           /\ UNCHANGED <<items, inFlight>>
        \/ /\ k \notin Indexed \cup inFlight
           /\ inFlight' = inFlight \cup {k}
           /\ pc' = [pc EXCEPT ![r] = "emit"]
           /\ UNCHANGED items
     /\ UNCHANGED <<want, emitted, evicted>>

\* The locked head of emitOnce's loop.
emitOnce(r) ==
  LET k == want[r]
  IN /\ pc[r] = "check"
     /\ \/ /\ k \in Indexed
           /\ items' = <<k>> \o Without(k)
           /\ pc' = [pc EXCEPT ![r] = "duplicate"]
           /\ UNCHANGED inFlight
        \/ /\ k \notin Indexed
           /\ k \in inFlight
           /\ pc' = [pc EXCEPT ![r] = "wait"]
           /\ UNCHANGED <<items, inFlight>>
        \/ /\ k \notin Indexed \cup inFlight
           /\ inFlight' = inFlight \cup {k}
           /\ pc' = [pc EXCEPT ![r] = "emit"]
           /\ UNCHANGED items
     /\ UNCHANGED <<want, emitted, evicted>>

\* close(done): every request waiting for this emit looks again.
Released(r, result) ==
  [q \in Req |-> IF q = r THEN result
                 ELSE IF pc[q] = "wait" /\ want[q] = want[r] THEN "check"
                 ELSE pc[q]]

\* Mutant: the oldest key is not evicted.
AddUnbounded(k) == <<k>> \o items

\* addLocked: record the key, evict the least recently seen beyond capacity.
addLocked(k) == SubSeq(<<k>> \o items, 1, IF Len(items) < Capacity
                                          THEN Len(items) + 1 ELSE Capacity)

\* The broker write succeeded.
EmitSucceeds(r) ==
  LET k == want[r]
      out == {x \in Indexed : x \notin {addLocked(k)[i] : i \in DOMAIN addLocked(k)}}
  IN /\ pc[r] = "emit"
     /\ items' = addLocked(k)
     /\ inFlight' = inFlight \ {k}
     /\ emitted' = [emitted EXCEPT ![k] = @ + 1]
     /\ evicted' = [x \in Id |-> IF x \in out THEN evicted[x] + 1 ELSE evicted[x]]
     /\ pc' = Released(r, "emitted")
     /\ UNCHANGED want

\* Mutant: a failing emit leaves the key marked as in flight.
EmitFailsHolding(r) ==
  /\ pc[r] = "emit"
  /\ pc' = [pc EXCEPT ![r] = "failed"]
  /\ UNCHANGED <<want, items, inFlight, emitted, evicted>>

\* The broker write failed, or the emitter panicked: the key stays absent.
EmitFails(r) ==
  /\ pc[r] = "emit"
  /\ inFlight' = inFlight \ {want[r]}
  /\ pc' = Released(r, "failed")
  /\ UNCHANGED <<want, items, emitted, evicted>>

DedupNext == \E r \in Req : Arrive(r) \/ emitOnce(r) \/ EmitSucceeds(r) \/ EmitFails(r)

\* Handlers are goroutines and a write to the broker returns at last.
DedupFairness ==
  \A r \in Req : /\ WF_dedupVars(emitOnce(r))
                 /\ WF_dedupVars(EmitSucceeds(r) \/ EmitFails(r))

DedupSpec == DedupInit /\ [][DedupNext]_dedupVars /\ DedupFairness

-----------------------------------------------------------------------------
(* Properties.                                                             *)

\* The index holds distinct keys within its capacity.
DedupTypeOK ==
  /\ pc \in [Req -> {"new", "check", "wait", "emit"} \cup Answered]
  /\ want \in [Req -> Id]
  /\ Len(items) <= Capacity
  /\ \A i, j \in DOMAIN items : items[i] \in Id /\ (items[i] = items[j] => i = j)
  /\ inFlight \subseteq Id
  /\ emitted \in [Id -> Nat]
  /\ evicted \in [Id -> Nat]

\* An event reaches the broker at most once for each stay of its key in the
\* index, whatever the number of requests that carry it at the same time.
EmittedOnce == \A k \in Id : emitted[k] <= evicted[k] + 1

\* "Duplicate" is only answered for an event the broker really received: a
\* sender never stops retrying because of an emit that failed.
DuplicateWasEmitted == \A r \in Req : pc[r] = "duplicate" => emitted[want[r]] > 0

\* A request that waits for another one's emit is always woken and answered.
EventuallyAnswered == \A r \in Req : (pc[r] # "new") ~> (pc[r] \in Answered)

=============================================================================
