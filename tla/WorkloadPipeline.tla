-------------------------- MODULE WorkloadPipeline --------------------------
(***************************************************************************)
(* The life of a workload from the proxy that runs it to the broker of     *)
(* another node: the composition of a proxy, the origin's broker and       *)
(* workload-manager, the network, and the peer's workload-manager and      *)
(* broker.  One origin and one peer suffice: peers do not talk to each     *)
(* other about workloads (the origin is the single writer).                *)
(*                                                                         *)
(*   proxy --> origin store --> re-sync set + broadcast queue              *)
(*                                   |  ordered, bounded, lossy            *)
(*                                   v                                     *)
(*                 requests in flight (late, lost, delivered twice)        *)
(*                                   |                                     *)
(*                                   v                                     *)
(*                 peer's dedup index --> peer store <-- sweeps            *)
(*                                                                         *)
(* Records are merged by WorkloadMerge.  Every record has one generation   *)
(* here and the clock is abstracted to quiet, the ticks of silence since   *)
(* the peer last heard of a workload, so time needs no bound.              *)
(***************************************************************************)
EXTENDS WorkloadMerge, Sequences, FiniteSets

CONSTANTS Key,        \* workloads of the origin
          Executors,  \* the nodes the origin's proxy places them on
          QueueDepth, \* broadcastQueueDepth
          Retention,  \* heartbeats that re-assert a terminal
          StaleAfter, \* workloadOriginSilenceTimeout, in ticks
          MaxFlight,  \* bound on requests in flight at once
          MaxCrashes  \* bound on restarts of the origin's processes

ASSUME PipelineAssumption ==
  /\ Executors \subseteq Node
  /\ QueueDepth \in Nat /\ Retention \in Nat /\ StaleAfter \in Nat
  /\ MaxFlight \in Nat /\ MaxCrashes \in Nat

VARIABLES
  job,     \* what the proxy knows: the truth about each workload
  repoint, \* re-points decided under wlMu and emitted after its release
  ostore,  \* the origin broker's store
  active,  \* the origin manager's re-sync set (activeLocal)
  queue,   \* its broadcast queue (broadcastCh)
  flight,  \* requests sent and not settled
  dedup,   \* the peer manager's dedup index
  pstore,  \* the peer broker's store
  quiet,   \* ticks since the peer heard the origin about a workload
  stale,   \* silence guesses the peer selected that would still apply
  lost,    \* node-loss guesses the peer selected
  crashes  \* restarts so far

vars == <<job, repoint, ostore, active, queue, flight, dedup, pstore, quiet,
          stale, lost, crashes>>

NoJob == [state |-> "none", on |-> CHOOSE n \in Executors : TRUE]
NoEntry == [state |-> "none", on |-> CHOOSE n \in Executors : TRUE, ttl |-> 0]

JobStates == {"none", "running", "completed", "failed", "gone"}
Frame == [key : Key, state : {"running", "completed", "failed"}, on : Executors, resync : BOOLEAN]

EventFor(s, n) == [state |-> s, createdAt |-> 1, scheduledOn |-> n, completedAt |-> 0]
Merge(cur, s, n, inferred) == applyLocked(cur, EventFor(s, n), inferred, 0)

\* Has the workload ended, whether or not anyone is left to say so?
Over(k) == job[k].state \in {"completed", "failed", "gone"}

\* Has the proxy reported its end?
Concluded(k) == job[k].state \in {"completed", "failed"}

Init ==
  /\ job = [k \in Key |-> NoJob]
  /\ repoint = {}
  /\ ostore = [k \in Key |-> Absent]
  /\ active = [k \in Key |-> NoEntry]
  /\ queue = <<>>
  /\ flight = {}
  /\ dedup = {}
  /\ pstore = [k \in Key |-> Absent]
  /\ quiet = [k \in Key |-> 0]
  /\ stale = {}
  /\ lost = {}
  /\ crashes = 0

-----------------------------------------------------------------------------
(* The origin.                                                             *)

\* Mutant: the queue is not bounded.
BroadcastUnbounded(q, f) == Append(q, f)

\* broadcastFrame: a full queue drops the new frame.
broadcastFrame(q, f) == IF Len(q) < QueueDepth THEN Append(q, f) ELSE q

\* Mutant: a late non-terminal replaces the terminal and its expiry.
TrackAlways(cur, s, n) == [state |-> s, on |-> n, ttl |-> IF IsTerminal(s) THEN Retention ELSE 0]

\* trackActive: a non-terminal never replaces a terminal.
trackActive(cur, s, n) ==
  IF IsTerminal(cur.state) /\ ~IsTerminal(s) THEN cur
  ELSE [state |-> s, on |-> n, ttl |-> IF IsTerminal(s) THEN Retention ELSE 0]

\* routeProxyWorkload, then handleLocalLifecycle: the store first, then the
\* re-sync set, then the queue.  The frame goes out even when the re-sync set
\* ignored it.
Report(k, s, n) ==
  /\ ostore' = [ostore EXCEPT ![k] = Merge(@, s, n, FALSE)]
  /\ active' = [active EXCEPT ![k] = trackActive(@, s, n)]
  /\ queue' = broadcastFrame(queue, [key |-> k, state |-> s, on |-> n, resync |-> FALSE])

\* The proxy starts forwarding a request.
Start(k, n) ==
  /\ job[k].state = "none"
  /\ job' = [job EXCEPT ![k] = [state |-> "running", on |-> n]]
  /\ Report(k, "running", n)
  /\ UNCHANGED <<repoint, flight, dedup, pstore, quiet, stale, lost, crashes>>

\* Failover commits another node: scheduledOn is re-pointed under wlMu ...
Repoint(k, n) ==
  /\ job[k].state = "running"
  /\ job[k].on # n
  /\ repoint = {}
  /\ job' = [job EXCEPT ![k].on = n]
  /\ repoint' = {<<k, n>>}
  /\ UNCHANGED <<ostore, active, queue, flight, dedup, pstore, quiet, stale,
                 lost, crashes>>

\* ... and emitted after wlMu is released, maybe behind the terminal.
EmitRepoint ==
  \E r \in repoint :
    /\ repoint' = {}
    /\ Report(r[1], "running", r[2])
    /\ UNCHANGED <<job, flight, dedup, pstore, quiet, stale, lost, crashes>>

\* A re-point in the making.  It is written to the broker within moments, a
\* terminal is retained for a minute: no terminal ages out in between.
Pending(k) == \E r \in repoint : r[1] = k

\* The request completes or errors; terminalOnce emits exactly one of the two.
Finish(k, s) ==
  /\ job[k].state = "running"
  /\ job' = [job EXCEPT ![k].state = s]
  /\ Report(k, s, job[k].on)
  /\ UNCHANGED <<repoint, flight, dedup, pstore, quiet, stale, lost, crashes>>

\* failWorkloadsForNode at the origin: the executor left its discovery.
OriginGuess(k) ==
  /\ Live(ostore[k])
  /\ ostore' = [ostore EXCEPT ![k] = Merge(@, "failed", @.scheduledOn, TRUE)]
  /\ UNCHANGED <<job, repoint, active, queue, flight, dedup, pstore, quiet,
                 stale, lost, crashes>>

\* Frames for a set of workloads, in any order, appended while there is room.
Enqueued(q, fs) ==
  {LET room == QueueDepth - Len(q)
   IN q \o SubSeq(s, 1, IF Len(s) <= room THEN Len(s) ELSE room)
   : s \in {t \in [1..Cardinality(fs) -> fs] : \A i, j \in DOMAIN t : t[i] = t[j] => i = j}}

\* Mutant: a re-sync frame is not marked as one.
ResyncFrameUnmarked(k, e) == [key |-> k, state |-> e.state, on |-> e.on, resync |-> FALSE]

\* broadcastResync: the frame it sends for an entry of the re-sync set.
ResyncFrame(k, e) == [key |-> k, state |-> e.state, on |-> e.on, resync |-> TRUE]

\* resyncLoop: re-assert the re-sync set, expired terminals pruned first.  The
\* same snapshot backfills a newly discovered peer.
Heartbeat ==
  LET known == {k \in Key : active[k].state # "none"}
      kept  == {k \in known : IsTerminal(active[k].state) => active[k].ttl > 0}
  IN /\ known # {}
     /\ \A k \in known \ kept : ~Pending(k)
     /\ queue' \in Enqueued(queue, {ResyncFrame(k, active[k]) : k \in kept})
     /\ active' = [k \in Key |->
          IF k \in known \ kept THEN NoEntry
          ELSE IF k \in kept /\ IsTerminal(active[k].state)
               THEN [active[k] EXCEPT !.ttl = @ - 1]
               ELSE active[k]]
     /\ UNCHANGED <<job, repoint, ostore, flight, dedup, pstore, quiet, stale,
                    lost, crashes>>

\* Mutant: guessed failures are replayed with the rest.
ManagerRestartReplayingGuesses ==
  LET live == {k \in Key : Live(ostore[k])}
      done == {k \in Key : ostore[k] # Absent /\ IsTerminal(ostore[k].state)}
  IN /\ crashes < MaxCrashes
     /\ crashes' = crashes + 1
     /\ \E recent \in SUBSET done :
          /\ \A k \in done \ recent : ~Pending(k)
          /\ active' = [k \in Key |->
               IF k \in live \cup recent
               THEN trackActive(NoEntry, ostore[k].state, ostore[k].scheduledOn)
               ELSE NoEntry]
          /\ queue' \in Enqueued(<<>>,
               {[key |-> k, state |-> ostore[k].state, on |-> ostore[k].scheduledOn,
                 resync |-> FALSE] : k \in live \cup recent})
     /\ UNCHANGED <<job, repoint, ostore, flight, dedup, pstore, quiet, stale,
                    lost>>

\* The manager dies and is respawned: rehydrateWorkloadManager replays the
\* store's own records (ReplayForNode: live ones, and terminals recent enough,
\* never a guess) as ordinary lifecycle events.
ManagerRestart ==
  LET live == {k \in Key : Live(ostore[k])}
      done == {k \in Key : Historic(ostore[k])}
  IN /\ crashes < MaxCrashes
     /\ crashes' = crashes + 1
     /\ \E recent \in SUBSET done :
          /\ \A k \in done \ recent : ~Pending(k)
          /\ active' = [k \in Key |->
               IF k \in live \cup recent
               THEN trackActive(NoEntry, ostore[k].state, ostore[k].scheduledOn)
               ELSE NoEntry]
          /\ queue' \in Enqueued(<<>>,
               {[key |-> k, state |-> ostore[k].state, on |-> ostore[k].scheduledOn,
                 resync |-> FALSE] : k \in live \cup recent})
     /\ UNCHANGED <<job, repoint, ostore, flight, dedup, pstore, quiet, stale,
                    lost>>

\* The proxy alone dies and is respawned: its requests end unheard and a
\* re-point it had not written is lost.  supervisedWorkerCallbacks clears the
\* handle and reports the crash; nothing touches the workloads, so store and
\* re-sync set go on calling them running.
ProxyCrash ==
  /\ crashes < MaxCrashes
  /\ crashes' = crashes + 1
  /\ job' = [k \in Key |-> IF job[k].state = "running"
                           THEN [job[k] EXCEPT !.state = "gone"] ELSE job[k]]
  /\ repoint' = {}
  /\ UNCHANGED <<ostore, active, queue, flight, dedup, pstore, quiet, stale, lost>>

\* The origin's broker dies with its children: running requests end unheard,
\* and of its store only flushed history comes back.
OriginRestart ==
  /\ crashes < MaxCrashes
  /\ crashes' = crashes + 1
  /\ job' = [k \in Key |-> IF job[k].state = "running"
                           THEN [job[k] EXCEPT !.state = "gone"] ELSE job[k]]
  /\ \E flushed \in SUBSET {k \in Key : Historic(ostore[k])} :
       ostore' = [k \in Key |-> IF k \in flushed THEN ostore[k] ELSE Absent]
  /\ repoint' = {}
  /\ active' = [k \in Key |-> NoEntry]
  /\ queue' = <<>>
  /\ UNCHANGED <<flight, dedup, pstore, quiet, stale, lost>>

-----------------------------------------------------------------------------
(* The network.                                                            *)

\* broadcastLoop takes the next frame; its request is now on the wire.  A
\* request that timed out may still be handled late, so several can be.
Send ==
  /\ queue # <<>>
  /\ Cardinality(flight) < MaxFlight
  /\ queue' = Tail(queue)
  /\ flight' = flight \cup {Head(queue)}
  /\ UNCHANGED <<job, repoint, ostore, active, dedup, pstore, quiet, stale,
                 lost, crashes>>

\* Every attempt failed: the frame is dropped for this peer.
Drop(f) ==
  /\ flight' = flight \ {f}
  /\ UNCHANGED <<job, repoint, ostore, active, queue, dedup, pstore, quiet,
                 stale, lost, crashes>>

-----------------------------------------------------------------------------
(* The peer.                                                               *)

\* handleLifecycle at the peer: a frame already seen is answered and dropped,
\* a re-sync frame always reaches the broker.  again: the sender did not see
\* the answer and will send the frame once more.
Handle(f, again) ==
  LET id  == <<f.key, f.state>>
      e   == EventFor(f.state, f.on)
      cur == pstore[f.key]
  IN /\ flight' = IF again THEN flight ELSE flight \ {f}
     /\ dedup' = IF f.resync THEN dedup ELSE dedup \cup {id}
     /\ IF ~f.resync /\ id \in dedup
        THEN UNCHANGED <<pstore, quiet, stale>>
        ELSE /\ pstore' = [pstore EXCEPT ![f.key] = applyLocked(cur, e, FALSE, 0)]
             /\ quiet' = [quiet EXCEPT ![f.key] = 0]
             /\ stale' = stale \ {f.key}
     /\ UNCHANGED <<job, repoint, ostore, active, queue, lost, crashes>>

\* The peer's manager is respawned with an empty dedup index.
PeerManagerRestart ==
  /\ dedup # {}
  /\ dedup' = {}
  /\ UNCHANGED <<job, repoint, ostore, active, queue, flight, pstore, quiet,
                 stale, lost, crashes>>

Tick ==
  /\ \E k \in Key : quiet[k] < StaleAfter
  /\ quiet' = [k \in Key |-> IF quiet[k] < StaleAfter THEN quiet[k] + 1 ELSE quiet[k]]
  /\ UNCHANGED <<job, repoint, ostore, active, queue, flight, dedup, pstore,
                 stale, lost, crashes>>

\* failStaleForeignWorkloads selects; a pick whose workload is heard of before
\* it is applied would fail its sighting guard, so Handle drops it from stale.
SelectStale ==
  LET silent == {k \in Key : Live(pstore[k]) /\ quiet[k] >= StaleAfter}
  IN /\ stale = {}
     /\ silent # {}
     /\ stale' = silent
     /\ UNCHANGED <<job, repoint, ostore, active, queue, flight, dedup, pstore,
                    quiet, lost, crashes>>

ApplyStale(k) ==
  /\ k \in stale
  /\ stale' = stale \ {k}
  /\ pstore' = [pstore EXCEPT ![k] = Merge(@, "failed", @.scheduledOn, TRUE)]
  /\ UNCHANGED <<job, repoint, ostore, active, queue, flight, dedup, quiet,
                 lost, crashes>>

\* failWorkloadsForNode at the peer: origin or executor left its discovery.
SelectLost ==
  /\ lost = {}
  /\ \E ks \in SUBSET {k \in Key : Live(pstore[k])} :
       /\ ks # {}
       /\ lost' = {<<k, pstore[k].scheduledOn>> : k \in ks}
  /\ UNCHANGED <<job, repoint, ostore, active, queue, flight, dedup, pstore,
                 quiet, stale, crashes>>

ApplyLost ==
  \E p \in lost :
    /\ lost' = lost \ {p}
    /\ pstore' = [pstore EXCEPT ![p[1]] = Merge(@, "failed", p[2], TRUE)]
    /\ UNCHANGED <<job, repoint, ostore, active, queue, flight, dedup, quiet,
                   stale, crashes>>

-----------------------------------------------------------------------------

Deliver == \E f \in flight : Handle(f, FALSE)
Duplicate == \E f \in flight : Handle(f, TRUE)

Next ==
  \/ \E k \in Key, n \in Executors : Start(k, n) \/ Repoint(k, n)
  \/ EmitRepoint
  \/ \E k \in Key, s \in {"completed", "failed"} : Finish(k, s)
  \/ \E k \in Key : OriginGuess(k)
  \/ Heartbeat \/ ManagerRestart \/ ProxyCrash \/ OriginRestart
  \/ Send \/ Deliver \/ Duplicate
  \/ \E f \in flight : Drop(f)
  \/ PeerManagerRestart
  \/ Tick \/ SelectStale
  \/ \E k \in Key : ApplyStale(k)
  \/ SelectLost \/ ApplyLost

\* The loops that run on their own: the broadcast worker, the settling of
\* requests (each attempt has a timeout), the sweeps' tickers and time itself.
\* Nothing is assumed of delivery: every request may be lost.
Fairness ==
  /\ WF_vars(Send)
  /\ \A f \in Frame : WF_vars(f \in flight /\ (Drop(f) \/ Handle(f, FALSE)))
  /\ WF_vars(Heartbeat)
  /\ WF_vars(Tick)
  /\ WF_vars(SelectStale)
  /\ \A k \in Key : WF_vars(ApplyStale(k))
  /\ WF_vars(ApplyLost)
  /\ WF_vars(EmitRepoint)

Safety == Init /\ [][Next]_vars
Spec == Safety /\ Fairness

-----------------------------------------------------------------------------
(* Properties.                                                             *)

\* Every variable keeps its type.
TypeOK ==
  /\ job \in [Key -> [state : JobStates, on : Executors]]
  /\ repoint \subseteq Key \X Executors
  /\ ostore \in [Key -> Record \cup {Absent}]
  /\ active \in [Key -> [state : States \cup {"none"}, on : Executors, ttl : 0..Retention]]
  /\ Len(queue) <= QueueDepth /\ \A i \in DOMAIN queue : queue[i] \in Frame
  /\ flight \subseteq Frame
  /\ dedup \subseteq Key \X States
  /\ pstore \in [Key -> Record \cup {Absent}]
  /\ quiet \in [Key -> 0..StaleAfter]
  /\ stale \subseteq Key
  /\ lost \subseteq Key \X Executors
  /\ crashes \in 0..MaxCrashes

\* A terminal the peer holds on the origin's word is the terminal the proxy
\* reached: duplication, reordering, replays and sweeps never make a peer
\* believe a wrong outcome as the origin's own.
PeerAgrees ==
  \A k \in Key : Historic(pstore[k]) => pstore[k].state = job[k].state

\* A finished workload never comes back to life at the peer on the strength
\* of a late or re-pointed "running", once the peer knows the outcome.
NoResurrection ==
  [][\A k \in Key : Historic(pstore[k]) => Historic(pstore'[k])]_vars

\* The re-sync set never says "running" about a workload whose end the proxy
\* reported, whatever was late, replayed or lost in a restart since: the
\* heartbeat cannot revive it and its entry keeps its expiry.  (Of a workload
\* whose proxy died under it nobody reports the end.)
ResyncIsTruthful ==
  \A k \in Key : active[k].state = "running" => ~Concluded(k)

\* However many messages are lost, a workload stops showing as in flight at
\* the peer once the proxy has reported its end, and also once it ended unheard
\* and the origin no longer re-asserts it: the silence sweep retires it.  What a
\* proxy that died alone leaves behind is re-asserted until the origin's broker
\* or manager restarts without it.
EventuallyRetired ==
  \A k \in Key :
    (/\ Concluded(k) \/ (Over(k) /\ active[k].state # "running")
     /\ Live(pstore[k])) ~> ~Live(pstore[k])

\* The re-sync set does not grow with the requests served: the entry of a
\* workload whose end the proxy reported ages out.
EventuallyForgotten ==
  \A k \in Key : (Concluded(k) /\ active[k].state # "none") ~> active[k].state = "none"

\* broker.go says of a wrong node-loss guess: "a false positive is corrected,
\* not permanent, but until the correcting re-sync arrives (<= a couple of
\* heartbeats) a briefly-partitioned node's jobs show as failed here".  This
\* states it of the origin's own store: a workload that keeps running does not
\* stay failed there.
OriginGuessCorrected ==
  \A k \in Key :
    (job[k].state = "running" /\ ostore[k] # Absent /\ ostore[k].inferred)
      ~> (job[k].state # "running" \/ ostore[k] = Absent \/ ~ostore[k].inferred)

=============================================================================
