--------------------------- MODULE ManagerRestart ---------------------------
(***************************************************************************)
(* How a restarted workload-manager gets its re-sync set back.             *)
(*                                                                         *)
(* A lifecycle event is applied to the broker's store and then, in a       *)
(* separate step, forwarded to the manager's stdin (routeProxyWorkload).   *)
(* When the manager dies its re-sync set, its queue and whatever sits in   *)
(* the pipe are lost; the supervisor spawns a new one, publishes it, takes *)
(* a snapshot of the store and replays it frame by frame, while events of  *)
(* the running proxies keep being forwarded to the same pipe.              *)
(*                                                                         *)
(* What a proxy reports about a request is abstracted to its stage:        *)
(* Started (running on the first candidate), Repointed (running on the     *)
(* node a failover committed), Ended (completed or failed).                *)
(***************************************************************************)
EXTENDS Naturals, Sequences, FiniteSets

CONSTANTS Key,        \* local workloads, one proxy each
          PipeDepth,  \* frames the pipe holds before a writer blocks
          MaxCrashes  \* bound on manager deaths

ASSUME RestartAssumption == MaxCrashes \in Nat /\ PipeDepth \in Nat \ {0}

Nothing == 0
Started == 1
Repointed == 2
Ended == 3
Removed == 4
Stages == {Started, Repointed, Ended}
Running == {Started, Repointed}

VARIABLES
  store,    \* the broker's store: the stage of each local workload; Nothing before
            \* it is known, Removed after its record was dropped
  late,     \* workloads whose re-point is decided and not reported yet
  forward,  \* the event of each proxy that is stored and not forwarded yet
  manager,  \* "up", "dead", or "spawned": published, snapshot still to be taken
  pipe,     \* frames in the manager's stdin
  replay,   \* snapshot frames still to be replayed
  active,   \* the manager's re-sync set
  crashes

restartVars == <<store, late, forward, manager, pipe, replay, active, crashes>>

RestartInit ==
  /\ store = [k \in Key |-> Nothing]
  /\ late = {}
  /\ forward = [k \in Key |-> Nothing]
  /\ manager = "up"
  /\ pipe = <<>>
  /\ replay = <<>>
  /\ active = [k \in Key |-> Nothing]
  /\ crashes = 0

\* A failover commits another node under wlMu, once for a request and not
\* after its end; the event goes out after wlMu is released.
Commit(k) ==
  /\ store[k] = Started
  /\ k \notin late
  /\ late' = late \cup {k}
  /\ UNCHANGED <<store, forward, manager, pipe, replay, active, crashes>>

\* What the proxy may report of a request next; a re-point may come behind
\* the terminal.
Reports(k, s) ==
  \/ s = Started /\ store[k] = Nothing
  \/ s = Repointed /\ k \in late
  \/ s = Ended /\ store[k] \in Running

\* applyLocked for these events: the store keeps the later stage.
apply(cur, s) == IF s > cur THEN s ELSE cur

\* Mutant: the event is forwarded and not stored.
RouteUnstored(k, s) ==
  /\ forward[k] = Nothing
  /\ Reports(k, s)
  /\ forward' = [forward EXCEPT ![k] = s]
  /\ late' = IF s = Repointed THEN late \ {k} ELSE late
  /\ UNCHANGED <<store, manager, pipe, replay, active, crashes>>

\* routeProxyWorkload up to the store.  The event is on its way to the manager
\* whether or not the store took it.
Route(k, s) ==
  /\ forward[k] = Nothing
  /\ Reports(k, s)
  /\ store' = [store EXCEPT ![k] = apply(@, s)]
  /\ forward' = [forward EXCEPT ![k] = s]
  /\ late' = IF s = Repointed THEN late \ {k} ELSE late
  /\ UNCHANGED <<manager, pipe, replay, active, crashes>>

\* routeProxyWorkload for a removal (routed, though no proxy sends one today)
\* of a workload its proxy has nothing more to say about.
RouteRemove(k) ==
  /\ forward[k] = Nothing
  /\ store[k] = Ended
  /\ k \notin late
  /\ store' = [store EXCEPT ![k] = Removed]
  /\ forward' = [forward EXCEPT ![k] = Removed]
  /\ UNCHANGED <<late, manager, pipe, replay, active, crashes>>

\* The rest of routeProxyWorkload.  A write to a dead process fails, a write
\* to a full pipe waits.
Forward(k) ==
  /\ forward[k] # Nothing
  /\ Len(pipe) < PipeDepth
  /\ pipe' = IF manager = "dead" THEN pipe
             ELSE Append(pipe, [key |-> k, stage |-> forward[k]])
  /\ forward' = [forward EXCEPT ![k] = Nothing]
  /\ UNCHANGED <<store, late, manager, replay, active, crashes>>

\* Mutant: a late running event replaces the terminal one.
TrackAny(cur, s) == IF s = Removed THEN Nothing ELSE s

\* Mutant: a removal is tracked like a state.
TrackRemoval(cur, s) == IF cur = Ended /\ s \in Running THEN cur ELSE s

\* trackActive and untrackActive: a terminal is kept against a late running
\* event; among running events the last to arrive wins.
track(cur, s) ==
  IF s = Removed THEN Nothing
  ELSE IF cur = Ended /\ s # Ended THEN cur
  ELSE s

\* handleLocalLifecycle, handleLocalRemove.
Consume ==
  /\ manager # "dead"
  /\ pipe # <<>>
  /\ active' = [active EXCEPT ![Head(pipe).key] = track(@, Head(pipe).stage)]
  /\ pipe' = Tail(pipe)
  /\ UNCHANGED <<store, late, forward, manager, replay, crashes>>

\* Something about the workload is on its way to the manager.  That takes
\* moments: no terminal ages out meanwhile, in the re-sync set or in the window
\* of the replay, which are minutes.
Underway(k) ==
  \/ k \in late
  \/ forward[k] # Nothing
  \/ \E i \in DOMAIN pipe : pipe[i].key = k
  \/ \E i \in DOMAIN replay : replay[i].key = k

\* A terminal has been re-asserted long enough (activeSnapshot prunes it).
Expire(k) ==
  /\ active[k] = Ended
  /\ ~Underway(k)
  /\ active' = [active EXCEPT ![k] = Nothing]
  /\ UNCHANGED <<store, late, forward, manager, pipe, replay, crashes>>

Die ==
  /\ manager # "dead"
  /\ crashes < MaxCrashes
  /\ manager' = "dead"
  /\ pipe' = <<>>
  /\ replay' = <<>>
  /\ active' = [k \in Key |-> Nothing]
  /\ crashes' = crashes + 1
  /\ UNCHANGED <<store, late, forward>>

\* spawnWorkloadManager: the new process is published ...
Spawn ==
  /\ manager = "dead"
  /\ manager' = "spawned"
  /\ UNCHANGED <<store, late, forward, pipe, replay, active, crashes>>

\* Mutant: what was re-pointed is not replayed.
ReplayFirstPlacements ==
  {ks \in SUBSET {k \in Key : store[k] \in Stages} :
     \A k \in Key : store[k] = Started <=> k \in ks}

\* ReplayForNode: live workloads always; a terminal while it is recent, which
\* the model leaves open unless something about the workload is under way or
\* has reached the new manager already.
ReplayForNode ==
  {ks \in SUBSET {k \in Key : store[k] \in Stages} :
     {k \in Key :
        \/ store[k] \in Running
        \/ store[k] = Ended /\ (Underway(k) \/ active[k] # Nothing)} \subseteq ks}

\* ... and rehydrateWorkloadManager takes its snapshot, in any order.
Snapshot ==
  /\ manager = "spawned"
  /\ manager' = "up"
  /\ \E ks \in ReplayForNode :
       \E order \in {p \in [1..Cardinality(ks) -> ks] :
                       \A i, j \in DOMAIN p : p[i] = p[j] => i = j} :
         replay' = [i \in DOMAIN order |-> [key |-> order[i], stage |-> store[order[i]]]]
  /\ UNCHANGED <<store, late, forward, pipe, active, crashes>>

\* One iteration of its replay loop.
Replay ==
  /\ manager = "up"
  /\ replay # <<>>
  /\ Len(pipe) < PipeDepth
  /\ pipe' = Append(pipe, Head(replay))
  /\ replay' = Tail(replay)
  /\ UNCHANGED <<store, late, forward, manager, active, crashes>>

RestartNext ==
  \/ \E k \in Key, s \in Stages : Route(k, s)
  \/ \E k \in Key : Commit(k) \/ RouteRemove(k) \/ Forward(k) \/ Expire(k)
  \/ Consume \/ Die \/ Spawn \/ Snapshot \/ Replay

\* The broker's goroutines, the manager's read loop and the supervisor run;
\* writers that wait for the pipe get their turn.
RestartFairness ==
  /\ \A k \in Key : SF_restartVars(Forward(k))
  /\ WF_restartVars(Consume) /\ WF_restartVars(Spawn)
  /\ WF_restartVars(Snapshot) /\ SF_restartVars(Replay)

RestartSpec == RestartInit /\ [][RestartNext]_restartVars /\ RestartFairness

-----------------------------------------------------------------------------
(* Properties.                                                             *)

\* Nothing is on its way to a running manager.
Settled ==
  /\ manager = "up"
  /\ pipe = <<>> /\ replay = <<>>
  /\ \A k \in Key : forward[k] = Nothing

\* Every variable keeps its type.
RestartTypeOK ==
  /\ store \in [Key -> Stages \cup {Nothing, Removed}]
  /\ late \subseteq Key
  /\ forward \in [Key -> Stages \cup {Removed, Nothing}]
  /\ manager \in {"up", "dead", "spawned"}
  /\ \A q \in {pipe, replay} : \A i \in DOMAIN q :
        q[i] \in [key : Key, stage : Stages \cup {Removed}]
  /\ active \in [Key -> Stages \cup {Nothing}]
  /\ crashes \in 0..MaxCrashes

\* Wherever the manager died, also between an event's store and its forward,
\* once everything settled the heartbeat re-asserts every live workload.
LiveIsResynced ==
  Settled => \A k \in Key : store[k] \in Running => active[k] \in Running

\* "the store is never staler than what the manager has broadcast": what the
\* manager re-asserts about a workload never runs ahead of the store that a
\* restart would replay.
StoreNotStaler == \A k \in Key : active[k] <= store[k]

\* Once settled, the manager does not re-assert a finished workload as live:
\* a replay that raced the terminal and a re-point that came behind it are
\* ignored (trackActive), also across a death of the manager.
NoStaleResync ==
  Settled => \A k \in Key : store[k] = Ended => active[k] \notin Running

\* A crash is always recovered from: a manager that lost a live workload
\* comes to hold it again, unless the workload ends.
EventuallyResynced ==
  \A k \in Key : (store[k] \in Running)
                    ~> (active[k] \in Running \/ store[k] \notin Running)

\* manager.go: "trackActive records the latest event for a local-origin
\* workload".  Once settled, the re-sync set names the executor the store has.
LatestIsResynced ==
  Settled => \A k \in Key : store[k] \in Running => active[k] = store[k]

=============================================================================
