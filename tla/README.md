# Verification of the Personal AI Router services

Personal AI Router lets the machines of one household or team share the local
inference engines they run. Every node runs the same set of Go processes. A
broker (`nvpair-ui-broker`) supervises them, keeps the shared catalogs and relays
JSON-RPC between the processes, clients and the desktop. Nodes form a cluster by
pairing and talk to each other over mutually authenticated HTTPS.

This directory holds TLA+ models of the parts of that system whose correctness
depends on the order in which things happen, the TLC configurations that check
them on small instances, and TLAPS proofs of the properties of the central data
structure for every instance.

- [Parts of the system](#parts-of-the-system)
- [The modules and the code](#the-modules-and-the-code)
- [The runs](#the-runs), [bounds](#bounds) and [fairness](#fairness)
- [The proofs](#the-proofs)
- [Where code and comments disagree](#where-code-and-comments-disagree)
- [What is not modelled](#what-is-not-modelled) and [the plan](#plan)

Paths below are relative to `src/services/`.

## Parts of the system

| part | what it does | with whom | modelled |
|---|---|---|---|
| ui-broker: workload store | the catalog of inference requests of the whole cluster; merges lifecycle events, fails workloads whose node or origin is gone, keeps a history file | proxies, workload-manager, scheduler, clients | `WorkloadMerge`, `WorkloadStore`, `WorkloadHistory` |
| ui-broker: supervisor | spawns the worker processes, probes them, restarts them within a budget, stops them | every worker | `Supervisor` |
| ui-broker: relay, demand, feeds | the merged directory of nodes; tells sources how often to sample; feeds the scheduler | scanner, node-info, scheduler, clients | planned |
| ui-broker: engine settings and ports | journalled changes of engine settings with rollback, managed ports | engine-manager, proxies | planned |
| workload-manager | broadcasts local lifecycle events to all peers, re-asserts them on a heartbeat, accepts peers' events once | broker, peers' workload-managers | `WorkloadPipeline`, `DedupIndex`, `ManagerRestart` |
| inference proxies | accept requests, choose a node, fail over before the first byte, report the lifecycle | broker, engines, peers' proxies | lifecycle in `WorkloadPipeline`; choice of a node planned |
| cluster-manager | pairing, trust, rosters, removal, departure | peers' cluster-managers, broker | membership in `ClusterMembership`; pairing handshake planned |
| eap-noob | the pairing protocol's two state machines | cluster-manager | planned |
| job-scheduler | ranks the candidates of each engine from load and pressure | broker, proxies | planned |
| engine-manager | installs, starts, stops and watches engines | broker, peers' brokers | planned |
| node-scanner, manual-nodes, node-info | find and describe nodes | broker | partly planned |
| errors | the cluster's shared set of current errors | broker, peers | planned |
| desktop: service bridge | runs the broker for the desktop and rebuilds its state from the feeds | broker, windows | planned |
| node-settings, terminal UI, desktop windows, installers | settings file, presentation, packaging | broker | no: sequential I/O or presentation |

`PROJECT.json` lists every part with its sources, and every hazard of the code at
the line where it bites, with the properties that cover it.

### How a workload travels

A request that a proxy forwards to an engine is a *workload*. The proxy reports
`started`, `completed` or `errored`; the broker of the same node (the *origin*)
merges the event into its store and then forwards it to the workload-manager. The
manager remembers it in a re-sync set (`activeLocal`), queues it for broadcast, and
on every heartbeat broadcasts the whole set again. The peers' managers drop what
they have already handed on (a dedup index) and give the rest to their brokers'
stores. A store also guesses: when a node leaves discovery its workloads are
failed, and when an origin is silent about a workload for too long it is failed. A
guess is marked *inferred*, and the origin's own word overrides it.

### How a cluster holds together

Every node numbers its own admissions. A pairing leaves each side with a pin on the
other at its current admission. Members exchange rosters in periodic *reconcile*
passes: an entry endorsed by a trusted member creates a pin, a removal proof signed
by a member ends one, and a node that finds itself rejected by those it trusts, or
proven removed, tears its membership down.

## The modules and the code

Each definition's source lines are in `PROJECT.json` under `map`; definitions keep
the names of the functions they model where TLA+ allows it.

### The workload core

| module | code | state | actions |
|---|---|---|---|
| `WorkloadMerge` | `nvpair-ui-broker/workloadstore/store.go`: `applyLocked`, `putLocked`, `rank` | none: operators on records | the merge rule: generation (`createdAt`) first, then provenance, then rank, then the re-point of a running record |
| `WorkloadStore` | `store.go`; `broker.go`: `failWorkloadsForNode`, `failStaleForeignWorkloads` | `records`, `dirty`, `clock`, the two sweeps' selections | `Apply`, `Remove`, and each sweep as a selection and one step for every application, because the store's lock is released in between |
| `WorkloadHistory` | `workloadstore/persistence.go` | adds `files` (primary and backups) and `writer` | flush and checkpoint, one file operation at a time; failing writes; a crash and restart at any of them |
| `WorkloadPipeline` | `ollama-proxy/proxy.go` (lifecycle), `nvpair-ui-broker/broker.go` (routing), `nvpair-workload-manager/manager.go` | the proxy's truth `job`, both stores, re-sync set, queue, requests in flight, dedup index, pending sweeps | start, fail-over re-point, finish, heartbeat, send, deliver, duplicate, drop, guesses on both sides, restarts of both managers, of the proxy alone and of the origin |
| `DedupIndex` | `nvpair-workload-manager/dedup.go` | one program counter for each request, the LRU list, the keys being emitted | `emitOnce` up to the emit, its success or failure, the wake-up of waiters |
| `ManagerRestart` | `broker.go` (`routeProxyWorkload`, the respawn hook), `manager.go` (`trackActive`) | store, re-points decided and not reported, events stored and not forwarded, pipe, snapshot being replayed, re-sync set | fail-over, store, forward (whether or not the store took the event), consume, death, spawn, snapshot, replay, expiry |

The modules share one merge rule. `WorkloadHistory` extends `WorkloadStore`;
`WorkloadPipeline` composes two stores with everything between them and abstracts
the clock to ticks of silence, so that its liveness needs no bound on time.
`DedupIndex` and `ManagerRestart` refine two places the pipeline treats as atomic:
the index under concurrent requests, and the recovery of the re-sync set.

What is abstracted: an event is its state, generation, executor and completion time;
texts, token counts, model names and progress readings are dropped. A workload key
stands for (origin, engine, run, id). A damaged history file reads as missing, which
is what `readWithFallback` makes of it. Durations are abstracted to one fact: an
event on its way from a proxy to the manager takes moments, a terminal is retained
and replayed for minutes, so none ages out while something about its workload is
under way (`Pending`, `Underway`).

A proxy is supervised and respawned on its own. When it dies, its requests die with
it and nobody reports their end: the supervisor's callbacks clear the handle and
report the crash, the silence sweep skips a node's own workloads, and the node-loss
sweep runs only for nodes that leave discovery. So the origin's store and its re-sync
set go on calling these workloads running, and the heartbeat keeps them alive at the
peers, until the origin's broker restarts or an executor leaves discovery. The action
`ProxyCrash` models this, and the properties about ended workloads say exactly which
of them they speak of: those whose end the proxy reported (`Concluded`), and, for
`EventuallyRetired`, also those that ended unheard once the origin no longer
re-asserts them.

### Supervisor

`Supervisor` models `nvpair-ui-broker/supervisor.go` with the bounded stop of
`stopwait.go` and the registry of `workers.go`, for one worker. The monitor is one
goroutine; its program counter `pc` has a location wherever it can block. Callers of
Stop and Restart, the process itself, the probe goroutine and timers interleave with
it. A process may exit, hang, fail to spawn, or survive end-of-file, terminate and
kill. `kind` selects between an ordinary worker, which a hang restarts, and the
engine-manager of a platform on which terminate is a kill, which is never signalled.

### ClusterMembership

`ClusterMembership` models `roster.go`, `roster_http.go`, `truststore.go`,
`removal_proof_store.go`, `leave.go` and the commits of `invite.go` and
`membership.go` in `nvpair-cluster-manager/`. `local[n]` is what node n keeps on
disk: its admission and admission counter, pins, endorsements, removal proofs and
tombstones. `rpc[n]` is the request its serial read loop is in, `pass[n]` its
reconcile pass, `calls` the reconcile calls in flight. A call is sent, begun
(authorised), merged (after the body was read and the authorisation rechecked),
answered and received in separate steps; it may be lost before or after it took
effect. Certificates and signatures are represented by the names and admissions they
bind.

## The runs

| run | instance | what it checks |
|---|---|---|
| `store` | two nodes, one foreign workload, two generations | no guess ever becomes authoritative, an origin's terminal is never taken back and names another outcome only with another executor, nothing moves backwards, the silence sweep fails only what is silent at the moment of application and never re-creates a removed record |
| `history` | one workload, two backups, records that age out | only origins' conclusions reach the disk; a crash anywhere in a rotation leaves the last write readable; a clean store has nothing unsaved |
| `history_cap` | two workloads, room for one | the same when pruning removes records while a snapshot is on its way |
| `pipeline` | one workload, two executors, two requests in flight | the peer never holds a wrong terminal on the origin's word, a finished workload is not revived, the re-sync set never re-asserts as running a workload whose end was reported |
| `pipeline_live` | every request may be lost | a workload whose end was reported, or that the origin no longer re-asserts, stops showing as live; the re-sync set forgets what was reported |
| `pipeline_fair` | frames sent again and again arrive | a peer's wrong guess is corrected |
| `manager` | four requests, two events, capacity one; and two workloads, one death of the manager | an event is emitted once for each stay in the index, "duplicate" is answered only for what was emitted, every request is answered; after a restart every live workload is re-asserted and no finished one |
| `supervisor` | two process identities, a budget of two | no replacement beside a worker nobody stopped, Stop leaves nothing and returns, the budget holds, the published status is current, the crash error is cleared by health and only by health, no restart request is lost |
| `membership` | three nodes, one trusted only through gossip; one pairing, one removal or departure, one restart | a removed admission is not trusted again, a node loses its cluster only if its own current admission was ended, trust is dropped only for a reason |
| `store_guess`, `pipeline_guess`, `restart_latest` | | counterexamples to three comments, see below |

`manager` checks two independent components in one run: `part` in
`MCWorkloadManager` selects one of them in the initial state and the other stays
still.

### Bounds

- The merge rule compares at most two generations and two provenances at a time, so
  two generations and one key show every case of it; two keys matter only where
  records compete, which is the cap (`history_cap`) and the replay (`manager`). The
  proofs remove these bounds for the store.
- `MaxClock = 3` with `StaleAfter = 1` lets an origin be silent, speak and be silent
  again. The pipeline has no clock bound.
- `MaxShifts = 3` with two backups reaches one checkpoint more than the backups can
  absorb, the boundary `LastWriteSurvives` states.
- `QueueDepth`, `PipeDepth`, `Capacity` and `HistoryCap` are as small as lets each be
  full; the code's values only make the full case rarer.
- `MaxAttempts = 2`, `DegradeAfter = 1`, `RestartAfter = 2`: the degraded state,
  the restart by hang, the budget's last attempt and exhaustion all occur. Two
  process identities suffice for "the old one beside the new one"; an identity is
  reused only once its process is dead.
- `membership` admits one call and one pass at a time. Overtaking still occurs,
  since pairings, removals, notices and restarts run during a call; two concurrent
  calls or two removals exceed what is checked in minutes.

Deadlock checking is off where the system may rest: a bounded clock that has run
out, workloads that have all ended and been forgotten, a cluster of one. It is on for
the supervisor.

### Fairness

- Pipeline: weak fairness of the loops that run by themselves (the broadcast worker,
  the heartbeat, both sweeps, time), and that a request settles, by delivery or by
  loss, since every attempt has a timeout. Nothing is assumed of delivery except in
  `FairSpec`, which `pipeline_fair` and `pipeline_guess` use: a frame that is in
  flight again and again is handled at last. Proxies are never obliged to start or
  finish anything.
- `DedupIndex`: handlers are goroutines, and a write to the broker returns, with or
  without an error.
- `ManagerRestart`: the read loop, the supervisor and the replay run; a writer that
  waits for the pipe gets its turn (strong fairness, since others may fill the pipe
  again).
- `Supervisor`: timers fire, and Go's `select` chooses at random among what is ready,
  so it neglects no ready case for ever (strong fairness of each case). `CrashClears`
  speaks of an environment that has settled (`calm`): processes no longer fail and
  answer their probes.
- `ClusterMembership` is checked for safety only.

## The proofs

`WorkloadStoreProofs` proves five theorems about `WorkloadStore`, for every set of
nodes, keys, executors and generations and every value of the bounds. They rest on
`StoreAssumption` (the constants have their types, the timeout is positive) and
`AbsentAssumption` (`Absent` is not a record).

| theorem | property | argument |
|---|---|---|
| `StoreTypeCorrect` | `TypeOK` | inductive as it stands; the lemmas `MergeType`, `FailedType` and `IncomingType` say what the merge, a sweep's guess and an origin's event produce |
| `NoLaundering` | `TerminalIsAsserted` | inductive with `TypeOK`; `GuessAsserts`: a guess either leaves a record alone or marks it inferred |
| `TerminalsAreFinal` | `TerminalIsFinal` | an action property: `StepShape` says that a step changes a record only by merging an event or by removing it, `MergeFinal` what a merge does to an origin's terminal: it stays one, and of two terminals the later replaces the earlier only if it names another executor |
| `StoreNeverGoesBack` | `NeverBackwards` | the same, with `MergeForward` |
| `SilenceSweepIsSound` | `SilenceIsReal` | needs the strengthening `SilenceInv` |

`SilenceIsReal` cannot be proved from the types alone. The sweep applies a guess when
the record still carries the sighting it was selected on (`lastSeen = seenAt`); that
this means "the origin has not been heard since" depends on how `lastSeen` is
maintained everywhere else. `SilenceInv` says so: an authoritative record's
`lastSeen` is the time its origin was last heard; a waiting guess is about another
node's workload and was selected after the timeout; as long as the record carries the
guess's sighting, that sighting is the latest; and guesses are failures, so a live
record is always authoritative. It is the conjunct on waiting guesses that the other
actions could break: an event refreshes `lastSeen` to a clock that is strictly later
than `seenAt`, since the timeout is positive; a node-loss guess that re-creates a
removed record also stamps the clock, which is later than `seenAt` too.

Only model-checked: everything about the other modules, all liveness (the prover
has no support for fairness), and `SilenceNeverResurrects`.

## Where code and comments disagree

Each of these runs ends with a counterexample; none concerns a property the other
runs rely on.

- `store_guess`: `workloadstore/store.go:82` says that only authoritative events
  refresh `LastSeen`. The node-loss sweep applies its guesses with `ApplyInferred`,
  which does not check that the record still exists; a record removed or pruned
  between selection and application is re-created with `LastSeen` set to now. The
  silence sweep has that check.
- `pipeline_guess`: `broker.go:2985` says that a wrong node-loss guess is corrected by
  the next re-sync. That holds at peers (`pipeline_fair`). The origin's own store is
  guessed about too, when an executor leaves discovery, and hears no re-sync about
  its own workloads, so the guess stays until the workload ends.
- `restart_latest`: `nvpair-workload-manager/manager.go:468` says that `trackActive`
  records the latest event. During a replay a live re-point may reach the manager
  before the older snapshot frame, and the older one is kept: the heartbeat then names
  the executor before the fail-over. `NoStaleResync` shows that a terminal is not
  overtaken in the same way.

## What is not modelled

- Of the modelled parts: progress frames, the gate on origins that are not yet proven
  and the desktop relay (`WorkloadPipeline`); the dependencies between several workers
  and the teardown budget they share (`Supervisor`); the pairing handshake before the
  commits, peer addresses, tombstones of the first roster version and their migration,
  a crash inside one durable commit, and a machine that moves between clusters
  (`ClusterMembership`).
- Not at all: cryptography and wire formats, hardware sampling, downloads and archives,
  manifests, the settings file, the terminal UI, the desktop's windows, installers.
  They are sequential I/O or presentation; `PROJECT.json` gives the reason for each.
- Planned: the parts marked so in the table above.

## Plan

In this order; a component shares a run with others of its group, in the way
`MCWorkloadManager` does.

1. **Inference path.** `InferenceProxy` (`ollama-proxy`, `lmstudio-proxy`,
   `omlx-proxy`): reservation of a candidate, fail-over before the first byte, stall
   cooling, affinity, the capability gate. `JobScheduler`: catalog, ranking as a pure
   algorithm, emission only on change. Composed: two proxies that share a scheduler's
   order. Properties: a request has at most one committed executor, every reservation
   is released, an order the scheduler sent is not stale once feeds settle.
2. **Engines and settings.** `EngineLifecycle` (start, stop, exit, health generations
   under the operation lock); `SettingsTransaction` (journal, apply, rollback, crash
   recovery, start grants, port operations and their lock order); `ProxyIngress`
   (rebinding under running requests). Abstract specification: a settings change is
   applied or not, and `SettingsTransaction` refines it across crashes.
3. **Directory and feeds.** `NodeDirectory` (relay: source precedence, subscriptions,
   snapshot against updates), `NodeScanner`, `ManualNodes`, demand fan-out, respawn of
   the scheduler, the sliding window of node metrics against a reference definition.
4. **Pairing.** `PairingHandshake` (invites, crossing, expiry, cancel, acknowledgement)
   around the two commits of `ClusterMembership`; `EapNoob` with lost and repeated
   messages; liveness of membership: what a removal or a departure nobody heard of
   leaves behind, and whether members who know each other only through a third one
   converge.
5. **Errors and desktop.** `ErrorSync`: reconciliation of peers' error sets.
   `ServiceBridge`: the desktop's broker process, the requests pending across its
   restart, and the view rebuilt from snapshots and updates.
6. **Refinement.** An abstract catalog (a workload's outcome is decided once, by its
   origin) that `WorkloadPipeline` implements.
7. **Proofs.** `EmittedOnce` and `DuplicateWasEmitted` of `DedupIndex`;
   `StoreNotStaler` of `ManagerRestart`; `RemovedStaysOut` of `ClusterMembership`;
   `BudgetBounded` of `Supervisor`; `ResyncIsTruthful` of `WorkloadPipeline`.
