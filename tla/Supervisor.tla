----------------------------- MODULE Supervisor -----------------------------
(***************************************************************************)
(* The broker's supervisor of one worker process: its monitor goroutine,   *)
(* the watch of the live process with its health probes, the bounded stop  *)
(* of a process, and the registry's start, restart and stop of the worker. *)
(*                                                                         *)
(* The monitor is sequential; it interleaves with callers of Stop and      *)
(* Restart, with the process (which may exit, hang or survive signals),    *)
(* with the probe goroutine and with timers.  Time is abstract: a timer    *)
(* that is armed may fire at any moment.                                   *)
(***************************************************************************)
EXTENDS Naturals, FiniteSets

CONSTANTS Proc,          \* process identities; one is reused once it is dead
          MaxAttempts,   \* restartPolicy.maxAttempts
          DegradeAfter,  \* hangPolicy.degradeAfter
          RestartAfter,  \* hangPolicy.restartAfter
          Kinds          \* the kinds of worker: see kind

NoProc == 0

ASSUME SupervisorAssumption ==
  /\ NoProc \notin Proc
  /\ {MaxAttempts, DegradeAfter, RestartAfter} \subseteq Nat
  /\ DegradeAfter > 0 /\ RestartAfter > 0
  /\ Kinds \subseteq {"worker", "proxy", "engine-manager"}

VARIABLES
  kind,      \* "engine-manager" is the one of a platform where terminate is a kill
  pc,        \* where the monitor is
  why,       \* the watchResult it left the last watch with
  handle,    \* h: the process it holds
  attempts, crashed, recoveryPending,
  watching,  \* the locals of watch
  started,   \* workerEntry.started
  stopped,   \* stopCh is closed
  restart,   \* restartCh holds a request
  status,    \* the WorkerStatus last published
  alive,     \* the worker processes that exist
  escalated, \* ghost: how far the stop of a live process went, 0 to 3
  answered,  \* ghost: the process held has answered a probe since its spawn
  shown,     \* the crash error is in the errors pipeline
  streak,    \* ghost: spawns since the last recovery or consumed request
  calm       \* the environment has settled: nothing fails any more

supVars == <<kind, pc, why, handle, attempts, crashed, recoveryPending, watching, started,
             stopped, restart, status, alive, escalated, answered, shown,
             streak, calm>>

procVars == <<alive, escalated, answered>>
callerVars == <<started, stopped, restart>>
envVars == <<kind, calm>>

RestartOnHang == kind = "worker"
NeverSignal == kind = "engine-manager"

FreshWatch == [failures |-> 0, degraded |-> FALSE, uptimeMet |-> FALSE,
               probeSucceeded |-> FALSE, stable |-> FALSE,
               probe |-> "none", asked |-> NoProc]

SupInit ==
  /\ kind \in Kinds
  /\ pc = "unstarted" /\ why = "none" /\ handle = NoProc
  /\ attempts = 0 /\ crashed = FALSE /\ recoveryPending = FALSE
  /\ watching = FreshWatch
  /\ started = FALSE /\ stopped = FALSE /\ restart = FALSE
  /\ status \in [state : {"restarting", "missing"}, pid : {NoProc}, attempts : {0}]
  /\ alive = {} /\ escalated = [p \in Proc |-> 0]
  /\ answered = FALSE
  /\ shown = FALSE /\ streak = 0 /\ calm = FALSE

Published(state, p, n) == [state |-> state, pid |-> p, attempts |-> n]

-----------------------------------------------------------------------------
(* The callers, on the client loop and the shutdown path.                  *)

\* startWorker: the binary was found at startup.
startWorker ==
  /\ ~started /\ status.state # "missing"
  /\ started' = TRUE
  /\ pc' = "first"
  /\ UNCHANGED <<why, handle, attempts, crashed, recoveryPending, watching, stopped,
                 restart, status, procVars, shown, streak, envVars>>

\* Restart and Retry: one request is kept, a further one is dropped.
Restart ==
  /\ started /\ ~stopped /\ ~calm
  /\ restart' = TRUE
  /\ UNCHANGED <<pc, why, handle, attempts, crashed, recoveryPending, watching, started,
                 stopped, status, procVars, shown, streak, envVars>>

\* restartWorker, asked for by the client: a worker that was missing is started.
restartWorker ==
  \/ Restart
  \/ /\ ~started
     /\ started' = TRUE
     /\ pc' = "first"
     /\ status' = Published("restarting", NoProc, 0)
     /\ UNCHANGED <<why, handle, attempts, crashed, recoveryPending, watching, stopped,
                    restart, procVars, shown, streak, envVars>>

\* Stop closes stopCh; its caller then waits for the monitor.
Stop ==
  /\ stopped' = TRUE
  /\ UNCHANGED <<pc, why, handle, attempts, crashed, recoveryPending, watching, started,
                 restart, status, procVars, shown, streak, envVars>>

\* stopWorkers: only a worker that has, or will have, a monitor is joined.
stopWorkers == started /\ Stop

-----------------------------------------------------------------------------
(* The process and its surroundings.                                       *)

\* A process ends: it crashes, or reacts to EOF, to a signal or to a kill.
Exit(p) ==
  /\ p \in alive
  /\ ~calm \/ escalated[p] > 0
  /\ alive' = alive \ {p}
  /\ escalated' = [escalated EXCEPT ![p] = 0]
  /\ UNCHANGED <<pc, why, handle, attempts, crashed, recoveryPending, watching, callerVars,
                 status, answered, shown, streak, envVars>>

\* The probe goroutine delivers its result; only a live process answers OK.
ProbeAnswer(ok) ==
  /\ watching.probe = "flying"
  /\ IF ok THEN watching.asked \in alive ELSE ~calm
  /\ watching' = [watching EXCEPT !.probe = IF ok THEN "ok" ELSE "error"]
  /\ answered' = (answered \/ (ok /\ watching.asked = handle))
  /\ UNCHANGED <<pc, why, handle, attempts, crashed, recoveryPending, callerVars, status,
                 alive, escalated, shown, streak, envVars>>

Calm ==
  /\ ~calm
  /\ calm' = TRUE
  /\ UNCHANGED <<pc, why, handle, attempts, crashed, recoveryPending, watching, callerVars,
                 status, procVars, shown, streak, kind>>

-----------------------------------------------------------------------------
(* The monitor.                                                            *)

\* A spawn succeeds with a process p, or fails and leaves no handle.
Spawned(p) ==
  /\ handle' = p
  /\ alive' = alive \cup {p}
  /\ escalated' = [escalated EXCEPT ![p] = 0]
  /\ answered' = FALSE

SpawnFailed == (~calm \/ Proc \subseteq alive) /\ handle' = NoProc /\ UNCHANGED procVars

spawn == SpawnFailed \/ \E p \in Proc \ alive : Spawned(p)

\* StartRetrying: the first spawn, then the monitor whatever its result.
StartRetrying ==
  /\ pc = "first"
  /\ spawn
  /\ streak' = 1
  /\ pc' = "head"
  /\ UNCHANGED <<why, attempts, crashed, recoveryPending, watching, callerVars, status,
                 shown, envVars>>

\* Mutant: Stop during a spawn forgets the process it produced.
HeadDropping ==
  /\ pc = "head"
  /\ pc' = IF stopped THEN "done" ELSE IF handle = NoProc THEN "failed" ELSE "check"
  /\ status' = IF pc' = "check" THEN Published("running", handle, attempts) ELSE status
  /\ UNCHANGED <<why, handle, attempts, crashed, recoveryPending, watching, callerVars,
                 procVars, shown, streak, envVars>>

\* The head of the loop: end, watch the new process, or count a failed spawn.
Head ==
  /\ pc = "head"
  /\ IF stopped
     THEN /\ pc' = IF handle = NoProc THEN "done" ELSE "eof"
          /\ why' = "stopped"
          /\ UNCHANGED status
     ELSE IF handle = NoProc
     THEN pc' = "failed" /\ UNCHANGED <<why, status>>
     ELSE /\ pc' = "check"
          /\ status' = Published("running", handle, attempts)
          /\ UNCHANGED why
  /\ UNCHANGED <<handle, attempts, crashed, recoveryPending, watching, callerVars, procVars, shown,
                 streak, envVars>>

\* Mutant: one replacement too many.
ExhaustedLate(n) == MaxAttempts = 0 \/ n > MaxAttempts + 1

\* exhausted: auto-restart is off, or the budget of this streak is spent.
exhausted(n) == MaxAttempts = 0 \/ n > MaxAttempts

\* A failed spawn, an exit or a hang: publish, report, then wait or back off.
Failed ==
  /\ pc = "failed"
  /\ attempts' = attempts + 1
  /\ pc' = IF exhausted(attempts + 1) THEN "exhausted" ELSE "backoff"
  /\ status' = Published(IF exhausted(attempts + 1) THEN "exhausted" ELSE "restarting",
                         NoProc, attempts + 1)
  /\ recoveryPending' = (recoveryPending \/ crashed)
  /\ shown' = (shown \/ crashed)
  /\ UNCHANGED <<why, handle, crashed, watching, callerVars, procVars, streak, envVars>>

\* Mutant: an exhausted worker waits for a request only.
ExhaustedDeaf ==
  /\ pc = "exhausted" /\ restart
  /\ restart' = FALSE /\ attempts' = 0 /\ streak' = 0 /\ pc' = "respawn"
  /\ UNCHANGED <<why, handle, crashed, recoveryPending, watching, started, stopped, status,
                 procVars, shown, envVars>>

\* Mutant: an exhausted worker waits for Stop only.
ExhaustedForGood ==
  /\ pc = "exhausted" /\ stopped /\ pc' = "done"
  /\ UNCHANGED <<why, handle, attempts, crashed, recoveryPending, watching, callerVars,
                 status, procVars, shown, streak, envVars>>

\* The wait of an exhausted worker: Stop ends it, a request resets the budget.
Exhausted ==
  /\ pc = "exhausted"
  /\ \/ stopped /\ pc' = "done" /\ UNCHANGED <<attempts, restart, streak>>
     \/ /\ restart
        /\ restart' = FALSE
        /\ attempts' = 0
        /\ streak' = 0
        /\ pc' = "respawn"
  /\ UNCHANGED <<why, handle, crashed, recoveryPending, watching, started, stopped, status,
                 procVars, shown, envVars>>

\* sleep: the backoff ends, or Stop ends it; then the check before the spawn.
Backoff ==
  /\ pc = "backoff"
  /\ \/ stopped /\ pc' = "done"
     \/ pc' = "respawn"
  /\ UNCHANGED <<why, handle, attempts, crashed, recoveryPending, watching, callerVars,
                 status, procVars, shown, streak, envVars>>

Respawn ==
  /\ pc = "respawn"
  /\ pc' = IF stopped THEN "done" ELSE "spawn"
  /\ UNCHANGED <<why, handle, attempts, crashed, recoveryPending, watching, callerVars,
                 status, procVars, shown, streak, envVars>>

Spawn ==
  /\ pc = "spawn"
  /\ spawn
  /\ crashed' = FALSE
  /\ streak' = streak + 1
  /\ pc' = "head"
  /\ UNCHANGED <<why, attempts, recoveryPending, watching, callerVars, status, shown, envVars>>

-----------------------------------------------------------------------------
(* watch.  Its loop first checks for Stop and then selects among whatever  *)
(* is ready, in any order.                                                 *)

\* Mutant: the probe of the process that was watched is not cancelled.
KeepProbe == [FreshWatch EXCEPT !.probe = watching.probe, !.asked = watching.asked]

\* watch cancels its probe on every exit and its locals end with it.
EndWatch == FreshWatch

Leave(result, next) ==
  /\ why' = result
  /\ pc' = next
  /\ watching' = EndWatch
  /\ UNCHANGED <<handle, attempts, crashed, recoveryPending, status, procVars, shown,
                 streak, envVars>>

Check ==
  /\ pc = "check"
  /\ IF stopped THEN Leave("stopped", "eof")
     ELSE /\ pc' = "select"
          /\ UNCHANGED <<why, handle, attempts, crashed, recoveryPending, watching, status,
                         procVars, shown, streak, envVars>>
  /\ UNCHANGED callerVars

\* markStable's condition.
Stabilises(w) == ~w.stable /\ w.uptimeMet /\ w.probeSucceeded

\* Mutant: only the attempt counter remembers that a recovery is owed.
OwesByAttempts == attempts # 0

\* onStable's condition: a failed attempt or a reported crash is still open.
RecoveryOwed == attempts # 0 \/ recoveryPending

\* Mutant: a recovery is not published.
ContinueSilently(w, state) ==
  LET recovers == Stabilises(w) /\ RecoveryOwed
  IN /\ watching' = [w EXCEPT !.stable = @ \/ Stabilises(w)]
     /\ attempts' = IF recovers THEN 0 ELSE attempts
     /\ recoveryPending' = (recoveryPending /\ ~recovers)
     /\ shown' = (shown /\ ~recovers)
     /\ streak' = IF recovers THEN 1 ELSE streak
     /\ status' = IF state # status.state THEN Published(state, handle, attempts') ELSE status
     /\ pc' = "check"
     /\ UNCHANGED <<why, handle, crashed, callerVars, procVars, envVars>>

\* The loop goes on with the locals w; markStable may find the process stable,
\* which resets the budget, clears the crash error and publishes.
Continue(w, state) ==
  LET recovers == Stabilises(w) /\ RecoveryOwed
  IN /\ watching' = [w EXCEPT !.stable = @ \/ Stabilises(w)]
     /\ attempts' = IF recovers THEN 0 ELSE attempts
     /\ recoveryPending' = (recoveryPending /\ ~recovers)
     /\ shown' = (shown /\ ~recovers)
     /\ streak' = IF recovers THEN 1 ELSE streak
     /\ status' = IF recovers \/ state # status.state
                  THEN Published(state, handle, attempts') ELSE status
     /\ pc' = "check"
     /\ UNCHANGED <<why, handle, crashed, callerVars, procVars, envVars>>

WatchStop ==
  /\ pc = "select" /\ stopped
  /\ Leave("stopped", "eof")
  /\ UNCHANGED callerVars

WatchRestart ==
  /\ pc = "select" /\ restart
  /\ Leave("restart", "eof")
  /\ restart' = FALSE
  /\ UNCHANGED <<started, stopped>>

WatchExit ==
  /\ pc = "select" /\ handle \notin alive
  /\ Leave("exited", "after")
  /\ UNCHANGED callerVars

\* The uptime timer.
WatchHealthy ==
  /\ pc = "select" /\ ~watching.uptimeMet
  /\ Continue([watching EXCEPT !.uptimeMet = TRUE], status.state)

\* A tick starts a probe unless one is in flight.
WatchTick ==
  /\ pc = "select" /\ watching.probe = "none"
  /\ Continue([watching EXCEPT !.probe = "flying", !.asked = handle], status.state)

\* probeFinished(nil).
Succeeded ==
  [watching EXCEPT !.failures = 0, !.probeSucceeded = TRUE, !.degraded = FALSE,
                   !.probe = "none"]

WatchProbeOK ==
  /\ pc = "select" /\ watching.probe = "ok"
  /\ Continue(Succeeded, "running")

\* probeFinished(err): a run of failures degrades the worker, then ends it.
ProbeFinishedErr ==
  LET n == watching.failures + 1
      failed == [watching EXCEPT !.failures = IF RestartOnHang \/ n <= DegradeAfter THEN n ELSE @,
                                 !.degraded = @ \/ n >= DegradeAfter, !.probe = "none"]
      hung == RestartOnHang /\ n >= RestartAfter
  IN /\ status' = IF failed.degraded /\ ~watching.degraded
                  THEN Published("degraded", handle, attempts) ELSE status
     /\ watching' = IF hung THEN EndWatch ELSE failed
     /\ pc' = IF hung THEN "eof" ELSE "check"
     /\ why' = IF hung THEN "unresponsive" ELSE why
     /\ UNCHANGED <<handle, attempts, crashed, recoveryPending, callerVars, procVars, shown,
                    streak, envVars>>

WatchProbeError == pc = "select" /\ watching.probe = "error" /\ ProbeFinishedErr

\* The deadline, which also beats a success that came after it.
WatchDeadline == pc = "select" /\ watching.probe # "none" /\ ~calm /\ ProbeFinishedErr

-----------------------------------------------------------------------------
(* The handle's Stop: waitForStdinClose.                                   *)

Escalate(from, level, next) ==
  /\ pc = from
  /\ handle \in alive \/ level = 1
  /\ escalated' = [escalated EXCEPT ![handle] = IF handle \in alive THEN level ELSE 0]
  /\ pc' = next
  /\ UNCHANGED <<why, handle, attempts, crashed, recoveryPending, watching, callerVars,
                 status, alive, answered, shown, streak, envVars>>

CloseStdin == Escalate("eof", 1, "grace")
Terminate == ~NeverSignal /\ Escalate("grace", 2, "signalled")
Kill == Escalate("signalled", 3, "killed")

\* Mutant: the join is abandoned before the kill.
JoinedEarly ==
  /\ pc \in {"grace", "signalled", "killed"}
  /\ handle \in alive => pc # "grace" \/ NeverSignal
  /\ pc' = "after"
  /\ UNCHANGED <<why, handle, attempts, crashed, recoveryPending, watching, callerVars,
                 status, procVars, shown, streak, envVars>>

\* The process is gone, or the join is abandoned: after the kill, or after
\* the grace where a signal would be a kill.
Joined ==
  /\ \/ pc \in {"grace", "signalled", "killed"} /\ handle \notin alive
     \/ pc = "killed"
     \/ pc = "grace" /\ NeverSignal
  /\ pc' = "after"
  /\ UNCHANGED <<why, handle, attempts, crashed, recoveryPending, watching, callerVars,
                 status, procVars, shown, streak, envVars>>

\* What the monitor does once the watch is over and the process stopped.
After ==
  /\ pc = "after"
  /\ handle' = NoProc
  /\ IF stopped \/ why = "stopped"
     THEN pc' = "done" /\ UNCHANGED <<crashed, status>>
     ELSE IF why = "restart"
     THEN /\ pc' = "replace"
          /\ status' = Published("restarting", NoProc, attempts)
          /\ UNCHANGED crashed
     ELSE pc' = "failed" /\ crashed' = TRUE /\ UNCHANGED status
  /\ why' = "none"
  /\ UNCHANGED <<attempts, recoveryPending, watching, callerVars, procVars, shown, streak,
                 envVars>>

\* The spawn of a requested restart: free if it succeeds.
Replace ==
  /\ pc = "replace"
  /\ \/ /\ \E p \in Proc \ alive : Spawned(p)
        /\ attempts' = 0
        /\ streak' = 1
        /\ pc' = "head"
        /\ UNCHANGED crashed
     \/ /\ SpawnFailed
        /\ crashed' = TRUE
        /\ pc' = "failed"
        /\ UNCHANGED <<attempts, streak>>
  /\ UNCHANGED <<why, recoveryPending, watching, callerVars, status, shown, envVars>>

Monitor ==
  \/ StartRetrying \/ Head \/ Failed \/ Exhausted \/ Backoff \/ Respawn \/ Spawn
  \/ Check \/ CloseStdin \/ Terminate \/ Kill \/ Joined \/ After \/ Replace

Select ==
  WatchStop \/ WatchRestart \/ WatchExit \/ WatchHealthy \/ WatchTick \/ WatchProbeOK
  \/ WatchProbeError \/ WatchDeadline

SupNext ==
  \/ startWorker \/ restartWorker \/ stopWorkers \/ Calm
  \/ \E p \in Proc : Exit(p)
  \/ \E ok \in BOOLEAN : ProbeAnswer(ok)
  \/ Monitor
  \/ Select

\* The monitor runs and its timers fire; select chooses at random among what
\* is ready, so it passes over none for ever; a process that works answers.
SupFairness ==
  /\ WF_supVars(Monitor)
  /\ SF_supVars(WatchRestart) /\ SF_supVars(WatchExit) /\ SF_supVars(WatchHealthy)
  /\ SF_supVars(WatchTick) /\ SF_supVars(WatchProbeOK) /\ SF_supVars(WatchProbeError)
  /\ WF_supVars(calm /\ ProbeAnswer(TRUE))
  /\ WF_supVars(WatchStop)

SupSpec == SupInit /\ [][SupNext]_supVars /\ SupFairness

-----------------------------------------------------------------------------
(* Properties.                                                             *)

Locations == {"unstarted", "first", "head", "check", "select", "eof", "grace", "signalled",
              "killed", "after", "replace", "failed", "backoff", "exhausted", "respawn",
              "spawn", "done"}
Results == {"none", "stopped", "restart", "exited", "unresponsive"}

\* Every variable keeps its type, and the attempts never run past the budget
\* by more than the one that exhausts it (monitor).
SupTypeOK ==
  /\ pc \in Locations /\ why \in Results
  /\ handle \in Proc \cup {NoProc}
  /\ attempts \in 0 .. MaxAttempts + 1 /\ streak \in Nat
  /\ {crashed, recoveryPending, started, stopped, restart, answered, shown, calm} \subseteq BOOLEAN
  /\ watching \in [failures : Nat, degraded : BOOLEAN, uptimeMet : BOOLEAN,
                   probeSucceeded : BOOLEAN, stable : BOOLEAN,
                   probe : {"none", "flying", "ok", "error"}, asked : Proc \cup {NoProc}]
  /\ status \in [state : {"missing", "restarting", "running", "degraded", "exhausted"},
                 pid : Proc \cup {NoProc}, attempts : Nat]
  /\ alive \subseteq Proc /\ escalated \in [Proc -> 0 .. 3]

\* A process the monitor does not hold, when it runs at all, has been through
\* the whole stop: EOF, terminate and kill, or EOF alone where terminate is a
\* kill.  So no replacement ever runs beside a worker nobody tried to stop.
NoStrayWorker ==
  \A p \in alive \ {handle} : escalated[p] = IF NeverSignal THEN 1 ELSE 3

\* When Stop has returned, no worker process is left that was not put through
\* the whole stop, whatever the monitor was doing when Stop was called.
StopLeavesNothing ==
  pc = "done" => \A p \in alive : escalated[p] = IF NeverSignal THEN 1 ELSE 3

\* Between two recoveries or explicit requests the monitor spawns the worker
\* at most once plus the budget ("Initial instance + maxAttempts replacements
\* are permitted").
BudgetBounded == streak <= MaxAttempts + 1

\* Whenever the monitor waits, what it published last is what holds: the
\* state, the process and the attempts the next failure counts from.
StatusIsCurrent ==
  /\ pc = "select"
       => status = Published(IF watching.degraded THEN "degraded" ELSE "running",
                             handle, attempts)
  /\ pc = "backoff" => status = Published("restarting", NoProc, attempts)
  /\ pc = "exhausted" => status = Published("exhausted", NoProc, attempts)

\* The crash error is cleared only for a process that stayed up for the
\* window and answered a probe since its own spawn: neither an explicit
\* retry nor an answer of its predecessor clears it.
ClearedByHealthOnly ==
  [][(shown /\ ~shown') => answered' /\ watching'.uptimeMet]_supVars

\* Stop returns, in whatever phase it finds the monitor: first spawn, probe,
\* backoff, restart, or an exhausted worker.
StopReturns == stopped ~> (pc = "done")

\* A requested restart is not lost: it is served, or Stop supersedes it.
RestartServed == restart ~> (~restart \/ stopped)

\* Once the worker works again its crash error is cleared, unless the budget
\* was spent first and nobody asks for a retry.
CrashClears == (calm /\ shown) ~> (~shown \/ stopped \/ pc = "exhausted")

=============================================================================
