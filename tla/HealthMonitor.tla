--------------------------- MODULE HealthMonitor ---------------------------
(***************************************************************************)
(* The Android network health monitor of core/mobile/                      *)
(* android_network_health.go.  When the physical network or the proxy      *)
(* providers change, the monitor waits for the change to settle and then   *)
(* runs one health check per provider, with one retry for a provider that  *)
(* still fails.  Each start of the core creates a run: a loop goroutine    *)
(* and a fixed pool of worker goroutines that outlive a stop until they    *)
(* notice that the run's stop channel is closed.                           *)
(*                                                                         *)
(* A step is one critical section of monitor.mu, one channel operation or  *)
(* one boundary of an external HealthCheck call; everything between two of *)
(* these is local to its goroutine.  The delays (debounce and retry) are   *)
(* abstracted to "at some later moment".                                   *)
(*                                                                         *)
(* A definition under the heading "Fault" is not part of the model: it is  *)
(* a mistake the code could have made in the operator below it, kept to    *)
(* show which property notices it.                                         *)
(***************************************************************************)
EXTENDS Naturals, FiniteSets

CONSTANTS
  Provider,     \* provider objects, numbered in the order of their names
  Worker,       \* the workers of one run (androidNetworkHealthWorkers)
  Network,      \* network fingerprints the platform may report
  Online,       \* those with an addressed default interface
  NoNetwork,    \* the fingerprint before the first report
  NoJob,        \* what a worker holds before its first job
  Slow,         \* providers whose HealthCheck may never return
  MaxRun,       \* bound: runs ever started
  MaxRevision   \* bound: changes of the monitor's revision

ASSUME MonitorAssumption ==
  /\ Provider \subseteq Nat
  /\ Online \subseteq Network
  /\ NoNetwork \notin Network
  /\ NoJob \notin [provider : Provider, revision : Nat, attempt : {1, 2}]
  /\ Slow \subseteq Provider
  /\ MaxRun \in Nat
  /\ MaxRevision \in Nat

VARIABLES
  network,    \* monitor.fingerprint
  available,  \* monitor.available
  revision,   \* monitor.revision
  providers,  \* monitor.providers
  run,        \* monitor.run: the active run, 0 for nil
  runs,       \* the number of runs started so far
  stopped,    \* the runs whose stop channel is closed
  wake,       \* [Run -> BOOLEAN]: the one-slot wake channel holds a token
  loop,       \* [Run -> LoopPc]: where the run's checkLoop is
  pending,    \* [Run -> Snapshot]: the loop's last snapshot
  queue,      \* [Run -> SUBSET Provider]: providers still to dispatch
  inFlight,   \* [Run -> SUBSET Provider]: providers some worker holds
  due,        \* [Run -> BOOLEAN]: the debounce timer is armed or has fired
  worker,     \* [Run -> [Worker -> WorkerPc]]
  job,        \* [Run -> [Worker -> Job]]
  launched    \* history: the HealthCheck calls ever made, as jobs

monitorVars == <<network, available, revision, providers, run, runs, stopped>>
loopVars    == <<loop, pending, queue, inFlight, due>>
workerVars  == <<worker, job, launched>>
vars        == <<monitorVars, wake, loopVars, workerVars>>

Run      == 1 .. MaxRun
LoopPc   == {"none", "select", "woken", "exited"}
WorkerPc == {"none", "idle", "check", "launch", "testing", "verify", "retry",
             "report", "exited"}
Snapshot == [revision : Nat, available : BOOLEAN, providers : SUBSET Provider]
Job      == [provider : Provider, revision : Nat, attempt : {1, 2}]

\* The zero androidNetworkHealthSnapshot a loop starts with.
ZeroSnapshot == [revision |-> 0, available |-> FALSE, providers |-> {}]

TypeOK ==
  /\ network \in Network \cup {NoNetwork}
  /\ available \in BOOLEAN
  /\ revision \in Nat
  /\ providers \in SUBSET Provider
  /\ run \in Run \cup {0}
  /\ runs \in 0 .. MaxRun
  /\ stopped \in SUBSET Run
  /\ wake \in [Run -> BOOLEAN]
  /\ loop \in [Run -> LoopPc]
  /\ pending \in [Run -> Snapshot]
  /\ queue \in [Run -> SUBSET Provider]
  /\ inFlight \in [Run -> SUBSET Provider]
  /\ due \in [Run -> BOOLEAN]
  /\ worker \in [Run -> [Worker -> WorkerPc]]
  /\ job \in [Run -> [Worker -> Job \cup {NoJob}]]
  /\ launched \in SUBSET Job

Init ==
  /\ network = NoNetwork
  /\ available = FALSE
  /\ revision = 0
  /\ providers = {}
  /\ run = 0
  /\ runs = 0
  /\ stopped = {}
  /\ wake = [r \in Run |-> FALSE]
  /\ loop = [r \in Run |-> "none"]
  /\ pending = [r \in Run |-> ZeroSnapshot]
  /\ queue = [r \in Run |-> {}]
  /\ inFlight = [r \in Run |-> {}]
  /\ due = [r \in Run |-> FALSE]
  /\ worker = [r \in Run |-> [w \in Worker |-> "none"]]
  /\ job = [r \in Run |-> [w \in Worker |-> NoJob]]
  /\ launched = {}

----------------------------------------------------------------------------
(* The monitor's operations, each one critical section of monitor.mu.      *)

\* Fault: an unusable network needs no check, so the loop is not woken.
WakeWhenAvailable ==
  wake' = IF run = 0 \/ ~available THEN wake ELSE [wake EXCEPT ![run] = TRUE]

\* wakeLocked: a token for the active run, dropped when the slot is full.
WakeLocked ==
  wake' = IF run = 0 THEN wake ELSE [wake EXCEPT ![run] = TRUE]

\* Fault: the run and the network are compared, the revision is not.
CurrentIgnoringRevision(r, rev) == run = r /\ available

\* The check every worker makes under the lock before it acts on a job.
Current(r, rev) == run = r /\ available /\ revision = rev

\* update: a report equal to the last one changes nothing.
Update(n) ==
  /\ revision < MaxRevision
  /\ n # network
  /\ network' = n
  /\ available' = (n \in Online)
  /\ revision' = revision + 1
  /\ WakeLocked
  /\ UNCHANGED <<providers, run, runs, stopped, loopVars, workerVars>>

\* Fault: the providers are replaced without a new revision.
SetProvidersQuietly(ps) ==
  /\ revision < MaxRevision
  /\ providers' = ps
  /\ WakeLocked
  /\ UNCHANGED <<network, available, revision, run, runs, stopped, loopVars,
                 workerVars>>

\* setProviders: a configuration was applied.
SetProviders(ps) ==
  /\ revision < MaxRevision
  /\ providers' = ps
  /\ revision' = revision + 1
  /\ WakeLocked
  /\ UNCHANGED <<network, available, run, runs, stopped, loopVars, workerVars>>

\* start: retire the active run, if any, and begin a new one with a token in
\* its wake channel, its loop and its workers waiting.
Start ==
  LET new == runs + 1 IN
  /\ revision < MaxRevision
  /\ runs < MaxRun
  /\ stopped' = stopped \cup ({run} \ {0})
  /\ run' = new
  /\ runs' = new
  /\ revision' = revision + 1
  /\ wake' = [wake EXCEPT ![new] = TRUE]
  /\ loop' = [loop EXCEPT ![new] = "select"]
  /\ worker' = [worker EXCEPT ![new] = [w \in Worker |-> "idle"]]
  /\ UNCHANGED <<network, available, providers, pending, queue, inFlight, due,
                 job, launched>>

\* Fault: stop takes a revision back instead of opening a new one.
StopRollingBack ==
  /\ revision < MaxRevision
  /\ stopped' = stopped \cup ({run} \ {0})
  /\ run' = 0
  /\ providers' = {}
  /\ revision' = revision - 1
  /\ UNCHANGED <<network, available, runs, wake, loopVars, workerVars>>

\* stop: close the active run's stop channel and forget the providers.  It
\* waits for nobody.
Stop ==
  /\ revision < MaxRevision
  /\ stopped' = stopped \cup ({run} \ {0})
  /\ run' = 0
  /\ providers' = {}
  /\ revision' = revision + 1
  /\ UNCHANGED <<network, available, runs, wake, loopVars, workerVars>>

----------------------------------------------------------------------------
(* checkLoop of run r: one action per branch of its select.                *)

\* case <-run.stop, with the deferred stopTimer.
LoopStop(r) ==
  /\ loop[r] = "select"
  /\ r \in stopped
  /\ loop' = [loop EXCEPT ![r] = "exited"]
  /\ due' = [due EXCEPT ![r] = FALSE]
  /\ UNCHANGED <<monitorVars, wake, pending, queue, inFlight, workerVars>>

\* Fault: a provider is dispatched while a worker still holds it.
QueuedAnyway(r) == queue[r]

\* The queued providers no worker of the run holds.
Free(r) == queue[r] \ inFlight[r]

\* case dispatch <- next, received by an idle worker: the first free provider
\* of the queue, with the revision of the loop's snapshot.
Dispatch(r, w) ==
  /\ loop[r] = "select"
  /\ worker[r][w] = "idle"
  /\ \E p \in Free(r) :
       /\ \A q \in Free(r) : p <= q
       /\ inFlight' = [inFlight EXCEPT ![r] = @ \cup {p}]
       /\ queue' = [queue EXCEPT ![r] = @ \ {p}]
       /\ job' = [job EXCEPT ![r][w] =
                    [provider |-> p, revision |-> pending[r].revision,
                     attempt |-> 1]]
  /\ worker' = [worker EXCEPT ![r][w] = "check"]
  /\ UNCHANGED <<monitorVars, wake, loop, pending, due, launched>>

\* case provider := <-completed, sent by a worker that is done with its job.
Complete(r, w) ==
  /\ loop[r] = "select"
  /\ worker[r][w] = "report"
  /\ inFlight' = [inFlight EXCEPT ![r] = @ \ {job[r][w].provider}]
  /\ worker' = [worker EXCEPT ![r][w] = "idle"]
  /\ UNCHANGED <<monitorVars, wake, loop, pending, queue, due, job, launched>>

\* case <-run.wake: the token is taken before the lock is.
LoopWake(r) ==
  /\ loop[r] = "select"
  /\ wake[r]
  /\ wake' = [wake EXCEPT ![r] = FALSE]
  /\ loop' = [loop EXCEPT ![r] = "woken"]
  /\ UNCHANGED <<monitorVars, pending, queue, inFlight, due, workerVars>>

\* Fault: every token counts as a change.
AlwaysOutdated(r) == TRUE

\* The loop's snapshot is older than the monitor.
Outdated(r) == revision # pending[r].revision

\* m.snapshot(run) and what the loop does with it.
LoopSnapshot(r) ==
  /\ loop[r] = "woken"
  /\ \/ /\ run # r
        /\ loop' = [loop EXCEPT ![r] = "exited"]
        /\ due' = [due EXCEPT ![r] = FALSE]
        /\ UNCHANGED <<pending, queue>>
     \/ /\ run = r
        /\ loop' = [loop EXCEPT ![r] = "select"]
        /\ IF Outdated(r)
           THEN /\ pending' = [pending EXCEPT ![r] =
                     [revision |-> revision, available |-> available,
                      providers |-> providers]]
                /\ queue' = [queue EXCEPT ![r] = {}]
                /\ due' = [due EXCEPT ![r] = available /\ providers # {}]
           ELSE UNCHANGED <<pending, queue, due>>
  /\ UNCHANGED <<monitorVars, wake, inFlight, workerVars>>

\* case <-due: the debounce is over.
LoopDue(r) ==
  /\ loop[r] = "select"
  /\ due[r]
  /\ due' = [due EXCEPT ![r] = FALSE]
  /\ queue' = IF Current(r, pending[r].revision)
              THEN [queue EXCEPT ![r] = pending[r].providers]
              ELSE queue
  /\ UNCHANGED <<monitorVars, wake, loop, pending, inFlight, workerVars>>

----------------------------------------------------------------------------
(* checkWorker and checkProvider of worker w of run r.                     *)

Goto(r, w, pc) == worker' = [worker EXCEPT ![r][w] = pc]

\* Fault: a worker with a result waits for the loop and for nothing else.
WorkerStopWhenIdle(r, w) ==
  /\ r \in stopped
  /\ \/ worker[r][w] = "idle" /\ Goto(r, w, "exited")
     \/ worker[r][w] = "retry" /\ Goto(r, w, "report")
  /\ UNCHANGED <<monitorVars, wake, loopVars, job, launched>>

\* case <-run.stop in the worker's two selects, and in the retry's select,
\* where it only ends checkProvider.
WorkerStop(r, w) ==
  /\ r \in stopped
  /\ \/ worker[r][w] \in {"idle", "report"} /\ Goto(r, w, "exited")
     \/ worker[r][w] = "retry" /\ Goto(r, w, "report")
  /\ UNCHANGED <<monitorVars, wake, loopVars, job, launched>>

\* The lock-protected decision to call HealthCheck, first time or retry.
WorkerCheck(r, w) ==
  /\ worker[r][w] = "check"
  /\ Goto(r, w, IF Current(r, job[r][w].revision) THEN "launch" ELSE "report")
  /\ UNCHANGED <<monitorVars, wake, loopVars, job, launched>>

\* job.provider.HealthCheck() is entered; the lock is not held any more.
Launch(r, w) ==
  /\ worker[r][w] = "launch"
  /\ Goto(r, w, "testing")
  /\ launched' = launched \cup {job[r][w]}
  /\ UNCHANGED <<monitorVars, wake, loopVars, job>>

\* HealthCheck returns.  The retry is the last thing checkProvider does.
Return(r, w) ==
  /\ worker[r][w] = "testing"
  /\ Goto(r, w, IF job[r][w].attempt = 1 THEN "verify" ELSE "report")
  /\ UNCHANGED <<monitorVars, wake, loopVars, job, launched>>

\* The second look: a job that is still current and whose provider still has
\* a failed proxy (failed) is retried.
Verify(r, w, failed) ==
  /\ worker[r][w] = "verify"
  /\ Goto(r, w, IF Current(r, job[r][w].revision) /\ failed
                THEN "retry" ELSE "report")
  /\ UNCHANGED <<monitorVars, wake, loopVars, job, launched>>

\* case <-timer.C: the retry delay is over.
RetryTimer(r, w) ==
  /\ worker[r][w] = "retry"
  /\ Goto(r, w, "check")
  /\ job' = [job EXCEPT ![r][w].attempt = 2]
  /\ UNCHANGED <<monitorVars, wake, loopVars, launched>>

----------------------------------------------------------------------------
Environment ==
  \/ \E n \in Network : Update(n)
  \/ \E ps \in SUBSET Provider : SetProviders(ps)
  \/ Start
  \/ Stop

LoopStep(r) ==
  \/ LoopStop(r)
  \/ LoopWake(r)
  \/ LoopSnapshot(r)
  \/ LoopDue(r)
  \/ \E w \in Worker : Dispatch(r, w) \/ Complete(r, w)

WorkerStep(r, w) ==
  \/ WorkerStop(r, w)
  \/ WorkerCheck(r, w)
  \/ Launch(r, w)
  \/ Return(r, w)
  \/ \E failed \in BOOLEAN : Verify(r, w, failed)
  \/ RetryTimer(r, w)

Next ==
  \/ Environment
  \/ \E r \in Run : LoopStep(r)
  \/ \E r \in Run, w \in Worker : WorkerStep(r, w)

Spec == Init /\ [][Next]_vars

(* The Go runtime schedules every goroutine and a select takes each branch *)
(* that stays ready; timers fire.  A HealthCheck returns unless its        *)
(* provider is slow.  Nothing obliges the environment to do anything.      *)
Fairness ==
  /\ \A r \in Run :
       /\ WF_vars(LoopStop(r))
       /\ WF_vars(LoopWake(r))
       /\ WF_vars(LoopSnapshot(r))
       /\ WF_vars(LoopDue(r))
       /\ WF_vars(\E w \in Worker : Dispatch(r, w))
  /\ \A r \in Run, w \in Worker :
       /\ WF_vars(Complete(r, w))
       /\ WF_vars(WorkerStop(r, w))
       /\ WF_vars(WorkerCheck(r, w))
       /\ WF_vars(Launch(r, w))
       /\ WF_vars(Return(r, w) /\ job[r][w].provider \notin Slow)
       /\ WF_vars(\E failed \in BOOLEAN : Verify(r, w, failed))
       /\ WF_vars(RetryTimer(r, w))

FairSpec == Spec /\ Fairness

----------------------------------------------------------------------------
(* Properties.                                                             *)

\* No change is lost between the monitor and the active run's loop: while the
\* loop waits with an outdated snapshot, a token is in its wake channel
\* (wakeLocked drops a token only when one is there already).
NoLostWakeup ==
  \A r \in Run :
    run = r => \/ loop[r] = "woken"
               \/ /\ loop[r] = "select"
                  /\ pending[r].revision # revision => wake[r]

\* The revision stands for the whole monitor state: a snapshot taken at the
\* monitor's present revision by the active run still is that state, so
\* comparing revisions (current) is enough to detect every change.
SnapshotCoherent ==
  \A r \in Run :
    (run = r /\ pending[r].revision = revision) =>
      pending[r] = [revision |-> revision, available |-> available,
                    providers |-> providers]

Busy(r, w) == worker[r][w] \notin {"none", "idle", "exited"}

\* A provider is in at most one worker of a run, "even if another network
\* change arrives during its test" (the comment on inFlight).
OneWorkerPerProvider ==
  \A r \in Run : \A v, w \in Worker :
    (v # w /\ Busy(r, v) /\ Busy(r, w)) =>
      job[r][v].provider # job[r][w].provider

\* One check and one retry of a provider per revision: what a worker is about
\* to launch was never launched before, and a retry follows its first check.
OncePerRevision ==
  \A r \in Run, w \in Worker :
    worker[r][w] = "launch" =>
      /\ job[r][w] \notin launched
      /\ job[r][w].attempt = 2 => [job[r][w] EXCEPT !.attempt = 1] \in launched

\* The decision to call HealthCheck is only made for a provider of the
\* configuration that is applied at that moment, by the run that is active,
\* while the network is usable: jobs of an old configuration, an old network
\* or a retired run are dropped.
DecidesForCurrentConfig ==
  [][\A r \in Run, w \in Worker :
       (worker[r][w] # "launch" /\ worker'[r][w] = "launch") =>
         /\ run = r /\ r \notin stopped
         /\ available
         /\ job[r][w].provider \in providers]_vars

\* No goroutine of a retired run lives on: in the end its loop has exited, and
\* every worker that is not stuck in a slow HealthCheck for good.
Gone(r) ==
  /\ loop[r] = "exited"
  /\ \A w \in Worker :
       \/ worker[r][w] = "exited"
       \/ worker[r][w] = "testing" /\ job[r][w].provider \in Slow

RetiredRunsEnd == \A r \in Run : (r \in stopped) ~> []Gone(r)

----------------------------------------------------------------------------
(* The contract: what was launched or is about to be is decided, and the   *)
(* providers of the active run may be checked while the network is usable. *)

Decided ==
  launched \cup
  UNION {{job[r][w] : w \in {x \in Worker : worker[r][x] = "launch"}} : r \in Run}

\* A HealthCheck cannot be cancelled: as many slow providers as the run has workers
\* are being checked, each by a worker of its own.
Crowded ==
  /\ run # 0
  /\ LET testing == {w \in Worker : worker[run][w] = "testing"}
         held    == Slow \cap {job[run][w].provider : w \in testing}
     IN  Cardinality(held) = Cardinality(Worker)

Contract == INSTANCE HealthContract WITH
  crowded <- Crowded,
  allowed <- IF run # 0 /\ available THEN providers ELSE {},
  decided <- Decided

\* The monitor does what its contract says, step by step: whatever its
\* goroutines interleave, every step is a change, one decision for a provider
\* that may be checked now, at the present revision (a retry only after its
\* check), or no step of the contract.  OncePerRevision says that the latter is
\* not a second decision on the same.
ChecksAsPromised == Contract!ContractSpec

\* The monitor also keeps the promise that every provider that may be checked is
\* checked, unless things change before, whatever was in flight, as long as fewer
\* slow providers than workers are being checked.  As many as there are workers
\* starve the others until the next run: the providers "a-blocked" to "d-blocked"
\* and "e-old" of android_network_health_test.go.
ChecksDelivered == Contract!ContractFairSpec
=============================================================================
