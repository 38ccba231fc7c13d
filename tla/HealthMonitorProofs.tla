------------------------ MODULE HealthMonitorProofs ------------------------
(* Safety of HealthMonitor for every number of providers, workers, runs    *)
(* and revisions.  Each layer of the inductive invariant is proved on top  *)
(* of the ones before it: types, the active run, the wake-up, the          *)
(* snapshots, the jobs.                                                    *)
EXTENDS HealthMonitor, TLAPS

\* A worker that is in the middle of a job holds one (NoJob is never read).
JobTyped == \A r \in Run, w \in Worker : Busy(r, w) => job[r][w] \in Job

Typing == TypeOK /\ JobTyped

\* The retry of a job is a job.
LEMMA RetryIsJob ==
  ASSUME NEW j \in Job PROVE [j EXCEPT !.attempt = 2] \in Job
BY DEF Job

\* What m.snapshot returns is a snapshot.
LEMMA MonitorIsSnapshot ==
  TypeOK => [revision |-> revision, available |-> available,
             providers |-> providers] \in Snapshot
BY DEF TypeOK, Snapshot

LEMMA TypingInit == Init => Typing
<1> SUFFICES ASSUME Init PROVE Typing
    OBVIOUS
<1> USE MonitorAssumption DEF Init
<1>1. pending \in [Run -> Snapshot]
      BY DEF ZeroSnapshot, Snapshot
<1>2. worker \in [Run -> [Worker -> WorkerPc]] /\ loop \in [Run -> LoopPc]
      BY DEF WorkerPc, LoopPc
<1>3. TypeOK
  <2>1. job \in [Run -> [Worker -> Job \cup {NoJob}]]
        OBVIOUS
  <2>2. /\ queue \in [Run -> SUBSET Provider]
        /\ inFlight \in [Run -> SUBSET Provider]
        /\ wake \in [Run -> BOOLEAN]
        /\ due \in [Run -> BOOLEAN]
        OBVIOUS
  <2>3. runs \in 0 .. MaxRun
        OBVIOUS
  <2>4. QED BY <1>1, <1>2, <2>1, <2>2, <2>3 DEF TypeOK
<1>4. JobTyped
      BY DEF JobTyped, Busy
<1>5. QED BY <1>3, <1>4 DEF Typing

\* Every step keeps the types, and a worker is busy only with a job.
LEMMA TypingStep == Typing /\ [Next]_vars => Typing'
<1> SUFFICES ASSUME Typing, [Next]_vars PROVE Typing'
    OBVIOUS
<1> USE MonitorAssumption DEF Typing, TypeOK, JobTyped, Busy, Run
<1>1. ASSUME NEW n \in Network, Update(n) PROVE Typing'
      BY <1>1 DEF Update, WakeLocked, loopVars, workerVars
<1>2. ASSUME NEW ps \in SUBSET Provider, SetProviders(ps) PROVE Typing'
      BY <1>2 DEF SetProviders, WakeLocked, loopVars, workerVars
<1>3. CASE Start
      BY <1>3 DEF Start, LoopPc, WorkerPc
<1>4. CASE Stop
      BY <1>4 DEF Stop, loopVars, workerVars
<1>5. ASSUME NEW r \in Run, LoopStep(r) PROVE Typing'
  <2>1. CASE LoopStop(r)
        BY <2>1 DEF LoopStop, monitorVars, workerVars, LoopPc
  <2>2. CASE LoopWake(r)
        BY <2>2 DEF LoopWake, monitorVars, workerVars, LoopPc
  <2>3. CASE LoopSnapshot(r)
    <3>1. loop' \in [Run -> LoopPc] /\ due' \in [Run -> BOOLEAN]
          BY <2>3 DEF LoopSnapshot, LoopPc
    <3>2. pending' \in [Run -> Snapshot]
          BY <2>3, MonitorIsSnapshot DEF LoopSnapshot
    <3>3. queue' \in [Run -> SUBSET Provider]
          BY <2>3 DEF LoopSnapshot
    <3>4. QED BY <2>3, <3>1, <3>2, <3>3 DEF LoopSnapshot, monitorVars, workerVars
  <2>4. CASE LoopDue(r)
        BY <2>4 DEF LoopDue, monitorVars, workerVars, Snapshot
  <2>5. ASSUME NEW w \in Worker, Dispatch(r, w) PROVE Typing'
        BY <2>5 DEF Dispatch, Free, monitorVars, WorkerPc, Job, Snapshot
  <2>6. ASSUME NEW w \in Worker, Complete(r, w) PROVE Typing'
        BY <2>6 DEF Complete, monitorVars, WorkerPc
  <2>7. QED BY <1>5, <2>1, <2>2, <2>3, <2>4, <2>5, <2>6 DEF LoopStep
<1>6. ASSUME NEW r \in Run, NEW w \in Worker, WorkerStep(r, w) PROVE Typing'
  <2> USE DEF monitorVars, loopVars
  <2>1. CASE WorkerStop(r, w)
    <3>1. CASE worker[r][w] \in {"idle", "report"} /\ Goto(r, w, "exited")
          BY <2>1, <3>1 DEF WorkerStop, Goto, WorkerPc
    <3>2. CASE worker[r][w] = "retry" /\ Goto(r, w, "report")
          BY <2>1, <3>2 DEF WorkerStop, Goto, WorkerPc
    <3>3. QED BY <2>1, <3>1, <3>2 DEF WorkerStop
  <2>2. CASE WorkerCheck(r, w)
        BY <2>2 DEF WorkerCheck, Goto, WorkerPc
  <2>3. CASE Launch(r, w)
        BY <2>3 DEF Launch, Goto, WorkerPc
  <2>4. CASE Return(r, w)
        BY <2>4 DEF Return, Goto, WorkerPc
  <2>5. ASSUME NEW failed \in BOOLEAN, Verify(r, w, failed) PROVE Typing'
        BY <2>5 DEF Verify, Goto, WorkerPc
  <2>6. CASE RetryTimer(r, w)
    <3>1. [job[r][w] EXCEPT !.attempt = 2] \in Job
          BY <2>6, RetryIsJob DEF RetryTimer
    <3>2. job' \in [Run -> [Worker -> Job \cup {NoJob}]]
          BY <2>6, <3>1 DEF RetryTimer
    <3>3. worker' \in [Run -> [Worker -> WorkerPc]]
          BY <2>6 DEF RetryTimer, Goto, WorkerPc
    <3>4. JobTyped'
          BY <2>6, <3>1 DEF RetryTimer, Goto
    <3>5. QED BY <2>6, <3>2, <3>3, <3>4 DEF RetryTimer
  <2>7. QED BY <1>6, <2>1, <2>2, <2>3, <2>4, <2>5, <2>6 DEF WorkerStep
<1>7. CASE UNCHANGED vars
      BY <1>7 DEF vars, monitorVars, loopVars, workerVars
<1>8. QED BY <1>1, <1>2, <1>3, <1>4, <1>5, <1>6, <1>7 DEF Next, Environment

\* The monitor's state keeps its shape whatever the goroutines do.
THEOREM TypeCorrect == Spec => []TypeOK
<1>1. Typing => TypeOK
      BY DEF Typing
<1>2. QED BY <1>1, TypingInit, TypingStep, PTL DEF Spec

----------------------------------------------------------------------------
(* The active run.                                                         *)

\* Runs are numbered as they start: the active one has started, and is not
\* retired.
RunOK ==
  /\ run <= runs
  /\ run \notin stopped
  /\ \A r \in stopped : r <= runs

LEMMA RunInit == Init => RunOK
BY DEF Init, RunOK

LEMMA RunStep == Typing /\ RunOK /\ [Next]_vars => RunOK'
<1> SUFFICES ASSUME Typing, RunOK, [Next]_vars PROVE RunOK'
    OBVIOUS
<1> USE MonitorAssumption DEF RunOK
<1>0. run \in Nat /\ runs \in Nat /\ stopped \subseteq Nat /\ 0 \notin stopped
      BY DEF Typing, TypeOK, Run
<1>1. CASE Start
      BY <1>0, <1>1 DEF Start
<1>2. CASE Stop
      BY <1>0, <1>2 DEF Stop
<1>3. CASE UNCHANGED <<run, runs, stopped>>
      BY <1>3
<1>4. CASE \/ \E n \in Network : Update(n)
           \/ \E ps \in SUBSET Provider : SetProviders(ps)
      BY <1>3, <1>4 DEF Update, SetProviders
<1>5. ASSUME NEW r \in Run, LoopStep(r) PROVE UNCHANGED monitorVars
      BY <1>5 DEF LoopStep, LoopStop, LoopWake, LoopSnapshot, LoopDue,
         Dispatch, Complete
<1>6. ASSUME NEW r \in Run, NEW w \in Worker, WorkerStep(r, w)
      PROVE  UNCHANGED monitorVars
      BY <1>6 DEF WorkerStep, WorkerStop, WorkerCheck, Launch, Return, Verify,
         RetryTimer
<1>7. QED
      BY <1>1, <1>2, <1>3, <1>4, <1>5, <1>6
      DEF Next, Environment, vars, monitorVars

----------------------------------------------------------------------------
(* The wake channel.                                                       *)

LEMMA WakeupInit == Init => NoLostWakeup
BY MonitorAssumption DEF Init, NoLostWakeup, Run

LEMMA WakeupStep ==
  Typing /\ RunOK /\ NoLostWakeup /\ [Next]_vars => NoLostWakeup'
<1> SUFFICES ASSUME Typing, RunOK, NoLostWakeup, [Next]_vars
             PROVE  NoLostWakeup'
    OBVIOUS
<1> USE MonitorAssumption DEF NoLostWakeup
<1>0. /\ wake \in [Run -> BOOLEAN] /\ loop \in [Run -> LoopPc]
      /\ pending \in [Run -> Snapshot]
      /\ run \in Run \cup {0} /\ revision \in Nat
      BY DEF Typing, TypeOK
<1>1. ASSUME NEW n \in Network, Update(n) PROVE NoLostWakeup'
      BY <1>0, <1>1 DEF Update, WakeLocked, loopVars, Run
<1>2. ASSUME NEW ps \in SUBSET Provider, SetProviders(ps) PROVE NoLostWakeup'
      BY <1>0, <1>2 DEF SetProviders, WakeLocked, loopVars, Run
<1>3. CASE Start
  <2>1. runs + 1 \in Run
        BY <1>3 DEF Start, Typing, TypeOK, Run
  <2>2. /\ run' = runs + 1
        /\ loop'[runs + 1] = "select"
        /\ wake'[runs + 1] = TRUE
        BY <1>0, <1>3, <2>1 DEF Start
  <2>3. QED BY <2>1, <2>2
<1>4. CASE Stop
      BY <1>4 DEF Stop, Run
<1>5. ASSUME NEW r \in Run, LoopStep(r) PROVE NoLostWakeup'
  <2>1. CASE LoopStop(r)
        BY <1>0, <2>1 DEF LoopStop, monitorVars, RunOK
  <2>2. CASE LoopWake(r)
        BY <1>0, <2>2 DEF LoopWake, monitorVars
  <2>3. CASE LoopSnapshot(r)
        BY <1>0, <2>3 DEF LoopSnapshot, Outdated, monitorVars
  <2>4. CASE LoopDue(r)
        BY <2>4 DEF LoopDue, monitorVars
  <2>5. ASSUME NEW w \in Worker, Dispatch(r, w) \/ Complete(r, w)
        PROVE  NoLostWakeup'
        BY <2>5 DEF Dispatch, Complete, monitorVars
  <2>6. QED BY <1>5, <2>1, <2>2, <2>3, <2>4, <2>5 DEF LoopStep
<1>6. ASSUME NEW r \in Run, NEW w \in Worker, WorkerStep(r, w)
      PROVE  NoLostWakeup'
      BY <1>6 DEF WorkerStep, WorkerStop, WorkerCheck, Launch, Return, Verify,
         RetryTimer, monitorVars, loopVars
<1>7. CASE UNCHANGED vars
      BY <1>7 DEF vars, monitorVars, loopVars
<1>8. QED BY <1>1, <1>2, <1>3, <1>4, <1>5, <1>6, <1>7 DEF Next, Environment

\* wakeLocked may drop its token: a change of the network or of the providers
\* still reaches the active run's loop.
THEOREM WakeupNotLost == Spec => []NoLostWakeup
BY TypingInit, TypingStep, RunInit, RunStep, WakeupInit, WakeupStep, PTL
DEF Spec

----------------------------------------------------------------------------
(* The snapshots.                                                          *)

\* A snapshot is as old as its revision says, and the one of the present
\* revision is the present state.
SnapshotOK ==
  \A r \in Run :
    /\ pending[r].revision <= revision
    /\ pending[r].revision = revision =>
         pending[r] = [revision |-> revision, available |-> available,
                       providers |-> providers]

LEMMA SnapshotInit == Init => SnapshotOK
<1> SUFFICES ASSUME Init, NEW r \in Run
             PROVE  /\ pending[r].revision <= revision
                    /\ pending[r] = [revision |-> revision,
                         available |-> available, providers |-> providers]
    BY DEF SnapshotOK
<1>1. pending[r] = ZeroSnapshot
      BY DEF Init
<1>2. pending[r].revision = 0 /\ revision = 0
      BY <1>1 DEF Init, ZeroSnapshot
<1>3. pending[r] = [revision |-> revision, available |-> available,
                    providers |-> providers]
      BY <1>1, Zenon DEF Init, ZeroSnapshot
<1>4. QED BY <1>2, <1>3

LEMMA SnapshotStep == Typing /\ SnapshotOK /\ [Next]_vars => SnapshotOK'
<1> SUFFICES ASSUME Typing, SnapshotOK, [Next]_vars PROVE SnapshotOK'
    OBVIOUS
<1>0. revision \in Nat /\ pending \in [Run -> Snapshot]
      BY DEF Typing, TypeOK
<1>1. \A r \in Run : pending[r].revision \in Nat
      BY <1>0 DEF Snapshot
<1>2. CASE revision' = revision + 1 /\ pending' = pending
      BY <1>0, <1>1, <1>2 DEF SnapshotOK
<1>3. CASE UNCHANGED <<revision, available, providers, pending>>
      BY <1>3 DEF SnapshotOK
<1>4. CASE Environment
      BY <1>2, <1>4
      DEF Environment, Update, SetProviders, Start, Stop, loopVars
<1>5. ASSUME NEW r \in Run, LoopSnapshot(r) PROVE SnapshotOK'
      BY <1>0, <1>5 DEF LoopSnapshot, SnapshotOK, monitorVars
<1>6. ASSUME NEW r \in Run, LoopStep(r), ~ LoopSnapshot(r) PROVE SnapshotOK'
      BY <1>3, <1>6 DEF LoopStep, LoopStop, LoopWake, LoopDue, Dispatch,
         Complete, monitorVars
<1>7. ASSUME NEW r \in Run, NEW w \in Worker, WorkerStep(r, w)
      PROVE  SnapshotOK'
      BY <1>3, <1>7 DEF WorkerStep, WorkerStop, WorkerCheck, Launch, Return,
         Verify, RetryTimer, monitorVars, loopVars
<1>8. QED BY <1>3, <1>4, <1>5, <1>6, <1>7
      DEF Next, vars, monitorVars, loopVars

\* Comparing revisions is enough to detect every change of the monitor.
THEOREM SnapshotIsCoherent == Spec => []SnapshotCoherent
<1>1. SnapshotOK => SnapshotCoherent
      BY DEF SnapshotOK, SnapshotCoherent
<1>2. QED BY <1>1, TypingInit, TypingStep, SnapshotInit, SnapshotStep, PTL
      DEF Spec

----------------------------------------------------------------------------
(* The jobs.                                                               *)

\* A queue belongs to its loop's snapshot, and a job is as old as its revision
\* says; one of the present revision tests a provider that is applied.
JobOK ==
  /\ \A r \in Run : queue[r] \subseteq pending[r].providers
  /\ \A r \in Run, w \in Worker : Busy(r, w) =>
       /\ job[r][w].revision <= revision
       /\ job[r][w].revision = revision => job[r][w].provider \in providers

LEMMA JobInit == Init => JobOK
BY DEF Init, JobOK, Busy

LEMMA JobStep == Typing /\ SnapshotOK /\ JobOK /\ [Next]_vars => JobOK'
<1> SUFFICES ASSUME Typing, SnapshotOK, JobOK, [Next]_vars PROVE JobOK'
    OBVIOUS
<1>0. /\ revision \in Nat
      /\ pending \in [Run -> Snapshot]
      /\ queue \in [Run -> SUBSET Provider]
      /\ worker \in [Run -> [Worker -> WorkerPc]]
      /\ job \in [Run -> [Worker -> Job \cup {NoJob}]]
      /\ \A r \in Run, w \in Worker : Busy(r, w) => job[r][w].revision \in Nat
      BY DEF Typing, TypeOK, JobTyped, Job
<1>1. CASE /\ revision' = revision + 1
           /\ UNCHANGED <<queue, pending, job>>
           /\ \A r \in Run, w \in Worker : Busy(r, w)' => Busy(r, w)
      BY <1>0, <1>1 DEF JobOK
<1>2. CASE /\ UNCHANGED <<revision, providers, queue, pending, job>>
           /\ \A r \in Run, w \in Worker : Busy(r, w)' => Busy(r, w)
      BY <1>2 DEF JobOK
<1>3. CASE Environment
  <2>1. CASE Start
        BY <1>0, <1>1, <2>1 DEF Start, Busy
  <2>2. CASE ~ Start
        BY <1>1, <1>3, <2>2
        DEF Environment, Update, SetProviders, Stop, loopVars, workerVars, Busy
  <2>3. QED BY <2>1, <2>2
<1>4. ASSUME NEW r \in Run, LoopStep(r) PROVE JobOK'
  <2>1. CASE LoopStop(r) \/ LoopWake(r)
        BY <1>2, <2>1
        DEF LoopStop, LoopWake, monitorVars, workerVars, Busy
  <2>2. CASE LoopSnapshot(r)
        BY <1>0, <2>2
        DEF LoopSnapshot, JobOK, monitorVars, workerVars, Busy
  <2>3. CASE LoopDue(r)
        BY <1>0, <2>3 DEF LoopDue, JobOK, monitorVars, workerVars, Busy
  <2>4. ASSUME NEW w \in Worker, Dispatch(r, w) PROVE JobOK'
    <3>1. PICK p \in Free(r) :
            /\ queue' = [queue EXCEPT ![r] = @ \ {p}]
            /\ job' = [job EXCEPT ![r][w] =
                 [provider |-> p, revision |-> pending[r].revision,
                  attempt |-> 1]]
          BY <2>4 DEF Dispatch
    <3>2. p \in pending[r].providers
          BY <3>1 DEF Free, JobOK
    <3>3. /\ pending[r].revision <= revision
          /\ pending[r].revision = revision => p \in providers
          BY <3>2 DEF SnapshotOK
    <3>4. /\ job'[r][w].revision = pending[r].revision
          /\ job'[r][w].provider = p
          BY <1>0, <3>1
    <3>5. \A q \in Run, v \in Worker :
            (q # r \/ v # w) =>
              /\ job'[q][v] = job[q][v]
              /\ Busy(q, v)' => Busy(q, v)
          BY <1>0, <2>4, <3>1 DEF Dispatch, Busy
    <3>6. UNCHANGED <<revision, providers, pending>>
          BY <2>4 DEF Dispatch, monitorVars
    <3>7. \A q \in Run : queue'[q] \subseteq pending'[q].providers
          BY <1>0, <3>1, <3>6 DEF JobOK
    <3>8. ASSUME NEW q \in Run, NEW v \in Worker, Busy(q, v)'
          PROVE  /\ job'[q][v].revision <= revision'
                 /\ job'[q][v].revision = revision' =>
                      job'[q][v].provider \in providers'
      <4>1. CASE q = r /\ v = w
            BY <3>3, <3>4, <3>6, <4>1
      <4>2. CASE q # r \/ v # w
        <5>1. job'[q][v] = job[q][v] /\ Busy(q, v)
              BY <3>5, <3>8, <4>2
        <5>2. /\ job[q][v].revision <= revision
              /\ job[q][v].revision = revision =>
                   job[q][v].provider \in providers
              BY <5>1 DEF JobOK
        <5>3. QED BY <3>6, <5>1, <5>2
      <4>3. QED BY <4>1, <4>2
    <3>9. QED BY <3>7, <3>8 DEF JobOK
  <2>5. ASSUME NEW w \in Worker, Complete(r, w) PROVE JobOK'
        BY <1>0, <1>2, <2>5 DEF Complete, monitorVars, Busy
  <2>6. QED BY <1>4, <2>1, <2>2, <2>3, <2>4, <2>5 DEF LoopStep
<1>5. ASSUME NEW r \in Run, NEW w \in Worker, WorkerStep(r, w) PROVE JobOK'
  <2> USE DEF monitorVars, loopVars, Goto, Busy
  <2>1. CASE WorkerStop(r, w) \/ WorkerCheck(r, w)
        BY <1>0, <1>2, <2>1 DEF WorkerStop, WorkerCheck
  <2>2. CASE Launch(r, w) \/ Return(r, w)
        BY <1>0, <1>2, <2>2 DEF Launch, Return
  <2>3. ASSUME NEW failed \in BOOLEAN, Verify(r, w, failed) PROVE JobOK'
        BY <1>0, <1>2, <2>3 DEF Verify
  <2>4. CASE RetryTimer(r, w)
    <3>1. job[r][w] \in Job
          BY <2>4 DEF RetryTimer, Typing, JobTyped
    <3>2. /\ job'[r][w].revision = job[r][w].revision
          /\ job'[r][w].provider = job[r][w].provider
          BY <1>0, <2>4, <3>1 DEF RetryTimer, Job
    <3>3. \A q \in Run, v \in Worker :
            /\ (q # r \/ v # w) => job'[q][v] = job[q][v]
            /\ Busy(q, v)' => Busy(q, v)
          BY <1>0, <2>4 DEF RetryTimer
    <3>4. UNCHANGED <<revision, providers, pending, queue>>
          BY <2>4 DEF RetryTimer
    <3>5. \A q \in Run, v \in Worker :
            /\ job'[q][v].revision = job[q][v].revision
            /\ job'[q][v].provider = job[q][v].provider
          BY <3>2, <3>3
    <3>6. QED BY <3>3, <3>4, <3>5 DEF JobOK
  <2>5. QED BY <1>5, <2>1, <2>2, <2>3, <2>4 DEF WorkerStep
<1>6. CASE UNCHANGED vars
      BY <1>2, <1>6 DEF vars, monitorVars, loopVars, workerVars, Busy
<1>7. QED BY <1>3, <1>4, <1>5, <1>6 DEF Next

\* The step of the theorem below: current() decides to call HealthCheck only for the active run, a usable
\* network and a provider of the configuration that is applied.
LEMMA DecisionStep ==
  Typing /\ RunOK /\ JobOK /\ [Next]_vars =>
    \A r \in Run, w \in Worker :
      (worker[r][w] # "launch" /\ worker'[r][w] = "launch") =>
        /\ run = r /\ r \notin stopped
        /\ available
        /\ job[r][w].provider \in providers
<1> SUFFICES ASSUME Typing, RunOK, JobOK, [Next]_vars,
                    NEW r \in Run, NEW w \in Worker,
                    worker[r][w] # "launch", worker'[r][w] = "launch"
             PROVE  /\ run = r /\ r \notin stopped
                    /\ available
                    /\ job[r][w].provider \in providers
    OBVIOUS
<1>0. worker \in [Run -> [Worker -> WorkerPc]]
      BY DEF Typing, TypeOK
<1>1. WorkerCheck(r, w)
  <2>1. ~ Environment /\ worker' # worker
        BY <1>0 DEF Environment, Update, SetProviders, Start, Stop, workerVars
  <2>2. ASSUME NEW q \in Run, LoopStep(q) PROVE FALSE
        BY <1>0, <2>1, <2>2 DEF LoopStep, LoopStop, LoopWake, LoopSnapshot, LoopDue,
           Dispatch, Complete, workerVars
  <2>3. ASSUME NEW q \in Run, NEW v \in Worker, WorkerStep(q, v)
        PROVE  WorkerCheck(q, v) /\ q = r /\ v = w
        BY <1>0, <2>3 DEF WorkerStep, WorkerStop, WorkerCheck, Launch, Return,
           Verify, RetryTimer, Goto
  <2>4. QED BY <2>1, <2>2, <2>3 DEF Next, vars, workerVars
<1>2. Current(r, job[r][w].revision)
      BY <1>0, <1>1 DEF WorkerCheck, Goto
<1>3. Busy(r, w)
      BY <1>1 DEF WorkerCheck, Busy
<1>4. QED BY <1>2, <1>3 DEF Current, JobOK, RunOK

\* Jobs of an old configuration, an old network or a retired run are dropped
\* when their worker looks at the monitor.
THEOREM DecidesForCurrent == Spec => DecidesForCurrentConfig
<1>1. Typing /\ RunOK /\ JobOK /\ [Next]_vars =>
        [\A r \in Run, w \in Worker :
           (worker[r][w] # "launch" /\ worker'[r][w] = "launch") =>
             /\ run = r /\ r \notin stopped
             /\ available
             /\ job[r][w].provider \in providers]_vars
      BY DecisionStep
<1>2. QED
      BY <1>1, TypingInit, TypingStep, RunInit, RunStep, SnapshotInit,
         SnapshotStep, JobInit, JobStep, PTL
      DEF Spec, DecidesForCurrentConfig

----------------------------------------------------------------------------
(* The providers in flight.                                                *)

\* inFlight covers what the workers of a run hold (it may hold more: a worker
\* that exits on stop never reports), so no provider is held twice.
HoldOK ==
  /\ \A r \in Run, w \in Worker :
       Busy(r, w) => job[r][w].provider \in inFlight[r]
  /\ OneWorkerPerProvider

LEMMA HoldInit == Init => HoldOK
BY DEF Init, HoldOK, OneWorkerPerProvider, Busy

LEMMA HoldStep == Typing /\ HoldOK /\ [Next]_vars => HoldOK'
<1> SUFFICES ASSUME Typing, HoldOK, [Next]_vars PROVE HoldOK'
    OBVIOUS
<1>0. /\ inFlight \in [Run -> SUBSET Provider]
      /\ worker \in [Run -> [Worker -> WorkerPc]]
      /\ job \in [Run -> [Worker -> Job \cup {NoJob}]]
      BY DEF Typing, TypeOK
<1>1. CASE /\ UNCHANGED <<inFlight, job>>
           /\ \A r \in Run, w \in Worker : Busy(r, w)' => Busy(r, w)
      BY <1>1 DEF HoldOK, OneWorkerPerProvider
<1>2. CASE Environment
      BY <1>0, <1>1, <1>2
      DEF Environment, Update, SetProviders, Start, Stop, loopVars, workerVars,
          Busy
<1>3. ASSUME NEW r \in Run, LoopStep(r) PROVE HoldOK'
  <2>1. CASE LoopStop(r) \/ LoopWake(r) \/ LoopSnapshot(r) \/ LoopDue(r)
        BY <1>1, <2>1 DEF LoopStop, LoopWake, LoopSnapshot, LoopDue, workerVars,
           Busy
  <2>2. ASSUME NEW w \in Worker, Dispatch(r, w) PROVE HoldOK'
    <3>1. PICK p \in Free(r) :
            /\ inFlight' = [inFlight EXCEPT ![r] = @ \cup {p}]
            /\ job' = [job EXCEPT ![r][w] =
                 [provider |-> p, revision |-> pending[r].revision,
                  attempt |-> 1]]
          BY <2>2 DEF Dispatch
    <3>2. p \notin inFlight[r]
          BY <3>1 DEF Free
    <3>3. job'[r][w].provider = p /\ p \in inFlight'[r]
          BY <1>0, <3>1
    <3>4. ASSUME NEW q \in Run, NEW v \in Worker, q # r \/ v # w,
                 worker'[q][v] \notin {"none", "idle", "exited"}
          PROVE  /\ job'[q][v] = job[q][v]
                 /\ job[q][v].provider \in inFlight[q]
                 /\ inFlight[q] \subseteq inFlight'[q]
                 /\ worker[q][v] \notin {"none", "idle", "exited"}
      <4>1. job'[q][v] = job[q][v] /\ inFlight[q] \subseteq inFlight'[q]
            BY <1>0, <3>1, <3>4
      <4>2. worker[q][v] = worker'[q][v]
            BY <1>0, <2>2, <3>4 DEF Dispatch
      <4>3. QED BY <3>4, <4>1, <4>2 DEF HoldOK, Busy
    <3>5. \A q \in Run, v \in Worker :
            Busy(q, v)' => job'[q][v].provider \in inFlight'[q]
          BY <3>3, <3>4 DEF Busy
    <3>6. ASSUME NEW q \in Run, NEW u \in Worker, NEW v \in Worker, u # v,
                 worker'[q][u] \notin {"none", "idle", "exited"},
                 worker'[q][v] \notin {"none", "idle", "exited"}
          PROVE  job'[q][u].provider # job'[q][v].provider
      <4>1. CASE q = r /\ u = w
            BY <3>2, <3>3, <3>4, <3>6, <4>1
      <4>2. CASE q = r /\ v = w
            BY <3>2, <3>3, <3>4, <3>6, <4>2
      <4>3. CASE q # r \/ (u # w /\ v # w)
        <5>1. /\ job'[q][u] = job[q][u] /\ job'[q][v] = job[q][v]
              /\ Busy(q, u) /\ Busy(q, v)
              BY <3>4, <3>6, <4>3 DEF Busy
        <5>2. QED BY <3>6, <5>1 DEF HoldOK, OneWorkerPerProvider
      <4>4. QED BY <4>1, <4>2, <4>3
    <3>7. QED BY <3>5, <3>6 DEF HoldOK, OneWorkerPerProvider, Busy
  <2>3. ASSUME NEW w \in Worker, Complete(r, w) PROVE HoldOK'
    <3>1. /\ job' = job
          /\ inFlight' = [inFlight EXCEPT ![r] = @ \ {job[r][w].provider}]
          /\ worker' = [worker EXCEPT ![r][w] = "idle"]
          /\ Busy(r, w)
          BY <2>3 DEF Complete, Busy
    <3>2. \A q \in Run, v \in Worker :
            Busy(q, v)' => Busy(q, v) /\ (q # r \/ v # w)
          BY <1>0, <3>1 DEF Busy
    <3>3. OneWorkerPerProvider'
          BY <3>1, <3>2 DEF HoldOK, OneWorkerPerProvider
    <3>4. ASSUME NEW q \in Run, NEW v \in Worker, Busy(q, v),
                 q # r \/ v # w
          PROVE  job[q][v].provider \in inFlight'[q]
          BY <1>0, <3>1, <3>4 DEF HoldOK, OneWorkerPerProvider
    <3>5. QED BY <3>1, <3>2, <3>3, <3>4 DEF HoldOK
  <2>4. QED BY <1>3, <2>1, <2>2, <2>3 DEF LoopStep
<1>4. ASSUME NEW r \in Run, NEW w \in Worker, WorkerStep(r, w) PROVE HoldOK'
  <2> USE DEF monitorVars, loopVars, Goto, Busy
  <2>1. CASE WorkerStop(r, w) \/ WorkerCheck(r, w)
        BY <1>0, <1>1, <2>1 DEF WorkerStop, WorkerCheck
  <2>2. CASE Launch(r, w) \/ Return(r, w)
        BY <1>0, <1>1, <2>2 DEF Launch, Return
  <2>3. ASSUME NEW failed \in BOOLEAN, Verify(r, w, failed) PROVE HoldOK'
        BY <1>0, <1>1, <2>3 DEF Verify
  <2>4. CASE RetryTimer(r, w)
    <3>1. job[r][w] \in Job
          BY <2>4 DEF RetryTimer, Typing, JobTyped
    <3>2. job'[r][w].provider = job[r][w].provider
          BY <1>0, <2>4, <3>1 DEF RetryTimer, Job
    <3>3. \A q \in Run, v \in Worker :
            job'[q][v].provider = job[q][v].provider
          BY <1>0, <2>4, <3>2 DEF RetryTimer
    <3>4. \A q \in Run, v \in Worker : Busy(q, v)' => Busy(q, v)
          BY <1>0, <2>4 DEF RetryTimer
    <3>5. inFlight' = inFlight
          BY <2>4 DEF RetryTimer
    <3>6. QED BY <3>3, <3>4, <3>5 DEF HoldOK, OneWorkerPerProvider
  <2>5. QED BY <1>4, <2>1, <2>2, <2>3, <2>4 DEF WorkerStep
<1>5. CASE UNCHANGED vars
      BY <1>1, <1>5 DEF vars, loopVars, workerVars, Busy
<1>6. QED BY <1>2, <1>3, <1>4, <1>5 DEF Next

\* Whatever changes arrive while a provider is tested, no second worker of the
\* run picks it up.
THEOREM OneWorker == Spec => []OneWorkerPerProvider
<1>1. HoldOK => OneWorkerPerProvider
      BY DEF HoldOK
<1>2. QED BY <1>1, TypingInit, TypingStep, HoldInit, HoldStep, PTL DEF Spec
=============================================================================
