------------------------ MODULE HealthContractProofs ------------------------
(* The monitor implements its contract, for every number of providers,     *)
(* workers, runs and revisions: the initial state maps to the contract's,  *)
(* and every step to one of the contract's or to none.  The map is in      *)
(* HealthMonitor: decided are the checks launched or about to be, allowed  *)
(* the providers of the active run while the network is usable.  It checks *)
(* no provider twice at one revision.                                      *)
EXTENDS HealthMonitorProofs

(* What a retry rests on: a worker that is in a check, or past it, has made *)
(* it; the second look follows the first check only; a second attempt       *)
(* follows a first one.  The workers of a run that has not started do       *)
(* nothing, so that a start takes no decision back.                         *)
RetryOK ==
  /\ \A r \in Run, w \in Worker :
       /\ worker[r][w] \in {"testing", "verify", "retry"} => job[r][w] \in launched
       /\ worker[r][w] \in {"verify", "retry"} => job[r][w].attempt = 1
       /\ (worker[r][w] \in {"check", "launch"} /\ job[r][w].attempt = 2) =>
            [job[r][w] EXCEPT !.attempt = 1] \in launched
  /\ \A r \in Run, w \in Worker : r > runs => worker[r][w] = "none"

\* Taking the second attempt back gives the first one.
LEMMA FirstAttempt ==
  ASSUME NEW j \in Job, j.attempt = 1
  PROVE  [[j EXCEPT !.attempt = 2] EXCEPT !.attempt = 1] = j
BY DEF Job

LEMMA RetryInit == Init => RetryOK
BY DEF Init, RetryOK

LEMMA RetryStep == Typing /\ RetryOK /\ [Next]_vars => RetryOK'
<1> SUFFICES ASSUME Typing, RetryOK, [Next]_vars PROVE RetryOK'
    OBVIOUS
<1>0. /\ runs \in Nat
      /\ worker \in [Run -> [Worker -> WorkerPc]]
      /\ job \in [Run -> [Worker -> Job \cup {NoJob}]]
      BY MonitorAssumption DEF Typing, TypeOK
<1>1. CASE UNCHANGED <<runs, workerVars>>
      BY <1>1 DEF RetryOK, workerVars
<1>2. CASE Environment
  <2>1. CASE Start
    <3>1. \A r \in Run, w \in Worker :
            worker'[r][w] = worker[r][w] \/ (r = runs + 1 /\ worker'[r][w] = "idle")
          BY <1>0, <2>1 DEF Start
    <3>2. runs' = runs + 1 /\ UNCHANGED <<job, launched>>
          BY <2>1 DEF Start
    <3>3. QED BY <1>0, <3>1, <3>2 DEF RetryOK, Run
  <2>2. CASE ~ Start
        BY <1>1, <1>2, <2>2 DEF Environment, Update, SetProviders, Stop
  <2>3. QED BY <2>1, <2>2
<1>3. ASSUME NEW r \in Run, LoopStep(r) PROVE RetryOK'
  <2>1. CASE LoopStop(r) \/ LoopWake(r) \/ LoopSnapshot(r) \/ LoopDue(r)
        BY <1>1, <2>1 DEF LoopStop, LoopWake, LoopSnapshot, LoopDue, monitorVars
  <2>2. ASSUME NEW w \in Worker, Dispatch(r, w) PROVE RetryOK'
    <3>1. /\ worker[r][w] = "idle" /\ worker'[r][w] = "check"
          /\ job'[r][w].attempt = 1
          /\ UNCHANGED <<runs, launched>>
          BY <1>0, <2>2 DEF Dispatch, monitorVars
    <3>2. \A q \in Run, v \in Worker :
            (q # r \/ v # w) => worker'[q][v] = worker[q][v] /\ job'[q][v] = job[q][v]
          BY <1>0, <2>2 DEF Dispatch
    <3>3. QED BY <3>1, <3>2 DEF RetryOK
  <2>3. ASSUME NEW w \in Worker, Complete(r, w) PROVE RetryOK'
        BY <1>0, <2>3 DEF Complete, monitorVars, RetryOK
  <2>4. QED BY <1>3, <2>1, <2>2, <2>3 DEF LoopStep
<1>4. ASSUME NEW r \in Run, NEW w \in Worker, WorkerStep(r, w) PROVE RetryOK'
  <2> USE DEF monitorVars, loopVars, Goto
  <2>1. CASE WorkerStop(r, w)
    <3>1. /\ worker[r][w] # "none" /\ worker'[r][w] \in {"exited", "report"}
          /\ UNCHANGED <<runs, job, launched>>
          BY <1>0, <2>1 DEF WorkerStop
    <3>2. \A q \in Run, v \in Worker :
            (q # r \/ v # w) => worker'[q][v] = worker[q][v]
          BY <1>0, <2>1 DEF WorkerStop
    <3>3. QED BY <3>1, <3>2 DEF RetryOK
  <2>2. CASE WorkerCheck(r, w)
        BY <1>0, <2>2 DEF WorkerCheck, RetryOK
  <2>3. CASE Launch(r, w)
        BY <1>0, <2>3 DEF Launch, RetryOK
  <2>4. CASE Return(r, w)
    <3>1. /\ worker[r][w] = "testing"
          /\ \/ worker'[r][w] = "verify" /\ job[r][w].attempt = 1
             \/ worker'[r][w] = "report"
          /\ UNCHANGED <<runs, job, launched>>
          BY <1>0, <2>4 DEF Return
    <3>2. \A q \in Run, v \in Worker :
            (q # r \/ v # w) => worker'[q][v] = worker[q][v]
          BY <1>0, <2>4 DEF Return
    <3>3. QED BY <3>1, <3>2 DEF RetryOK
  <2>5. ASSUME NEW failed \in BOOLEAN, Verify(r, w, failed) PROVE RetryOK'
        BY <1>0, <2>5 DEF Verify, RetryOK
  <2>6. CASE RetryTimer(r, w)
    <3>1. job[r][w] \in Job
          BY <2>6 DEF RetryTimer, Typing, JobTyped, Busy
    <3>2. job[r][w] \in launched /\ job[r][w].attempt = 1
          BY <2>6 DEF RetryTimer, RetryOK
    <3>3. job'[r][w] = [job[r][w] EXCEPT !.attempt = 2]
          BY <1>0, <2>6 DEF RetryTimer
    <3>4. [job'[r][w] EXCEPT !.attempt = 1] \in launched
          BY <3>1, <3>2, <3>3, FirstAttempt
    <3>5. \A q \in Run, v \in Worker :
            (q # r \/ v # w) => worker'[q][v] = worker[q][v] /\ job'[q][v] = job[q][v]
          BY <1>0, <2>6 DEF RetryTimer
    <3>6. /\ worker[r][w] = "retry" /\ worker'[r][w] = "check"
          /\ UNCHANGED <<runs, launched>>
          BY <1>0, <2>6 DEF RetryTimer
    <3>7. QED BY <3>4, <3>5, <3>6 DEF RetryOK
  <2>7. QED BY <1>4, <2>1, <2>2, <2>3, <2>4, <2>5, <2>6 DEF WorkerStep
<1>5. CASE UNCHANGED vars
      BY <1>1, <1>5 DEF vars, monitorVars
<1>6. QED BY <1>2, <1>3, <1>4, <1>5 DEF Next

----------------------------------------------------------------------------
(* The decided checks.                                                     *)

LEMMA DecidedIs ==
  \A j : j \in Decided <=>
    \/ j \in launched
    \/ \E r \in Run, w \in Worker : worker[r][w] = "launch" /\ job[r][w] = j
<1> SUFFICES ASSUME NEW j
             PROVE  j \in Decided <=>
                      \/ j \in launched
                      \/ \E r \in Run, w \in Worker :
                           worker[r][w] = "launch" /\ job[r][w] = j
    OBVIOUS
<1> DEFINE Of(r) == {job[r][w] : w \in {x \in Worker : worker[r][x] = "launch"}}
<1>1. \A r : j \in Of(r) <=> \E w \in Worker : worker[r][w] = "launch" /\ job[r][w] = j
      OBVIOUS
<1>2. Decided = launched \cup UNION {Of(r) : r \in Run}
      BY DEF Decided
<1>3. j \in Decided <=> j \in launched \/ \E r \in Run : j \in Of(r)
  <2> HIDE DEF Of
  <2>1. QED BY <1>2
<1>4. QED BY <1>1, <1>3

LEMMA DecidedIsNext ==
  \A j : j \in Decided' <=>
    \/ j \in launched'
    \/ \E r \in Run, w \in Worker : worker'[r][w] = "launch" /\ job'[r][w] = j
<1> SUFFICES ASSUME NEW j
             PROVE  j \in Decided' <=>
                      \/ j \in launched'
                      \/ \E r \in Run, w \in Worker :
                           worker'[r][w] = "launch" /\ job'[r][w] = j
    OBVIOUS
<1> DEFINE Of(r) == {job'[r][w] : w \in {x \in Worker : worker'[r][x] = "launch"}}
<1>1. \A r : j \in Of(r) <=> \E w \in Worker : worker'[r][w] = "launch" /\ job'[r][w] = j
      OBVIOUS
<1>2. Decided' = launched' \cup UNION {Of(r) : r \in Run}
      BY DEF Decided
<1>3. j \in Decided' <=> j \in launched' \/ \E r \in Run : j \in Of(r)
  <2> HIDE DEF Of
  <2>1. QED BY <1>2
<1>4. QED BY <1>1, <1>3

\* A step that launches nothing and changes no worker about to launch decides
\* nothing.
LEMMA DecidedUnchanged ==
  ASSUME launched' = launched,
         \A r \in Run, w \in Worker :
           /\ worker'[r][w] = "launch" <=> worker[r][w] = "launch"
           /\ worker[r][w] = "launch" => job'[r][w] = job[r][w]
  PROVE  Decided' = Decided
<1>1. \A j : j \in Decided' <=> j \in Decided
      BY DecidedIs, DecidedIsNext
<1>2. QED BY <1>1

allowedNow == IF run # 0 /\ available THEN providers ELSE {}

\* What the contract's variables stand for stays as it is.
Unmoved == revision' = revision /\ allowedNow' = allowedNow /\ Decided' = Decided

LEMMA UnmovedStutters == Unmoved => [Contract!ContractNext]_(Contract!contractVars)
BY DEF Unmoved, allowedNow, Contract!contractVars

\* A critical section of the monitor is a change.
LEMMA EnvironmentChanges ==
  Typing /\ RetryOK /\ RunOK /\ Environment => Contract!Change
<1> SUFFICES ASSUME Typing, RetryOK, RunOK, Environment PROVE Contract!Change
    OBVIOUS
<1>0. /\ runs \in Nat /\ providers \in SUBSET Provider
      /\ worker \in [Run -> [Worker -> WorkerPc]]
      BY MonitorAssumption DEF Typing, TypeOK
<1>1. revision' = revision + 1 /\ launched' = launched /\ job' = job
      BY DEF Environment, Update, SetProviders, Start, Stop, workerVars
<1>2. providers' \in SUBSET Provider
      BY <1>0 DEF Environment, Update, SetProviders, Start, Stop
<1>3. \A r \in Run, w \in Worker :
        worker'[r][w] = "launch" <=> worker[r][w] = "launch"
  <2>1. CASE Start
    <3>1. \A r \in Run, w \in Worker :
            \/ worker'[r][w] = worker[r][w]
            \/ r = runs + 1 /\ worker'[r][w] = "idle"
          BY <1>0, <2>1 DEF Start
    <3>2. \A r \in Run, w \in Worker : r = runs + 1 => worker[r][w] = "none"
          BY <1>0 DEF RetryOK, Run
    <3>3. QED BY <3>1, <3>2
  <2>2. CASE ~ Start
        BY <2>2 DEF Environment, Update, SetProviders, Stop, workerVars
  <2>3. QED BY <2>1, <2>2
<1>4. Decided' = Decided
      BY <1>1, <1>3, DecidedUnchanged
<1>5. allowedNow' \in SUBSET Provider
      BY <1>2 DEF allowedNow
<1>6. QED BY <1>1, <1>4, <1>5 DEF Contract!Change, allowedNow

\* The loop decides nothing: what it dispatches a worker still has to look at.
LEMMA LoopUnmoved ==
  ASSUME Typing, NEW r \in Run, LoopStep(r) PROVE Unmoved
<1>0. /\ worker \in [Run -> [Worker -> WorkerPc]]
      /\ job \in [Run -> [Worker -> Job \cup {NoJob}]]
      BY DEF Typing, TypeOK
<1>1. UNCHANGED <<revision, run, available, providers, launched>>
      BY DEF LoopStep, LoopStop, LoopWake, LoopSnapshot, LoopDue, Dispatch,
         Complete, monitorVars, workerVars
<1> DEFINE NothingLaunches ==
             \A q \in Run, v \in Worker :
               /\ worker'[q][v] = "launch" <=> worker[q][v] = "launch"
               /\ worker[q][v] = "launch" => job'[q][v] = job[q][v]
<1>2. NothingLaunches
  <2>1. CASE LoopStop(r) \/ LoopWake(r) \/ LoopSnapshot(r) \/ LoopDue(r)
        BY <2>1 DEF LoopStop, LoopWake, LoopSnapshot, LoopDue, workerVars
  <2>2. ASSUME NEW w \in Worker, Dispatch(r, w) PROVE NothingLaunches
        BY <1>0, <2>2 DEF Dispatch
  <2>3. ASSUME NEW w \in Worker, Complete(r, w) PROVE NothingLaunches
        BY <1>0, <2>3 DEF Complete
  <2>4. QED BY <2>1, <2>2, <2>3 DEF LoopStep
<1>3. Decided' = Decided
      BY <1>1, <1>2, DecidedUnchanged
<1>4. QED BY <1>1, <1>3 DEF Unmoved, allowedNow

\* A worker decides when it finds its job current and nobody decided before; the
\* launch itself only carries the decision out.
LEMMA WorkerDecides ==
  ASSUME Typing, RunOK, JobOK, RetryOK, NEW r \in Run, NEW w \in Worker,
         WorkerStep(r, w)
  PROVE  Unmoved \/ \E p \in Provider, n \in {1, 2} : Contract!Decide(p, n)
<1>0. /\ worker \in [Run -> [Worker -> WorkerPc]]
      /\ job \in [Run -> [Worker -> Job \cup {NoJob}]]
      BY DEF Typing, TypeOK
<1>1. UNCHANGED <<revision, run, available, providers>>
      BY DEF WorkerStep, WorkerStop, WorkerCheck, Launch, Return, Verify,
         RetryTimer, monitorVars
<1>2. \A q \in Run, v \in Worker :
        (q # r \/ v # w) => worker'[q][v] = worker[q][v] /\ job'[q][v] = job[q][v]
      BY <1>0 DEF WorkerStep, WorkerStop, WorkerCheck, Launch, Return, Verify,
         RetryTimer, Goto
<1> DEFINE Quiet == /\ launched' = launched
                    /\ worker[r][w] # "launch" /\ worker'[r][w] # "launch"
<1>3. CASE Quiet
  <2>1. Decided' = Decided
        BY <1>2, <1>3, DecidedUnchanged
  <2>2. QED BY <1>1, <2>1 DEF Unmoved, allowedNow
<1>4. CASE WorkerStop(r, w) \/ Return(r, w) \/ RetryTimer(r, w)
      BY <1>0, <1>3, <1>4 DEF WorkerStop, Return, RetryTimer, Goto
<1>5. ASSUME NEW failed \in BOOLEAN, Verify(r, w, failed) PROVE Quiet
      BY <1>0, <1>5 DEF Verify, Goto
<1>6. CASE Launch(r, w)
  <2>1. /\ worker[r][w] = "launch" /\ worker'[r][w] = "testing"
        /\ launched' = launched \cup {job[r][w]} /\ job' = job
        BY <1>0, <1>6 DEF Launch, Goto
  <2>2. \A j : j \in Decided' <=> j \in Decided
        BY <1>2, <2>1, DecidedIs, DecidedIsNext
  <2>3. Decided' = Decided
        BY <2>2
  <2>4. QED BY <1>1, <2>3 DEF Unmoved, allowedNow
<1>7. CASE WorkerCheck(r, w)
  <2>1. /\ worker[r][w] = "check" /\ launched' = launched /\ job' = job
        /\ worker'[r][w] = IF Current(r, job[r][w].revision) THEN "launch" ELSE "report"
        BY <1>0, <1>7 DEF WorkerCheck, Goto
  <2>2. CASE ~ Current(r, job[r][w].revision)
        BY <1>3, <2>1, <2>2
  <2>3. CASE Current(r, job[r][w].revision)
    <3> DEFINE p == job[r][w].provider
               n == job[r][w].attempt
    <3>1. job[r][w] \in Job /\ Busy(r, w)
          BY <2>1 DEF Typing, JobTyped, Busy
    <3>2. job[r][w] = [provider |-> p, revision |-> revision, attempt |-> n]
          BY <2>3, <3>1 DEF Current, Job
    <3>3. p \in Provider /\ n \in {1, 2}
          BY <3>1 DEF Job
    <3>4. p \in allowedNow
      <4>1. run = r /\ available /\ r # 0
            BY <2>3 DEF Current, Run
      <4>2. p \in providers
            BY <2>3, <3>1 DEF Current, JobOK
      <4>3. QED BY <4>1, <4>2 DEF allowedNow
    <3>5. Decided' = Decided \cup {job[r][w]}
      <4>1. \A j : j \in Decided' <=> j \in Decided \/ j = job[r][w]
            BY <1>2, <2>1, <2>3, DecidedIs, DecidedIsNext
      <4>2. QED BY <4>1
    <3>6. n = 2 => [provider |-> p, revision |-> revision, attempt |-> 1] \in Decided
      <4>1. [job[r][w] EXCEPT !.attempt = 1]
              = [provider |-> p, revision |-> revision, attempt |-> 1]
            BY <3>2
      <4>2. n = 2 => [job[r][w] EXCEPT !.attempt = 1] \in launched
            BY <2>1 DEF RetryOK
      <4>3. QED BY <4>1, <4>2, DecidedIs
    <3>7. CASE job[r][w] \in Decided
          BY <1>1, <3>5, <3>7 DEF Unmoved, allowedNow
    <3>8. CASE job[r][w] \notin Decided
      <4>1. Contract!Decide(p, n)
            BY <1>1, <3>2, <3>4, <3>5, <3>6, <3>8
            DEF Contract!Decide, Contract!CheckJob, allowedNow
      <4>2. QED BY <3>3, <4>1
    <3>9. QED BY <3>7, <3>8
  <2>4. QED BY <2>2, <2>3
<1>8. QED BY <1>3, <1>4, <1>5, <1>6, <1>7 DEF WorkerStep

----------------------------------------------------------------------------
(* The refinement.                                                         *)

LEMMA ContractStarts == Init => Contract!ContractInit
<1> SUFFICES ASSUME Init PROVE Contract!ContractInit
    OBVIOUS
<1>1. \A j : j \notin Decided
      BY DecidedIs DEF Init
<1>2. QED BY <1>1 DEF Init, Contract!ContractInit

LEMMA ContractSteps ==
  Typing /\ RunOK /\ JobOK /\ RetryOK /\ [Next]_vars =>
    [Contract!ContractNext]_(Contract!contractVars)
<1> SUFFICES ASSUME Typing, RunOK, JobOK, RetryOK, [Next]_vars
             PROVE  [Contract!ContractNext]_(Contract!contractVars)
    OBVIOUS
<1>1. CASE Environment
      BY <1>1, EnvironmentChanges DEF Contract!ContractNext
<1>2. ASSUME NEW r \in Run, LoopStep(r)
      PROVE  [Contract!ContractNext]_(Contract!contractVars)
      BY <1>2, LoopUnmoved, UnmovedStutters
<1>3. ASSUME NEW r \in Run, NEW w \in Worker, WorkerStep(r, w)
      PROVE  [Contract!ContractNext]_(Contract!contractVars)
      BY <1>3, WorkerDecides, UnmovedStutters DEF Contract!ContractNext
<1>4. CASE UNCHANGED vars
  <2>1. Decided' = Decided
        BY <1>4, DecidedUnchanged DEF vars, workerVars
  <2>2. QED BY <1>4, <2>1, UnmovedStutters
            DEF Unmoved, allowedNow, vars, monitorVars
<1>5. QED BY <1>1, <1>2, <1>3, <1>4 DEF Next

\* Whatever its goroutines interleave, the monitor decides on a check only for a
\* provider it may check at that moment, and on a retry only after its check.
THEOREM MonitorKeepsPromise == Spec => ChecksAsPromised
<1>1. QED
      BY TypingInit, TypingStep, RunInit, RunStep, SnapshotInit, SnapshotStep,
         JobInit, JobStep, RetryInit, RetryStep, ContractStarts, ContractSteps, PTL
      DEF Spec, ChecksAsPromised, Contract!ContractSpec

----------------------------------------------------------------------------
(* No provider is checked twice at one revision, over all runs the monitor *)
(* ever had: a run's snapshots are younger than those of the runs before   *)
(* it (Ages), so a job can be told by its provider and its revision        *)
(* (JobAges), and a queue is filled once per snapshot, before anything of  *)
(* it was launched (LaunchAges).                                           *)


\* The steps of a loop and of a worker are of a run that has started; its
\* snapshot is older than the monitor once it is retired, and younger than
\* those of the runs before it.  A queue and an armed timer exclude each other
\* and belong to a snapshot.
Ages ==
  /\ run # 0 => run = runs
  /\ runs # 0 => revision # 0
  /\ \A r \in Run : r > runs => pending[r].revision = 0
  /\ \A r \in Run : (r <= runs /\ r # run) => pending[r].revision < revision
  /\ \A q, r \in Run : (q < r /\ pending[r].revision # 0) =>
                         pending[q].revision < pending[r].revision
  /\ \A r \in Run : (queue[r] # {} \/ due[r]) => pending[r].revision # 0
  /\ \A r \in Run : queue[r] # {} => ~due[r]

LEMMA AgesInit == Init => Ages
BY DEF Init, Ages, ZeroSnapshot, Run

LEMMA AgesStep == Typing /\ RunOK /\ SnapshotOK /\ Ages /\ [Next]_vars => Ages'
<1> SUFFICES ASSUME Typing, RunOK, SnapshotOK, Ages, [Next]_vars PROVE Ages'
    OBVIOUS
<1>0. /\ runs \in Nat /\ revision \in Nat /\ run \in Run \cup {0}
      /\ pending \in [Run -> Snapshot]
      /\ queue \in [Run -> SUBSET Provider]
      /\ due \in [Run -> BOOLEAN]
      /\ \A r \in Run : pending[r].revision \in Nat
      /\ \A r \in Run : pending[r].revision <= revision
      /\ \A r \in Run : r \in Nat /\ r # 0
      BY MonitorAssumption DEF Typing, TypeOK, SnapshotOK, Run, Snapshot
<1>1. CASE UNCHANGED <<run, runs, revision, pending, queue, due>>
      BY <1>1 DEF Ages
<1>2. CASE Environment
  <2>1. UNCHANGED <<pending, queue, due>> /\ revision' = revision + 1
        BY <1>2 DEF Environment, Update, SetProviders, Start, Stop, loopVars
  <2>2. \/ UNCHANGED <<run, runs>>
        \/ run' = runs + 1 /\ runs' = runs + 1
        \/ run' = 0 /\ runs' = runs
        BY <1>2 DEF Environment, Update, SetProviders, Start, Stop
  <2>3. QED BY <1>0, <2>1, <2>2 DEF Ages
<1>3. ASSUME NEW r \in Run, LoopStep(r) PROVE Ages'
  <2> USE DEF monitorVars
  <2>1. CASE LoopStop(r)
        BY <1>0, <2>1 DEF LoopStop, Ages
  <2>2. CASE LoopWake(r)
        BY <1>1, <2>2 DEF LoopWake
  <2>3. CASE LoopSnapshot(r)
    <3>1. UNCHANGED <<run, runs, revision>>
          BY <2>3 DEF LoopSnapshot
    <3>2. CASE pending' = pending /\ queue' = queue /\ due' \in {due, [due EXCEPT ![r] = FALSE]}
          BY <1>0, <3>1, <3>2 DEF Ages
    <3>3. CASE /\ run = r
               /\ pending' = [pending EXCEPT ![r] = [revision |-> revision,
                                available |-> available, providers |-> providers]]
               /\ queue' = [queue EXCEPT ![r] = {}]
               /\ due' = [due EXCEPT ![r] = available /\ providers # {}]
      <4>1. r = runs /\ revision # 0
            BY <1>0, <3>3 DEF Ages
      <4>2. pending'[r].revision = revision /\ queue'[r] = {}
            BY <1>0, <3>3
      <4>3. \A q \in Run : q # r => /\ pending'[q] = pending[q]
                                    /\ queue'[q] = queue[q] /\ due'[q] = due[q]
            BY <1>0, <3>3
      <4>4. QED BY <1>0, <3>1, <3>3, <4>1, <4>2, <4>3 DEF Ages
    <3>4. QED BY <2>3, <3>2, <3>3 DEF LoopSnapshot
  <2>4. CASE LoopDue(r)
        BY <1>0, <2>4 DEF LoopDue, Ages
  <2>5. ASSUME NEW w \in Worker, Dispatch(r, w) PROVE Ages'
    <3>1. \E p \in Free(r) : queue' = [queue EXCEPT ![r] = @ \ {p}]
          BY <2>5 DEF Dispatch
    <3>2. \A q \in Run : queue'[q] # {} => queue[q] # {}
          BY <1>0, <3>1
    <3>3. UNCHANGED <<run, runs, revision, pending, due>>
          BY <2>5 DEF Dispatch
    <3>4. QED BY <3>2, <3>3 DEF Ages
  <2>6. ASSUME NEW w \in Worker, Complete(r, w) PROVE Ages'
        BY <1>1, <2>6 DEF Complete
  <2>7. QED BY <1>3, <2>1, <2>2, <2>3, <2>4, <2>5, <2>6 DEF LoopStep
<1>4. ASSUME NEW r \in Run, NEW w \in Worker, WorkerStep(r, w) PROVE Ages'
      BY <1>1, <1>4 DEF WorkerStep, WorkerStop, WorkerCheck, Launch, Return, Verify,
         RetryTimer, monitorVars, loopVars
<1>5. CASE UNCHANGED vars
      BY <1>1, <1>5 DEF vars, monitorVars, loopVars
<1>6. QED BY <1>2, <1>3, <1>4, <1>5 DEF Next

----------------------------------------------------------------------------
(* The jobs.                                                               *)

\* A job has the age of a snapshot of its run and of no other run; a job of the
\* present snapshot was taken from the queue, which is not filled again.
JobAges ==
  /\ \A r \in Run, w \in Worker : Busy(r, w) =>
       /\ job[r][w].revision # 0
       /\ job[r][w].revision <= pending[r].revision
       /\ job[r][w].revision = pending[r].revision =>
            ~due[r] /\ job[r][w].provider \notin queue[r]
  /\ \A q, r \in Run : \A w \in Worker :
       (Busy(r, w) /\ q # r) => job[r][w].revision # pending[q].revision
  /\ \A q, r \in Run : \A v, w \in Worker :
       (Busy(q, v) /\ Busy(r, w) /\ q # r) => job[q][v].revision # job[r][w].revision

LEMMA JobAgesInit == Init => JobAges
BY DEF Init, JobAges, Busy

LEMMA JobAgesStep ==
  Typing /\ SnapshotOK /\ Ages /\ RetryOK /\ JobAges /\ [Next]_vars => JobAges'
<1> SUFFICES ASSUME Typing, SnapshotOK, Ages, RetryOK, JobAges, [Next]_vars PROVE JobAges'
    OBVIOUS
<1>0. /\ runs \in Nat /\ revision \in Nat
      /\ pending \in [Run -> Snapshot]
      /\ queue \in [Run -> SUBSET Provider]
      /\ due \in [Run -> BOOLEAN]
      /\ worker \in [Run -> [Worker -> WorkerPc]]
      /\ job \in [Run -> [Worker -> Job \cup {NoJob}]]
      /\ \A r \in Run : r \in Nat /\ pending[r].revision \in Nat
      /\ \A r \in Run : pending[r].revision <= revision
      /\ \A r \in Run, w \in Worker : Busy(r, w) => job[r][w].revision \in Nat
      BY MonitorAssumption DEF Typing, TypeOK, JobTyped, SnapshotOK, Run, Snapshot, Job
<1>1. \A r \in Run, w \in Worker : Busy(r, w) => r <= runs
      BY <1>0 DEF RetryOK, Busy
\* What keeps the jobs, up to their attempts, and fills no queue.
<1> DEFINE Kept == /\ pending' = pending
                   /\ \A r \in Run : /\ due'[r] => due[r]
                                     /\ queue'[r] \subseteq queue[r]
                   /\ \A r \in Run, w \in Worker :
                        Busy(r, w)' => /\ Busy(r, w)
                                       /\ job'[r][w].revision = job[r][w].revision
                                       /\ job'[r][w].provider = job[r][w].provider
<1>2. CASE Kept
      BY <1>2 DEF JobAges
<1>3. CASE Environment
  <2>1. UNCHANGED <<pending, queue, due, job>>
        BY <1>3 DEF Environment, Update, SetProviders, Start, Stop, loopVars, workerVars
  <2>2. \A r \in Run, w \in Worker : Busy(r, w)' => Busy(r, w)
    <3>1. CASE Start
      <4>1. \A r \in Run, w \in Worker :
              worker'[r][w] = worker[r][w] \/ worker'[r][w] = "idle"
            BY <1>0, <3>1 DEF Start
      <4>2. QED BY <4>1 DEF Busy
    <3>2. CASE ~ Start
          BY <1>3, <3>2 DEF Environment, Update, SetProviders, Stop, workerVars, Busy
    <3>3. QED BY <3>1, <3>2
  <2>3. QED BY <1>2, <2>1, <2>2
<1>4. ASSUME NEW r \in Run, LoopStep(r) PROVE JobAges'
  <2> USE DEF monitorVars, workerVars
  <2>1. CASE LoopStop(r) \/ LoopWake(r)
    <3>1. Kept
          BY <1>0, <2>1 DEF LoopStop, LoopWake, Busy
    <3>2. QED BY <1>2, <3>1
  <2>2. CASE LoopSnapshot(r)
    <3>1. UNCHANGED <<runs, revision, worker, job>>
          BY <2>2 DEF LoopSnapshot
    <3>2. CASE pending' = pending /\ queue' = queue /\ due' \in {due, [due EXCEPT ![r] = FALSE]}
      <4>1. Kept
            BY <1>0, <3>1, <3>2 DEF Busy
      <4>2. QED BY <1>2, <4>1
    <3>3. CASE /\ run = r /\ Outdated(r)
               /\ pending' = [pending EXCEPT ![r] = [revision |-> revision,
                                available |-> available, providers |-> providers]]
               /\ queue' = [queue EXCEPT ![r] = {}]
               /\ due' = [due EXCEPT ![r] = available /\ providers # {}]
      <4>1. pending'[r].revision = revision /\ pending[r].revision < revision
        <5>1. pending'[r].revision = revision
              BY <1>0, <3>3
        <5>2. revision # pending[r].revision /\ pending[r].revision <= revision
              BY <1>0, <3>3 DEF Outdated
        <5>3. pending[r].revision \in Nat /\ revision \in Nat
              BY <1>0
        <5>4. QED BY <5>1, <5>2, <5>3
      <4>2. \A q \in Run : q # r => /\ pending'[q] = pending[q]
                                    /\ queue'[q] = queue[q] /\ due'[q] = due[q]
            BY <1>0, <3>3
      <4>3. \A q \in Run : (q <= runs /\ q # r) => pending[q].revision < revision
            BY <3>3 DEF Ages
      <4>4. ASSUME NEW q \in Run, NEW w \in Worker, Busy(q, w)
            PROVE  job[q][w].revision < revision
        <5>1. pending[q].revision < revision
              BY <1>1, <4>1, <4>3, <4>4
        <5>2. /\ job[q][w].revision <= pending[q].revision
              /\ job[q][w].revision \in Nat /\ pending[q].revision \in Nat
              BY <1>0, <4>4 DEF JobAges
        <5>3. QED BY <1>0, <5>1, <5>2
      <4>5. \A q \in Run, w \in Worker : Busy(q, w)' <=> Busy(q, w)
            BY <3>1 DEF Busy
      <4>6. ASSUME NEW q \in Run, NEW w \in Worker, Busy(q, w)'
            PROVE  /\ job'[q][w].revision # 0
                   /\ job'[q][w].revision <= pending'[q].revision
                   /\ job'[q][w].revision = pending'[q].revision =>
                        ~due'[q] /\ job'[q][w].provider \notin queue'[q]
                   /\ \A p \in Run : p # q => job'[q][w].revision # pending'[p].revision
        <5>1. Busy(q, w) /\ job' = job
              BY <3>1, <4>5, <4>6
        <5>2. /\ job[q][w].revision # 0 /\ job[q][w].revision < revision
              /\ job[q][w].revision <= pending[q].revision
              /\ job[q][w].revision \in Nat
              BY <1>0, <4>4, <5>1 DEF JobAges
        <5>3. job[q][w].revision = pending[q].revision =>
                ~due[q] /\ job[q][w].provider \notin queue[q]
              BY <5>1 DEF JobAges
        <5>4. \A p \in Run : p # q => job[q][w].revision # pending[p].revision
              BY <5>1 DEF JobAges
        <5>5. CASE q = r
              BY <1>0, <4>1, <4>2, <5>1, <5>2, <5>4, <5>5
        <5>6. CASE q # r
              BY <1>0, <4>1, <4>2, <5>1, <5>2, <5>3, <5>4, <5>6
        <5>7. QED BY <5>5, <5>6
      <4>7. \A p, q \in Run : \A v, w \in Worker :
              (Busy(p, v)' /\ Busy(q, w)' /\ p # q) => job'[p][v].revision # job'[q][w].revision
            BY <3>1, <4>5 DEF JobAges
      <4>8. QED BY <4>6, <4>7 DEF JobAges
    <3>4. QED BY <2>2, <3>2, <3>3 DEF LoopSnapshot
  <2>3. CASE LoopDue(r)
    <3>1. /\ due[r] /\ due' = [due EXCEPT ![r] = FALSE]
          /\ UNCHANGED <<pending, worker, job>>
          /\ \A q \in Run : q # r => queue'[q] = queue[q]
          BY <1>0, <2>3 DEF LoopDue
    <3>2. \A w \in Worker : Busy(r, w) => job[r][w].revision # pending[r].revision
          BY <3>1 DEF JobAges
    <3>3. \A q \in Run, w \in Worker : Busy(q, w)' <=> Busy(q, w)
          BY <3>1 DEF Busy
    <3>4. QED BY <1>0, <3>1, <3>2, <3>3 DEF JobAges
  <2>4. ASSUME NEW w \in Worker, Dispatch(r, w) PROVE JobAges'
    <3>1. PICK p \in Free(r) :
            /\ queue' = [queue EXCEPT ![r] = @ \ {p}]
            /\ job' = [job EXCEPT ![r][w] = [provider |-> p,
                         revision |-> pending[r].revision, attempt |-> 1]]
          BY <2>4 DEF Dispatch
    <3>2. /\ job'[r][w].revision = pending[r].revision
          /\ job'[r][w].provider = p /\ p \notin queue'[r]
          /\ \A q \in Run : queue'[q] \subseteq queue[q]
          BY <1>0, <3>1
    <3>3. queue[r] # {} /\ pending[r].revision # 0 /\ ~due[r]
          BY <3>1 DEF Free, Ages
    <3>4. UNCHANGED <<pending, due>>
          BY <2>4 DEF Dispatch
    <3>5. \A q \in Run, v \in Worker :
            (q # r \/ v # w) => job'[q][v] = job[q][v] /\ (Busy(q, v)' => Busy(q, v))
          BY <1>0, <2>4, <3>1 DEF Dispatch, Busy
    <3>6. ASSUME NEW q \in Run, q # r PROVE pending[q].revision # pending[r].revision
      <4>1. CASE q < r
            BY <1>0, <3>3, <4>1 DEF Ages
      <4>2. CASE r < q /\ pending[q].revision # 0
            BY <1>0, <4>2 DEF Ages
      <4>3. CASE pending[q].revision = 0
            BY <3>3, <4>3
      <4>4. q \in Nat /\ r \in Nat
            BY <1>0
      <4>5. QED BY <3>6, <4>1, <4>2, <4>3, <4>4
    <3>7. ASSUME NEW q \in Run, NEW v \in Worker, Busy(q, v)'
          PROVE  /\ job'[q][v].revision # 0
                 /\ job'[q][v].revision <= pending'[q].revision
                 /\ job'[q][v].revision = pending'[q].revision =>
                      ~due'[q] /\ job'[q][v].provider \notin queue'[q]
                 /\ \A s \in Run : s # q => job'[q][v].revision # pending'[s].revision
      <4>1. CASE q = r /\ v = w
            BY <1>0, <3>2, <3>3, <3>4, <3>6, <4>1
      <4>2. CASE q # r \/ v # w
        <5>1. job'[q][v] = job[q][v] /\ Busy(q, v)
              BY <3>5, <3>7, <4>2
        <5>2. QED BY <3>2, <3>4, <5>1 DEF JobAges
      <4>3. QED BY <4>1, <4>2
    <3>8. ASSUME NEW q \in Run, NEW s \in Run, NEW u \in Worker, NEW v \in Worker,
                 Busy(q, u)', Busy(s, v)', q # s
          PROVE  job'[q][u].revision # job'[s][v].revision
      <4>1. CASE q = r /\ u = w
        <5>1. job'[s][v] = job[s][v] /\ Busy(s, v)
              BY <3>5, <3>8, <4>1
        <5>2. QED BY <3>2, <3>8, <4>1, <5>1 DEF JobAges
      <4>2. CASE s = r /\ v = w
        <5>1. job'[q][u] = job[q][u] /\ Busy(q, u)
              BY <3>5, <3>8, <4>2
        <5>2. QED BY <3>2, <3>8, <4>2, <5>1 DEF JobAges
      <4>3. CASE ~(q = r /\ u = w) /\ ~(s = r /\ v = w)
        <5>1. /\ job'[q][u] = job[q][u] /\ Busy(q, u)
              /\ job'[s][v] = job[s][v] /\ Busy(s, v)
              BY <3>5, <3>8, <4>3
        <5>2. QED BY <3>8, <5>1 DEF JobAges
      <4>4. QED BY <4>1, <4>2, <4>3
    <3>9. QED BY <3>7, <3>8 DEF JobAges
  <2>5. ASSUME NEW w \in Worker, Complete(r, w) PROVE JobAges'
    <3>1. Kept
          BY <1>0, <2>5 DEF Complete, Busy
    <3>2. QED BY <1>2, <3>1
  <2>6. QED BY <1>4, <2>1, <2>2, <2>3, <2>4, <2>5 DEF LoopStep
<1>5. ASSUME NEW r \in Run, NEW w \in Worker, WorkerStep(r, w) PROVE Kept
  <2> USE DEF monitorVars, loopVars, Goto, Busy
  <2>1. CASE /\ UNCHANGED <<pending, queue, due, job>>
             /\ worker[r][w] \notin {"none", "idle", "exited"}
             /\ \E pc : Goto(r, w, pc)
    <3>1. \A q \in Run, v \in Worker : Busy(q, v)' => Busy(q, v)
          BY <1>0, <2>1
    <3>2. QED BY <2>1, <3>1
  <2>2. CASE WorkerCheck(r, w) \/ Launch(r, w) \/ Return(r, w)
        BY <2>1, <2>2 DEF WorkerCheck, Launch, Return
  <2>3. ASSUME NEW failed \in BOOLEAN, Verify(r, w, failed) PROVE Kept
        BY <2>1, <2>3 DEF Verify
  <2>5. CASE WorkerStop(r, w)
    <3>1. UNCHANGED <<pending, queue, due, job>>
          BY <2>5 DEF WorkerStop
    <3>2. \A q \in Run, v \in Worker : Busy(q, v)' => Busy(q, v)
      <4>1. CASE Goto(r, w, "exited")
            BY <1>0, <4>1
      <4>2. CASE worker[r][w] = "retry" /\ Goto(r, w, "report")
            BY <1>0, <4>2
      <4>3. QED BY <2>5, <4>1, <4>2 DEF WorkerStop
    <3>3. QED BY <3>1, <3>2
  <2>4. CASE RetryTimer(r, w)
    <3>1. job[r][w] \in Job
          BY <2>4 DEF RetryTimer, Typing, JobTyped
    <3>2. /\ job'[r][w].revision = job[r][w].revision
          /\ job'[r][w].provider = job[r][w].provider
          BY <1>0, <2>4, <3>1 DEF RetryTimer, Job
    <3>3. \A q \in Run, v \in Worker :
            /\ (q # r \/ v # w) => job'[q][v] = job[q][v]
            /\ Busy(q, v)' => Busy(q, v)
          BY <1>0, <2>4 DEF RetryTimer
    <3>4. QED BY <2>4, <3>2, <3>3 DEF RetryTimer
  <2>6. QED BY <1>5, <2>2, <2>3, <2>4, <2>5 DEF WorkerStep
<1>6. CASE UNCHANGED vars
  <2>1. Kept
        BY <1>6 DEF vars, loopVars, workerVars, Busy
  <2>2. QED BY <1>2, <2>1
<1>7. QED BY <1>2, <1>3, <1>4, <1>5, <1>6 DEF Next

----------------------------------------------------------------------------
(* The checks made.                                                        *)

\* Checks are made at revisions the monitor had, at the present one only if the
\* active run's snapshot is present; what was checked at the revision of a
\* snapshot is not queued, and will not be, for that snapshot.
LaunchAges ==
  \A j \in launched :
    /\ j.revision <= revision
    /\ j.revision = revision => run # 0 /\ pending[run].revision = revision
    /\ \A r \in Run : j.revision = pending[r].revision =>
                         ~due[r] /\ j.provider \notin queue[r]

LEMMA LaunchAgesInit == Init => LaunchAges
BY DEF Init, LaunchAges

LEMMA LaunchAgesStep ==
  Typing /\ SnapshotOK /\ Ages /\ RetryOK /\ JobAges /\ LaunchAges /\ [Next]_vars => LaunchAges'
<1> SUFFICES ASSUME Typing, SnapshotOK, Ages, RetryOK, JobAges, LaunchAges, [Next]_vars
             PROVE  LaunchAges'
    OBVIOUS
<1>0. /\ runs \in Nat /\ revision \in Nat /\ run \in Run \cup {0}
      /\ pending \in [Run -> Snapshot]
      /\ queue \in [Run -> SUBSET Provider]
      /\ due \in [Run -> BOOLEAN]
      /\ worker \in [Run -> [Worker -> WorkerPc]]
      /\ \A r \in Run : r \in Nat /\ r # 0 /\ pending[r].revision \in Nat
      /\ \A r \in Run : pending[r].revision <= revision
      /\ \A j \in launched : j.revision \in Nat
      BY MonitorAssumption DEF Typing, TypeOK, SnapshotOK, Run, Snapshot, Job
<1>1. CASE /\ UNCHANGED <<run, revision, pending, launched>>
           /\ \A r \in Run : (due'[r] => due[r]) /\ queue'[r] \subseteq queue[r]
      BY <1>1 DEF LaunchAges
<1>2. CASE Environment
  <2>1. UNCHANGED <<pending, queue, due, launched>> /\ revision' = revision + 1
        BY <1>2 DEF Environment, Update, SetProviders, Start, Stop, loopVars, workerVars
  <2>2. \A j \in launched : j.revision <= revision' /\ j.revision # revision'
        BY <1>0, <2>1 DEF LaunchAges
  <2>3. QED BY <2>1, <2>2 DEF LaunchAges
<1>3. ASSUME NEW r \in Run, LoopStep(r) PROVE LaunchAges'
  <2> USE DEF monitorVars, workerVars
  <2>1. CASE LoopStop(r) \/ LoopWake(r)
        BY <1>0, <1>1, <2>1 DEF LoopStop, LoopWake
  <2>2. CASE LoopSnapshot(r)
    <3>1. UNCHANGED <<run, revision, launched>>
          BY <2>2 DEF LoopSnapshot
    <3>2. CASE pending' = pending /\ queue' = queue /\ due' \in {due, [due EXCEPT ![r] = FALSE]}
          BY <1>0, <1>1, <3>1, <3>2
    <3>3. CASE /\ run = r /\ Outdated(r)
               /\ pending' = [pending EXCEPT ![r] = [revision |-> revision,
                                available |-> available, providers |-> providers]]
               /\ queue' = [queue EXCEPT ![r] = {}]
               /\ due' = [due EXCEPT ![r] = available /\ providers # {}]
      <4>1. pending'[r].revision = revision /\ pending[r].revision # revision /\ r # 0
            BY <1>0, <3>3 DEF Outdated
      <4>2. \A q \in Run : q # r => /\ pending'[q] = pending[q]
                                    /\ queue'[q] = queue[q] /\ due'[q] = due[q]
            BY <1>0, <3>3
      <4>3. \A j \in launched : j.revision # revision
            BY <3>3, <4>1 DEF LaunchAges
      <4>4. QED BY <3>1, <3>3, <4>1, <4>2, <4>3 DEF LaunchAges
    <3>4. QED BY <2>2, <3>2, <3>3 DEF LoopSnapshot
  <2>3. CASE LoopDue(r)
    <3>1. /\ due[r] /\ due' = [due EXCEPT ![r] = FALSE]
          /\ UNCHANGED <<run, revision, pending, launched>>
          /\ \A q \in Run : q # r => queue'[q] = queue[q]
          BY <1>0, <2>3 DEF LoopDue
    <3>2. \A j \in launched : j.revision # pending[r].revision
          BY <3>1 DEF LaunchAges
    <3>3. QED BY <1>0, <3>1, <3>2 DEF LaunchAges
  <2>4. ASSUME NEW w \in Worker, Dispatch(r, w) PROVE LaunchAges'
    <3>1. \E p \in Free(r) : queue' = [queue EXCEPT ![r] = @ \ {p}]
          BY <2>4 DEF Dispatch
    <3>2. \A q \in Run : queue'[q] \subseteq queue[q]
          BY <1>0, <3>1
    <3>3. QED BY <1>1, <2>4, <3>2 DEF Dispatch
  <2>5. ASSUME NEW w \in Worker, Complete(r, w) PROVE LaunchAges'
        BY <1>1, <2>5 DEF Complete
  <2>6. QED BY <1>3, <2>1, <2>2, <2>3, <2>4, <2>5 DEF LoopStep
<1>4. ASSUME NEW r \in Run, NEW w \in Worker, WorkerStep(r, w) PROVE LaunchAges'
  <2>1. UNCHANGED <<run, revision, pending, queue, due>>
        BY <1>4 DEF WorkerStep, WorkerStop, WorkerCheck, Launch, Return, Verify,
           RetryTimer, monitorVars, loopVars
  <2>2. CASE launched' = launched
        BY <1>1, <2>1, <2>2
  <2>3. CASE Launch(r, w)
    <3>1. launched' = launched \cup {job[r][w]} /\ worker[r][w] = "launch"
          BY <2>3 DEF Launch
    <3>2. Busy(r, w) /\ r <= runs
          BY <1>0, <3>1 DEF RetryOK, Busy
    <3>3. /\ job[r][w].revision \in Nat
          /\ job[r][w].revision <= pending[r].revision
          /\ pending[r].revision \in Nat /\ pending[r].revision <= revision
          /\ revision \in Nat
          BY <1>0, <3>2 DEF Typing, JobTyped, Job, JobAges
    <3>4. job[r][w].revision <= revision
          BY <3>3
    <3>5. job[r][w].revision = revision => run # 0 /\ pending[run].revision = revision
      <4>1. SUFFICES ASSUME job[r][w].revision = revision
                     PROVE  run # 0 /\ pending[run].revision = revision
            OBVIOUS
      <4>2. pending[r].revision = revision
            BY <3>3, <4>1
      <4>3. run = r
            BY <1>0, <3>2, <4>2 DEF Ages
      <4>4. QED BY <1>0, <4>2, <4>3
    <3>6. ASSUME NEW q \in Run, job[r][w].revision = pending[q].revision
          PROVE  ~due[q] /\ job[r][w].provider \notin queue[q]
          BY <3>2, <3>6 DEF JobAges
    <3>7. QED BY <2>1, <3>1, <3>4, <3>5, <3>6 DEF LaunchAges
  <2>4. QED BY <1>4, <2>2, <2>3 DEF WorkerStep, WorkerStop, WorkerCheck, Return, Verify,
            RetryTimer
<1>5. CASE UNCHANGED vars
      BY <1>1, <1>5 DEF vars, monitorVars, loopVars, workerVars
<1>6. QED BY <1>2, <1>3, <1>4, <1>5 DEF Next

----------------------------------------------------------------------------
(* One check and one retry.                                                *)

\* The retry of a job.
Again(j) == [j EXCEPT !.attempt = 2]

LEMMA AgainIs ==
  ASSUME NEW j \in Job
  PROVE  /\ Again(j) \in Job
         /\ Again(j).provider = j.provider /\ Again(j).revision = j.revision
         /\ Again(j).attempt = 2
BY DEF Again, Job

\* What a worker may still launch, the check or its retry, was not launched.
Unlaunched ==
  \A r \in Run, w \in Worker :
    /\ worker[r][w] \in {"check", "launch"} => job[r][w] \notin launched
    /\ ( /\ worker[r][w] \in {"check", "launch", "testing", "verify", "retry"}
         /\ job[r][w].attempt = 1 ) => Again(job[r][w]) \notin launched

LEMMA UnlaunchedInit == Init => Unlaunched
BY DEF Init, Unlaunched

\* Two workers differ in the provider or the revision of their jobs.
LEMMA JobsDiffer ==
  ASSUME HoldOK, JobAges, NEW q \in Run, NEW r \in Run, NEW v \in Worker, NEW w \in Worker,
         Busy(q, v), Busy(r, w), q # r \/ v # w
  PROVE  job[q][v].provider # job[r][w].provider \/ job[q][v].revision # job[r][w].revision
BY DEF HoldOK, OneWorkerPerProvider, JobAges

LEMMA UnlaunchedStep ==
  Typing /\ HoldOK /\ RetryOK /\ JobAges /\ LaunchAges /\ Unlaunched /\ [Next]_vars
    => Unlaunched'
<1> SUFFICES ASSUME Typing, HoldOK, RetryOK, JobAges, LaunchAges, Unlaunched, [Next]_vars
             PROVE  Unlaunched'
    OBVIOUS
<1>0. /\ pending \in [Run -> Snapshot]
      /\ queue \in [Run -> SUBSET Provider]
      /\ worker \in [Run -> [Worker -> WorkerPc]]
      /\ job \in [Run -> [Worker -> Job \cup {NoJob}]]
      /\ \A r \in Run : pending[r].revision \in Nat
      BY DEF Typing, TypeOK, Snapshot
<1>1. CASE UNCHANGED workerVars
      BY <1>1 DEF Unlaunched, workerVars
<1>2. CASE Environment
  <2>1. CASE Start
    <3>1. \A r \in Run, w \in Worker :
            worker'[r][w] = worker[r][w] \/ worker'[r][w] = "idle"
          BY <1>0, <2>1 DEF Start
    <3>2. UNCHANGED <<job, launched>>
          BY <2>1 DEF Start
    <3>3. QED BY <3>1, <3>2 DEF Unlaunched
  <2>2. CASE ~ Start
        BY <1>1, <1>2, <2>2 DEF Environment, Update, SetProviders, Stop
  <2>3. QED BY <2>1, <2>2
<1>3. ASSUME NEW r \in Run, LoopStep(r) PROVE Unlaunched'
  <2>1. CASE LoopStop(r) \/ LoopWake(r) \/ LoopSnapshot(r) \/ LoopDue(r)
        BY <1>1, <2>1 DEF LoopStop, LoopWake, LoopSnapshot, LoopDue
  <2>2. ASSUME NEW w \in Worker, Dispatch(r, w) PROVE Unlaunched'
    <3>1. PICK p \in Free(r) :
            job' = [job EXCEPT ![r][w] = [provider |-> p,
                      revision |-> pending[r].revision, attempt |-> 1]]
          BY <2>2 DEF Dispatch
    <3>2. p \in queue[r] /\ p \in Provider
          BY <1>0, <3>1 DEF Free
    <3>3. /\ job'[r][w].provider = p
          /\ job'[r][w].revision = pending[r].revision
          /\ job'[r][w] \in Job
          BY <1>0, <3>1, <3>2 DEF Job
    <3>4. \A j \in launched : j.provider # p \/ j.revision # pending[r].revision
          BY <3>2 DEF LaunchAges
    <3>5. job'[r][w] \notin launched
          BY <3>3, <3>4
    <3>6. Again(job'[r][w]) \notin launched
          BY <3>3, <3>4, AgainIs
    <3>7. \A q \in Run, v \in Worker :
            (q # r \/ v # w) => worker'[q][v] = worker[q][v] /\ job'[q][v] = job[q][v]
          BY <1>0, <2>2 DEF Dispatch
    <3>8. launched' = launched
          BY <2>2 DEF Dispatch
    <3>9. ASSUME NEW q \in Run, NEW v \in Worker
          PROVE  /\ worker'[q][v] \in {"check", "launch"} => job'[q][v] \notin launched'
                 /\ ( /\ worker'[q][v] \in {"check", "launch", "testing", "verify", "retry"}
                      /\ job'[q][v].attempt = 1 ) => Again(job'[q][v]) \notin launched'
      <4>1. CASE q = r /\ v = w
            BY <3>5, <3>6, <3>8, <4>1
      <4>2. CASE q # r \/ v # w
            BY <3>7, <3>8, <4>2 DEF Unlaunched
      <4>3. QED BY <4>1, <4>2
    <3>10. QED BY <3>9 DEF Unlaunched, Again
  <2>3. ASSUME NEW w \in Worker, Complete(r, w) PROVE Unlaunched'
    <3>1. \A q \in Run, v \in Worker :
            worker'[q][v] = worker[q][v] \/ worker'[q][v] = "idle"
          BY <1>0, <2>3 DEF Complete
    <3>2. UNCHANGED <<job, launched>>
          BY <2>3 DEF Complete
    <3>3. QED BY <3>1, <3>2 DEF Unlaunched
  <2>4. QED BY <1>3, <2>1, <2>2, <2>3 DEF LoopStep
<1>4. ASSUME NEW r \in Run, NEW w \in Worker, WorkerStep(r, w) PROVE Unlaunched'
  <2> DEFINE Others ==
               \A q \in Run, v \in Worker :
                 (q # r \/ v # w) => worker'[q][v] = worker[q][v] /\ job'[q][v] = job[q][v]
  <2>0. Others
        BY <1>0, <1>4 DEF WorkerStep, WorkerStop, WorkerCheck, Launch, Return, Verify,
           RetryTimer, Goto
  <2>1. CASE /\ UNCHANGED <<job, launched>>
             /\ \/ worker'[r][w] \in {"report", "exited"}
                \/ worker[r][w] = "check" /\ worker'[r][w] = "launch"
                \/ worker[r][w] = "testing" /\ worker'[r][w] = "verify"
                \/ worker[r][w] = "verify" /\ worker'[r][w] = "retry"
        BY <2>0, <2>1 DEF Unlaunched
  <2>2. CASE WorkerStop(r, w) \/ WorkerCheck(r, w) \/ Return(r, w)
        BY <1>0, <2>1, <2>2 DEF WorkerStop, WorkerCheck, Return, Goto
  <2>3. ASSUME NEW failed \in BOOLEAN, Verify(r, w, failed) PROVE Unlaunched'
        BY <1>0, <2>1, <2>3 DEF Verify, Goto
  <2>4. CASE RetryTimer(r, w)
    <3>1. /\ worker[r][w] = "retry" /\ worker'[r][w] = "check"
          /\ job'[r][w] = Again(job[r][w])
          /\ launched' = launched
          BY <1>0, <2>4 DEF RetryTimer, Goto, Again
    <3>2. job[r][w] \in Job /\ job[r][w].attempt = 1
          BY <3>1 DEF Typing, JobTyped, Busy, RetryOK
    <3>3. job'[r][w] \notin launched /\ job'[r][w].attempt = 2
          BY <3>1, <3>2, AgainIs DEF Unlaunched
    <3>4. QED BY <2>0, <3>1, <3>3 DEF Unlaunched
  <2>5. CASE Launch(r, w)
    <3>1. /\ worker[r][w] = "launch" /\ worker'[r][w] = "testing"
          /\ job' = job /\ launched' = launched \cup {job[r][w]}
          BY <1>0, <2>5 DEF Launch, Goto
    <3>2. Busy(r, w) /\ job[r][w] \in Job
          BY <3>1 DEF Typing, JobTyped, Busy
    <3>3. job[r][w].attempt = 1 => Again(job[r][w]) \notin launched'
          BY <3>1, <3>2, AgainIs DEF Unlaunched
    <3>4. ASSUME NEW q \in Run, NEW v \in Worker, q # r \/ v # w, Busy(q, v)
          PROVE  job[q][v] # job[r][w] /\ Again(job[q][v]) # job[r][w]
      <4>1. job[q][v] \in Job
            BY <3>4 DEF Typing, JobTyped
      <4>2. job[q][v].provider # job[r][w].provider \/ job[q][v].revision # job[r][w].revision
            BY <3>2, <3>4, JobsDiffer
      <4>3. QED BY <4>1, <4>2, AgainIs
    <3>5. ASSUME NEW q \in Run, NEW v \in Worker
          PROVE  /\ worker'[q][v] \in {"check", "launch"} => job'[q][v] \notin launched'
                 /\ ( /\ worker'[q][v] \in {"check", "launch", "testing", "verify", "retry"}
                      /\ job'[q][v].attempt = 1 ) => Again(job'[q][v]) \notin launched'
      <4>1. CASE q = r /\ v = w
            BY <3>1, <3>3, <4>1
      <4>2. CASE q # r \/ v # w
            BY <2>0, <3>1, <3>4, <4>2 DEF Unlaunched, Busy
      <4>3. QED BY <4>1, <4>2
    <3>6. QED BY <3>5 DEF Unlaunched, Again
  <2>6. QED BY <1>4, <2>2, <2>3, <2>4, <2>5 DEF WorkerStep
<1>5. CASE UNCHANGED vars
      BY <1>1, <1>5 DEF vars
<1>6. QED BY <1>2, <1>3, <1>4, <1>5 DEF Next

\* Over all runs, changes and retries, a provider is checked at most once and
\* retried at most once, after its check, at each revision.
THEOREM OneCheckPerRevision == Spec => []OncePerRevision
<1>1. Unlaunched /\ RetryOK => OncePerRevision
      BY DEF Unlaunched, RetryOK, OncePerRevision
<1>2. QED
  BY <1>1, TypingInit, TypingStep, RunInit, RunStep, SnapshotInit, SnapshotStep,
     HoldInit, HoldStep, RetryInit, RetryStep, AgesInit, AgesStep, JobAgesInit, JobAgesStep,
     LaunchAgesInit, LaunchAgesStep, UnlaunchedInit, UnlaunchedStep, PTL
     DEF Spec
=============================================================================
