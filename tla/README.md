# Verification of clashmi_vpn_service

TLA+ models of the Android VPN bridge of Clash Mi, model-checked with TLC, and
theorems about each of them, proved with TLAPS. Paths below are relative to the
repository; `android/.../` stands for
`android/src/main/kotlin/com/cyenx/clashmi/clashmi_vpn_service/`.

## The system

| Part | Source | State | Operations |
|---|---|---|---|
| Flutter plugin | `android/.../ClashmiVpnServicePlugin.kt` | `pendingPermissionStart`, timers, dialogs | `prepareConfig`, `start`, `stop`, `restart`, permission result, timer callbacks (main thread) |
| VPN runtime | `android/.../ClashmiVpnRuntime.kt` | VPN state, prepared configuration, one waiting start, one waiting stop | synchronized methods, called by plugin and service |
| VPN service | `android/.../ClashMiVpnService.kt` | per service object: `desiredRunning`, `coreRunning`, `tunFd`, a single-threaded executor | `onStartCommand`, `onDestroy` (main thread), `onRevoke` (binder thread), `startCore`, `stopCore` (executor) |
| Go core | `core/mobile/core.go` | `running`, `lastDNSConfig`, `lastDNSPolicyHosts`, `lastGeneralIPv6`, the TUN descriptor | `Start`, `Stop`, `SetAndroidNetworkInfo`, the executor's apply hook |
| Socket protector | `core/mobile/socket_protector_android.go` | the protector, the proxy hook and its once, `tailscaleProxyURL`, `tailscaleDNSServers`, netns protection | `setSocketProtector`, `setTailscaleControlHTTPProxy`, the hook's question for a proxy |
| Health monitor | `core/mobile/android_network_health.go` | network fingerprint, providers, revision, active run; per run a loop and workers | `update`, `setProviders`, `start`, `stop`, goroutines |
| Log writer | `android/.../RotatingLogWriter.kt` | active file and backups | `append` |
| Core log | `core/mobile/persistent_log.go` | `persistentLogWriter`, one goroutine on Mihomo's log | `SetPersistentLogWriter`, `ClearPersistentLogWriter`, filter and forward |
| Configuration builder | `core/mobile/core.go:305-420`, `:647-1172` | none of its own; edits the cached DNS configuration | read, merge, force, inject, track, replace |
| Network snapshot, prepared configuration, Dart API, example, scripts | see `PROJECT.json` | little or none | not modelled |

A Flutter call reaches the plugin on the main thread, which registers a waiter
with the runtime and sends an intent; the activity manager delivers it to a
service object, whose executor calls the Go core; whoever finishes completes the
waiter. Inside the core, `Start` and every reload through the external controller
apply a configuration and run a hook, which feeds the DNS cache and the health
monitor; network callbacks of the service call `SetAndroidNetworkInfo`, which
feeds both as well. The core's log events and the service's own lines end in one
rotating log.

What makes the parts correct, and what is hard about it:

- *Plugin, runtime, service*: every call gets exactly one answer, which is true
  when it is given, and when nothing is under way the state shown, the core and
  the service agree. Hard: timers without identity that are never cancelled, one
  slot per waiter whoever completes it, a flag set on the main thread and read on
  an executor around slow native calls, start ids, two service objects that share
  one native core.
- *Go core*: the resolver follows both the configuration and the physical network;
  TUN descriptors are closed once; locks do not deadlock. Hard: several pieces of
  state under three locks (one of them the executor's) and a hook that runs inside
  `Start` as well as inside reloads.
- *Health monitor*: each provider is checked once per change, soon, for the
  configuration of the moment, by one worker. Hard: a lossy one-slot channel,
  snapshots that grow stale, calls that cannot be cancelled, goroutines that
  outlive a stop.
- *Socket protector*: control traffic without a local proxy must not leave the VPN,
  and other Tailscale traffic must, by the configuration of the moment. Hard: the
  protector, the hook another package may own, starts and reloads come in any order.
- *Configuration builder*: nothing the user wrote is lost or overwritten but what the
  tunnel forces, and each control host the user has no policy for has exactly one.
  Hard: policies are found again by name, through builds, hooks, merges and refreshes
  that each take another's result for the user's.
- *Log*: entries stay in order and bounded, also after a crash in a rotation, and a
  failing writer does not stop the core's log. Hard: a writer that is read under a
  lock and called without.

## Modules

| Module | Models | Composed of |
|---|---|---|
| `HealthContract` | what the health monitor promises (abstract) | |
| `HealthMonitor` | the health monitor | refines `HealthContract` |
| `HealthMonitorProofs`, `HealthContractProofs` | theorems about it | each extends the one before |
| `VpnContract` | what the VPN promises to a Flutter caller (abstract) | |
| `VpnRuntime` | the runtime's state and operations | |
| `VpnService` | service, executors, activity manager, the core as seen from the service | `VpnRuntime` |
| `VpnPlugin` | plugin, timers, dialogs, external events; the whole VPN's `Next` and properties | `VpnService`; refines `VpnContract` |
| `VpnProofs`, `VpnLifecycleProofs` | theorems about it | each extends the one before |
| `CoreRuntime` | start, stop, DNS refresh and apply hook of the Go core | |
| `CoreRuntimeProofs` | theorems about it | `CoreRuntime` |
| `CoreSystem` | socket protector, monitor life cycle and IPv6 flag, driven by the core | `CoreRuntime`, which it refines |
| `CoreSystemProofs` | theorems about it | `CoreSystem`, `CoreRuntimeProofs` |
| `YamlTree`, `YamlMerge` | trees and their accessors; the merge of two trees | |
| `RuntimeConfig` | the configuration builder and the live list of DNS policies, for any merge | `YamlTree` |
| `RuntimeConfigProofs` | theorems about it | `RuntimeConfig` |
| `RotatingLog` | the log writer | |
| `LogForwarder` | the core's log on top of it | `RotatingLog` |
| `LogProofs` | theorems about both | `LogForwarder` |
| `MC*` | the instances TLC checks | the module of the same name |

Operators under a comment `Fault:` are not part of a model. Each is the operator
next to it with a mistake the code could have made; exchanging the two makes
TLC find the property violated that `PROJECT.json` names with it, which shows that
the property depends on the code it is about.

### HealthMonitor

A step is one critical section of `monitor.mu`, one channel operation or one
boundary of an external `HealthCheck` call. `run` is the active run, numbered, and
`stopped` the set of runs whose channel is closed. Per run, `wake` is the one-slot
channel, `loop` the place of `checkLoop` (`LoopWake`, `LoopSnapshot`, `LoopDue`,
`Dispatch`, `Complete`, `LoopStop`) with its local `pending`, `queue`, `inFlight`
and timer `due`; `worker` and `job` are the workers (`WorkerCheck`, `Launch`,
`Return`, `Verify`, `RetryTimer`, `WorkerStop`). `launched` is a history of the
checks made. The queue is a set with the choice of `checkLoop` (the next provider in
name order that is not in flight). Debounce and retry delays are "later".

`HealthContract` knows nothing of runs, loops and workers: a revision, the providers
that may be checked, and the checks decided on. A change opens a revision; a check is
decided on for a provider that may be checked now, a retry after its check; fairly, a
provider that may be checked is. The map reads `allowed` off the active run, the
network and the providers, and `decided` as the checks launched plus those between
`WorkerCheck` and `Launch`. A check cannot be cancelled, so a provider in `Slow`, whose
check need not return, holds its worker. When as many of them are being checked as the
run has workers (`Crowded`), the contract promises nothing to the others, and nobody
else is checked until the next run: what
`TestAndroidNetworkRecoveryStopDoesNotWaitForOldChecksOrReuseTheirProviders` sets up
with four of each.

### VpnRuntime, VpnService, VpnPlugin

A waiter is the number of the Flutter call it answers. A handler on the main thread
is one step, except `ACTION_START`, where the write of `desiredRunning` before
`promoteToForeground` and what follows it are two (`OnStart`, then
`OnStartPromoted` or `OnStartNotPromoted`): an executor may read the flag in
between. Steps of an executor end where it next reads something another thread
writes, at `openTun`, and at a native call: `startCore` goes through
`StartConfigured`, `StartConnecting`, `OpenTun`, `HandOff`, `NativeStart`,
`NativeStarted`, `StartedInTime`, `AnnounceConnected`, `ReplyStarted`, or leaves at
`StartCancelled`, `StartIgnored`, `StartNotConfigured`, `CancelBeforeHandOff`,
`StartedTooLate` or, through the catch clause, `StartFailed`, `FailedNativeStop`,
`GiveUpStart`; `stopCore` is `NativeStop`, `StopDone`, `StopLeave`.

The activity manager is external: it numbers requests, delivers them in order, and
destroys a stopped service at some time or not (`BringDown`; a VPN binding may keep
the service alive). The native core is three states under a mutex. `callback` is the
service's registered network callback, which `StopBegin` removes before the native
stop, and `writer` the service object whose log writer the core has, which belongs to
the process and not to the object. The rejection of
a task by a shut-down executor is not modelled: nothing is delivered to a service
after `onDestroy`, so it cannot happen. `Clashmicore.stop` declares no error, but
the catch clause around it is modelled (fault "stop").

`Faults` chooses what may go wrong: the promotion, a missing configuration,
`openTun`, the native start or stop, the sending of an intent, the permission
dialog, no activity, a start or stop intent sent past the plugin ("tile": by another
component of the application, such as the quick-settings tile that
`ClashmiVpnRuntime.kt:89` names and the repository does not hold; external), a
revocation, an intent of another action.

`VpnContract` knows the calls, their answers and the core: a call is answered once, a
stop with "done" only when the core is down or was asked for again, a start only when
it is up; fairly, every call is answered. The map is the identity on `kind` and
`reply`, and `core` is the native core.

### CoreRuntime

`mu` is held by `Start` from `StartBegin` to `StartEnd`, so `MuFree` is the place of
`Start`; `Stop` and `Refresh` hold it for one step. The executor's lock is held by a
`Start` or `Reload` from the update of the resolver to the end of the hook, which is
two steps because it reads the servers (`SyncRead`) before it takes
`runtimeConfigMu` (`SyncCommit`). A list of servers is one value; `Control` maps a
configuration to the hosts that need a physical resolver. A DNS configuration is
the configuration it came from and the servers injected per host. `fd` follows each
`Start`'s descriptor: owned by `Start`, given to the core, used by the listener,
closed. External: that the executor updates the resolver before it calls the hook
and holds its lock meanwhile, that the listener closes a descriptor it was given,
that a reload leaves the TUN listener alone.

### CoreSystem

Every action is one of `CoreRuntime` with its effect on what `Start`, `Stop` and the
hook drive besides the resolver, so the module refines `CoreRuntime` by construction
of its actions. The build of a start tries the proxy hook once (`InstallHook`, which
finds it free or taken by another package), sets the proxy and thereby netns
protection (`SetProxy`, `ApplyNetns`); the hook of the executor sets it again. The two
find the proxy in different representations (see `RuntimeConfig`), hence two constants,
`BuildProxy` and `Proxy`. A start that fails leaves the proxy of its build, and with a
protector the protection that goes with it.
`AskProxy` and `Dial` are the two steps of a control connection, between which the
proxy may change. The monitor is the configuration whose providers it was given and
whether it runs; `StartEnd` starts it, every shutdown stops it. `raced` is a history
variable: a reload came while the last start was under way.

### RuntimeConfig

The functional part of `core.go`, on YAML trees of scalars, sequences and mappings
(`YamlTree`). The merge of two trees is the only recursion and a parameter, `Merge`, to
which `RuntimeConfig.cfg` gives `MergeMapping` of `YamlMerge`; what is proved holds for
any merge, or for any that merges trees key by key. `MergedRoot` and `Readable` (`readMergedConfigRoot` and the files it may
miss), `BuildOf` (defaults, forced TUN and DNS settings, control hosts of proxies and
provider payloads, injected policies), the two computations of the local proxy
(`ProxyOfRoot` from the tree, `ProxyOfGeneral` from Mihomo's parsed configuration
`General`) and
the operations on the live list of policies (`Replace`, `Uncovered`, `MergeHosts`).
The actions apply them in the order of a start (`Build`, `Apply` with the hook,
`EndStart`), of `Reload`, and of a network change (`NetworkInfo`, `Refresh`); what
locks make of that order is in `CoreRuntime`. `UsersSettingsSurvive` is about the
settings at the paths `Path`, up to three keys deep, where the deepest the builder itself
has (`dns.nameserver-policy.<host>`) end. Names that `shouldSkipPatchKey` drops are not
met below the top on these paths: there the code drops them from a mapping that it merges
into another, and keeps them in a mapping that it copies whole. Providers may have fetched any control
hosts by the time of a hook. Hosts and policies are sets, since the
properties are about which of them there are. External: Mihomo's parser (`Parses`,
`Parsed`, `General`) and its domain matching (`Covers`). `FailStart` is a start that fails
after the build; what the hook cached stays, which `Stop` of a running core clears. Left
out: the order of keys, hosts and policies and repetitions of them, the spelling of hosts
and of keys, URL formatting, log messages.

The repository's readers take a scalar's text: `scalarBool` is true for `true` only,
`scalarInt` is `strconv.Atoi` or 0, `scalarString` does not know null. Mihomo decodes what
YAML says: `True` is true, `0x1ed2` and `0100` are 7890 and 64, `~` leaves the default.
`Number` and `YamlNumber`, `YamlBool`, `YamlTrue` and `YamlNull` are the two sides. The
two computations of the local proxy agree where the settings are spelled so that both
read the same (`PlainlySpelled`); elsewhere the build may find no proxy, or one on
another host or port, and the hook moves it to where Mihomo listens. `HookKeepsProxy` is
about the first case, `RoutesFollowExecutor` of `CoreSystem` about both.

### LogForwarder

The goroutine takes an event (`Take`), filters it, reads the writer under the lock and
calls it without (`ForwardAppend`, or `Panic`, which is recovered); `SetWriter` comes
between. Entries of the service (`ServiceAppend`) go to the same `RotatingLog`, one
append at a time. `kept` remembers which event an entry is. A `Restart` of the process
loses the bus and the writer and leaves the files.

### RotatingLog

One step per file operation; `Interrupt` is a killed process or a failing
operation, `Write` of fewer bytes an interrupted write. Initially a backup of a
configuration with one file more may exist. An entry carries the offset where it ends,
so that the length of a file is that of its last entry.

`OnlyOldestIsLost` depends on the code's three files. With four, a rotation that is
interrupted after the move of `.2` to `.3`, and a second one that is interrupted after
that of `.1` to `.2`, leave `.1` free with `.3` in use, and the next rotation drops `.3`.
What is lost is the oldest then, too.

## Runs

| Run | Shows |
|---|---|
| `HealthSafety` | type invariant; no lost wake-up; the revision identifies the monitor's state; one worker per provider; one check and one retry per revision; decisions only for the current configuration; every step is one of `HealthContract` or none (`ChecksAsPromised`) |
| `HealthLiveness` | the monitor implements the fair contract (`ChecksDelivered`): what may be checked is checked although the check of another provider hangs, as long as fewer providers hang than there are workers; the goroutines of a stopped run exit |
| `VpnLifecycle` | with failing configurations, TUN interfaces, native starts, intents and permissions, and a start or stop sent past the plugin: the VPN implements `VpnContract` (`CallsAsPromised`: one answer, which is true), a stop is done only when its interface is closed, a cancelled start has a stop queued behind it, "already connected" is right, one service object at a time tells the core about networks, and when nothing is under way state, core, network callback, log writer and service agree |
| `VpnLiveness` | with failing promotions, native calls and intents, revocations and foreign intents: the VPN implements the fair contract (`CallsDelivered`), every call is answered |
| `VpnPromotion` | *violated*: a failed promotion of a second start leaves the core of the first running, without a stop |
| `VpnStopReply` | *violated*: a stop is answered by an earlier stop's completion, and a start queued in between follows |
| `CoreLifecycle` | without reloads resolver and network agree when nothing is under way; with them the cached DNS configuration is the applied one and every injected policy in it is tracked; no TUN listener is left behind; no call waits for a lock forever |
| `CoreStaleReload` | *violated*: a notification that overlaps a reload leaves the resolver stale |
| `CoreDescriptor` | *violated*: a configuration that does not parse leaks the descriptor |
| `CoreSystem` | control traffic without a proxy is never protected; sockets are protected exactly with a protector and a proxy, with or without a core; proxy, monitor and IPv6 flag of a running core are those of the applied configuration, whatever starts, stops, reloads, failures and protectors came before, and also where the build found another proxy |
| `RuntimeConfig` | every base, patch and final patch from eight files, then reloads and network changes: the user's settings (`UsersSettingsSurvive`) and policies (`UsersPoliciesKept`) survive, each uncovered control host has the policy of the present servers and no other (`PhysicalPolicies`), the hook of a start does not move a plainly spelled proxy (`HookKeepsProxy`) |
| `Log` | files bounded and in order, only the oldest full backup is lost, with interruptions and restarts anywhere; the core's events keep their order; a writer that was cleared is used once more at most; every event is taken although writers panic |

The violated runs are listed in `PROJECT.json` under "findings" with the line of
the comment, message or test they contradict. The two VPN ones need a fault or an
overlap that `VpnLifecycle` excludes (`promote`, a third call), so both results
stand: the properties hold for the overlaps of `VpnLifecycle` and fail for these. Of
the two of `CoreRuntime`, one needs a reload and the other a configuration that does not
parse: `FreshAfterStart` and `NoListenerLeft` are the parts of `FreshPolicy` and
`DescriptorsAccountedFor` that hold in general.

Some more overlaps are known and have no run of their own:

- With a revocation or a foreign intent and two service objects an answer may be
  untrue: a stop that a new object handles is answered while the executor of the
  destroyed one still holds a TUN interface, and the old object's last stop may end
  the core of the new one, which still answers "already connected", and both may tell
  the core about networks. The truth of
  answers is therefore checked without the faults "revoke" and "other", that every
  call gets one with them.
- A monitor stopped between a worker's decision (`WorkerCheck`) and its call
  (`Launch`) is followed by one check of the retired run, although the comment in `stop`
  says that the retired worker cannot launch its next provider. `DecidesForCurrentConfig`
  and the contract are about the decision: after the stop there is none.
- A reload between the hook of a start and its end leaves the start's control hosts
  tracked. When the reloaded configuration has a user's policy for one of them, the
  next refresh replaces it, although the hook had said that the host is "no longer
  tracked; live DNS policy already covers" it. The exception with `raced` in
  `UsersPoliciesKept` allows this for these hosts, and no more. For the same reason
  `IPv6FollowsExecutor` allows the flag of the start.
- A start injects a policy for, and tracks, a control host that only a `geosite` or
  `rule-set` pattern of the user's covers, because it cannot read these; a hook can,
  and does not.
- With a revocation during a start, the last stop of the destroyed service, past its
  native stop, clears the log writer that the new one has installed, and sets the state
  to disconnected over the "connected" of the new one. `SettledCoreIsOwned` and
  `SettledStateIsTrue` fail then; without a revocation they exclude it. A cancelled
  start leaves its log writer installed (the comment at `SettledServiceIsStopped`).

### Bounds and why they are enough

- Health: two providers and two workers, so that two workers can compete for a
  provider and a slow one can block a worker; two runs, so that a retired and an
  active one coexist; revision up to 4, enough for a change during debounce, during
  a check and during a retry. In `HealthLiveness` the revision bound makes changes
  finite, which is what "after the last change" needs; it has one run, whose
  goroutines do not interact with those of another, and three providers of which two are
  slow, for two workers: one slow provider holds one worker and the third must be
  checked, or two hold both and nobody can be.
- VPN: two calls give every pair of overlapping methods with their timers, the
  external event a third request; two service objects the overlap of a destroyed
  and a new one. `VpnLiveness` has one object: an answer comes from a timer at the
  latest, whichever object works. Three calls (no faults but "start") were checked for
  the invariants too and take a minute; `VpnStopReply` needs three.
- Core: two starts (one replaced by the other), two notifications from two
  threads, so that a newer one overtakes the refresh of an older one, a reload, three
  configurations with two, one and no control hosts, two lists of servers and the
  empty one.
- `CoreSystem`: two starts and two reloads, so that each can undo the other's routes,
  and three configurations: with a control host and a proxy, with neither, and with
  another proxy, which the build does not find and the hook does. Notifications touch nothing of what it adds; one is enough.
- `RuntimeConfig`: eight files chosen to meet each other: missing, empty, broken; two
  bases, one with every kind of control host and a matcher policy; three patches, one
  that changes a bit of everything, one whose boolean and numbers the two readers take
  differently, and one that cuts mappings off. Each is used as
  base, patch, final patch and reload, which gives every precedence of three. Two
  lists of servers and none.
- Log: three files as in the code, two bytes per file, five entries: every file fills,
  and the oldest is lost. Two events of the core and one writer, which comes and goes,
  between entries of the service.

Deadlock checking is off everywhere: these systems are idle once the bounds are
used up. Only `HealthSafety` uses symmetry (of workers), and it has no liveness.

### Fairness

- Health: goroutines and timers run; a `HealthCheck` of a provider outside `Slow`
  returns. None for the environment, and none for the answer of a slow provider. The
  contract is fair to a provider only while the workers are not `Crowded`.
- VPN: the main thread, posted work, timers and executors run, and a native call
  that was begun returns. None for calls, external events, the user's answer to a
  dialog, or the activity manager's choice to destroy a service: the timers answer
  the calls that wait for these.
- Core: `Start` and `Refresh` wait for a Go mutex, which hands over to a waiter
  that waited too long, hence strong fairness; the hook never waits.
- Log: the goroutine runs, an append that was begun goes on or is interrupted, and a
  call of a writer appends or ends in a panic. None for events, the service's entries
  or restarts.
- The fairness of the contracts is what is to be shown, not assumed.

## Proofs

All theorems hold for every value of the constants that satisfies the named
assumption of its module (`MonitorAssumption`, `CoreAssumption`, `LogAssumption`, ...):
any number of providers, workers, networks, runs and revisions, of configurations,
hosts, proxies, lists of servers, notifying threads, starts and reloads, of calls and
service objects, of files and events. No invariant of the runs is
inductive by itself; each module proves layers, every one by an `...Init` and a
`...Step` lemma that may use the layers before it, and the theorems are read off the
layers.

`HealthMonitorProofs`:

| Theorem | Property | Rests on |
|---|---|---|
| `TypeCorrect` | `TypeOK` | `Typing`: a busy worker's job is a job, not the initial nothing |
| `WakeupNotLost` | `NoLostWakeup` | `RunOK`: the active run has started and is not retired, so the token goes to a loop that still reads |
| `SnapshotIsCoherent` | `SnapshotCoherent` | a loop's snapshot is not newer than the monitor, and every change of the monitor makes a new revision |
| `DecidesForCurrent` | `DecidesForCurrentConfig` | jobs are made from coherent snapshots; equal revisions therefore mean equal providers |
| `OneWorker` | `OneWorkerPerProvider` | what a worker holds is in flight, and `Dispatch` chooses a provider that is not |

`HealthContractProofs`, which builds on it:

| Theorem | Property | Rests on |
|---|---|---|
| `MonitorKeepsPromise` | `ChecksAsPromised` | `RetryOK`: a second attempt follows a launched first one, and the workers of a run to come do nothing, so that starting it takes no decision back. Then each step maps: a critical section of the monitor to a change, a loop's step to none, a worker's check to a decision unless it is decided already |
| `OneCheckPerRevision` | `OncePerRevision` | `Ages`: snapshots of later runs are younger, so that revisions tell runs apart; `JobAges` and `LaunchAges`: what was taken from the queue of a snapshot, or launched for it, is not queued again; `Unlaunched`, with `OneWorkerPerProvider`: no two workers launch the same job |

`CoreRuntimeProofs`:

| Theorem | Property | Rests on |
|---|---|---|
| `CoreTypeCorrect` | `TypeOK` | `Typing`: a start or reload under way has a configuration |
| `NoListenerIsLeft` | `NoListenerLeft` | `Descriptors`: at each place of `Start` exactly one party has the descriptor |
| `CacheIsApplied` | `CacheFollowsExecutor` | `Locks` (a core that runs has no start under way, one hook runs at a time and for the applied configuration); `Cached`, which says it from the end of the hook on, before `running` is set |
| `InjectedPolicyIsTracked` | `InjectedIsTracked` | `Tracked`: until the merge at the end of a start its control hosts count as tracked |
| `ResolverIsFresh` | `FreshAfterStart` | `Fresh`: at each place of a start the servers it has read are the present ones or a refresh is due, and a refresh waits for `mu` |

`CoreSystemProofs`:

| Theorem | Property | Rests on |
|---|---|---|
| `SystemImplementsRuntime` | refinement | each step of the system is a step of `CoreRuntime` or a stutter; the theorems above therefore hold of the system |
| `SystemTypeCorrect` | (`SystemTypeOK`, which no run checks) | `Shapes` |
| `DirectStaysInside` | `DirectControlStaysInside` | `HookFirst`: the hook was tried before anything was applied; `Routes`: no proxy without the hook, no protection without a proxy |
| `RoutesAreApplied` | `RoutesFollowExecutor` | `Routes`, for the sockets; `Routed`, which says of the proxy the same from the end of the hook on, under the executor's lock |
| `MonitorIsOfCore` | `MonitorFollowsCore` | `Watched`: providers are given at the start of the hook, before the core runs |
| `IPv6IsApplied` | `IPv6FollowsExecutor` | `Flagged`: without a reload a start has applied its own configuration |

`VpnProofs`, for any number of calls, tasks and service objects and any faults:

| Theorem | Property | Rests on |
|---|---|---|
| `VpnTypeCorrect` | `TypeOK` | `Typing`: a queue holds tasks of calls that were made, an executor's work has its intent |
| `VpnAnswersOnce` | `AnswerSpec` of `VpnContract` | `Waiting`: a call waits in one slot, as the kind of waiter it is, and has no answer; a task that answers one holds the waiter itself. So every step answers the calls whose waiters it takes away, and those have none yet |

`VpnLifecycleProofs`, for any number of calls and objects, under the hypothesis
`Undisturbed`: promotions do not fail, a native stop does not fail (`Clashmicore.stop`
declares no error), no other application sends intents, and the user does not revoke
the VPN. All other faults (failing configurations, native starts, TUN interfaces and
intents) may come in any order:

| Theorem | Property |
|---|---|
| `StopBehindLateStart` | `QueuedStopCleansUp` |
| `IgnoredIsConnected` | `IgnoredStartIsConnected` |
| `StateIsTrue` | `SettledStateIsTrue` |
| `CoreIsOwned` | `SettledCoreIsOwned` |
| `ServiceIsStopped` | `SettledServiceIsStopped` |
| `CallsKeepPromise` | `CallsAsPromised` |
| `DoneStopIsClosed` | `StopDoneMeansClosed` |
| `OneObjectAtATime` | `OneObjectNotifies` |

They rest on one invariant, `Lifecycle` (`LifecycleHolds`). `OneActs`: only the latest
service object acts, and it was at rest before it was destroyed; `Numbered`: requests
are served in the order of their numbers, and the last one is on its way, in the
queue, or has brought the core up; `Placed`: what the executor's place says of its
object's interface, callback, log writer and core; `Wanted`: an object that is wanted has
a start last in its queue, one that is not, but runs or opens, has a stop ahead; `Owned`: a core
that runs, a state other than disconnected and a log writer have an object that will
take them back. None of these is inductive without the others: that one object acts says
that nobody else changes what its place describes, the order of the requests which one
of start and stop is last, and this what a cancelled start will be followed by.

The hypothesis is needed, as TLC shows with each of the faults alone. On the instance of
`VpnLifecycle`, "promote" takes most of the properties (`VpnPromotion`). A failing native
"stop" leaves a core nobody owns (`SettledStateIsTrue`, `SettledCoreIsOwned`). A foreign
intent starts the service past the plugin, whose state and stops then do not fit it: all
properties of settled states fail, and `OneObjectNotifies`. A revocation ends one start in
the middle of the next (`SettledCoreIsOwned` by the log writer, `StopDoneMeansClosed`,
untrue answers, `SettledStateIsTrue`, `SettledServiceIsStopped`, `OneObjectNotifies`). With three service objects and two
external events `QueuedStopCleansUp` and `IgnoredStartIsConnected` fail as well, with
"other" and with "revoke". `StoppedStaysStopped` is false even without any of these
(`VpnStopReply`).

`LogProofs`, for any number of files, bytes, entries, events and writers:

| Theorem | Property | Rests on |
|---|---|---|
| `ForwarderTypeCorrect` | `ForwarderTypeOK`, the log's `TypeOK` included | `LogTyping`, `ForwarderTyping` |
| `FilesStayBounded` | `FilesBounded` | `Rotating`: where an append writes, what it writes fits |
| `LogReadsInOrder` | `ReadsInOrder` | `Fresh`: the entry at hand is newer than all there are; `FewerFiles`: dropping files and moving them to older places keeps any order. `Rotating` has that the target of a move is free, or the oldest |
| `LostIsOlderHolds` | | for any number of files, what a step loses is older than all it keeps (the first half of `OnlyOldestIsLost`) |
| `OldestIsLost` | `OnlyOldestIsLost` | if `MaxFileCount <= 3`, as in the code; see above for four |
| `EventsKeepOrder` | `ForwardedInOrder` | `Undelivered` and `Delivered`: what is in the log is older than the event at hand, which is older than those on the bus |
| `OneLateWrite` | `AtMostOneLateWrite` | `Replaced`: a write that waits with a replaced writer is the first one |
| `ForwarderKeepsLog` | refinement | every step of the forwarder is one of `RotatingLog` or a stutter, so what holds of the log holds under it |

`RuntimeConfigProofs`, for any files, control hosts, patterns and lists of servers, and
any way to merge two trees (the first three) or any that goes key by key (the last):

| Theorem | Property | Rests on |
|---|---|---|
| `UsersPoliciesAreKept` | `UsersPoliciesKept` | `Built`, `Policies` |
| `PhysicalPoliciesArePresent` | `PhysicalPolicies` | `Policies`, `Needs` |
| `ProxyIsKept` | `HookKeepsProxy` | `ProxiesAgree`: where the settings are plainly spelled the readers and YAML give the same values, and Mihomo's defaults for a missing bind address or port lead to the same proxy as the empty scalar; `Built` has the proxy at the hook as the one of the tree |
| `UsersSettingsAreKept` | `UsersSettingsSurvive` | `Fits`, which says of a node of the merged tree what it has of the nodes of the two, and goes on from a node to those below it (`FitsBelow`); `LeftOfTun`, `LeftOfDNS`: what the tunnel forces and injects is at the listed paths and leaves the rest of the tree alone |

The invariant `ConfigInv` (with `TypeOK`: only hosts are tracked) goes from the build to the next stop. `Built`: the tree has
the policies of the user's files and one for each host the build found, which none of
the user's patterns names, with the servers of that moment; these are the present ones
or a refresh is due. `Policies`: a policy of the user's is there and its pattern is not
tracked, and any other is a physical one of a host that is. `Needs`: who needs a policy is
tracked and has the present one unless a refresh is due. "Tracked" counts the hosts the
end of a start will add from its hook on; without that the hook would end with policies
that nothing replaces. `raced` marks where a reload of another configuration breaks it.

`UsersSettingsAreKept` has the hypothesis `MergesTrees(Tree)`: the trees of the files are
in a set that has the nodes below its members and the merges of its mappings, and on it
`Merge` is what one call of `mergeMapping` does, given what the calls below it do. The
finite trees are such a set and `MergeMapping` is such a merge, because that equation is
its definition. It stays a hypothesis because a recursive operator takes the prover its
arithmetic and set reasoning; the run uses `MergeMapping` itself. The paths
of `Path` end at three keys (`PathAssumption`) because a proof for any depth is an
induction over data, which the prover cannot do.

Every safety invariant that a run with the result "pass" checks has a theorem.
Model-checked only are the liveness properties (`ChecksDelivered`, `RetiredRunsEnd`,
`CallsDelivered`, `CallsReturn`, `EventsAreTaken`), which are out of the prover's reach.
Of the VPN they are checked with the faults that `Undisturbed` excludes, too.

## What is not modelled, and the plan

- The Dart API, the example and the build scripts forward calls or build things; they
  keep no state the properties tell apart.
- The parsing of the prepared configuration: `VpnRuntime` has whether there is one.
- The network snapshot builder reads system services; its result is a fingerprint and
  a list of servers in the models. That the registration of the network callback may
  fail is abstracted: `callback` says that it is removed.
- Getters, notifications, attachment of the plugin to engine and activity, message
  redaction and truncation in the core's log.
- What the health monitor is told and what the DNS refresh is told, in one composition.
  `SetAndroidNetworkInfo` tells them in two steps under no common lock, so with two
  callers they could end with the news of different objects. `OneObjectNotifies` has that
  there is one caller at a time, checked and proved for the VPN when `Undisturbed`; with
  a failed promotion, a foreign intent or a revocation there may be two, and a callback
  that already runs while its object is unregistered is not modelled. `CoreRuntime` and
  `HealthMonitor` each take notifications in any order.

Left for later: the composition of `CoreSystem` with `HealthMonitor` in place of
`monitored` and `watching`, with the notifications of two service objects; callbacks that
outlive their registration.
