---------------------------- MODULE CoreRuntime ----------------------------
(***************************************************************************)
(* core.go: the Go core's Start and Stop, the network notifications of the *)
(* Android side, and the hook that runs whenever the mihomo executor       *)
(* applied a configuration, at a start or at a reload through the external *)
(* controller.                                                             *)
(*                                                                         *)
(* The Tailscale control hosts of a configuration must be resolved by the  *)
(* DNS servers of the physical network.  Three pieces of state follow each *)
(* other: the servers last notified (under tailscaleDNSMu), the cached DNS *)
(* configuration and tracked hosts (under runtimeConfigMu), and the live   *)
(* resolver (under no lock).  Start, Stop and the refresh hold mu, which   *)
(* the hook must not take; the executor has a lock of its own.             *)
(*                                                                         *)
(* A list of servers is one value, NoServers the empty one.  A policy maps *)
(* each host to the servers injected for it; hosts that the user's own     *)
(* policies cover are in no Control set.                                   *)
(***************************************************************************)
EXTENDS Naturals

CONSTANTS
  Config,      \* configurations
  Host,        \* Tailscale control hosts
  Control,     \* [Config -> SUBSET Host]: the hosts to resolve physically
  Servers,     \* non-empty lists of physical DNS servers
  NoServers,   \* the empty list
  NoConfig,    \* no DNS configuration: nil
  Notifier,    \* threads that call SetAndroidNetworkInfo
  MaxStart,    \* bound: calls of Start
  MaxChange,   \* bound: notifications
  MaxReload,   \* bound: reloads through the external controller
  CoreFaults   \* what may fail in Start

CoreFaultKind == {"build", "parse", "tun"}

ASSUME CoreAssumption ==
  /\ Control \in [Config -> SUBSET Host]
  /\ NoServers \notin Servers
  /\ NoConfig \notin Config
  /\ MaxStart \in Nat
  /\ MaxChange \in Nat
  /\ MaxReload \in Nat
  /\ CoreFaults \subseteq CoreFaultKind

VARIABLES
  running,
  servers,   \* tailscaleDNSServers
  cache,     \* lastDNSConfig
  hosts,     \* lastDNSPolicyHosts
  live,      \* the DNS configuration of the resolver
  applied,   \* the configuration the executor applied last
  work,      \* [Actor -> Work]: where Start and a reload are
  notifying, \* [Notifier -> BOOLEAN]: the DNS servers changed, a refresh is due
  fd,        \* [Start -> FdState]: the TUN descriptor of each Start
  starts, changes, reloads  \* what was used of the bounds

dnsVars   == <<servers, cache, hosts, live>>
boundVars == <<starts, changes, reloads>>
vars      == <<running, dnsVars, applied, work, notifying, fd, boundVars>>

Actor   == {"start", "reload"}
ServersOrNone == Servers \cup {NoServers}
Policy  == [Host -> ServersOrNone]
DNS     == [conf : Config \cup {NoConfig}, policy : Policy]
Phase   == [start |-> {"idle", "build", "parse", "apply", "read", "commit", "merge"},
            reload |-> {"idle", "read", "commit"}]
FdState == {"none", "start", "core", "listener", "closed"}

\* The DNS configuration of c with the servers s injected for its hosts.
Inject(c, s) ==
  [conf |-> c, policy |-> [h \in Host |-> IF h \in Control[c] THEN s ELSE NoServers]]

NoDNS == [conf |-> NoConfig, policy |-> [h \in Host |-> NoServers]]

\* replaceDNSPoliciesForHosts: without servers the policies are removed.
Replace(dns, tracked, s) ==
  [dns EXCEPT !.policy = [h \in Host |-> IF h \in tracked THEN s ELSE @[h]]]

TypeOK ==
  /\ running \in BOOLEAN
  /\ servers \in ServersOrNone
  /\ cache \in DNS
  /\ hosts \subseteq Host
  /\ live \in DNS
  /\ applied \in Config \cup {NoConfig}
  /\ work \in [Actor -> [pc : Phase["start"], conf : Config \cup {NoConfig},
                         built : ServersOrNone, read : ServersOrNone]]
  /\ \A a \in Actor : work[a].pc \in Phase[a]
  /\ notifying \in [Notifier -> BOOLEAN]
  /\ fd \in [1 .. MaxStart -> FdState]
  /\ starts \in 0 .. MaxStart
  /\ changes \in 0 .. MaxChange
  /\ reloads \in 0 .. MaxReload

Init ==
  /\ running = FALSE
  /\ servers = NoServers
  /\ cache = NoDNS
  /\ hosts = {}
  /\ live = NoDNS
  /\ applied = NoConfig
  /\ work = [a \in Actor |-> [pc |-> "idle", conf |-> NoConfig,
                              built |-> NoServers, read |-> NoServers]]
  /\ notifying = [n \in Notifier |-> FALSE]
  /\ fd = [n \in 1 .. MaxStart |-> "none"]
  /\ starts = 0
  /\ changes = 0
  /\ reloads = 0

----------------------------------------------------------------------------
At(a, p) == work[a].pc = p

Goto(a, p) == work' = [work EXCEPT ![a].pc = p]

\* mu: Start holds it from its first step to its last.
MuFree == At("start", "idle")

\* The executor's lock, held while a configuration and its hook are applied.
ExecutorFree == \A a \in Actor : ~At(a, "read") /\ ~At(a, "commit")

\* clearRuntimeConfigStateLocked
ClearRuntimeConfigState == cache' = NoDNS /\ hosts' = {}

\* shutdownLocked, which also closes the TUN listener; what it leaves alone when
\* nothing runs.
ClosedListener == [n \in DOMAIN fd |-> IF fd[n] = "listener" THEN "closed" ELSE fd[n]]

ShutdownLocked ==
  /\ running' = FALSE
  /\ IF running THEN ClearRuntimeConfigState ELSE UNCHANGED <<cache, hosts>>

Stop ==
  /\ MuFree
  /\ running
  /\ ShutdownLocked
  /\ fd' = ClosedListener
  /\ UNCHANGED <<servers, live, applied, work, notifying, boundVars>>

\* Start(c): the descriptor is the caller's gift, a core that runs is shut down.
StartBegin(c) ==
  /\ MuFree
  /\ starts < MaxStart
  /\ starts' = starts + 1
  /\ fd' = [ClosedListener EXCEPT ![starts + 1] = "start"]
  /\ ShutdownLocked
  /\ work' = [work EXCEPT !["start"].pc = "build", !["start"].conf = c]
  /\ UNCHANGED <<servers, live, applied, notifying, changes, reloads>>

\* Fault: the error returns without closeOwnedTunFd.
StartBuildLeaking ==
  /\ At("start", "build")
  /\ \/ /\ work' = [work EXCEPT !["start"].pc = "parse", !["start"].built = servers]
        /\ UNCHANGED fd
     \/ /\ "build" \in CoreFaults
        /\ Goto("start", "idle")
        /\ UNCHANGED fd
  /\ UNCHANGED <<running, dnsVars, applied, notifying, boundVars>>

\* buildRuntimeConfigWithMetadata injects the servers it reads; when it or the
\* setup of the home directory fails the descriptor is closed.
StartBuild ==
  /\ At("start", "build")
  /\ \/ /\ work' = [work EXCEPT !["start"].pc = "parse", !["start"].built = servers]
        /\ UNCHANGED fd
     \/ /\ "build" \in CoreFaults
        /\ Goto("start", "idle")
        /\ fd' = [fd EXCEPT ![starts] = "closed"]
  /\ UNCHANGED <<running, dnsVars, applied, notifying, boundVars>>

\* ownsTunFd is given up before ParseWithBytes, which may fail.
StartParse ==
  /\ At("start", "parse")
  /\ fd' = [fd EXCEPT ![starts] = "core"]
  /\ \/ Goto("start", "apply")
     \/ "parse" \in CoreFaults /\ Goto("start", "idle")
  /\ UNCHANGED <<running, dnsVars, applied, notifying, boundVars>>

\* hub.ApplyConfig, up to the hook: the resolver and the TUN listener, which
\* closes the descriptor when it cannot start.
StartApply ==
  /\ At("start", "apply")
  /\ ExecutorFree
  /\ applied' = work["start"].conf
  /\ live' = Inject(work["start"].conf, work["start"].built)
  /\ \/ fd' = [fd EXCEPT ![starts] = "listener"]
     \/ "tun" \in CoreFaults /\ fd' = [fd EXCEPT ![starts] = "closed"]
  /\ Goto("start", "read")
  /\ UNCHANGED <<running, servers, cache, hosts, notifying, boundVars>>

\* A reload, up to the hook; nothing is injected into its configuration.
Reload(c) ==
  /\ reloads < MaxReload
  /\ applied # NoConfig
  /\ At("reload", "idle")
  /\ ExecutorFree
  /\ reloads' = reloads + 1
  /\ applied' = c
  /\ live' = Inject(c, NoServers)
  /\ work' = [work EXCEPT !["reload"].pc = "read", !["reload"].conf = c]
  /\ UNCHANGED <<running, servers, cache, hosts, notifying, fd, starts, changes>>

\* The hook reads the servers before it takes runtimeConfigMu.
SyncRead(a) ==
  /\ At(a, "read")
  /\ work' = [work EXCEPT ![a].pc = "commit", ![a].read = servers]
  /\ UNCHANGED <<running, dnsVars, applied, notifying, fd, boundVars>>

\* Fault: the hook of a reload goes on like the one of a start.
AfterSyncMerging == [start |-> "merge", reload |-> "merge"]

\* Where the hook's caller goes on.
AfterSync == [start |-> "merge", reload |-> "idle"]

\* Fault: the hook waits for mu, which Start holds.
SyncCommitLocking(a) ==
  LET dns     == Inject(work[a].conf, work[a].built)
      tracked == {h \in Control[dns.conf] : dns.policy[h] = NoServers}
  IN  /\ At(a, "commit")
      /\ MuFree
      /\ hosts' = tracked
      /\ cache' = Replace(dns, tracked, work[a].read)
      /\ live' = cache'
      /\ Goto(a, AfterSync[a])
      /\ UNCHANGED <<running, servers, applied, notifying, fd, boundVars>>

\* syncRuntimeConfigStateFromAppliedConfig under runtimeConfigMu: it tracks the
\* hosts no policy covers, and reapplies their policies if it has servers.
SyncCommit(a) ==
  LET dns     == Inject(work[a].conf, work[a].built)
      tracked == {h \in Control[dns.conf] : dns.policy[h] = NoServers}
      applies == tracked # {} /\ work[a].read # NoServers
  IN  /\ At(a, "commit")
      /\ hosts' = tracked
      /\ cache' = IF applies THEN Replace(dns, tracked, work[a].read) ELSE dns
      /\ live' = IF applies THEN cache' ELSE live
      /\ Goto(a, AfterSync[a])
      /\ UNCHANGED <<running, servers, applied, notifying, fd, boundVars>>

\* Fault: the startup state replaces the cached configuration.
MergeStartupReplacing ==
  /\ cache' = Inject(work["start"].conf, work["start"].built)
  /\ hosts' = hosts \cup Control[work["start"].conf]

\* Fault: the injected hosts are not tracked.
MergeStartupForgetting ==
  /\ cache' = IF cache = NoDNS
              THEN Inject(work["start"].conf, work["start"].built) ELSE cache
  /\ hosts' = hosts

\* mergeStartupRuntimeConfigState keeps what the hook cached, a reload's too, and
\* adds the hosts whose policies were injected, which the hook took for the user's.
MergeStartup ==
  /\ cache' = IF cache = NoDNS
              THEN Inject(work["start"].conf, work["start"].built) ELSE cache
  /\ hosts' = hosts \cup Control[work["start"].conf]

\* The end of Start: the TUN listener runs, or the executor is shut down and the
\* cached state stays.
StartEnd ==
  /\ At("start", "merge")
  /\ \/ /\ fd[starts] = "listener"
        /\ running' = TRUE
        /\ MergeStartup
     \/ /\ fd[starts] # "listener"
        /\ UNCHANGED <<running, cache, hosts>>
  /\ Goto("start", "idle")
  /\ UNCHANGED <<servers, live, applied, notifying, fd, boundVars>>

----------------------------------------------------------------------------
\* SetAndroidNetworkInfo, up to the refresh.
SetNetworkInfo(n, s) ==
  /\ ~notifying[n]
  /\ changes < MaxChange
  /\ changes' = changes + 1
  /\ servers' = s
  /\ notifying' = [notifying EXCEPT ![n] = (s # servers)]
  /\ UNCHANGED <<running, cache, hosts, live, applied, work, fd, starts, reloads>>

\* The refresh under both locks, with the servers known by then.
RefreshPolicy ==
  IF running /\ cache # NoDNS /\ hosts # {}
  THEN live' = Replace(cache, hosts, servers) /\ cache' = live'
  ELSE UNCHANGED <<live, cache>>

\* Fault: whether the core runs is looked up without waiting for mu.
RefreshUnlocked(n) ==
  /\ notifying[n]
  /\ notifying' = [notifying EXCEPT ![n] = FALSE]
  /\ RefreshPolicy
  /\ UNCHANGED <<running, servers, hosts, applied, work, fd, boundVars>>

\* refreshAndroidTailscaleDNSPolicy
Refresh(n) ==
  /\ notifying[n]
  /\ MuFree
  /\ notifying' = [notifying EXCEPT ![n] = FALSE]
  /\ RefreshPolicy
  /\ UNCHANGED <<running, servers, hosts, applied, work, fd, boundVars>>

----------------------------------------------------------------------------
StartStep == StartBuild \/ StartParse \/ StartApply \/ StartEnd

Next ==
  \/ Stop
  \/ StartStep
  \/ \E c \in Config : StartBegin(c) \/ Reload(c)
  \/ \E a \in Actor : SyncRead(a) \/ SyncCommit(a)
  \/ \E n \in Notifier : Refresh(n) \/ \E s \in ServersOrNone : SetNetworkInfo(n, s)

Spec == Init /\ [][Next]_vars

(* Every call that was begun goes on; Go's mutexes do not starve a waiter.  *)
Fairness ==
  /\ SF_vars(StartStep)
  /\ \A a \in Actor : WF_vars(SyncRead(a) \/ SyncCommit(a))
  /\ \A n \in Notifier : SF_vars(Refresh(n))

FairSpec == Spec /\ Fairness

----------------------------------------------------------------------------
(* Properties.                                                             *)

\* No Start, reload or notification is under way.
Quiet == /\ \A a \in Actor : At(a, "idle")
         /\ \A n \in Notifier : ~notifying[n]

\* "Android physical DNS policy refreshed after network info update": whatever
\* starts, stops and notifications overlapped, once they are done the resolver
\* of a running core has the configuration the executor applied, and resolves
\* its control hosts by the servers notified last.
FreshPolicy == (running /\ Quiet) => live = Inject(applied, servers)

\* Without reloads the policy is fresh: a notification that overlaps a start
\* reaches the resolver, by the start, by its hook or by the refresh after it.
FreshAfterStart == reloads = 0 => FreshPolicy

\* The cached configuration, which the next refresh applies, is the one the
\* executor applied last: neither the merge at the end of a start nor a refresh
\* brings back an older one.  In particular it is never missing.
CacheFollowsExecutor ==
  (running /\ \A a \in Actor : At(a, "idle")) => cache.conf = applied

\* No injected policy is frozen: as long as the core runs every host with an
\* injected policy is tracked, so the next network change can replace or remove
\* it, although the hook takes policies injected at a start for the user's.
InjectedIsTracked ==
  (running /\ MuFree) => \A h \in Host : cache.policy[h] # NoServers => h \in hosts

\* "The Go core owns and closes the descriptor after this handoff": once Start
\* returned, the descriptors it got are closed, but for the one the running
\* core's listener uses.
DescriptorsAccountedFor ==
  MuFree => \A n \in 1 .. starts :
              fd[n] = IF running /\ n = starts THEN "listener" ELSE "closed"

\* Start keeps no descriptor to itself, and no listener outlives its start or
\* its core: what is not closed then was handed to a core that did not parse.
NoListenerLeft ==
  MuFree => \A n \in 1 .. starts :
              IF running /\ n = starts THEN fd[n] = "listener" ELSE fd[n] \in {"closed", "core"}

\* Start, a reload and a notification return: no lock is waited for forever.
CallsReturn ==
  /\ \A a \in Actor : ~At(a, "idle") ~> At(a, "idle")
  /\ \A n \in Notifier : notifying[n] ~> ~notifying[n]
=============================================================================
