----------------------------- MODULE CoreSystem -----------------------------
(***************************************************************************)
(* What the life cycle of CoreRuntime drives besides the resolver:         *)
(*                                                                         *)
(*  - the routes of Tailscale's own sockets (socket_protector_android.go): *)
(*    its control client asks a hook for the local HTTP proxy before it    *)
(*    dials, and its netns may protect sockets from the VPN, which would   *)
(*    let a control connection without a proxy bypass Mihomo's rules;      *)
(*  - the network health monitor, here the configuration whose providers   *)
(*    it was given and whether it has a run (HealthMonitor has the rest);  *)
(*  - lastGeneralIPv6, as the configuration it came from.                  *)
(*                                                                         *)
(* Each action is one of CoreRuntime together with its effect on these.    *)
(***************************************************************************)
EXTENDS CoreRuntime

CONSTANTS
  NoProxy,    \* the empty proxy URL
  BuildProxy, \* [Config -> URL]: findLocalHTTPProxyURL, from the YAML tree
  Proxy       \* [Config -> URL]: findLocalHTTPProxyURLFromGeneral; RuntimeConfig has
              \* where the two differ

ASSUME SystemAssumption == DOMAIN BuildProxy = Config /\ DOMAIN Proxy = Config

VARIABLES
  protector,  \* tailscaleSocketProtector # nil
  hook,       \* HookProxyFromEnvironment: "unset", "installed", or another's, "taken"
  proxy,      \* tailscaleProxyURL
  netns,      \* the netns protects Tailscale's sockets
  dial,       \* a control connection between its question for a proxy and its dial
  monitored,  \* the configuration whose providers the health monitor has
  watching,   \* the health monitor has a run
  ipv6,       \* the configuration lastGeneralIPv6 came from
  raced       \* history: a reload was applied during the last start

routeVars   == <<protector, hook, proxy, netns, dial>>
monitorVars == <<monitored, watching>>
systemVars  == <<routeVars, monitorVars, ipv6, raced>>
allVars     == <<vars, systemVars>>

URL == {NoProxy} \cup {BuildProxy[c] : c \in Config} \cup {Proxy[c] : c \in Config}

SystemTypeOK ==
  /\ TypeOK
  /\ protector \in BOOLEAN
  /\ hook \in {"unset", "installed", "taken"}
  /\ proxy \in URL
  /\ netns \in BOOLEAN
  /\ dial \in {"none", "direct", "proxied", "overtaken"}
  /\ monitored \in Config \cup {NoConfig}
  /\ watching \in BOOLEAN
  /\ ipv6 \in Config \cup {NoConfig}
  /\ raced \in BOOLEAN

SystemInit ==
  /\ Init
  /\ protector = FALSE
  /\ hook = "unset"
  /\ proxy = NoProxy
  /\ netns = FALSE
  /\ dial = "none"
  /\ monitored = NoConfig
  /\ watching = FALSE
  /\ ipv6 = NoConfig
  /\ raced = FALSE

----------------------------------------------------------------------------
(* The routes.                                                             *)

\* Fault: the netns protects whenever there is a protector.
ApplyNetnsUnconditionally == netns' = protector'

\* applyTailscaleNetnsProtectorLocked
ApplyNetns == netns' = (protector' /\ proxy' # NoProxy)

\* setTailscaleControlHTTPProxy after the hook was tried: a connection that asked
\* before is not called back.
SetProxy(url) ==
  /\ UNCHANGED <<protector, hook>>
  /\ proxy' = IF hook = "taken" THEN NoProxy ELSE url
  /\ dial' = IF dial = "direct" /\ proxy' # NoProxy THEN "overtaken" ELSE dial
  /\ ApplyNetns

\* The once of setTailscaleControlHTTPProxy, in the first build.
InstallHook ==
  /\ At("start", "build")
  /\ hook = "unset"
  /\ hook' \in {"installed", "taken"}
  /\ UNCHANGED <<vars, protector, proxy, netns, dial, monitorVars, ipv6, raced>>

\* Fault: the proxy is set without the hook.
HookNotTried == TRUE

HookTried == hook # "unset"

SetSocketProtector(given) ==
  /\ MuFree
  /\ protector' = given
  /\ proxy' = proxy
  /\ ApplyNetns
  /\ UNCHANGED <<vars, hook, dial, monitorVars, ipv6, raced>>

\* The control client asks the hook, then dials.
AskProxy ==
  /\ dial = "none"
  /\ dial' = IF hook = "installed" /\ proxy # NoProxy THEN "proxied" ELSE "direct"
  /\ UNCHANGED <<vars, protector, hook, proxy, netns, monitorVars, ipv6, raced>>

Dial ==
  /\ dial # "none"
  /\ dial' = "none"
  /\ UNCHANGED <<vars, protector, hook, proxy, netns, monitorVars, ipv6, raced>>

----------------------------------------------------------------------------
(* The life cycle.                                                         *)

\* androidNetworkHealth.stop, which shutdownLocked calls in any case.
StopMonitor == monitored' = NoConfig /\ watching' = FALSE

Shutdown ==
  /\ StopMonitor
  /\ ipv6' = IF running THEN NoConfig ELSE ipv6
  /\ UNCHANGED <<routeVars, raced>>

SystemStop ==
  /\ Stop \/ (MuFree /\ ~running /\ UNCHANGED vars)
  /\ Shutdown

SystemStartBegin(c) ==
  /\ StartBegin(c)
  /\ raced' = FALSE
  /\ IF running THEN StopMonitor /\ ipv6' = NoConfig ELSE UNCHANGED <<monitorVars, ipv6>>
  /\ UNCHANGED routeVars

\* The build fails before it sets the proxy, or it sets the proxy and Start may
\* fail afterwards, which leaves the proxy as it is.
SystemStartBuild ==
  /\ StartBuild
  /\ \/ work'["start"].pc = "idle" /\ UNCHANGED routeVars
     \/ HookTried /\ SetProxy(BuildProxy[work["start"].conf])
  /\ UNCHANGED <<monitorVars, ipv6, raced>>

SystemReload(c) ==
  /\ Reload(c)
  /\ raced' = (raced \/ ~MuFree)
  /\ UNCHANGED <<routeVars, monitorVars, ipv6>>

\* The hook gives the providers to the monitor before it reads the servers.
SystemSyncRead(a) ==
  /\ SyncRead(a)
  /\ monitored' = work[a].conf
  /\ UNCHANGED <<routeVars, watching, ipv6, raced>>

\* Fault: a reload leaves the proxy of the start.
SystemSyncCommitKeepingProxy(a) ==
  /\ SyncCommit(a)
  /\ ipv6' = work[a].conf
  /\ UNCHANGED <<routeVars, monitorVars, raced>>

\* Fault: only a start sets lastGeneralIPv6.
SystemSyncCommitKeepingIPv6(a) ==
  /\ SyncCommit(a)
  /\ SetProxy(Proxy[work[a].conf])
  /\ ipv6' = IF a = "start" THEN work[a].conf ELSE ipv6
  /\ UNCHANGED <<monitorVars, raced>>

SystemSyncCommit(a) ==
  /\ SyncCommit(a)
  /\ SetProxy(Proxy[work[a].conf])
  /\ ipv6' = work[a].conf
  /\ UNCHANGED <<monitorVars, raced>>

\* Fault: the monitor is only started with the providers it has at the time.
SystemStartEndResettingMonitor ==
  /\ StartEnd
  /\ IF running'
     THEN watching' = TRUE /\ monitored' = NoConfig /\ ipv6' = work["start"].conf
     ELSE UNCHANGED <<monitorVars, ipv6>>
  /\ UNCHANGED <<routeVars, raced>>

\* mergeStartupRuntimeConfigState and androidNetworkHealth.start, which keeps
\* the providers.
SystemStartEnd ==
  /\ StartEnd
  /\ IF running'
     THEN watching' = TRUE /\ ipv6' = work["start"].conf
     ELSE UNCHANGED <<watching, ipv6>>
  /\ UNCHANGED <<routeVars, monitored, raced>>

----------------------------------------------------------------------------
SystemNext ==
  \/ SystemStop
  \/ InstallHook
  \/ SystemStartBuild
  \/ (StartParse \/ StartApply) /\ UNCHANGED systemVars
  \/ SystemStartEnd
  \/ AskProxy \/ Dial
  \/ \E c \in Config : SystemStartBegin(c) \/ SystemReload(c)
  \/ \E a \in Actor : SystemSyncRead(a) \/ SystemSyncCommit(a)
  \/ \E given \in BOOLEAN : SetSocketProtector(given)
  \/ \E n \in Notifier :
       (Refresh(n) \/ \E s \in ServersOrNone : SetNetworkInfo(n, s)) /\ UNCHANGED systemVars

SystemSpec == SystemInit /\ [][SystemNext]_allVars

----------------------------------------------------------------------------
(* Properties.                                                             *)

\* "If the hook is missing while netns protection is enabled, [...] the
\* controlplane socket escape[s] the VPN": a control connection that was told to
\* go without a proxy is not protected, in whatever order protector, hook, starts
\* and reloads come, unless a proxy was set after it had asked.
DirectControlStaysInside == dial = "direct" => ~netns

\* At any time, with or without a core, sockets go around the VPN exactly when there
\* is a protector and control traffic has a proxy, and it has one only through our
\* hook: the proxy a failed start leaves behind protects no more than that.  Once
\* no configuration is being applied, a running core's proxy is where the applied
\* configuration listens, also when the build had found another.
RoutesFollowExecutor ==
  /\ netns <=> (protector /\ proxy # NoProxy)
  /\ proxy # NoProxy => hook = "installed"
  /\ (running /\ ExecutorFree /\ hook = "installed") => proxy = Proxy[applied]

\* The health monitor checks the providers of the applied configuration as long
\* as the core runs, and has no run when no core runs: a stopped or failed core
\* sends no checks.
MonitorFollowsCore ==
  /\ (running /\ ExecutorFree) => watching /\ monitored = applied
  /\ watching => running

\* lastGeneralIPv6, with which a refresh rebuilds the resolver, is the applied
\* configuration's.  When a reload was applied during the start it may be the
\* one of the start: mergeStartupRuntimeConfigState sets it although it keeps
\* the DNS configuration of the reload.
IPv6FollowsExecutor ==
  (running /\ ExecutorFree) =>
    ipv6 = applied \/ (raced /\ ipv6 = work["start"].conf)
=============================================================================
