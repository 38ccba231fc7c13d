-------------------------- MODULE CoreSystemProofs --------------------------
(* CoreSystem for every set of configurations, hosts, servers and          *)
(* notifying threads.  It implements CoreRuntime, so the invariants proved *)
(* there hold here; the routes, the health monitor and the IPv6 flag are   *)
(* layers on top of the locks.                                             *)
EXTENDS CoreSystem, CoreRuntimeProofs

----------------------------------------------------------------------------
(* The refinement.                                                         *)

\* What the system adds to a step takes nothing from it.
LEMMA SystemStepImplements == [SystemNext]_allVars => [Next]_vars
BY DEF SystemNext, SystemStop, InstallHook, SystemStartBuild, SystemStartEnd, AskProxy, Dial,
   SystemStartBegin, SystemReload, SystemSyncRead, SystemSyncCommit, SetSocketProtector,
   Next, StartStep, allVars

\* The core with its routes and its monitor starts, stops, reloads and refreshes
\* as CoreRuntime says, so what is proved of CoreRuntime is true of it.
THEOREM SystemImplementsRuntime == SystemSpec => Spec
<1>1. SystemInit => Init
      BY DEF SystemInit
<1>2. QED BY <1>1, SystemStepImplements, PTL DEF SystemSpec, Spec

\* What is used of CoreRuntime's invariants below.
Base == Typing /\ Locks

LEMMA BaseInit == SystemInit => Base
BY TypingInit, LocksInit DEF SystemInit, Base

LEMMA BaseStep == Base /\ [SystemNext]_allVars => Base'
BY TypingStep, LocksStep, SystemStepImplements DEF Base

\* A hook runs for the applied configuration, which there is then.
LEMMA HookApplies ==
  ASSUME Base, NEW a \in Actor, InHook(a)
  PROVE  work[a].conf = applied /\ applied \in Config /\ applied # NoConfig
BY CoreAssumption DEF Base, Typing, Busy, Locks, InHook, At

\* Where the actors are, for what follows.
LEMMA BaseTypes ==
  Base =>
    /\ Actor = {"start", "reload"}
    /\ work \in [Actor -> [pc : Phase["start"], conf : Config \cup {NoConfig},
                           built : ServersOrNone, read : ServersOrNone]]
    /\ running => At("start", "idle")
    /\ running \in BOOLEAN
BY DEF Base, Typing, TypeOK, Actor, Locks, MuFree

----------------------------------------------------------------------------
(* The types.                                                              *)

\* The last conjuncts of SystemTypeOK.
Shapes ==
  /\ protector \in BOOLEAN
  /\ hook \in {"unset", "installed", "taken"}
  /\ proxy \in URL
  /\ netns \in BOOLEAN
  /\ dial \in {"none", "direct", "proxied", "overtaken"}
  /\ monitored \in Config \cup {NoConfig}
  /\ watching \in BOOLEAN
  /\ ipv6 \in Config \cup {NoConfig}
  /\ raced \in BOOLEAN

LEMMA ShapesInit == SystemInit => Shapes
BY DEF SystemInit, Shapes, URL

LEMMA SetProxyShapes ==
  ASSUME Shapes, NEW url \in URL, SetProxy(url)
  PROVE  /\ UNCHANGED <<protector, hook>>
         /\ proxy' \in URL
         /\ netns' \in BOOLEAN
         /\ dial' \in {"none", "direct", "proxied", "overtaken"}
BY DEF Shapes, SetProxy, ApplyNetns, URL

LEMMA ShapesStep == Base /\ Shapes /\ [SystemNext]_allVars => Shapes'
<1> SUFFICES ASSUME Base, Shapes, [SystemNext]_allVars PROVE Shapes'
    OBVIOUS
<1> USE DEF routeVars, monitorVars, StopMonitor
<1>0. /\ \A a \in Actor : ~At(a, "idle") => work[a].conf \in Config
      /\ "start" \in Actor
      BY DEF Base, Typing, Busy, Actor
<1>1. CASE SystemStop
      BY <1>1 DEF SystemStop, Shutdown, Shapes
<1>2. CASE InstallHook
      BY <1>2 DEF InstallHook, Shapes
<1>3. CASE SystemStartBuild
  <2>1. BuildProxy[work["start"].conf] \in URL
        BY <1>0, <1>3 DEF SystemStartBuild, StartBuild, At, URL
  <2>2. QED BY <1>3, <2>1, SetProxyShapes DEF SystemStartBuild, Shapes
<1>4. CASE SystemStartEnd
  <2>1. work["start"].conf \in Config
        BY <1>0, <1>4 DEF SystemStartEnd, StartEnd, At
  <2>2. QED BY <1>4, <2>1 DEF SystemStartEnd, Shapes
<1>5. CASE AskProxy \/ Dial
      BY <1>5 DEF AskProxy, Dial, Shapes
<1>6. ASSUME NEW c \in Config, SystemStartBegin(c) \/ SystemReload(c) PROVE Shapes'
      BY <1>6 DEF SystemStartBegin, SystemReload, Shapes
<1>7. ASSUME NEW a \in Actor, SystemSyncRead(a) PROVE Shapes'
      BY <1>0, <1>7 DEF SystemSyncRead, SyncRead, At, Shapes
<1>8. ASSUME NEW a \in Actor, SystemSyncCommit(a) PROVE Shapes'
  <2>1. work[a].conf \in Config /\ Proxy[work[a].conf] \in URL
        BY <1>0, <1>8 DEF SystemSyncCommit, SyncCommit, At, URL
  <2>2. QED BY <1>8, <2>1, SetProxyShapes DEF SystemSyncCommit, Shapes
<1>9. ASSUME NEW given \in BOOLEAN, SetSocketProtector(given) PROVE Shapes'
      BY <1>9 DEF SetSocketProtector, ApplyNetns, Shapes
<1>10. CASE UNCHANGED systemVars
      BY <1>10 DEF systemVars, Shapes
<1>11. QED
  BY <1>1, <1>2, <1>3, <1>4, <1>5, <1>6, <1>7, <1>8, <1>9, <1>10 DEF SystemNext, allVars

\* Routes, monitor and flag keep their shape, and with them the core's state.
THEOREM SystemTypeCorrect == SystemSpec => []SystemTypeOK
<1>1. Base /\ Shapes => SystemTypeOK
      BY DEF Base, Typing, Shapes, SystemTypeOK
<1>2. QED BY <1>1, BaseInit, BaseStep, ShapesInit, ShapesStep, PTL DEF SystemSpec

----------------------------------------------------------------------------
(* The routes.                                                             *)

\* The hook was tried before any configuration was applied.
HookFirst ==
  /\ hook \in {"unset", "installed", "taken"}
  /\ hook = "unset" => applied = NoConfig /\ work["start"].pc \in {"idle", "build"}

LEMMA HookFirstInit == SystemInit => HookFirst
BY DEF SystemInit, Init, HookFirst, Actor

LEMMA HookFirstStep == Base /\ HookFirst /\ [SystemNext]_allVars => HookFirst'
<1> SUFFICES ASSUME Base, HookFirst, [SystemNext]_allVars PROVE HookFirst'
    OBVIOUS
<1> USE DEF HookFirst, routeVars
<1>0. /\ Actor = {"start", "reload"}
      /\ work \in [Actor -> [pc : Phase["start"], conf : Config \cup {NoConfig},
                             built : ServersOrNone, read : ServersOrNone]]
      BY BaseTypes
<1>1. CASE SystemStop
      BY <1>1 DEF SystemStop, Stop, Shutdown, vars
<1>2. CASE InstallHook
      BY <1>2 DEF InstallHook
<1>3. CASE SystemStartBuild
      BY <1>0, <1>3 DEF SystemStartBuild, StartBuild, SetProxy, HookTried, Goto
<1>4. CASE (StartParse \/ StartApply) /\ UNCHANGED systemVars
      BY <1>0, <1>4 DEF StartParse, StartApply, At, systemVars
<1>5. CASE SystemStartEnd
      BY <1>0, <1>5 DEF SystemStartEnd, StartEnd, At
<1>6. CASE AskProxy \/ Dial
      BY <1>6 DEF AskProxy, Dial, vars
<1>7. ASSUME NEW c \in Config, SystemStartBegin(c) PROVE HookFirst'
      BY <1>0, <1>7 DEF SystemStartBegin, StartBegin
<1>8. ASSUME NEW c \in Config, SystemReload(c) PROVE HookFirst'
      BY <1>0, <1>8 DEF SystemReload, Reload
<1>9. ASSUME NEW a \in Actor, SystemSyncRead(a) PROVE HookFirst'
  <2>1. hook # "unset"
        BY <1>9, HookApplies DEF SystemSyncRead, SyncRead, InHook
  <2>2. QED BY <1>9, <2>1 DEF SystemSyncRead
<1>10. ASSUME NEW a \in Actor, SystemSyncCommit(a) PROVE HookFirst'
  <2>1. hook # "unset"
        BY <1>10, HookApplies DEF SystemSyncCommit, SyncCommit, InHook
  <2>2. QED BY <1>10, <2>1 DEF SystemSyncCommit, SetProxy
<1>11. ASSUME NEW given \in BOOLEAN, SetSocketProtector(given) PROVE HookFirst'
      BY <1>11 DEF SetSocketProtector, vars
<1>12. ASSUME NEW n \in Notifier,
              (Refresh(n) \/ \E s \in ServersOrNone : SetNetworkInfo(n, s)) /\ UNCHANGED systemVars
       PROVE  HookFirst'
      BY <1>12 DEF Refresh, SetNetworkInfo, systemVars
<1>13. CASE UNCHANGED allVars
      BY <1>13 DEF allVars, vars, systemVars
<1>14. QED
  BY <1>1, <1>2, <1>3, <1>4, <1>5, <1>6, <1>7, <1>8, <1>9, <1>10, <1>11, <1>12, <1>13
     DEF SystemNext

\* Sockets are protected exactly with a protector and a proxy, there is a proxy
\* only where the hook is ours, and who was told to go without one, when there
\* was none, is either still right or known to be overtaken.
Routes ==
  /\ netns <=> (protector /\ proxy # NoProxy)
  /\ hook # "installed" => proxy = NoProxy
  /\ dial = "direct" => proxy = NoProxy

LEMMA RoutesInit == SystemInit => Routes
BY DEF SystemInit, Routes

\* Setting the proxy, once the hook was tried, keeps the routes.
LEMMA SetProxyKeepsRoutes ==
  ASSUME HookFirst, Routes, hook # "unset", NEW url, SetProxy(url)
  PROVE  Routes'
BY DEF SetProxy, ApplyNetns, HookFirst, Routes

LEMMA RoutesStep == Base /\ HookFirst /\ Routes /\ [SystemNext]_allVars => Routes'
<1> SUFFICES ASSUME Base, HookFirst, Routes, [SystemNext]_allVars PROVE Routes'
    OBVIOUS
<1>1. CASE UNCHANGED routeVars
      BY <1>1 DEF Routes, routeVars
<1>2. CASE InstallHook
      BY <1>2 DEF InstallHook, Routes
<1>3. CASE SystemStartBuild
  <2>1. CASE HookTried /\ SetProxy(BuildProxy[work["start"].conf])
        BY <2>1, SetProxyKeepsRoutes DEF HookTried
  <2>2. QED BY <1>1, <1>3, <2>1 DEF SystemStartBuild
<1>4. CASE AskProxy
      BY <1>4 DEF AskProxy, Routes
<1>5. CASE Dial
      BY <1>5 DEF Dial, Routes
<1>6. ASSUME NEW a \in Actor, SystemSyncCommit(a) PROVE Routes'
  <2>1. hook # "unset"
        BY <1>6, HookApplies DEF SystemSyncCommit, SyncCommit, InHook, HookFirst
  <2>2. QED BY <1>6, <2>1, SetProxyKeepsRoutes DEF SystemSyncCommit
<1>7. ASSUME NEW given \in BOOLEAN, SetSocketProtector(given) PROVE Routes'
      BY <1>7 DEF SetSocketProtector, ApplyNetns, Routes
<1>8. CASE SystemStop \/ SystemStartEnd
      BY <1>1, <1>8 DEF SystemStop, Shutdown, SystemStartEnd
<1>9. ASSUME NEW c \in Config, SystemStartBegin(c) \/ SystemReload(c) PROVE Routes'
      BY <1>1, <1>9 DEF SystemStartBegin, SystemReload
<1>10. ASSUME NEW a \in Actor, SystemSyncRead(a) PROVE Routes'
      BY <1>1, <1>10 DEF SystemSyncRead
<1>11. CASE UNCHANGED systemVars
      BY <1>1, <1>11 DEF systemVars
<1>12. QED
  BY <1>2, <1>3, <1>4, <1>5, <1>6, <1>7, <1>8, <1>9, <1>10, <1>11 DEF SystemNext, allVars

\* A control connection that goes without a proxy is not protected from the VPN,
\* in whatever order protector, hook, starts and reloads come.
THEOREM DirectStaysInside == SystemSpec => []DirectControlStaysInside
<1>1. Routes => DirectControlStaysInside
      BY DEF Routes, DirectControlStaysInside
<1>2. QED
  BY <1>1, BaseInit, BaseStep, HookFirstInit, HookFirstStep, RoutesInit, RoutesStep, PTL
     DEF SystemSpec

\* Once the hook of the last configuration ran the proxy is that configuration's.
Routed ==
  ((running \/ At("start", "merge")) /\ ExecutorFree) =>
    proxy = IF hook = "installed" THEN Proxy[applied] ELSE NoProxy

LEMMA RoutedInit == SystemInit => Routed
BY DEF SystemInit, Init, Routed, At, Actor

LEMMA RoutedStep == Base /\ HookFirst /\ Routed /\ [SystemNext]_allVars => Routed'
<1> SUFFICES ASSUME Base, HookFirst, Routed, [SystemNext]_allVars PROVE Routed'
    OBVIOUS
<1> USE DEF Routed, ExecutorFree, At, routeVars
<1>0. /\ Actor = {"start", "reload"}
      /\ work \in [Actor -> [pc : Phase["start"], conf : Config \cup {NoConfig},
                             built : ServersOrNone, read : ServersOrNone]]
      /\ running => work["start"].pc = "idle"
      BY BaseTypes
<1>1. CASE SystemStop
      BY <1>1 DEF SystemStop, Stop, ShutdownLocked, Shutdown, vars
<1>2. CASE InstallHook
      BY <1>0, <1>2 DEF InstallHook, vars
<1>3. CASE SystemStartBuild
  <2>1. running' = running /\ ~running /\ work'["start"].pc # "merge"
        BY <1>0, <1>3 DEF SystemStartBuild, StartBuild, Goto
  <2>2. QED BY <2>1
<1>4. CASE (StartParse \/ StartApply) /\ UNCHANGED systemVars
  <2>1. running' = running /\ ~running /\ work'["start"].pc # "merge"
        BY <1>0, <1>4 DEF StartParse, StartApply, Goto
  <2>2. QED BY <2>1
<1>5. CASE SystemStartEnd
      BY <1>0, <1>5 DEF SystemStartEnd, StartEnd, Goto
<1>6. CASE AskProxy \/ Dial
      BY <1>6 DEF AskProxy, Dial, vars
<1>7. ASSUME NEW c \in Config, SystemStartBegin(c) PROVE Routed'
      BY <1>0, <1>7 DEF SystemStartBegin, StartBegin, ShutdownLocked
<1>8. ASSUME NEW c \in Config, SystemReload(c) PROVE Routed'
      BY <1>0, <1>8 DEF SystemReload, Reload
<1>9. ASSUME NEW a \in Actor, SystemSyncRead(a) PROVE Routed'
      BY <1>0, <1>9 DEF SystemSyncRead, SyncRead
<1>10. ASSUME NEW a \in Actor, SystemSyncCommit(a) PROVE Routed'
  <2>1. hook # "unset" /\ work[a].conf = applied
        BY <1>10, HookApplies DEF SystemSyncCommit, SyncCommit, InHook, HookFirst
  <2>2. /\ proxy' = IF hook = "installed" THEN Proxy[applied] ELSE NoProxy
        /\ hook' = hook /\ applied' = applied
        BY <1>10, <2>1 DEF SystemSyncCommit, SyncCommit, SetProxy, HookFirst
  <2>3. QED BY <2>2
<1>11. ASSUME NEW given \in BOOLEAN, SetSocketProtector(given) PROVE Routed'
      BY <1>11 DEF SetSocketProtector, vars
<1>12. ASSUME NEW n \in Notifier,
              (Refresh(n) \/ \E s \in ServersOrNone : SetNetworkInfo(n, s)) /\ UNCHANGED systemVars
       PROVE  Routed'
      BY <1>12 DEF Refresh, SetNetworkInfo, systemVars
<1>13. CASE UNCHANGED allVars
      BY <1>13 DEF allVars, vars, systemVars
<1>14. QED
  BY <1>1, <1>2, <1>3, <1>4, <1>5, <1>6, <1>7, <1>8, <1>9, <1>10, <1>11, <1>12, <1>13
     DEF SystemNext

\* Sockets go around the VPN exactly with a protector and a proxy, with or without a
\* core, and a running core's proxy is that of the applied configuration.
THEOREM RoutesAreApplied == SystemSpec => []RoutesFollowExecutor
<1>1. Routes /\ Routed => RoutesFollowExecutor
      BY DEF Routes, Routed, RoutesFollowExecutor
<1>2. QED
  BY <1>1, BaseInit, BaseStep, HookFirstInit, HookFirstStep, RoutesInit, RoutesStep,
     RoutedInit, RoutedStep, PTL
     DEF SystemSpec

----------------------------------------------------------------------------
(* The health monitor.                                                     *)

\* The monitor has a run while the core runs, and was given the providers of the
\* applied configuration early in its hook, before the core runs.
Watched ==
  /\ watching <=> running
  /\ ((running \/ At("start", "commit") \/ At("start", "merge")) /\ ~At("reload", "read")) =>
       monitored = applied

LEMMA WatchedInit == SystemInit => Watched
BY DEF SystemInit, Init, Watched, At, Actor

LEMMA WatchedStep == Base /\ Watched /\ [SystemNext]_allVars => Watched'
<1> SUFFICES ASSUME Base, Watched, [SystemNext]_allVars PROVE Watched'
    OBVIOUS
<1> USE DEF Watched, At, MuFree, monitorVars, StopMonitor
<1>0. /\ Actor = {"start", "reload"}
      /\ work \in [Actor -> [pc : Phase["start"], conf : Config \cup {NoConfig},
                             built : ServersOrNone, read : ServersOrNone]]
      /\ running => work["start"].pc = "idle"
      BY BaseTypes
<1>1. CASE SystemStop
      BY <1>1 DEF SystemStop, Stop, ShutdownLocked, Shutdown, vars
<1>2. CASE InstallHook \/ AskProxy \/ Dial
      BY <1>2 DEF InstallHook, AskProxy, Dial, vars
<1>3. CASE SystemStartBuild
      BY <1>0, <1>3 DEF SystemStartBuild, StartBuild, Goto
<1>4. CASE (StartParse \/ StartApply) /\ UNCHANGED systemVars
      BY <1>0, <1>4 DEF StartParse, StartApply, Goto, systemVars
<1>5. CASE SystemStartEnd
      BY <1>0, <1>5 DEF SystemStartEnd, StartEnd, Goto
<1>6. ASSUME NEW c \in Config, SystemStartBegin(c) PROVE Watched'
      BY <1>0, <1>6 DEF SystemStartBegin, StartBegin, ShutdownLocked
<1>7. ASSUME NEW c \in Config, SystemReload(c) PROVE Watched'
      BY <1>0, <1>7 DEF SystemReload, Reload
<1>8. ASSUME NEW a \in Actor, SystemSyncRead(a) PROVE Watched'
  <2>1. work[a].conf = applied
        BY <1>8, HookApplies DEF SystemSyncRead, SyncRead, InHook
  <2>2. monitored' = applied /\ applied' = applied /\ watching' = watching /\ running' = running
        BY <1>8, <2>1 DEF SystemSyncRead, SyncRead
  <2>3. QED BY <2>2
<1>9. ASSUME NEW a \in Actor, SystemSyncCommit(a) PROVE Watched'
      BY <1>0, <1>9 DEF SystemSyncCommit, SyncCommit, Goto, AfterSync
<1>10. ASSUME NEW given \in BOOLEAN, SetSocketProtector(given) PROVE Watched'
      BY <1>10 DEF SetSocketProtector, vars
<1>11. ASSUME NEW n \in Notifier,
              (Refresh(n) \/ \E s \in ServersOrNone : SetNetworkInfo(n, s)) /\ UNCHANGED systemVars
       PROVE  Watched'
      BY <1>11 DEF Refresh, SetNetworkInfo, systemVars
<1>12. CASE UNCHANGED allVars
      BY <1>12 DEF allVars, vars, systemVars
<1>13. QED
  BY <1>1, <1>2, <1>3, <1>4, <1>5, <1>6, <1>7, <1>8, <1>9, <1>10, <1>11, <1>12 DEF SystemNext

\* No monitor outlives its core, and none checks another configuration's providers.
THEOREM MonitorIsOfCore == SystemSpec => []MonitorFollowsCore
<1>1. Base /\ Watched => MonitorFollowsCore
      BY BaseTypes DEF Watched, MonitorFollowsCore, ExecutorFree
<1>2. QED BY <1>1, BaseInit, BaseStep, WatchedInit, WatchedStep, PTL DEF SystemSpec

----------------------------------------------------------------------------
(* The IPv6 flag.                                                          *)

\* Without a reload a start has applied its own configuration; the flag is the
\* applied configuration's, or after a race the start's.
Flagged ==
  /\ ((InHook("start") \/ At("start", "merge")) /\ ~raced) => applied = work["start"].conf
  /\ (running /\ ExecutorFree) => ipv6 = applied \/ (raced /\ ipv6 = work["start"].conf)

LEMMA FlaggedInit == SystemInit => Flagged
BY DEF SystemInit, Init, Flagged, InHook, At, Actor

LEMMA FlaggedStep == Base /\ Flagged /\ [SystemNext]_allVars => Flagged'
<1> SUFFICES ASSUME Base, Flagged, [SystemNext]_allVars PROVE Flagged'
    OBVIOUS
<1> USE DEF Flagged, InHook, ExecutorFree, At, MuFree
<1>0. /\ Actor = {"start", "reload"}
      /\ work \in [Actor -> [pc : Phase["start"], conf : Config \cup {NoConfig},
                             built : ServersOrNone, read : ServersOrNone]]
      /\ running => work["start"].pc = "idle"
      BY BaseTypes
<1>1. CASE SystemStop
      BY <1>1 DEF SystemStop, Stop, ShutdownLocked, Shutdown, vars
<1>2. CASE InstallHook \/ AskProxy \/ Dial
      BY <1>2 DEF InstallHook, AskProxy, Dial, vars
<1>3. CASE SystemStartBuild
      BY <1>0, <1>3 DEF SystemStartBuild, StartBuild, Goto
<1>4. CASE (StartParse \/ StartApply) /\ UNCHANGED systemVars
      BY <1>0, <1>4 DEF StartParse, StartApply, Goto, systemVars
<1>5. CASE SystemStartEnd
      BY <1>0, <1>5 DEF SystemStartEnd, StartEnd, Goto
<1>6. ASSUME NEW c \in Config, SystemStartBegin(c) PROVE Flagged'
      BY <1>0, <1>6 DEF SystemStartBegin, StartBegin, ShutdownLocked
<1>7. ASSUME NEW c \in Config, SystemReload(c) PROVE Flagged'
      BY <1>0, <1>7 DEF SystemReload, Reload
<1>8. ASSUME NEW a \in Actor, SystemSyncRead(a) PROVE Flagged'
      BY <1>0, <1>8 DEF SystemSyncRead, SyncRead
<1>9. ASSUME NEW a \in Actor, SystemSyncCommit(a) PROVE Flagged'
  <2>1. work[a].conf = applied
        BY <1>9, HookApplies DEF SystemSyncCommit, SyncCommit
  <2>2. ipv6' = applied /\ applied' = applied /\ raced' = raced
        BY <1>9, <2>1 DEF SystemSyncCommit, SyncCommit
  <2>3. work'["start"].conf = work["start"].conf
        BY <1>0, <1>9 DEF SystemSyncCommit, SyncCommit, Goto
  <2>4. (InHook("start") \/ At("start", "merge"))' => (InHook("start") \/ At("start", "merge"))
        BY <1>0, <1>9 DEF SystemSyncCommit, SyncCommit, Goto
  <2>5. QED BY <2>2, <2>3, <2>4
<1>10. ASSUME NEW given \in BOOLEAN, SetSocketProtector(given) PROVE Flagged'
      BY <1>10 DEF SetSocketProtector, vars
<1>11. ASSUME NEW n \in Notifier,
              (Refresh(n) \/ \E s \in ServersOrNone : SetNetworkInfo(n, s)) /\ UNCHANGED systemVars
       PROVE  Flagged'
      BY <1>11 DEF Refresh, SetNetworkInfo, systemVars
<1>12. CASE UNCHANGED allVars
      BY <1>12 DEF allVars, vars, systemVars
<1>13. QED
  BY <1>1, <1>2, <1>3, <1>4, <1>5, <1>6, <1>7, <1>8, <1>9, <1>10, <1>11, <1>12 DEF SystemNext

\* A running core refreshes its resolver with the IPv6 flag of the applied
\* configuration, or of the start a reload raced with.
THEOREM IPv6IsApplied == SystemSpec => []IPv6FollowsExecutor
<1>1. Flagged => IPv6FollowsExecutor
      BY DEF Flagged, IPv6FollowsExecutor
<1>2. QED BY <1>1, BaseInit, BaseStep, FlaggedInit, FlaggedStep, PTL DEF SystemSpec
=============================================================================
