------------------------- MODULE CoreRuntimeProofs -------------------------
(* Safety of CoreRuntime for every set of configurations, hosts, servers   *)
(* and notifying threads, and for every bound.  As in the code, what each  *)
(* lock protects is proved first (Locks); the descriptors, the cached      *)
(* configuration, its tracked hosts and the live resolver rest on it.      *)
EXTENDS CoreRuntime, TLAPS

\* Start or a reload that is under way has a configuration, and nothing was
\* injected into the configuration of a reload.
Busy == \A a \in Actor : ~At(a, "idle") => work[a].conf \in Config

Typing == TypeOK /\ Busy

\* A configuration with servers injected is a DNS configuration.
LEMMA InjectIsDNS ==
  ASSUME NEW c \in Config \cup {NoConfig}, NEW s \in ServersOrNone
  PROVE  Inject(c, s) \in DNS
BY DEF Inject, DNS, Policy, ServersOrNone

LEMMA NoDNSIsDNS == NoDNS \in DNS
BY DEF NoDNS, DNS, Policy, ServersOrNone

\* Replacing policies keeps the configuration, and the policies of other hosts.
LEMMA ReplaceIsDNS ==
  ASSUME NEW dns \in DNS, NEW tracked, NEW s \in ServersOrNone
  PROVE  /\ Replace(dns, tracked, s) \in DNS
         /\ Replace(dns, tracked, s).conf = dns.conf
         /\ \A h \in Host : Replace(dns, tracked, s).policy[h] =
                              IF h \in tracked THEN s ELSE dns.policy[h]
BY DEF Replace, DNS, Policy, ServersOrNone

\* Goto moves one actor and keeps what it works on.
LEMMA GotoMoves ==
  ASSUME TypeOK, NEW a \in Actor, NEW p \in Phase[a], Goto(a, p)
  PROVE  /\ work' \in [Actor -> [pc : Phase["start"], conf : Config \cup {NoConfig},
                                 built : ServersOrNone, read : ServersOrNone]]
         /\ work'[a].pc = p
         /\ work'[a].conf = work[a].conf
         /\ work'[a].built = work[a].built
         /\ work'[a].read = work[a].read
         /\ \A b \in Actor \ {a} : work'[b] = work[b]
         /\ \A b \in Actor : work'[b].pc \in Phase[b]
BY DEF TypeOK, Goto, Actor, Phase

LEMMA TypingInit == Init => Typing
<1> SUFFICES ASSUME Init PROVE Typing
    OBVIOUS
<1> USE CoreAssumption DEF Init
<1>1. cache \in DNS /\ live \in DNS
      BY NoDNSIsDNS
<1>2. work \in [Actor -> [pc : Phase["start"], conf : Config \cup {NoConfig},
                          built : ServersOrNone, read : ServersOrNone]]
      BY DEF Phase, ServersOrNone
<1>3. \A a \in Actor : work[a].pc \in Phase[a]
      BY DEF Phase, Actor
<1>4. fd \in [1 .. MaxStart -> FdState]
      BY DEF FdState
<1>5. /\ servers \in ServersOrNone
      /\ starts \in 0 .. MaxStart /\ changes \in 0 .. MaxChange /\ reloads \in 0 .. MaxReload
      BY DEF ServersOrNone
<1>6. TypeOK
      BY <1>1, <1>2, <1>3, <1>4, <1>5 DEF TypeOK
<1>7. Busy
      BY DEF Busy, At
<1>8. QED BY <1>6, <1>7 DEF Typing

\* Every step keeps the types.
LEMMA TypingStep == Typing /\ [Next]_vars => Typing'
<1> SUFFICES ASSUME Typing, [Next]_vars PROVE Typing'
    OBVIOUS
<1> USE CoreAssumption DEF Typing
<1> DEFINE Work == [pc : Phase["start"], conf : Config \cup {NoConfig},
                    built : ServersOrNone, read : ServersOrNone]
<1>0. ClosedListener \in [1 .. MaxStart -> FdState]
      BY DEF TypeOK, ClosedListener, FdState
<1>1. CASE Stop
  <2>1. cache' \in DNS /\ hosts' \subseteq Host
        BY <1>1, NoDNSIsDNS DEF Stop, ShutdownLocked, ClearRuntimeConfigState, TypeOK
  <2>2. QED BY <1>0, <1>1, <2>1 DEF Stop, ShutdownLocked, TypeOK, Busy, At, boundVars
<1>2. ASSUME NEW c \in Config, StartBegin(c) PROVE Typing'
  <2>1. cache' \in DNS /\ hosts' \subseteq Host
        BY <1>2, NoDNSIsDNS DEF StartBegin, ShutdownLocked, ClearRuntimeConfigState, TypeOK
  <2>2. fd' \in [1 .. MaxStart -> FdState] /\ starts' \in 0 .. MaxStart
        BY <1>0, <1>2 DEF StartBegin, TypeOK, FdState
  <2>3. /\ work' = [work EXCEPT !["start"].pc = "build", !["start"].conf = c]
        /\ "build" \in Phase["start"]
        BY <1>2 DEF StartBegin, Phase
  <2>4. work' \in [Actor -> Work]
    <3> DEFINE begun == [work["start"] EXCEPT !.pc = "build", !.conf = c]
    <3>1. work \in [Actor -> Work] /\ "start" \in Actor
          BY DEF TypeOK, Actor
    <3>2. begun \in Work
          BY <2>3, <3>1
    <3>3. work' = [work EXCEPT !["start"] = begun]
          BY <2>3, <3>1
    <3>4. QED
          <4> HIDE DEF Work, begun
          <4>1. QED BY <3>1, <3>2, <3>3
  <2>5. work'["start"].pc = "build" /\ work'["start"].conf = c /\ work'["reload"] = work["reload"]
        BY <2>3 DEF TypeOK, Actor
  <2>6. (\A a \in Actor : work'[a].pc \in Phase[a]) /\ Busy'
        BY <2>3, <2>5 DEF TypeOK, Actor, Busy, At
  <2>7. QED BY <1>2, <2>1, <2>2, <2>4, <2>6 DEF StartBegin, ShutdownLocked, TypeOK
<1>3. CASE StartBuild
  <2>1. fd' \in [1 .. MaxStart -> FdState]
        BY <1>3 DEF StartBuild, TypeOK, FdState
  <2>2. /\ work' \in [Actor -> Work]
        /\ \A a \in Actor : work'[a].pc \in Phase[a]
        /\ Busy'
        BY <1>3 DEF StartBuild, Goto, TypeOK, Phase, Actor, Busy, At
  <2>3. QED BY <1>3, <2>1, <2>2 DEF StartBuild, TypeOK, dnsVars, boundVars
<1>4. CASE StartParse
  <2>1. fd' \in [1 .. MaxStart -> FdState]
        BY <1>4 DEF StartParse, TypeOK, FdState
  <2>2. PICK p \in {"apply", "idle"} : Goto("start", p)
        BY <1>4 DEF StartParse
  <2>3. /\ work' \in [Actor -> Work]
        /\ \A a \in Actor : work'[a].pc \in Phase[a]
        BY <2>2, GotoMoves DEF Phase, Actor
  <2>4. Busy'
        BY <1>4, <2>2, GotoMoves DEF StartParse, Phase, Actor, Busy, At
  <2>5. QED BY <1>4, <2>1, <2>3, <2>4 DEF StartParse, TypeOK, dnsVars, boundVars
<1>5. CASE StartApply
  <2>1. fd' \in [1 .. MaxStart -> FdState]
        BY <1>5 DEF StartApply, TypeOK, FdState
  <2>2. /\ work' \in [Actor -> Work]
        /\ \A a \in Actor : work'[a].pc \in Phase[a]
        /\ Busy'
        BY <1>5 DEF StartApply, Goto, TypeOK, Phase, Actor, Busy, At
  <2>3. applied' \in Config \cup {NoConfig} /\ live' \in DNS
        BY <1>5, InjectIsDNS DEF StartApply, TypeOK, Actor
  <2>4. QED BY <1>5, <2>1, <2>2, <2>3 DEF StartApply, TypeOK, boundVars
<1>6. CASE StartEnd
  <2>1. /\ work' \in [Actor -> Work]
        /\ \A a \in Actor : work'[a].pc \in Phase[a]
        /\ Busy'
        BY <1>6 DEF StartEnd, Goto, TypeOK, Phase, Actor, Busy, At
  <2>2. work["start"].conf \in Config /\ work["start"].built \in ServersOrNone
        BY <1>6 DEF StartEnd, TypeOK, Busy, At, Actor
  <2>3. cache' \in DNS /\ hosts' \subseteq Host
        BY <1>6, <2>2, InjectIsDNS DEF StartEnd, MergeStartup, TypeOK
  <2>4. QED BY <1>6, <2>1, <2>3 DEF StartEnd, TypeOK, boundVars
<1>7. ASSUME NEW c \in Config, Reload(c) PROVE Typing'
  <2>1. /\ work' = [work EXCEPT !["reload"].pc = "read", !["reload"].conf = c]
        /\ "read" \in Phase["reload"] /\ "read" \in Phase["start"]
        BY <1>7 DEF Reload, Phase
  <2>2. work' \in [Actor -> Work]
        BY <2>1 DEF TypeOK, Actor
  <2>3. \A a \in Actor : work'[a].pc \in Phase[a]
        BY <2>1 DEF TypeOK, Actor
  <2>4. Busy'
        BY <2>1 DEF TypeOK, Actor, Busy, At
  <2>5. live' \in DNS
        BY <1>7, InjectIsDNS DEF Reload, ServersOrNone
  <2>6. QED BY <1>7, <2>2, <2>3, <2>4, <2>5 DEF Reload, TypeOK
<1>8. ASSUME NEW a \in Actor, SyncRead(a) PROVE Typing'
  <2>1. /\ work' \in [Actor -> Work]
        /\ \A b \in Actor : work'[b].pc \in Phase[b]
        /\ Busy'
        BY <1>8 DEF SyncRead, TypeOK, Phase, Actor, Busy, At
  <2>2. QED BY <1>8, <2>1 DEF SyncRead, TypeOK, dnsVars, boundVars
<1>9. ASSUME NEW a \in Actor, SyncCommit(a) PROVE Typing'
  <2>0. AfterSync[a] \in Phase[a] /\ Goto(a, AfterSync[a]) /\ ~At(a, "idle")
        BY <1>9 DEF SyncCommit, AfterSync, Phase, Actor, At
  <2>1. /\ work' \in [Actor -> Work]
        /\ \A b \in Actor : work'[b].pc \in Phase[b]
        /\ Busy'
    <3>1. /\ work' \in [Actor -> Work]
          /\ \A b \in Actor : work'[b].pc \in Phase[b]
          BY <2>0, GotoMoves
    <3>2. \A b \in Actor : work'[b].conf = work[b].conf /\ (b # a => work'[b] = work[b])
          BY <2>0, GotoMoves
    <3>3. Busy'
          BY <2>0, <3>2 DEF Busy, At
    <3>4. QED BY <3>1, <3>3
  <2>2. /\ work[a].conf \in Config
        /\ work[a].built \in ServersOrNone
        /\ work[a].read \in ServersOrNone
        BY <1>9 DEF SyncCommit, TypeOK, Busy, At
  <2>3. Inject(work[a].conf, work[a].built) \in DNS
        BY <2>2, InjectIsDNS
  <2>4. hosts' \subseteq Host
        BY <1>9, <2>2 DEF SyncCommit, Inject
  <2>5. cache' \in DNS /\ live' \in DNS
        BY <1>9, <2>2, <2>3, ReplaceIsDNS DEF SyncCommit, TypeOK
  <2>6. QED BY <1>9, <2>1, <2>4, <2>5 DEF SyncCommit, TypeOK, boundVars
<1>10. ASSUME NEW n \in Notifier, Refresh(n) PROVE Typing'
  <2>1. cache' \in DNS /\ live' \in DNS
        BY <1>10, ReplaceIsDNS DEF Refresh, RefreshPolicy, TypeOK
  <2>2. QED BY <1>10, <2>1 DEF Refresh, TypeOK, Busy, At, boundVars
<1>11. ASSUME NEW n \in Notifier, NEW s \in ServersOrNone, SetNetworkInfo(n, s) PROVE Typing'
  BY <1>11 DEF SetNetworkInfo, TypeOK, Busy, At
<1>12. CASE UNCHANGED vars
  BY <1>12 DEF vars, dnsVars, boundVars, TypeOK, Busy, At
<1>13. QED
  BY <1>1, <1>2, <1>3, <1>4, <1>5, <1>6, <1>7, <1>8, <1>9, <1>10, <1>11, <1>12
     DEF Next, StartStep

\* The state of the core keeps its shape whatever calls overlap.
THEOREM CoreTypeCorrect == Spec => []TypeOK
<1>1. Typing => TypeOK
      BY DEF Typing
<1>2. QED BY <1>1, TypingInit, TypingStep, PTL DEF Spec

----------------------------------------------------------------------------
\* The hook of a runs, under the executor's lock.
InHook(a) == At(a, "read") \/ At(a, "commit")

\* What mu and the executor's lock guarantee.
Locks ==
  /\ running => MuFree
  /\ work["reload"].built = NoServers
  /\ \A a \in Actor : InHook(a) => work[a].conf = applied
  /\ ~(InHook("start") /\ InHook("reload"))

LEMMA LocksInit == Init => Locks
BY DEF Init, Locks, InHook, At, MuFree, Actor

\* The steps of Start run under mu, and one hook runs at a time.
LEMMA LocksStep == Typing /\ Locks /\ [Next]_vars => Locks'
<1> SUFFICES ASSUME Typing, Locks, [Next]_vars PROVE Locks'
    OBVIOUS
<1> USE DEF Locks, InHook, At, MuFree
<1>0. TypeOK /\ "start" \in Actor /\ "reload" \in Actor /\ \A a \in Actor : a \in {"start", "reload"}
      BY DEF Typing, Actor
<1>1. CASE Stop
      BY <1>0, <1>1 DEF Stop, ShutdownLocked
<1>2. ASSUME NEW c \in Config, StartBegin(c) PROVE Locks'
      BY <1>0, <1>2 DEF StartBegin, ShutdownLocked, TypeOK
<1>3. CASE StartBuild
      BY <1>0, <1>3 DEF StartBuild, Goto, TypeOK, dnsVars
<1>4. CASE StartParse
      BY <1>0, <1>4 DEF StartParse, Goto, TypeOK, dnsVars
<1>5. CASE StartApply
      BY <1>0, <1>5 DEF StartApply, ExecutorFree, Goto, TypeOK
<1>6. CASE StartEnd
      BY <1>0, <1>6 DEF StartEnd, Goto, TypeOK
<1>7. ASSUME NEW c \in Config, Reload(c) PROVE Locks'
      BY <1>0, <1>7 DEF Reload, ExecutorFree, TypeOK
<1>8. ASSUME NEW a \in Actor, SyncRead(a) PROVE Locks'
      BY <1>0, <1>8 DEF SyncRead, TypeOK
<1>9. ASSUME NEW a \in Actor, SyncCommit(a) PROVE Locks'
      BY <1>0, <1>9 DEF SyncCommit, AfterSync, Goto, TypeOK
<1>10. ASSUME NEW n \in Notifier, Refresh(n) PROVE Locks'
      BY <1>0, <1>10 DEF Refresh
<1>11. ASSUME NEW n \in Notifier, NEW s \in ServersOrNone, SetNetworkInfo(n, s) PROVE Locks'
      BY <1>0, <1>11 DEF SetNetworkInfo
<1>12. CASE UNCHANGED vars
      BY <1>0, <1>12 DEF vars
<1>13. QED
  BY <1>1, <1>2, <1>3, <1>4, <1>5, <1>6, <1>7, <1>8, <1>9, <1>10, <1>11, <1>12
     DEF Next, StartStep

----------------------------------------------------------------------------
(* The TUN descriptors.                                                    *)

\* Where the descriptor of the start under way is.
FdOfStart ==
  CASE At("start", "build") \/ At("start", "parse") -> {"start"}
    [] At("start", "apply") -> {"core"}
    [] OTHER -> {"listener", "closed"}

Descriptors ==
  \A n \in 1 .. starts :
    fd[n] \in IF n = starts
              THEN IF MuFree THEN IF running THEN {"listener"} ELSE {"closed", "core"}
                             ELSE FdOfStart
              ELSE {"closed", "core"}

LEMMA DescriptorsInit == Init => Descriptors
BY DEF Init, Descriptors

\* Exactly one of the handover's parties has the descriptor of a start.
LEMMA DescriptorsStep == Typing /\ Locks /\ Descriptors /\ [Next]_vars => Descriptors'
<1> SUFFICES ASSUME Typing, Locks, Descriptors, [Next]_vars PROVE Descriptors'
    OBVIOUS
<1> USE CoreAssumption DEF Descriptors, FdOfStart, At, MuFree
<1>0. /\ TypeOK
      /\ "start" \in Actor /\ "reload" \in Actor
      /\ \A a \in Actor : a \in {"start", "reload"}
      /\ running => work["start"].pc = "idle"
      BY DEF Typing, Actor, Locks
<1>1. /\ fd \in [1 .. MaxStart -> FdState]
      /\ starts \in 0 .. MaxStart
      /\ 1 .. starts \subseteq 1 .. MaxStart
      BY <1>0 DEF TypeOK
<1>2. CASE Stop
  <2>1. \A n \in 1 .. starts : fd'[n] = IF fd[n] = "listener" THEN "closed" ELSE fd[n]
        BY <1>1, <1>2 DEF Stop, ClosedListener
  <2>2. /\ running /\ ~running' /\ starts' = starts /\ work' = work
        /\ work["start"].pc = "idle"
        BY <1>2 DEF Stop, ShutdownLocked, boundVars
  <2>3. QED BY <2>1, <2>2
<1>3. ASSUME NEW c \in Config, StartBegin(c) PROVE Descriptors'
  <2>1. work'["start"].pc = "build" /\ starts' = starts + 1 /\ starts' \in 1 .. MaxStart
        BY <1>0, <1>1, <1>3 DEF StartBegin, TypeOK
  <2>2. fd' = [ClosedListener EXCEPT ![starts + 1] = "start"]
        BY <1>3 DEF StartBegin
  <2>3. fd'[starts'] = "start"
        BY <1>1, <2>1, <2>2 DEF ClosedListener
  <2>4. ASSUME NEW n \in 1 .. starts PROVE fd'[n] \in {"closed", "core"}
    <3>1. fd[n] \in {"listener", "closed", "core"}
          BY <1>0, <1>3 DEF StartBegin
    <3>2. fd'[n] = IF fd[n] = "listener" THEN "closed" ELSE fd[n]
          BY <1>1, <2>1, <2>2 DEF ClosedListener
    <3>3. QED BY <3>1, <3>2
  <2>5. QED BY <1>1, <2>1, <2>3, <2>4
<1>4. CASE StartBuild
      BY <1>0, <1>1, <1>4 DEF StartBuild, Goto, TypeOK, boundVars
<1>5. CASE StartParse
      BY <1>0, <1>1, <1>5 DEF StartParse, Goto, TypeOK, boundVars
<1>6. CASE StartApply
      BY <1>0, <1>1, <1>6 DEF StartApply, Goto, TypeOK, boundVars
<1>7. CASE StartEnd
  <2>1. /\ fd' = fd /\ starts' = starts
        /\ work["start"].pc = "merge" /\ work'["start"].pc = "idle"
        BY <1>0, <1>7 DEF StartEnd, Goto, TypeOK, boundVars
  <2>2. IF running' THEN fd[starts] = "listener" ELSE fd[starts] # "listener"
        BY <1>0, <1>7 DEF StartEnd
  <2>3. QED BY <1>1, <2>1, <2>2
<1>8. ASSUME NEW c \in Config, Reload(c) PROVE Descriptors'
      BY <1>0, <1>8 DEF Reload, TypeOK
<1>9. ASSUME NEW a \in Actor, SyncRead(a) PROVE Descriptors'
      BY <1>0, <1>9 DEF SyncRead, TypeOK, boundVars
<1>10. ASSUME NEW a \in Actor, SyncCommit(a) PROVE Descriptors'
      BY <1>0, <1>10 DEF SyncCommit, AfterSync, Goto, TypeOK, boundVars
<1>11. ASSUME NEW n \in Notifier, Refresh(n) PROVE Descriptors'
      BY <1>11 DEF Refresh, boundVars
<1>12. ASSUME NEW n \in Notifier, NEW s \in ServersOrNone, SetNetworkInfo(n, s)
       PROVE  Descriptors'
      BY <1>12 DEF SetNetworkInfo
<1>13. CASE UNCHANGED vars
      BY <1>13 DEF vars, boundVars
<1>14. QED
  BY <1>2, <1>3, <1>4, <1>5, <1>6, <1>7, <1>8, <1>9, <1>10, <1>11, <1>12, <1>13
     DEF Next, StartStep

\* Start keeps no descriptor and leaves no listener behind.
THEOREM NoListenerIsLeft == Spec => []NoListenerLeft
<1>1. Typing /\ Descriptors => NoListenerLeft
      BY DEF Descriptors, NoListenerLeft
<1>2. QED
  BY <1>1, TypingInit, TypingStep, LocksInit, LocksStep, DescriptorsInit, DescriptorsStep,
     PTL DEF Spec

----------------------------------------------------------------------------
(* The cached configuration and the hosts it tracks.                       *)

\* Once the hook of a start ran there is a cached configuration, the applied one
\* unless a reload is about to cache its own.
Cached ==
  (running \/ At("start", "merge")) =>
    /\ cache.conf \in Config
    /\ ExecutorFree => cache.conf = applied

LEMMA CachedInit == Init => Cached
BY DEF Init, Cached, At, Actor

\* The hook caches what was applied; clearing the cache ends a run of the core.
LEMMA CachedStep == Typing /\ Locks /\ Cached /\ [Next]_vars => Cached'
<1> SUFFICES ASSUME Typing, Locks, Cached, [Next]_vars PROVE Cached'
    OBVIOUS
<1> USE CoreAssumption DEF Cached, ExecutorFree, At, MuFree
<1>0. /\ TypeOK /\ Actor = {"start", "reload"}
      /\ running => work["start"].pc = "idle"
      /\ cache \in DNS
      BY DEF Typing, TypeOK, Actor, Locks
<1>1. CASE Stop
      BY <1>1 DEF Stop, ShutdownLocked
<1>2. ASSUME NEW c \in Config, StartBegin(c) PROVE Cached'
      BY <1>0, <1>2 DEF StartBegin, ShutdownLocked, TypeOK
<1>3. CASE StartBuild
      BY <1>0, <1>3 DEF StartBuild, Goto, TypeOK, dnsVars
<1>4. CASE StartParse
      BY <1>0, <1>4 DEF StartParse, Goto, TypeOK, dnsVars
<1>5. CASE StartApply
      BY <1>0, <1>5 DEF StartApply, Goto, TypeOK
<1>6. CASE StartEnd
  <2>1. cache.conf \in Config /\ cache # NoDNS
        BY <1>6 DEF StartEnd, NoDNS
  <2>2. cache' = cache /\ applied' = applied /\ work'["reload"] = work["reload"]
        BY <1>0, <1>6, <2>1 DEF StartEnd, MergeStartup, Goto, TypeOK
  <2>3. QED BY <1>0, <1>6, <2>1, <2>2 DEF StartEnd, Goto, TypeOK
<1>7. ASSUME NEW c \in Config, Reload(c) PROVE Cached'
      BY <1>0, <1>7 DEF Reload, TypeOK
<1>8. ASSUME NEW a \in Actor, SyncRead(a) PROVE Cached'
      BY <1>0, <1>8 DEF SyncRead, TypeOK, dnsVars
<1>9. ASSUME NEW a \in Actor, SyncCommit(a) PROVE Cached'
  <2>1. /\ work[a].conf \in Config
        /\ work[a].conf = applied
        /\ work[a].built \in ServersOrNone
        /\ work[a].read \in ServersOrNone
        BY <1>0, <1>9 DEF SyncCommit, TypeOK, Typing, Busy, Locks, InHook
  <2>2. Inject(work[a].conf, work[a].built) \in DNS
        BY <2>1, InjectIsDNS
  <2>3. cache'.conf = Inject(work[a].conf, work[a].built).conf
        BY <1>9, <2>1, <2>2, ReplaceIsDNS DEF SyncCommit
  <2>4. cache'.conf = applied /\ applied' = applied
        BY <1>9, <2>1, <2>3 DEF SyncCommit, Inject
  <2>5. QED BY <2>1, <2>4
<1>10. ASSUME NEW n \in Notifier, Refresh(n) PROVE Cached'
  <2>1. cache'.conf = cache.conf
        BY <1>0, <1>10, ReplaceIsDNS DEF Refresh, RefreshPolicy, TypeOK
  <2>2. QED BY <1>0, <1>10, <2>1 DEF Refresh
<1>11. ASSUME NEW n \in Notifier, NEW s \in ServersOrNone, SetNetworkInfo(n, s) PROVE Cached'
      BY <1>11 DEF SetNetworkInfo
<1>12. CASE UNCHANGED vars
      BY <1>12 DEF vars, dnsVars
<1>13. QED
  BY <1>1, <1>2, <1>3, <1>4, <1>5, <1>6, <1>7, <1>8, <1>9, <1>10, <1>11, <1>12
     DEF Next, StartStep

\* A running core's cached configuration is the applied one.
THEOREM CacheIsApplied == Spec => []CacheFollowsExecutor
<1>1. Cached => CacheFollowsExecutor
      BY DEF Cached, CacheFollowsExecutor, ExecutorFree, At
<1>2. QED
  BY <1>1, TypingInit, TypingStep, LocksInit, LocksStep, CachedInit, CachedStep, PTL DEF Spec

\* What the hook of a start did not track is merged at the end of the start.
ToTrack == hosts \cup IF At("start", "merge") THEN Control[work["start"].conf] ELSE {}

Tracked ==
  (running \/ At("start", "merge")) =>
    \A h \in Host : cache.policy[h] # NoServers => h \in ToTrack

LEMMA TrackedInit == Init => Tracked
BY DEF Init, Tracked, At, Actor

\* The hook tracks what it injects; what a start injected is merged at its end.
LEMMA TrackedStep == Typing /\ Locks /\ Cached /\ Tracked /\ [Next]_vars => Tracked'
<1> SUFFICES ASSUME Typing, Locks, Cached, Tracked, [Next]_vars PROVE Tracked'
    OBVIOUS
<1> USE CoreAssumption DEF Tracked, ToTrack, At, MuFree
<1>0. /\ TypeOK /\ Actor = {"start", "reload"}
      /\ running => work["start"].pc = "idle"
      /\ cache \in DNS
      BY DEF Typing, TypeOK, Actor, Locks
<1>1. CASE Stop
      BY <1>1 DEF Stop, ShutdownLocked
<1>2. ASSUME NEW c \in Config, StartBegin(c) PROVE Tracked'
      BY <1>0, <1>2 DEF StartBegin, ShutdownLocked, TypeOK
<1>3. CASE StartBuild
      BY <1>0, <1>3 DEF StartBuild, Goto, TypeOK, dnsVars
<1>4. CASE StartParse
      BY <1>0, <1>4 DEF StartParse, Goto, TypeOK, dnsVars
<1>5. CASE StartApply
      BY <1>0, <1>5 DEF StartApply, Goto, TypeOK
<1>6. CASE StartEnd
  <2>1. cache # NoDNS
        BY <1>6 DEF StartEnd, NoDNS, Cached
  <2>2. work'["start"].pc = "idle"
        BY <1>0, <1>6 DEF StartEnd, Goto, TypeOK
  <2>3. running' => cache' = cache /\ hosts' = hosts \cup Control[work["start"].conf]
        BY <1>0, <1>6, <2>1 DEF StartEnd, MergeStartup
  <2>4. QED BY <1>6, <2>2, <2>3 DEF StartEnd
<1>7. ASSUME NEW c \in Config, Reload(c) PROVE Tracked'
      BY <1>0, <1>7 DEF Reload, TypeOK
<1>8. ASSUME NEW a \in Actor, SyncRead(a) PROVE Tracked'
      BY <1>0, <1>8 DEF SyncRead, TypeOK, dnsVars
<1>9. ASSUME NEW a \in Actor, SyncCommit(a) PROVE Tracked'
  <2> DEFINE c       == work[a].conf
             dns     == Inject(c, work[a].built)
             tracked == {h \in Control[dns.conf] : dns.policy[h] = NoServers}
  <2>1. /\ c \in Config
        /\ work[a].built \in ServersOrNone
        /\ work[a].read \in ServersOrNone
        /\ a = "reload" => work[a].built = NoServers
        BY <1>0, <1>9 DEF SyncCommit, TypeOK, Typing, Busy, Locks
  <2>2. dns \in DNS
        BY <2>1, InjectIsDNS
  <2>3. \A h \in Host : dns.policy[h] = IF h \in Control[c] THEN work[a].built ELSE NoServers
        BY DEF Inject
  <2>4. \A h \in Host : cache'.policy[h] # NoServers => h \in tracked \/ dns.policy[h] # NoServers
    <3> DEFINE given == Replace(dns, tracked, work[a].read)
    <3>1. \A h \in Host : given.policy[h] = IF h \in tracked THEN work[a].read ELSE dns.policy[h]
          <4> HIDE DEF dns, tracked
          <4>1. QED BY <2>1, <2>2, ReplaceIsDNS
    <3>2. cache' = given \/ cache' = dns
          BY <1>9 DEF SyncCommit
    <3>3. QED
          <4> HIDE DEF dns, tracked, given
          <4>1. CASE cache' = given
                BY <3>1, <4>1
          <4>2. CASE cache' = dns
                BY <4>2
          <4>3. QED BY <3>2, <4>1, <4>2
  <2>5. hosts' = tracked
        BY <1>9 DEF SyncCommit
  <2>6. CASE a = "reload"
    <3>1. \A h \in Host : cache'.policy[h] # NoServers => h \in hosts'
          BY <2>1, <2>3, <2>4, <2>5, <2>6
    <3>2. QED BY <3>1
  <2>7. CASE a = "start"
    <3>1. work'["start"].pc = "merge" /\ work'["start"].conf = c
          BY <1>0, <1>9, <2>7 DEF SyncCommit, AfterSync, Goto, TypeOK
    <3>2. \A h \in Host : cache'.policy[h] # NoServers => h \in hosts' \cup Control[c]
          BY <2>3, <2>4, <2>5
    <3>3. QED BY <3>1, <3>2
  <2>8. QED BY <1>0, <2>6, <2>7
<1>10. ASSUME NEW n \in Notifier, Refresh(n) PROVE Tracked'
  <2>1. \A h \in Host : cache'.policy[h] = cache.policy[h] \/ h \in hosts
        BY <1>0, <1>10, ReplaceIsDNS DEF Refresh, RefreshPolicy, TypeOK
  <2>2. QED BY <1>0, <1>10, <2>1 DEF Refresh
<1>11. ASSUME NEW n \in Notifier, NEW s \in ServersOrNone, SetNetworkInfo(n, s) PROVE Tracked'
      BY <1>11 DEF SetNetworkInfo
<1>12. CASE UNCHANGED vars
      BY <1>12 DEF vars, dnsVars
<1>13. QED
  BY <1>1, <1>2, <1>3, <1>4, <1>5, <1>6, <1>7, <1>8, <1>9, <1>10, <1>11, <1>12
     DEF Next, StartStep

\* No policy that was injected escapes the next refresh.
THEOREM InjectedPolicyIsTracked == Spec => []InjectedIsTracked
<1>1. Tracked => InjectedIsTracked
      BY DEF Tracked, ToTrack, InjectedIsTracked, MuFree, At
<1>2. QED
  BY <1>1, TypingInit, TypingStep, LocksInit, LocksStep, CachedInit, CachedStep,
     TrackedInit, TrackedStep, PTL DEF Spec

----------------------------------------------------------------------------
(* The live resolver.                                                      *)

\* A refresh is due.
Pending == \E n \in Notifier : notifying[n]

\* The servers s are the present ones, or a refresh will follow.
UpToDate(s) == s = servers \/ Pending

\* Without a reload: along a start the servers it has read are up to date, and
\* so are those of the resolver and the cache from then on.
Fresh ==
  reloads = 0 =>
    /\ At("reload", "idle")
    /\ ~At("start", "idle") /\ ~At("start", "build") => UpToDate(work["start"].built)
    /\ InHook("start") => live = Inject(applied, work["start"].built)
    /\ At("start", "commit") => UpToDate(work["start"].read)
    /\ running \/ At("start", "merge") =>
         /\ live = cache
         /\ \E s \in ServersOrNone : cache = Inject(applied, s) /\ UpToDate(s)
    /\ At("start", "merge") => work["start"].conf = applied /\ hosts \subseteq Control[applied]
    /\ running => hosts = Control[applied]

LEMMA FreshInit == Init => Fresh
BY DEF Init, Fresh, InHook, At, Actor, Pending, UpToDate

\* A configuration without control hosts is the same with any servers.
LEMMA NothingToInject ==
  ASSUME NEW c, Control[c] = {}, NEW s, NEW t
  PROVE  Inject(c, s) = Inject(c, t)
BY DEF Inject

LEMMA PolicyReplaced ==
  ASSUME NEW c, NEW p, NEW q
  PROVE  [[conf |-> c, policy |-> p] EXCEPT !.policy = q] = [conf |-> c, policy |-> q]
OBVIOUS

\* Replacing the policies of the control hosts is injecting other servers.
LEMMA ReplaceInjected ==
  ASSUME NEW c, NEW s, NEW t
  PROVE  Replace(Inject(c, s), Control[c], t) = Inject(c, t)
<1> DEFINE before == Inject(c, s)
           after  == [h \in Host |-> IF h \in Control[c] THEN t ELSE NoServers]
<1>1. before.policy = [h \in Host |-> IF h \in Control[c] THEN s ELSE NoServers]
      BY DEF Inject
<1>2. [h \in Host |-> IF h \in Control[c] THEN t ELSE before.policy[h]] = after
      BY <1>1
<1>3. Replace(before, Control[c], t) = [before EXCEPT !.policy = after]
      BY <1>2 DEF Replace
<1>4. [before EXCEPT !.policy = after] = [conf |-> c, policy |-> after]
  <2> HIDE DEF after
  <2>1. QED BY PolicyReplaced DEF Inject
<1>5. QED BY <1>3, <1>4 DEF Inject

\* Servers that are up to date stay so until a refresh: whoever changes them has
\* a refresh to make.
LEMMA StaysUpToDate ==
  ASSUME Typing, NEW s, UpToDate(s),
         \/ servers' = servers /\ notifying' = notifying
         \/ \E n \in Notifier, t \in ServersOrNone : SetNetworkInfo(n, t)
  PROVE  UpToDate(s)'
<1>1. CASE servers' = servers /\ notifying' = notifying
      BY <1>1 DEF UpToDate, Pending
<1>2. ASSUME NEW n \in Notifier, NEW t \in ServersOrNone, SetNetworkInfo(n, t)
      PROVE  UpToDate(s)'
  <2>1. notifying' = [notifying EXCEPT ![n] = (t # servers)] /\ servers' = t /\ ~notifying[n]
        BY <1>2 DEF SetNetworkInfo
  <2>2. CASE t # servers
        BY <2>1, <2>2 DEF UpToDate, Pending, Typing, TypeOK
  <2>3. CASE t = servers
    <3>1. \A m \in Notifier : notifying[m] => notifying'[m]
          BY <2>1 DEF Typing, TypeOK
    <3>2. QED BY <2>1, <2>3, <3>1 DEF UpToDate, Pending
  <2>4. QED BY <2>2, <2>3
<1>3. QED BY <1>1, <1>2

\* What Fresh says of a hook's commit: the servers injected are those the start
\* was built with, or those the hook has just read.
LEMMA CommitInjects ==
  ASSUME Typing, NEW a \in Actor, SyncCommit(a),
         live = Inject(work[a].conf, work[a].built)
  PROVE  /\ live' = cache'
         /\ hosts' \subseteq Control[work[a].conf]
         /\ \E s \in {work[a].built, work[a].read} : cache' = Inject(work[a].conf, s)
<1> DEFINE c       == work[a].conf
           built   == work[a].built
           dns     == Inject(c, built)
           tracked == {h \in Control[dns.conf] : dns.policy[h] = NoServers}
<1>1. c \in Config /\ Control[c] \subseteq Host
      BY CoreAssumption DEF SyncCommit, Typing, TypeOK, Busy, At
<1>2. /\ dns.conf = c
      /\ \A h \in Control[c] : dns.policy[h] = built
      BY <1>1 DEF Inject
<1>3. tracked \subseteq Control[c] /\ hosts' = tracked
      BY <1>2 DEF SyncCommit
<1>4. CASE tracked # {} /\ work[a].read # NoServers
  <2>1. tracked = Control[c]
        BY <1>2, <1>4
  <2>2. cache' = Replace(dns, tracked, work[a].read) /\ live' = cache'
        BY <1>4 DEF SyncCommit
  <2>3. cache' = Inject(c, work[a].read)
        BY <2>1, <2>2, ReplaceInjected
  <2>4. QED BY <1>3, <2>2, <2>3
<1>5. CASE ~(tracked # {} /\ work[a].read # NoServers)
  <2>1. cache' = dns /\ live' = live
        BY <1>5 DEF SyncCommit
  <2>2. QED BY <1>3, <2>1
<1>6. QED BY <1>4, <1>5

\* Along a start the servers pass from the notification to the resolver; what is
\* overtaken by a newer notification waits for its refresh, which needs mu.
LEMMA FreshStep ==
  Typing /\ Locks /\ Cached /\ Fresh /\ [Next]_vars => Fresh'
<1> SUFFICES ASSUME Typing, Locks, Cached, Fresh, [Next]_vars, reloads' = 0 PROVE Fresh'
    BY DEF Fresh
<1> USE CoreAssumption DEF InHook, At, MuFree
<1>0. /\ TypeOK /\ Actor = {"start", "reload"}
      /\ running => work["start"].pc = "idle"
      /\ work["start"].pc \in Phase["start"]
      /\ work["start"].built \in ServersOrNone
      /\ work["start"].read \in ServersOrNone
      /\ reloads \in Nat
      BY DEF Typing, TypeOK, Actor, Locks
<1> USE <1>0
<1>1. CASE Stop
      BY <1>1 DEF Stop, ShutdownLocked, Fresh, boundVars
<1>2. ASSUME NEW c \in Config, StartBegin(c) PROVE Fresh'
  <2>1. work'["start"].pc = "build" /\ work'["reload"] = work["reload"]
        BY <1>2 DEF StartBegin, TypeOK
  <2>2. reloads' = reloads /\ ~running'
        BY <1>2 DEF StartBegin, ShutdownLocked
  <2>3. QED BY <2>1, <2>2 DEF Fresh
<1>3. CASE StartBuild
  <2>1. /\ work'["start"].pc \in {"parse", "idle"}
        /\ work'["start"].pc = "parse" => work'["start"].built = servers
        /\ work'["reload"] = work["reload"]
        BY <1>3 DEF StartBuild, Goto, TypeOK
  <2>2. reloads' = reloads /\ ~running' /\ servers' = servers /\ notifying' = notifying
        BY <1>3 DEF StartBuild, dnsVars, boundVars
  <2>3. QED BY <2>1, <2>2 DEF Fresh, UpToDate
<1>4. CASE StartParse
  <2>1. /\ work'["start"].pc \in {"apply", "idle"}
        /\ work'["start"].built = work["start"].built
        /\ work'["reload"] = work["reload"]
        BY <1>4 DEF StartParse, Goto, TypeOK
  <2>2. /\ reloads' = reloads /\ ~running' /\ servers' = servers /\ notifying' = notifying
        /\ work["start"].pc = "parse"
        BY <1>4 DEF StartParse, dnsVars, boundVars
  <2>3. QED BY <2>1, <2>2 DEF Fresh, UpToDate, Pending
<1>5. CASE StartApply
  <2>1. /\ work'["start"].pc = "read"
        /\ work'["start"].built = work["start"].built
        /\ work'["reload"] = work["reload"]
        BY <1>5 DEF StartApply, Goto, TypeOK
  <2>2. /\ reloads' = reloads /\ ~running' /\ servers' = servers /\ notifying' = notifying
        /\ work["start"].pc = "apply"
        /\ applied' = work["start"].conf
        /\ live' = Inject(work["start"].conf, work["start"].built)
        BY <1>5 DEF StartApply, boundVars
  <2>3. live' = Inject(applied', work'["start"].built)
        BY <2>1, <2>2
  <2>4. QED BY <2>1, <2>2, <2>3 DEF Fresh, UpToDate, Pending
<1>6. CASE StartEnd
  <2>1. cache # NoDNS
        BY <1>6 DEF StartEnd, NoDNS, Cached
  <2>2. work'["start"].pc = "idle" /\ work'["reload"] = work["reload"]
        BY <1>6 DEF StartEnd, Goto, TypeOK
  <2>3. /\ reloads' = reloads /\ servers' = servers /\ notifying' = notifying
        /\ live' = live /\ applied' = applied
        /\ work["start"].pc = "merge"
        BY <1>6 DEF StartEnd, boundVars
  <2>4. running' => cache' = cache /\ hosts' = hosts \cup Control[work["start"].conf]
        BY <1>6, <2>1 DEF StartEnd, MergeStartup
  <2>5. running' => hosts' = Control[applied']
        BY <2>3, <2>4 DEF Fresh
  <2>6. QED BY <2>2, <2>3, <2>4, <2>5 DEF Fresh, UpToDate, Pending
<1>7. ASSUME NEW c \in Config, Reload(c) PROVE FALSE
      BY <1>7 DEF Reload
<1>8. ASSUME NEW a \in Actor, SyncRead(a) PROVE Fresh'
  <2>1. reloads = 0 /\ a = "start" /\ work["start"].pc = "read"
        BY <1>8 DEF SyncRead, Fresh, boundVars
  <2>2. /\ work'["start"].pc = "commit"
        /\ work'["start"].built = work["start"].built
        /\ work'["start"].read = servers
        /\ work'["reload"] = work["reload"]
        BY <1>8, <2>1 DEF SyncRead, TypeOK
  <2>3. /\ reloads' = reloads /\ servers' = servers /\ notifying' = notifying
        /\ live' = live /\ applied' = applied /\ ~running'
        BY <1>8, <2>1 DEF SyncRead, boundVars, dnsVars
  <2>4. QED BY <2>1, <2>2, <2>3 DEF Fresh, UpToDate, Pending
<1>9. ASSUME NEW a \in Actor, SyncCommit(a) PROVE Fresh'
  <2>1. reloads = 0 /\ a = "start" /\ work["start"].pc = "commit"
        BY <1>9 DEF SyncCommit, Fresh, boundVars
  <2>2. /\ work'["start"].pc = "merge"
        /\ work'["start"].conf = work["start"].conf
        /\ work'["start"].built = work["start"].built
        /\ work'["reload"] = work["reload"]
        BY <1>9, <2>1 DEF SyncCommit, AfterSync, Goto, TypeOK
  <2>3. /\ reloads' = reloads /\ servers' = servers /\ notifying' = notifying
        /\ applied' = applied /\ ~running'
        BY <1>9, <2>1 DEF SyncCommit, boundVars
  <2>4. work["start"].conf = applied /\ live = Inject(applied, work["start"].built)
        BY <2>1 DEF Locks, Fresh
  <2>5. /\ live' = cache'
        /\ hosts' \subseteq Control[applied]
        /\ \E s \in {work["start"].built, work["start"].read} : cache' = Inject(applied, s)
        BY <1>9, <2>1, <2>4, CommitInjects
  <2>6. UpToDate(work["start"].built)' /\ UpToDate(work["start"].read)
        BY <2>1, <2>2, <2>3 DEF Fresh, UpToDate, Pending
  <2>7. \E s \in ServersOrNone : cache' = Inject(applied', s) /\ UpToDate(s)'
        BY <2>1, <2>2, <2>3, <2>5, <2>6 DEF UpToDate, Pending
  <2>8. QED BY <2>1, <2>2, <2>3, <2>4, <2>5, <2>6, <2>7 DEF Fresh
<1>10. ASSUME NEW n \in Notifier, Refresh(n) PROVE Fresh'
  <2>1. /\ reloads' = reloads /\ servers' = servers /\ applied' = applied
        /\ hosts' = hosts /\ running' = running /\ work' = work
        /\ work["start"].pc = "idle"
        BY <1>10 DEF Refresh, boundVars
  <2>2. CASE ~running
        BY <2>1, <2>2 DEF Fresh
  <2>3. CASE running
    <3>1. PICK s \in ServersOrNone : cache = Inject(applied, s)
          BY <2>1, <2>3 DEF Fresh
    <3>2. live = cache /\ hosts = Control[applied] /\ cache.conf \in Config
          BY <2>1, <2>3 DEF Fresh, Cached
    <3>3. cache # NoDNS
          BY <3>2 DEF NoDNS
    <3>4. live' = Inject(applied, servers) /\ cache' = live'
      <4>1. CASE hosts # {}
            BY <1>10, <2>3, <3>1, <3>2, <3>3, <4>1, ReplaceInjected DEF Refresh, RefreshPolicy
      <4>2. CASE hosts = {}
            BY <1>10, <2>3, <3>1, <3>2, <3>3, <4>2, NothingToInject DEF Refresh, RefreshPolicy
      <4>3. QED BY <4>1, <4>2
    <3>5. servers \in ServersOrNone /\ UpToDate(servers)'
          BY <2>1 DEF TypeOK, UpToDate
    <3>6. \E t \in ServersOrNone : cache' = Inject(applied', t) /\ UpToDate(t)'
          BY <2>1, <3>4, <3>5
    <3>7. QED BY <2>1, <2>3, <3>2, <3>4, <3>6 DEF Fresh
  <2>4. QED BY <2>2, <2>3
<1>11. ASSUME UNCHANGED vars \/ \E n \in Notifier, s \in ServersOrNone : SetNetworkInfo(n, s)
       PROVE  Fresh'
  <2>1. /\ reloads' = reloads /\ applied' = applied /\ live' = live /\ cache' = cache
        /\ hosts' = hosts /\ running' = running /\ work' = work
        BY <1>11 DEF SetNetworkInfo, vars, dnsVars, boundVars
  <2>2. ASSUME NEW s, UpToDate(s) PROVE UpToDate(s)'
        BY <1>11, <2>2, StaysUpToDate DEF vars, dnsVars
  <2>3. UpToDate(work["start"].built) => UpToDate(work["start"].built)'
        BY <2>1, <2>2
  <2>4. UpToDate(work["start"].read) => UpToDate(work["start"].read)'
        BY <2>1, <2>2
  <2>5. QED BY <2>1, <2>2, <2>3, <2>4 DEF Fresh
<1>12. QED
  BY <1>1, <1>2, <1>3, <1>4, <1>5, <1>6, <1>7, <1>8, <1>9, <1>10, <1>11
     DEF Next, StartStep

\* Without reloads a running core resolves by the servers notified last once
\* nothing is under way.
THEOREM ResolverIsFresh == Spec => []FreshAfterStart
<1>1. Fresh => FreshAfterStart
      BY DEF Fresh, FreshAfterStart, FreshPolicy, Quiet, UpToDate, Pending, At
<1>2. QED
  BY <1>1, TypingInit, TypingStep, LocksInit, LocksStep, CachedInit, CachedStep,
     FreshInit, FreshStep, PTL DEF Spec
=============================================================================
