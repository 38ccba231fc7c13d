----------------------------- MODULE VpnPlugin -----------------------------
(***************************************************************************)
(* ClashmiVpnServicePlugin.kt on top of the service: the start, stop and   *)
(* restart calls of the Flutter side, their timers (never cancelled, and   *)
(* without the identity of the call that armed them), the VPN permission   *)
(* dialog, and the events from outside: the quick settings tile, which     *)
(* sends start requests of its own, and intents of other actions.          *)
(*                                                                         *)
(* The plugin runs on the main thread: it is never between the two steps   *)
(* of a start request (promoting).                                         *)
(***************************************************************************)
EXTENDS VpnService

VARIABLES
  calls,              \* the number of Flutter calls made
  startTimers,        \* calls whose start timer has not fired
  stopTimers,         \* calls whose stop timer has not fired
  pendingPermission,  \* pendingPermissionStart
  dialogs             \* permission dialogs without a result

pluginVars == <<calls, startTimers, stopTimers, pendingPermission, dialogs>>
vars       == <<runtimeVars, serviceVars, pluginVars>>

TypeOK ==
  /\ RuntimeTypeOK
  /\ ServiceTypeOK
  /\ calls \in 0 .. MaxCall
  /\ startTimers \in SUBSET Call
  /\ stopTimers \in SUBSET Call
  /\ pendingPermission \in BOOLEAN
  /\ dialogs \in Nat

Init ==
  /\ RuntimeInit
  /\ ServiceInit
  /\ calls = 0
  /\ startTimers = {}
  /\ stopTimers = {}
  /\ pendingPermission = FALSE
  /\ dialogs = 0

MainIdle == ~promoting

IntentSent(type) ==
  SendIntent(type) /\ UNCHANGED <<external, promoting, desired, execVars>>

IntentLost == "intent" \in Faults /\ UNCHANGED serviceVars

----------------------------------------------------------------------------
(* start and stop, shared by the method calls and the restart.  Their      *)
(* waiters and replies change once whatever way the handler takes.         *)

\* start refuses: nothing is prepared, or another start waits.
RefuseStart(c) ==
  /\ ~prepared \/ pendingStart # 0
  /\ reply' = Answered(c, "error")
  /\ UNCHANGED <<pendingStart, startTimers, pendingPermission, dialogs, serviceVars>>

\* start waits for the service, or for the user's permission.
WaitForStart(c) ==
  /\ prepared
  /\ pendingStart = 0
  /\ pendingStart' = c
  /\ startTimers' = startTimers \cup {c}
  /\ \/ IntentSent("start") /\ UNCHANGED <<pendingPermission, dialogs>>
     \/ /\ "permission" \in Faults
        /\ pendingPermission' = TRUE
        /\ dialogs' = dialogs + 1
        /\ UNCHANGED serviceVars
  /\ UNCHANGED reply

\* start completes its own waiter: there is no Activity to ask from, or the
\* start request cannot be sent.  Its timer stays.
FailStartAtOnce(c) ==
  /\ prepared
  /\ pendingStart = 0
  /\ reply' = Answered(c, "error")
  /\ startTimers' = startTimers \cup {c}
  /\ {"intent", "activity"} \cap Faults # {}
  /\ UNCHANGED <<pendingStart, pendingPermission, dialogs, serviceVars>>

PluginStart(c) == RefuseStart(c) \/ WaitForStart(c) \/ FailStartAtOnce(c)

NewCall(method) ==
  /\ MainIdle
  /\ calls < MaxCall
  /\ calls' = calls + 1
  /\ kind' = [kind EXCEPT ![calls + 1] = method]

PrepareConfig ==
  /\ MainIdle
  /\ ~prepared
  /\ prepared' = TRUE
  /\ UNCHANGED <<state, pendingStart, pendingStop, kind, reply, posted, serviceVars,
                 pluginVars>>

CallStart ==
  /\ NewCall("start")
  /\ PluginStart(calls + 1)
  /\ UNCHANGED <<state, prepared, pendingStop, posted, stopTimers>>

\* stop, for a stop and a restart.
CallStop(method) ==
  LET c == calls + 1 IN
  /\ NewCall(method)
  /\ \/ /\ pendingStop # 0
        /\ reply' = Answered(c, "error")
        /\ UNCHANGED <<pendingStop, stopTimers, serviceVars>>
     \/ /\ pendingStop = 0
        /\ stopTimers' = stopTimers \cup {c}
        /\ \/ /\ IntentSent("stop")
              /\ pendingStop' = c
              /\ UNCHANGED reply
           \/ /\ IntentLost
              /\ reply' = Answered(c, "error")
              /\ UNCHANGED pendingStop
  /\ UNCHANGED <<state, prepared, pendingStart, posted, startTimers, pendingPermission,
                 dialogs>>

\* The posted continuation of a restart whose stop is done.
ContinueRestart ==
  /\ MainIdle
  /\ posted # << >>
  /\ posted' = Tail(posted)
  /\ PluginStart(Head(posted))
  /\ UNCHANGED <<state, prepared, pendingStop, kind, calls, stopTimers>>

----------------------------------------------------------------------------
(* Timers and the permission dialog.                                       *)

\* The start timer of c completes whatever start waits, and then stops the VPN.
StartTimeout(c) ==
  /\ MainIdle
  /\ c \in startTimers
  /\ startTimers' = startTimers \ {c}
  /\ CompleteStart("timeout")
  /\ IF pendingStart # 0
     THEN IntentSent("stop") \/ IntentLost
     ELSE UNCHANGED serviceVars
  /\ UNCHANGED <<state, prepared, pendingStop, kind, posted, calls, stopTimers,
                 pendingPermission, dialogs>>

StopTimeout(c) ==
  /\ MainIdle
  /\ c \in stopTimers
  /\ stopTimers' = stopTimers \ {c}
  /\ CompleteStop("timeout")
  /\ UNCHANGED <<state, prepared, pendingStart, kind, serviceVars, calls, startTimers,
                 pendingPermission, dialogs>>

\* onActivityResult: the first result serves the pending start, later ones
\* nobody.
PermissionResult ==
  /\ MainIdle
  /\ dialogs > 0
  /\ dialogs' = dialogs - 1
  /\ pendingPermission' = FALSE
  /\ \/ ~pendingPermission /\ UNCHANGED <<pendingStart, reply, serviceVars>>
     \/ /\ pendingPermission
        /\ IntentSent("start")
        /\ UNCHANGED <<pendingStart, reply>>
     \/ /\ pendingPermission
        /\ CompleteStart("error")
        /\ UNCHANGED serviceVars
  /\ UNCHANGED <<state, prepared, pendingStop, kind, posted, calls, startTimers,
                 stopTimers>>

\* The tile, or whoever else, sends a request to the service.
ExternalIntent(type) ==
  /\ external < MaxExternal
  /\ external' = external + 1
  /\ SendIntent(type)
  /\ UNCHANGED <<promoting, desired, execVars, runtimeVars, pluginVars>>

----------------------------------------------------------------------------
Outside == (IF "tile" \in Faults THEN {"start", "stop"} ELSE {}) \cup ({"other"} \cap Faults)

PluginStep ==
  \/ PrepareConfig
  \/ CallStart
  \/ \E method \in {"stop", "restart"} : CallStop(method)
  \/ ContinueRestart
  \/ PermissionResult
  \/ \E c \in Call : StartTimeout(c) \/ StopTimeout(c)
  \/ \E type \in Outside : ExternalIntent(type)

Next == PluginStep \/ (ServiceStep /\ UNCHANGED pluginVars)

Spec == Init /\ [][Next]_vars

(* Handlers, posted work and timers run, the executors work, a native call *)
(* that was begun returns.  No fairness on calls, on events from outside,  *)
(* on the user's answer to a dialog or on the activity manager's choice to *)
(* destroy a stopped service.                                              *)
Fairness ==
  /\ WF_vars(MainStep /\ UNCHANGED pluginVars)
  /\ WF_vars(ContinueRestart)
  /\ \A c \in Call : WF_vars(StartTimeout(c)) /\ WF_vars(StopTimeout(c))
  /\ \A i \in Instance :
       WF_vars((StartStep(i) \/ StopStep(i)) /\ UNCHANGED pluginVars)

FairSpec == Spec /\ Fairness

----------------------------------------------------------------------------
(* Properties.                                                             *)

Contract == INSTANCE VpnContract WITH core <- native

\* A MethodChannel result may be answered once, and a "done" is true: whatever
\* completes a waiter, be it a service object, a stop, a timer or the plugin, no
\* call gets two answers, no stop is "done" before native.stop returned, no start
\* while the core is not up.
CallsAsPromised == Contract!ContractSpec

\* Every call is answered in the end, once, however starts, stops, restarts and
\* timers overlap ("complete the Flutter call instead of silently dropping its
\* callback and leaving the UI waiting forever").
CallsDelivered == Contract!ContractFairSpec

\* Nothing is under way any more: no message, no task, no continuation.
Settled ==
  /\ inbox = << >> /\ posted = << >>
  /\ \A i \in Instance : queue[i] = << >>

\* When nothing is under way the state shown to the user is the core's.
SettledStateIsTrue ==
  Settled => state = IF native = "running" THEN "connected" ELSE "disconnected"

\* A core that runs when nothing is under way belongs to the live service,
\* which wants it and follows the network for it: it is not an orphan of a
\* destroyed or stopped one, and it logs through it: no stopCore of another object
\* has cleared the writer that this one installed.
SettledCoreIsOwned ==
  (Settled /\ native = "running") =>
     /\ alive /\ desired[instance] /\ coreRunning[instance]
     /\ \A i \in Instance : callback[i] <=> i = instance
     /\ writer = instance

\* When nothing is under way and no core runs, no TUN interface is open, no
\* network callback is registered, the core logs through no living service and no
\* foreground service keeps running for nothing.  (It may keep the writer of a
\* destroyed one: finishCancelledStart does not clear it.)
SettledServiceIsStopped ==
  (Settled /\ native = "stopped") =>
     /\ ~started
     /\ writer # 0 => ~alive
     /\ \A i \in Instance : ~tun[i] /\ ~callback[i]

\* "Start completed after stop request; queued stop will clean up": a start that
\* was cancelled during the native call may leave its core running, because a
\* stop is queued behind it.
QueuedStopCleansUp ==
  \A i \in Instance :
    (At(i, "verify") /\ ~desired[i]) =>
      \E k \in 2 .. Len(queue[i]) : queue[i][k].type = "stop"

\* "Core start ignored: already connected": the service answers a start without
\* doing anything only when the core really runs, whoever stopped it.
IgnoredStartIsConnected ==
  \A i \in Instance :
    (At(i, "idle") /\ Head(queue[i]).type = "start" /\ desired[i] /\ coreRunning[i]) =>
      native = "running"

\* Service object i tells the core about networks: it is in the part of startCore
\* that does, or its callback is registered.
Notifies(i) == callback[i] \/ At(i, "tun")

\* The core is told about networks by one service object at a time, although two of
\* them may live: SetAndroidNetworkInfo tells the DNS servers and, deferred and under
\* no common lock, the health monitor, which would end with the news of different
\* objects if two of them called it.
OneObjectNotifies == \A i, j \in Instance : (Notifies(i) /\ Notifies(j)) => i = j

\* The calls a step answers with res.
AnsweredNow(c, res) == reply'[c] # reply[c] /\ reply'[c][Len(reply'[c])] = res

\* A stop is answered "done" "only after native listeners and the TUN interface
\* have finished shutting down", by whichever stopCore answers it: what interface
\* may be open still is a later start's, or is held by an object that was told to
\* stop and closes it before it hands it over.
StopDoneMeansClosed ==
  [][\A c \in Call :
       (kind[c] = "stop" /\ AnsweredNow(c, "done")) =>
         \/ Contract!Superseded(c)
         \/ \A i \in Instance : ~(tun'[i] /\ desired[i])]_vars

\* A stop that was answered "done" was not merely an enqueued intent: unless a
\* start was called for after it, no core is started any more.
StoppedStaysStopped ==
  [][(native # "starting" /\ native' = "starting") =>
       ~ \E c \in Call :
           /\ kind[c] = "stop" /\ reply[c] = <<"done">>
           /\ \A d \in c + 1 .. calls : kind[d] = "stop"]_vars
=============================================================================
