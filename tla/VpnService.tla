----------------------------- MODULE VpnService -----------------------------
(***************************************************************************)
(* ClashMiVpnService.kt: the Android service that owns the VPN.  Each      *)
(* service object has a desiredRunning flag that the main thread sets, and *)
(* a single-threaded executor that runs the queued startCore and stopCore  *)
(* tasks.  A new service object may be created while the executor of the   *)
(* destroyed one still works; they share the native core, whose Start and  *)
(* Stop exclude each other by a mutex.                                     *)
(*                                                                         *)
(* The activity manager is external: it numbers the start requests,        *)
(* delivers them in order on the main thread, and destroys the service     *)
(* some time after stopSelf.                                               *)
(*                                                                         *)
(* A main thread handler is one step, except that promoteToForeground      *)
(* separates the two writes of desiredRunning around it.  An executor step *)
(* ends where it next reads what another thread writes, at a native call   *)
(* or at openTun.                                                          *)
(***************************************************************************)
EXTENDS VpnRuntime

CONSTANTS
  MaxInstance,  \* bound: service objects ever created
  MaxExternal,  \* bound: events from outside the plugin
  Faults        \* what may go wrong around the service

FaultKind == {"promote", "config", "tun", "start", "stop", "intent",
              "permission", "activity", "tile", "revoke", "other"}

ASSUME ServiceAssumption == 
  /\ MaxInstance \in Nat \ {0}
  /\ MaxExternal \in Nat
  /\ Faults \subseteq FaultKind

VARIABLES
  inbox,        \* start requests and destroy messages on their way to the main thread
  instance,     \* the number of the latest service object
  alive,        \* the activity manager has not brought it down
  started,      \* it has been started and not stopped since
  lastId,       \* the startId of its latest start request
  external,     \* events from outside the plugin so far
  promoting,    \* the main thread is inside promoteToForeground
  desired,      \* [Instance -> BOOLEAN]: desiredRunning
  coreRunning,  \* [Instance -> BOOLEAN]
  tun,          \* [Instance -> BOOLEAN]: tunFd >= 0
  queue,        \* [Instance -> Seq(Task)]: the executor's tasks, the running one first
  pc,           \* [Instance -> ExecPc]: where the running task is
  native,       \* the Go core
  callback,     \* [Instance -> BOOLEAN]: a network callback is registered
  writer        \* whose persistent log writer the core has, 0 for none

managerVars == <<inbox, instance, alive, started, lastId, external,
                 promoting>>
hookVars    == <<callback, writer>>
execVars    == <<coreRunning, tun, queue, pc, native, hookVars>>
serviceVars == <<managerVars, desired, execVars>>

Instance == 1 .. MaxInstance
Message  == [to : Instance, type : {"start", "stop", "other", "destroy"}, id : Nat]
Task     == [type : {"start", "stop"}, id : Nat, self : BOOLEAN]
ExecPc   == {"idle", "connect", "tun", "check", "handoff", "native", "verify",
             "announce", "reply", "failed", "cleanup", "giveup",
             "stopping", "stopped", "stopfailed", "leave"}
Native   == {"stopped", "starting", "running"}

ServiceTypeOK ==
  /\ inbox \in Seq(Message)
  /\ instance \in Instance \cup {0}
  /\ alive \in BOOLEAN
  /\ started \in BOOLEAN
  /\ lastId \in Nat
  /\ external \in 0 .. MaxExternal
  /\ promoting \in BOOLEAN
  /\ desired \in [Instance -> BOOLEAN]
  /\ coreRunning \in [Instance -> BOOLEAN]
  /\ tun \in [Instance -> BOOLEAN]
  /\ queue \in [Instance -> Seq(Task)]
  /\ pc \in [Instance -> ExecPc]
  /\ native \in Native
  /\ callback \in [Instance -> BOOLEAN]
  /\ writer \in Instance \cup {0}

ServiceInit ==
  /\ inbox = << >>
  /\ instance = 0
  /\ alive = FALSE
  /\ started = FALSE
  /\ lastId = 0
  /\ external = 0
  /\ promoting = FALSE
  /\ desired = [i \in Instance |-> FALSE]
  /\ coreRunning = [i \in Instance |-> FALSE]
  /\ tun = [i \in Instance |-> FALSE]
  /\ queue = [i \in Instance |-> << >>]
  /\ pc = [i \in Instance |-> "idle"]
  /\ native = "stopped"
  /\ callback = [i \in Instance |-> FALSE]
  /\ writer = 0

----------------------------------------------------------------------------
(* The activity manager.                                                   *)

\* startService or startForegroundService: the request goes to the service
\* that is up, or to a new one.
SendIntent(type) ==
  LET to == IF alive THEN instance ELSE instance + 1
      id == IF alive THEN lastId + 1 ELSE 1
  IN  /\ instance' = to
      /\ lastId' = id
      /\ alive' = TRUE
      /\ started' = TRUE
      /\ inbox' = Append(inbox, [to |-> to, type |-> type, id |-> id])

\* stopSelfResult(id) only stops the service if no later request was made.
StopSelfResult(i, id) ==
  started' = (started /\ ~(alive /\ instance = i /\ lastId = id))

StopSelf(i) == started' = (started /\ ~(alive /\ instance = i))

\* The manager destroys a stopped service when it likes (a VPN that is up may
\* keep it bound); the last one the model has objects for stays.
BringDown ==
  /\ alive
  /\ ~started
  /\ instance < MaxInstance
  /\ alive' = FALSE
  /\ inbox' = Append(inbox, [to |-> instance, type |-> "destroy", id |-> 0])
  /\ UNCHANGED <<instance, started, lastId, external, promoting, desired, execVars,
                 runtimeVars>>

----------------------------------------------------------------------------
(* The main thread: onStartCommand, onDestroy and onRevoke.                *)

Receives(type) == ~promoting /\ inbox # << >> /\ Head(inbox).type = type

Enqueue(i, task) == queue' = [queue EXCEPT ![i] = Append(@, task)]

\* ACTION_START, up to promoteToForeground.
OnStart ==
  /\ Receives("start")
  /\ desired' = [desired EXCEPT ![Head(inbox).to] = TRUE]
  /\ promoting' = TRUE
  /\ UNCHANGED <<inbox, instance, alive, started, lastId, external, execVars,
                 runtimeVars>>

\* The service is in the foreground: startCore is queued.
OnStartPromoted ==
  /\ promoting
  /\ promoting' = FALSE
  /\ inbox' = Tail(inbox)
  /\ Enqueue(Head(inbox).to, [type |-> "start", id |-> Head(inbox).id, self |-> TRUE])
  /\ UNCHANGED <<instance, alive, started, lastId, external, desired, coreRunning,
                 tun, pc, native, runtimeVars, hookVars>>

\* promoteToForeground threw: the start is given up on the main thread.
OnStartNotPromoted ==
  /\ "promote" \in Faults
  /\ promoting
  /\ promoting' = FALSE
  /\ inbox' = Tail(inbox)
  /\ desired' = [desired EXCEPT ![Head(inbox).to] = FALSE]
  /\ state' = "disconnected"
  /\ CompleteStart("error")
  /\ StopSelfResult(Head(inbox).to, Head(inbox).id)
  /\ UNCHANGED <<instance, alive, lastId, external, execVars, prepared, pendingStop,
                 kind, posted>>

\* Fault: a stop is queued only when the core is already up.
RequestStopIfRunning(i, id) ==
  /\ desired' = [desired EXCEPT ![i] = FALSE]
  /\ ClearPendingStart
  /\ state' = IF state = "disconnected" THEN state ELSE "disconnecting"
  /\ IF coreRunning[i]
     THEN Enqueue(i, [type |-> "stop", id |-> id, self |-> TRUE])
     ELSE UNCHANGED queue
  /\ UNCHANGED <<coreRunning, tun, pc, native, prepared, pendingStop, kind,
                 posted, hookVars>>

\* Fault: the caller's stop is answered once it is queued.
RequestStopAnswering(i, id) ==
  LET answers == pendingStop # 0 /\ kind[pendingStop] = "stop"
  IN  /\ desired' = [desired EXCEPT ![i] = FALSE]
      /\ pendingStart' = 0
      /\ pendingStop' = IF answers THEN 0 ELSE pendingStop
      /\ reply' = [c \in Call |->
                     IF answers /\ c = pendingStop THEN Append(reply[c], "done")
                     ELSE Answered(pendingStart, "error")[c]]
      /\ state' = IF state = "disconnected" THEN state ELSE "disconnecting"
      /\ Enqueue(i, [type |-> "stop", id |-> id, self |-> TRUE])
      /\ UNCHANGED <<coreRunning, tun, pc, native, prepared, kind, posted,
                     hookVars>>

\* requestStop, for a start request (id) or a revocation (0).
RequestStop(i, id) ==
  /\ desired' = [desired EXCEPT ![i] = FALSE]
  /\ ClearPendingStart
  /\ state' = IF state = "disconnected" THEN state ELSE "disconnecting"
  /\ Enqueue(i, [type |-> "stop", id |-> id, self |-> TRUE])
  /\ UNCHANGED <<coreRunning, tun, pc, native, prepared, pendingStop, kind,
                 posted, hookVars>>

\* ACTION_STOP, and a null intent, which START_NOT_STICKY rules out.
OnStop ==
  /\ Receives("stop")
  /\ RequestStop(Head(inbox).to, Head(inbox).id)
  /\ inbox' = Tail(inbox)
  /\ UNCHANGED <<instance, alive, started, lastId, external, promoting>>

\* An intent of another action.
OnOther ==
  /\ Receives("other")
  /\ StopSelfResult(Head(inbox).to, Head(inbox).id)
  /\ inbox' = Tail(inbox)
  /\ UNCHANGED <<instance, alive, lastId, external, promoting, desired, execVars,
                 runtimeVars>>

\* onDestroy: a last stopCore if there may be something to stop.  The executor
\* finishes what is queued.
OnDestroy ==
  LET i == Head(inbox).to
      stops == coreRunning[i] \/ state # "disconnected"
  IN  /\ Receives("destroy")
      /\ inbox' = Tail(inbox)
      /\ desired' = [desired EXCEPT ![i] = FALSE]
      /\ ClearPendingStart
      /\ state' = IF stops THEN "disconnecting" ELSE state
      /\ IF stops
         THEN Enqueue(i, [type |-> "stop", id |-> 0, self |-> FALSE])
         ELSE UNCHANGED queue
      /\ UNCHANGED <<instance, alive, started, lastId, external, promoting,
                     coreRunning, tun, pc, native, prepared, pendingStop, kind,
                     posted, hookVars>>

\* onRevoke of an established VPN: requestStop, and stopSelf in super.onRevoke.
OnRevoke ==
  /\ "revoke" \in Faults
  /\ alive
  /\ tun[instance] \/ native # "stopped"
  /\ external < MaxExternal
  /\ external' = external + 1
  /\ RequestStop(instance, 0)
  /\ StopSelf(instance)
  /\ UNCHANGED <<inbox, instance, alive, lastId, promoting>>

----------------------------------------------------------------------------
(* The executor of service object i: startCore.                            *)

Goto(i, p) == pc' = [pc EXCEPT ![i] = p]

\* The next step of the running task, at p.
At(i, p) == pc[i] = p /\ queue[i] # << >>

TaskId(i) == Head(queue[i]).id

\* The running task returns.
Return(i) ==
  /\ queue' = [queue EXCEPT ![i] = Tail(@)]
  /\ Goto(i, "idle")

\* finishCancelledStart ends the task: callback and interface are closed and the
\* service is stopped.  desiredRunning was just read, and only a later request sets it
\* again, which stopSelfResult would notice by its id.
FinishCancelledStart(i) ==
  /\ tun' = [tun EXCEPT ![i] = FALSE]
  /\ callback' = [callback EXCEPT ![i] = FALSE]
  /\ state' = "disconnected"
  /\ StopSelfResult(i, TaskId(i))
  /\ Return(i)
  /\ UNCHANGED <<inbox, instance, alive, lastId, external, promoting, desired,
                 coreRunning, native, prepared, pendingStart, pendingStop, kind,
                 reply, posted, writer>>

\* The first decisions of startCore.
StartCancelled(i) ==
  /\ At(i, "idle") /\ Head(queue[i]).type = "start"
  /\ ~desired[i]
  /\ FinishCancelledStart(i)

StartIgnored(i) ==
  /\ At(i, "idle") /\ Head(queue[i]).type = "start"
  /\ desired[i]
  /\ coreRunning[i]
  /\ CompleteStart("done")
  /\ Return(i)
  /\ UNCHANGED <<managerVars, desired, coreRunning, tun, native, state, prepared,
                 pendingStop, kind, posted, hookVars>>

\* preparedConfig, or the one restored from the service's configuration file.
StartConfigured(i) ==
  /\ At(i, "idle") /\ Head(queue[i]).type = "start"
  /\ desired[i]
  /\ ~coreRunning[i]
  /\ prepared' = TRUE
  /\ Goto(i, "connect")
  /\ UNCHANGED <<managerVars, desired, coreRunning, tun, queue, native, state,
                 pendingStart, pendingStop, kind, reply, posted, hookVars>>

\* failStart: there is no configuration.
StartNotConfigured(i) ==
  /\ "config" \in Faults
  /\ At(i, "idle") /\ Head(queue[i]).type = "start"
  /\ desired[i]
  /\ ~coreRunning[i]
  /\ ~prepared
  /\ desired' = [desired EXCEPT ![i] = FALSE]
  /\ state' = "disconnected"
  /\ CompleteStart("error")
  /\ StopSelfResult(i, TaskId(i))
  /\ Return(i)
  /\ UNCHANGED <<inbox, instance, alive, lastId, external, promoting,
                 coreRunning, tun,
                 native, prepared, pendingStop, kind, posted, hookVars>>

StartConnecting(i) ==
  /\ At(i, "connect")
  /\ state' = "connecting"
  /\ writer' = i
  /\ Goto(i, "tun")
  /\ UNCHANGED <<managerVars, desired, coreRunning, tun, queue, native, prepared,
                 pendingStart, pendingStop, kind, reply, posted, callback>>

\* Socket protector and network information go to the core, which waits for its
\* mutex; the network callback is registered and the interface established.
OpenTun(i) ==
  /\ At(i, "tun")
  /\ native # "starting"
  /\ callback' = [callback EXCEPT ![i] = TRUE]
  /\ \/ /\ tun' = [tun EXCEPT ![i] = TRUE]
        /\ Goto(i, "check")
     \/ /\ "tun" \in Faults
        /\ Goto(i, "failed")
        /\ UNCHANGED tun
  /\ UNCHANGED <<managerVars, desired, coreRunning, queue, native, runtimeVars,
                 writer>>

\* The last look at desiredRunning before the descriptor is handed over.
CancelBeforeHandOff(i) ==
  /\ At(i, "check")
  /\ ~desired[i]
  /\ FinishCancelledStart(i)

\* Fault: the start is answered when the descriptor is handed over.
HandOffAnswering(i) ==
  /\ At(i, "check")
  /\ desired[i]
  /\ tun' = [tun EXCEPT ![i] = FALSE]
  /\ CompleteStart("done")
  /\ Goto(i, "handoff")
  /\ UNCHANGED <<managerVars, desired, coreRunning, queue, native, state, prepared,
                 pendingStop, kind, posted, hookVars>>

HandOff(i) ==
  /\ At(i, "check")
  /\ desired[i]
  /\ tun' = [tun EXCEPT ![i] = FALSE]
  /\ Goto(i, "handoff")
  /\ UNCHANGED <<managerVars, desired, coreRunning, queue, native, runtimeVars,
                 hookVars>>

\* Clashmicore.start gets the core's mutex; a core that runs is shut down.
NativeStart(i) ==
  /\ At(i, "handoff")
  /\ native # "starting"
  /\ native' = "starting"
  /\ Goto(i, "native")
  /\ UNCHANGED <<managerVars, desired, coreRunning, tun, queue, runtimeVars,
                 hookVars>>

\* It returns, or throws.
NativeStarted(i) ==
  /\ At(i, "native")
  /\ \/ /\ native' = "running"
        /\ coreRunning' = [coreRunning EXCEPT ![i] = TRUE]
        /\ Goto(i, "verify")
     \/ /\ "start" \in Faults
        /\ native' = "stopped"
        /\ Goto(i, "failed")
        /\ UNCHANGED coreRunning
  /\ UNCHANGED <<managerVars, desired, tun, queue, runtimeVars, hookVars>>

\* A start that was cancelled meanwhile leaves the core to "the queued stop".
StartedTooLate(i) ==
  /\ At(i, "verify")
  /\ ~desired[i]
  /\ Return(i)
  /\ UNCHANGED <<managerVars, desired, coreRunning, tun, native, runtimeVars,
                 hookVars>>

StartedInTime(i) ==
  /\ At(i, "verify")
  /\ desired[i]
  /\ Goto(i, "announce")
  /\ UNCHANGED <<managerVars, desired, coreRunning, tun, queue, native,
                 runtimeVars, hookVars>>

AnnounceConnected(i) ==
  /\ At(i, "announce")
  /\ state' = "connected"
  /\ Goto(i, "reply")
  /\ UNCHANGED <<managerVars, desired, coreRunning, tun, queue, native, prepared,
                 pendingStart, pendingStop, kind, reply, posted, hookVars>>

ReplyStarted(i) ==
  /\ At(i, "reply")
  /\ CompleteStart("done")
  /\ Return(i)
  /\ UNCHANGED <<managerVars, desired, coreRunning, tun, native, state, prepared,
                 pendingStop, kind, posted, hookVars>>

\* Fault: the network callback outlives the failed start.
StartFailedWatching(i) ==
  /\ At(i, "failed")
  /\ desired' = [desired EXCEPT ![i] = FALSE]
  /\ coreRunning' = [coreRunning EXCEPT ![i] = FALSE]
  /\ tun' = [tun EXCEPT ![i] = FALSE]
  /\ Goto(i, "cleanup")
  /\ UNCHANGED <<managerVars, queue, native, runtimeVars, hookVars>>

\* The catch clause of startCore, around its native cleanup.
StartFailed(i) ==
  /\ At(i, "failed")
  /\ desired' = [desired EXCEPT ![i] = FALSE]
  /\ coreRunning' = [coreRunning EXCEPT ![i] = FALSE]
  /\ tun' = [tun EXCEPT ![i] = FALSE]
  /\ callback' = [callback EXCEPT ![i] = FALSE]
  /\ Goto(i, "cleanup")
  /\ UNCHANGED <<managerVars, queue, native, runtimeVars, writer>>

\* runCatching { Clashmicore.stop() }: a failure is only logged.
FailedNativeStop(i) ==
  /\ At(i, "cleanup")
  /\ native # "starting"
  /\ native' = "stopped" \/ ("stop" \in Faults /\ native' = native)
  /\ Goto(i, "giveup")
  /\ UNCHANGED <<managerVars, desired, coreRunning, tun, queue, runtimeVars,
                 hookVars>>

\* Fault: the failed start leaves the state as it is.
GiveUpStartQuietly(i) ==
  /\ At(i, "giveup")
  /\ writer' = 0
  /\ CompleteStart("error")
  /\ StopSelfResult(i, TaskId(i))
  /\ Return(i)
  /\ UNCHANGED <<inbox, instance, alive, lastId, external, promoting, desired,
                 coreRunning, tun, native, state, prepared, pendingStop, kind,
                 posted, callback>>

GiveUpStart(i) ==
  /\ At(i, "giveup")
  /\ state' = "disconnected"
  /\ writer' = 0
  /\ CompleteStart("error")
  /\ StopSelfResult(i, TaskId(i))
  /\ Return(i)
  /\ UNCHANGED <<inbox, instance, alive, lastId, external, promoting, desired,
                 coreRunning, tun, native, prepared, pendingStop, kind, posted,
                 callback>>

----------------------------------------------------------------------------
(* stopCore.                                                               *)

\* Fault: only a connected VPN has something to stop.
NeedsNativeStopIfConnected(i) == coreRunning[i] /\ state = "connected"

NeedsNativeStop(i) == coreRunning[i] \/ tun[i] \/ state # "disconnected"

\* Whether the core has to be stopped is decided here, before its mutex is free.
StopBegin(i) ==
  /\ At(i, "idle") /\ Head(queue[i]).type = "stop"
  /\ callback' = [callback EXCEPT ![i] = FALSE]
  /\ Goto(i, IF NeedsNativeStop(i) THEN "stopping" ELSE "stopped")
  /\ UNCHANGED <<managerVars, desired, coreRunning, tun, queue, native, writer,
                 runtimeVars>>

\* Clashmicore.stop gets the core's mutex and returns, or throws.
NativeStop(i) ==
  /\ At(i, "stopping")
  /\ native # "starting"
  /\ \/ /\ native' = "stopped"
        /\ Goto(i, "stopped")
     \/ /\ "stop" \in Faults
        /\ Goto(i, "stopfailed")
        /\ UNCHANGED native
  /\ UNCHANGED <<managerVars, desired, coreRunning, tun, queue, hookVars,
                 runtimeVars>>

\* Fault: the flag of a running core survives its stop.
StopDoneKeepingFlag(i) ==
  /\ \/ At(i, "stopped") /\ CompleteStop("done")
     \/ At(i, "stopfailed") /\ CompleteStop("error")
  /\ tun' = [tun EXCEPT ![i] = FALSE]
  /\ state' = "disconnected"
  /\ writer' = 0
  /\ Goto(i, "leave")
  /\ UNCHANGED <<managerVars, desired, coreRunning, queue, native, prepared,
                 pendingStart, kind, callback>>

\* The rest of the cleanup, and the answer to whoever waits for a stop.
StopDone(i) ==
  /\ \/ At(i, "stopped") /\ CompleteStop("done")
     \/ At(i, "stopfailed") /\ CompleteStop("error")
  /\ coreRunning' = [coreRunning EXCEPT ![i] = FALSE]
  /\ tun' = [tun EXCEPT ![i] = FALSE]
  /\ state' = "disconnected"
  /\ writer' = 0
  /\ Goto(i, "leave")
  /\ UNCHANGED <<managerVars, desired, queue, native, prepared, pendingStart,
                 kind, callback>>

\* The service stops itself unless it was asked to start again.
StopLeave(i) ==
  LET task == Head(queue[i])
  IN  /\ At(i, "leave")
      /\ IF desired[i] \/ ~task.self THEN UNCHANGED started
         ELSE IF task.id = 0 THEN StopSelf(i) ELSE StopSelfResult(i, task.id)
      /\ Return(i)
      /\ UNCHANGED <<inbox, instance, alive, lastId, external, promoting, desired,
                     coreRunning, tun, native, runtimeVars, hookVars>>

----------------------------------------------------------------------------
MainStep ==
  \/ OnStart \/ OnStartPromoted \/ OnStartNotPromoted
  \/ OnStop \/ OnOther \/ OnDestroy

StartStep(i) ==
  \/ StartCancelled(i) \/ StartIgnored(i)
  \/ StartConfigured(i) \/ StartNotConfigured(i)
  \/ StartConnecting(i) \/ OpenTun(i)
  \/ CancelBeforeHandOff(i) \/ HandOff(i)
  \/ NativeStart(i) \/ NativeStarted(i)
  \/ StartedTooLate(i) \/ StartedInTime(i)
  \/ AnnounceConnected(i) \/ ReplyStarted(i)
  \/ StartFailed(i) \/ FailedNativeStop(i) \/ GiveUpStart(i)

StopStep(i) == StopBegin(i) \/ NativeStop(i) \/ StopDone(i) \/ StopLeave(i)

ServiceStep ==
  \/ MainStep \/ BringDown \/ OnRevoke
  \/ \E i \in Instance : StartStep(i) \/ StopStep(i)
=============================================================================
