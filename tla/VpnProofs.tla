------------------------------ MODULE VpnProofs ------------------------------
(* VpnPlugin, for any number of calls, service objects and outside events,  *)
(* and whatever goes wrong around the service: the state has its type, and  *)
(* no call is answered twice.                                               *)
EXTENDS VpnPlugin, SequenceTheorems, TLAPS

----------------------------------------------------------------------------
(* The types.                                                              *)

\* There is a service object when a message can reach one, room for another one
\* when it is gone, and a start request at the head of the inbox while the main
\* thread is inside promoteToForeground.
Objects ==
  /\ alive => instance # 0
  /\ ~alive => instance < MaxInstance
  /\ promoting => inbox # << >> /\ Head(inbox).type = "start"

Typing == TypeOK /\ Objects

LEMMA TypingInit == Init => Typing
<1> SUFFICES ASSUME Init PROVE Typing
    OBVIOUS
<1>1. RuntimeTypeOK
  <2>1. << >> \in Seq(Result) /\ << >> \in Seq(Call)
        OBVIOUS
  <2>2. QED BY <2>1 DEF Init, RuntimeInit, RuntimeTypeOK, State, Kind
<1>2. ServiceTypeOK
  <2>1. << >> \in Seq(Message) /\ << >> \in Seq(Task)
        OBVIOUS
  <2>2. /\ alive \in BOOLEAN /\ started \in BOOLEAN /\ promoting \in BOOLEAN
        /\ desired \in [Instance -> BOOLEAN] /\ coreRunning \in [Instance -> BOOLEAN]
        /\ tun \in [Instance -> BOOLEAN] /\ callback \in [Instance -> BOOLEAN]
        BY DEF Init, ServiceInit
  <2>3. /\ inbox \in Seq(Message) /\ queue \in [Instance -> Seq(Task)]
        /\ pc \in [Instance -> ExecPc] /\ native \in Native
        BY <2>1 DEF Init, ServiceInit, ExecPc, Native
  <2>4. /\ instance \in Instance \cup {0} /\ lastId \in Nat
        /\ external \in 0 .. MaxExternal /\ writer \in Instance \cup {0}
        BY ServiceAssumption DEF Init, ServiceInit
  <2>5. QED BY <2>2, <2>3, <2>4 DEF ServiceTypeOK
<1>3. Objects
      BY ServiceAssumption DEF Init, ServiceInit, Objects
<1>4. calls \in 0 .. MaxCall /\ startTimers \in SUBSET Call /\ stopTimers \in SUBSET Call
      BY RuntimeAssumption DEF Init
<1>5. pendingPermission \in BOOLEAN /\ dialogs \in Nat
      BY DEF Init
<1>6. QED BY <1>1, <1>2, <1>3, <1>4, <1>5 DEF Typing, TypeOK

\* Answers keep the shape of the replies.
LEMMA AnsweredType ==
  ASSUME RuntimeTypeOK, NEW c \in Call \cup {0}, NEW res \in Result
  PROVE  Answered(c, res) \in [Call -> Seq(Result)]
BY DEF RuntimeTypeOK, Answered

LEMMA CompleteStartType ==
  ASSUME RuntimeTypeOK, NEW res \in Result, CompleteStart(res)
  PROVE  /\ pendingStart' \in Call \cup {0}
         /\ reply' \in [Call -> Seq(Result)]
BY AnsweredType DEF RuntimeTypeOK, CompleteStart

LEMMA CompleteStopType ==
  ASSUME RuntimeTypeOK, NEW res \in Result, CompleteStop(res)
  PROVE  /\ pendingStop' \in Call \cup {0}
         /\ reply' \in [Call -> Seq(Result)]
         /\ posted' \in Seq(Call)
<1>1. pendingStop' \in Call \cup {0}
      BY DEF CompleteStop
<1>2. reply' \in [Call -> Seq(Result)]
      BY AnsweredType DEF RuntimeTypeOK, CompleteStop
<1>3. pendingStop # 0 => Append(posted, pendingStop) \in Seq(Call)
      BY DEF RuntimeTypeOK
<1>4. posted' \in Seq(Call)
      BY <1>3 DEF RuntimeTypeOK, CompleteStop
<1>5. QED BY <1>1, <1>2, <1>4

\* A request goes to a service object, and leaves the head of the inbox alone.
LEMMA SendIntentType ==
  ASSUME Typing, NEW type \in {"start", "stop", "other"}, SendIntent(type)
  PROVE  /\ inbox' \in Seq(Message)
         /\ instance' \in Instance
         /\ alive' /\ started'
         /\ lastId' \in Nat
         /\ inbox # << >> => inbox' # << >> /\ Head(inbox') = Head(inbox)
<1> DEFINE to == IF alive THEN instance ELSE instance + 1
           id == IF alive THEN lastId + 1 ELSE 1
<1>1. /\ instance \in Nat /\ lastId \in Nat
      /\ to \in Instance /\ id \in Nat
      BY ServiceAssumption DEF Typing, TypeOK, ServiceTypeOK, Objects, Instance
<1>2. [to |-> to, type |-> type, id |-> id] \in Message
      BY <1>1 DEF Message
<1>3. inbox \in Seq(Message)
      BY DEF Typing, TypeOK, ServiceTypeOK
<1>4. inbox' = Append(inbox, [to |-> to, type |-> type, id |-> id])
      BY DEF SendIntent
<1> HIDE DEF to, id
<1>5. /\ inbox' \in Seq(Message)
      /\ inbox # << >> => inbox' # << >> /\ Head(inbox') = Head(inbox)
      BY <1>2, <1>3, <1>4
<1>6. QED BY <1>1, <1>5 DEF SendIntent, to, id

LEMMA IntentSentType ==
  ASSUME Typing, NEW type \in {"start", "stop", "other"}, IntentSent(type)
  PROVE  ServiceTypeOK' /\ Objects'
<1> USE DEF IntentSent, Typing, TypeOK
<1>1. ServiceTypeOK'
      BY SendIntentType DEF ServiceTypeOK, execVars, hookVars
<1>2. instance' # 0
      BY SendIntentType DEF Instance
<1>3. Objects'
      BY <1>2, SendIntentType DEF Objects
<1>4. QED BY <1>1, <1>3

\* What the main thread takes from the inbox.
LEMMA HeadType ==
  ASSUME Typing, inbox # << >>
  PROVE  /\ Head(inbox) \in Message
         /\ Head(inbox).to \in Instance /\ Head(inbox).id \in Nat
         /\ Tail(inbox) \in Seq(Message)
<1>1. inbox \in Seq(Message)
      BY DEF Typing, TypeOK, ServiceTypeOK
<1>2. Head(inbox) \in Message /\ Tail(inbox) \in Seq(Message)
      BY <1>1
<1>3. QED BY <1>2 DEF Message

\* The executor's queue and program counter.
LEMMA EnqueueType ==
  ASSUME Typing, NEW i \in Instance, NEW task \in Task, Enqueue(i, task)
  PROVE  queue' \in [Instance -> Seq(Task)]
<1>1. Append(queue[i], task) \in Seq(Task)
      BY DEF Typing, TypeOK, ServiceTypeOK
<1>2. QED BY <1>1 DEF Typing, TypeOK, ServiceTypeOK, Enqueue

LEMMA ReturnType ==
  ASSUME Typing, NEW i \in Instance, queue[i] # << >>, Return(i)
  PROVE  queue' \in [Instance -> Seq(Task)] /\ pc' \in [Instance -> ExecPc]
<1>1. Tail(queue[i]) \in Seq(Task)
      BY DEF Typing, TypeOK, ServiceTypeOK
<1>2. queue' \in [Instance -> Seq(Task)]
      BY <1>1 DEF Typing, TypeOK, ServiceTypeOK, Return
<1>3. pc' \in [Instance -> ExecPc]
      BY DEF Typing, TypeOK, ServiceTypeOK, Return, Goto, ExecPc
<1>4. QED BY <1>2, <1>3

LEMMA GotoType ==
  ASSUME Typing, NEW i \in Instance, NEW p \in ExecPc, Goto(i, p)
  PROVE  pc' \in [Instance -> ExecPc]
BY DEF Typing, TypeOK, ServiceTypeOK, Goto

LEMMA RequestStopType ==
  ASSUME Typing, NEW i \in Instance, NEW id \in Nat, RequestStop(i, id)
  PROVE  /\ RuntimeTypeOK'
         /\ queue' \in [Instance -> Seq(Task)]
         /\ desired' \in [Instance -> BOOLEAN]
<1>1. [type |-> "stop", id |-> id, self |-> TRUE] \in Task
      BY DEF Task
<1>2. queue' \in [Instance -> Seq(Task)]
      BY <1>1, EnqueueType DEF RequestStop
<1>3. desired' \in [Instance -> BOOLEAN]
      BY DEF Typing, TypeOK, ServiceTypeOK, RequestStop
<1>4. RuntimeTypeOK'
      BY CompleteStartType DEF Typing, TypeOK, RuntimeTypeOK, RequestStop, ClearPendingStart,
         Result, State
<1>5. QED BY <1>2, <1>3, <1>4

LEMMA MainTyping ==
  ASSUME Typing, MainStep
  PROVE  RuntimeTypeOK' /\ ServiceTypeOK' /\ Objects'
<1> USE DEF Typing, TypeOK, execVars, hookVars, runtimeVars
<1>1. CASE OnStart
  <2>1. desired' \in [Instance -> BOOLEAN]
        BY <1>1 DEF OnStart, Receives, ServiceTypeOK
  <2>2. ServiceTypeOK' /\ RuntimeTypeOK'
        BY <1>1, <2>1 DEF OnStart, ServiceTypeOK, RuntimeTypeOK
  <2>3. QED BY <1>1, <2>2 DEF OnStart, Receives, Objects
<1>2. CASE OnStartPromoted
  <2>1. inbox # << >>
        BY <1>2 DEF OnStartPromoted, Objects
  <2>2. [type |-> "start", id |-> Head(inbox).id, self |-> TRUE] \in Task
        BY <2>1, HeadType DEF Task
  <2>3. queue' \in [Instance -> Seq(Task)]
        BY <1>2, <2>1, <2>2, HeadType, EnqueueType DEF OnStartPromoted
  <2>4. ServiceTypeOK' /\ RuntimeTypeOK'
        BY <1>2, <2>1, <2>3, HeadType DEF OnStartPromoted, ServiceTypeOK, RuntimeTypeOK
  <2>5. QED BY <1>2, <2>4 DEF OnStartPromoted, Objects
<1>3. CASE OnStartNotPromoted
  <2>1. inbox # << >>
        BY <1>3 DEF OnStartNotPromoted, Objects
  <2>2. RuntimeTypeOK'
        BY <1>3, CompleteStartType DEF OnStartNotPromoted, RuntimeTypeOK, Result, State
  <2>3. desired' \in [Instance -> BOOLEAN] /\ started' \in BOOLEAN
        BY <1>3 DEF OnStartNotPromoted, StopSelfResult, ServiceTypeOK
  <2>4. ServiceTypeOK'
        BY <1>3, <2>1, <2>3, HeadType DEF OnStartNotPromoted, ServiceTypeOK
  <2>5. QED BY <1>3, <2>2, <2>4 DEF OnStartNotPromoted, Objects
<1>4. CASE OnStop
  <2>1. inbox # << >> /\ ~promoting
        BY <1>4 DEF OnStop, Receives
  <2>2. /\ RuntimeTypeOK'
        /\ queue' \in [Instance -> Seq(Task)]
        /\ desired' \in [Instance -> BOOLEAN]
        BY <1>4, <2>1, HeadType, RequestStopType DEF OnStop
  <2>3. ServiceTypeOK'
        BY <1>4, <2>1, <2>2, HeadType DEF OnStop, RequestStop, ServiceTypeOK
  <2>4. QED BY <1>4, <2>1, <2>2, <2>3 DEF OnStop, Objects
<1>5. CASE OnOther
  <2>1. inbox # << >> /\ ~promoting
        BY <1>5 DEF OnOther, Receives
  <2>2. ServiceTypeOK' /\ RuntimeTypeOK'
        BY <1>5, <2>1, HeadType DEF OnOther, StopSelfResult, ServiceTypeOK, RuntimeTypeOK
  <2>3. QED BY <1>5, <2>1, <2>2 DEF OnOther, Objects
<1>6. CASE OnDestroy
  <2>1. inbox # << >> /\ ~promoting
        BY <1>6 DEF OnDestroy, Receives
  <2>2. RuntimeTypeOK'
        BY <1>6, CompleteStartType
        DEF OnDestroy, ClearPendingStart, RuntimeTypeOK, Result, State
  <2>3. [type |-> "stop", id |-> 0, self |-> FALSE] \in Task
        BY DEF Task
  <2>4. queue' \in [Instance -> Seq(Task)]
        BY <1>6, <2>1, <2>3, HeadType, EnqueueType DEF OnDestroy, ServiceTypeOK
  <2>5. desired' \in [Instance -> BOOLEAN]
        BY <1>6 DEF OnDestroy, ServiceTypeOK
  <2>6. ServiceTypeOK'
        BY <1>6, <2>1, <2>4, <2>5, HeadType DEF OnDestroy, ServiceTypeOK
  <2>7. QED BY <1>6, <2>1, <2>2, <2>6 DEF OnDestroy, Objects
<1>7. QED BY <1>1, <1>2, <1>3, <1>4, <1>5, <1>6 DEF MainStep


LEMMA ExecutorTyping ==
  ASSUME Typing, NEW i \in Instance, StartStep(i) \/ StopStep(i)
  PROVE  RuntimeTypeOK' /\ ServiceTypeOK' /\ Objects'
<1> USE DEF Typing, TypeOK, managerVars, hookVars, runtimeVars
<1>1. ASSUME FinishCancelledStart(i), queue[i] # << >>
      PROVE  RuntimeTypeOK' /\ ServiceTypeOK' /\ Objects'
  <2>1. RuntimeTypeOK'
        BY <1>1 DEF FinishCancelledStart, RuntimeTypeOK, State
  <2>2. queue' \in [Instance -> Seq(Task)] /\ pc' \in [Instance -> ExecPc]
        BY <1>1, ReturnType DEF FinishCancelledStart
  <2>3. ServiceTypeOK'
        BY <1>1, <2>2 DEF FinishCancelledStart, StopSelfResult, ServiceTypeOK
  <2>4. QED BY <1>1, <2>1, <2>3 DEF FinishCancelledStart, Objects
<1>2. CASE StartCancelled(i) \/ CancelBeforeHandOff(i)
      BY <1>1, <1>2 DEF StartCancelled, CancelBeforeHandOff, At
<1>3. CASE StartIgnored(i) \/ ReplyStarted(i)
  <2>1. RuntimeTypeOK'
        BY <1>3, CompleteStartType DEF StartIgnored, ReplyStarted, RuntimeTypeOK, Result
  <2>2. queue' \in [Instance -> Seq(Task)] /\ pc' \in [Instance -> ExecPc]
        BY <1>3, ReturnType DEF StartIgnored, ReplyStarted, At
  <2>3. ServiceTypeOK'
        BY <1>3, <2>2 DEF StartIgnored, ReplyStarted, ServiceTypeOK
  <2>4. QED BY <1>3, <2>1, <2>3 DEF StartIgnored, ReplyStarted, Objects
<1>4. CASE StartConfigured(i) \/ StartConnecting(i)
  <2>1. RuntimeTypeOK'
        BY <1>4 DEF StartConfigured, StartConnecting, RuntimeTypeOK, State
  <2>2. pc' \in [Instance -> ExecPc]
        BY <1>4, GotoType DEF StartConfigured, StartConnecting, ExecPc
  <2>3. ServiceTypeOK'
        BY <1>4, <2>2 DEF StartConfigured, StartConnecting, ServiceTypeOK
  <2>4. QED BY <1>4, <2>1, <2>3 DEF StartConfigured, StartConnecting, Objects
<1>5. CASE StartNotConfigured(i)
  <2>1. RuntimeTypeOK'
        BY <1>5, CompleteStartType DEF StartNotConfigured, RuntimeTypeOK, Result, State
  <2>2. queue' \in [Instance -> Seq(Task)] /\ pc' \in [Instance -> ExecPc]
        BY <1>5, ReturnType DEF StartNotConfigured, At
  <2>3. ServiceTypeOK'
        BY <1>5, <2>2 DEF StartNotConfigured, StopSelfResult, ServiceTypeOK
  <2>4. QED BY <1>5, <2>1, <2>3 DEF StartNotConfigured, Objects
<1>6. CASE OpenTun(i)
  <2>1. pc' \in [Instance -> ExecPc]
        BY <1>6, GotoType DEF OpenTun, ExecPc
  <2>2. ServiceTypeOK'
        BY <1>6, <2>1 DEF OpenTun, ServiceTypeOK
  <2>3. QED BY <1>6, <2>2 DEF OpenTun, RuntimeTypeOK, Objects
<1>7. CASE HandOff(i) \/ NativeStart(i) \/ NativeStarted(i)
  <2>1. pc' \in [Instance -> ExecPc]
        BY <1>7, GotoType DEF HandOff, NativeStart, NativeStarted, ExecPc
  <2>2. ServiceTypeOK'
        BY <1>7, <2>1 DEF HandOff, NativeStart, NativeStarted, ServiceTypeOK, Native
  <2>3. QED BY <1>7, <2>2 DEF HandOff, NativeStart, NativeStarted, RuntimeTypeOK, Objects
<1>8. CASE StartedTooLate(i)
  <2>1. queue' \in [Instance -> Seq(Task)] /\ pc' \in [Instance -> ExecPc]
        BY <1>8, ReturnType DEF StartedTooLate, At
  <2>2. ServiceTypeOK'
        BY <1>8, <2>1 DEF StartedTooLate, ServiceTypeOK
  <2>3. QED BY <1>8, <2>2 DEF StartedTooLate, RuntimeTypeOK, Objects
<1>9. CASE StartedInTime(i) \/ AnnounceConnected(i)
  <2>1. RuntimeTypeOK'
        BY <1>9 DEF StartedInTime, AnnounceConnected, RuntimeTypeOK, State
  <2>2. pc' \in [Instance -> ExecPc]
        BY <1>9, GotoType DEF StartedInTime, AnnounceConnected, ExecPc
  <2>3. ServiceTypeOK'
        BY <1>9, <2>2 DEF StartedInTime, AnnounceConnected, ServiceTypeOK
  <2>4. QED BY <1>9, <2>1, <2>3 DEF StartedInTime, AnnounceConnected, Objects
<1>10. CASE StartFailed(i) \/ FailedNativeStop(i)
  <2>1. pc' \in [Instance -> ExecPc]
        BY <1>10, GotoType DEF StartFailed, FailedNativeStop, ExecPc
  <2>2. ServiceTypeOK'
        BY <1>10, <2>1 DEF StartFailed, FailedNativeStop, ServiceTypeOK, Native
  <2>3. QED BY <1>10, <2>2 DEF StartFailed, FailedNativeStop, RuntimeTypeOK, Objects
<1>11. CASE GiveUpStart(i)
  <2>1. RuntimeTypeOK'
        BY <1>11, CompleteStartType DEF GiveUpStart, RuntimeTypeOK, Result, State
  <2>2. queue' \in [Instance -> Seq(Task)] /\ pc' \in [Instance -> ExecPc]
        BY <1>11, ReturnType DEF GiveUpStart, At
  <2>3. ServiceTypeOK'
        BY <1>11, <2>2 DEF GiveUpStart, StopSelfResult, ServiceTypeOK
  <2>4. QED BY <1>11, <2>1, <2>3 DEF GiveUpStart, Objects
<1>12. CASE StopBegin(i) \/ NativeStop(i)
  <2>1. pc' \in [Instance -> ExecPc]
        BY <1>12, GotoType DEF StopBegin, NativeStop, ExecPc
  <2>2. ServiceTypeOK'
        BY <1>12, <2>1 DEF StopBegin, NativeStop, ServiceTypeOK, Native
  <2>3. QED BY <1>12, <2>2 DEF StopBegin, NativeStop, RuntimeTypeOK, Objects
<1>13. CASE StopDone(i)
  <2>1. RuntimeTypeOK'
        BY <1>13, CompleteStopType DEF StopDone, RuntimeTypeOK, Result, State
  <2>2. pc' \in [Instance -> ExecPc]
        BY <1>13, GotoType DEF StopDone, ExecPc
  <2>3. ServiceTypeOK'
        BY <1>13, <2>2 DEF StopDone, ServiceTypeOK
  <2>4. QED BY <1>13, <2>1, <2>3 DEF StopDone, Objects
<1>14. CASE StopLeave(i)
  <2>1. queue' \in [Instance -> Seq(Task)] /\ pc' \in [Instance -> ExecPc]
        BY <1>14, ReturnType DEF StopLeave, At
  <2>2. started' \in BOOLEAN
        BY <1>14 DEF StopLeave, StopSelf, StopSelfResult, ServiceTypeOK
  <2>3. ServiceTypeOK'
        BY <1>14, <2>1, <2>2 DEF StopLeave, ServiceTypeOK
  <2>4. QED BY <1>14, <2>3 DEF StopLeave, RuntimeTypeOK, Objects
<1>15. QED
  BY <1>2, <1>3, <1>4, <1>5, <1>6, <1>7, <1>8, <1>9, <1>10, <1>11, <1>12, <1>13, <1>14
  DEF StartStep, StopStep

LEMMA ServiceTyping ==
  ASSUME Typing, ServiceStep
  PROVE  RuntimeTypeOK' /\ ServiceTypeOK' /\ Objects'
<1>1. CASE BringDown
  <2>1. instance \in Instance
        BY <1>1 DEF BringDown, Typing, TypeOK, ServiceTypeOK, Objects
  <2>2. [to |-> instance, type |-> "destroy", id |-> 0] \in Message
        BY <2>1 DEF Message
  <2>3. /\ inbox' \in Seq(Message)
        /\ inbox # << >> => inbox' # << >> /\ Head(inbox') = Head(inbox)
        BY <1>1, <2>2 DEF BringDown, Typing, TypeOK, ServiceTypeOK
  <2>4. ServiceTypeOK' /\ RuntimeTypeOK'
        BY <1>1, <2>3
        DEF BringDown, Typing, TypeOK, ServiceTypeOK, RuntimeTypeOK, execVars, hookVars,
            runtimeVars
  <2>5. QED BY <1>1, <2>3, <2>4 DEF BringDown, Typing, Objects
<1>2. CASE OnRevoke
  <2>1. instance \in Instance
        BY <1>2 DEF OnRevoke, Typing, TypeOK, ServiceTypeOK, Objects
  <2>2. /\ RuntimeTypeOK'
        /\ queue' \in [Instance -> Seq(Task)]
        /\ desired' \in [Instance -> BOOLEAN]
        BY <1>2, <2>1, RequestStopType DEF OnRevoke
  <2>3. external' \in 0 .. MaxExternal /\ started' \in BOOLEAN
        BY <1>2, ServiceAssumption DEF OnRevoke, StopSelf, Typing, TypeOK, ServiceTypeOK
  <2>4. ServiceTypeOK'
        BY <1>2, <2>2, <2>3
        DEF OnRevoke, RequestStop, Typing, TypeOK, ServiceTypeOK, hookVars
  <2>5. QED BY <1>2, <2>2, <2>4 DEF OnRevoke, Typing, Objects
<1>3. QED BY <1>1, <1>2, MainTyping, ExecutorTyping DEF ServiceStep


\* What the plugin's variables are.
PluginTypeOK ==
  /\ calls \in 0 .. MaxCall
  /\ startTimers \in SUBSET Call
  /\ stopTimers \in SUBSET Call
  /\ pendingPermission \in BOOLEAN
  /\ dialogs \in Nat

LEMMA PluginStartTyping ==
  ASSUME Typing, NEW c \in Call, PluginStart(c)
  PROVE  /\ pendingStart' \in Call \cup {0}
         /\ reply' \in [Call -> Seq(Result)]
         /\ startTimers' \in SUBSET Call
         /\ pendingPermission' \in BOOLEAN
         /\ dialogs' \in Nat
         /\ ServiceTypeOK' /\ Objects'
<1> USE DEF Typing, TypeOK
<1>1. UNCHANGED serviceVars => ServiceTypeOK' /\ Objects'
      BY DEF serviceVars, managerVars, execVars, hookVars, ServiceTypeOK, Objects
<1>2. IntentSent("start") => ServiceTypeOK' /\ Objects'
      BY IntentSentType
<1>3. Answered(c, "error") \in [Call -> Seq(Result)]
      BY AnsweredType DEF Result
<1>4. CASE RefuseStart(c)
      BY <1>1, <1>3, <1>4 DEF RefuseStart, RuntimeTypeOK
<1>5. CASE WaitForStart(c)
  <2>1. ServiceTypeOK' /\ Objects'
        BY <1>1, <1>2, <1>5 DEF WaitForStart
  <2>2. pendingPermission' \in BOOLEAN
        BY <1>5 DEF WaitForStart
  <2>3. dialogs' \in Nat /\ startTimers' \in SUBSET Call
        BY <1>5 DEF WaitForStart
  <2>4. QED BY <1>5, <2>1, <2>2, <2>3 DEF WaitForStart, RuntimeTypeOK
<1>6. CASE FailStartAtOnce(c)
      BY <1>1, <1>3, <1>6 DEF FailStartAtOnce, RuntimeTypeOK
<1>7. QED BY <1>4, <1>5, <1>6 DEF PluginStart

\* A call gets the next number.
LEMMA NewCallType ==
  ASSUME Typing, NEW method \in {"start", "stop", "restart"}, NewCall(method)
  PROVE  /\ calls + 1 \in Call
         /\ calls' \in 0 .. MaxCall
         /\ kind' \in [Call -> Kind]
BY RuntimeAssumption DEF Typing, TypeOK, RuntimeTypeOK, NewCall, Call, Kind

LEMMA PluginTyping ==
  ASSUME Typing, PluginStep
  PROVE  RuntimeTypeOK' /\ ServiceTypeOK' /\ Objects' /\ PluginTypeOK'
<1> USE DEF Typing, TypeOK, pluginVars
<1>1. UNCHANGED serviceVars => ServiceTypeOK' /\ Objects'
      BY DEF serviceVars, managerVars, execVars, hookVars, ServiceTypeOK, Objects
<1>2. \A type \in {"start", "stop", "other"} : IntentSent(type) => ServiceTypeOK' /\ Objects'
      BY IntentSentType
<1>3. CASE PrepareConfig
      BY <1>1, <1>3 DEF PrepareConfig, RuntimeTypeOK, PluginTypeOK
<1>4. CASE CallStart
      BY <1>4, NewCallType, PluginStartTyping
      DEF CallStart, NewCall, RuntimeTypeOK, PluginTypeOK
<1>5. ASSUME NEW method \in {"stop", "restart"}, CallStop(method)
      PROVE  RuntimeTypeOK' /\ ServiceTypeOK' /\ Objects' /\ PluginTypeOK'
  <2> DEFINE c == calls + 1
  <2>1. c \in Call /\ calls' \in 0 .. MaxCall /\ kind' \in [Call -> Kind]
        BY <1>5, NewCallType DEF CallStop
  <2>2. Answered(c, "error") \in [Call -> Seq(Result)]
        BY <2>1, AnsweredType DEF Result
  <2>3. /\ pendingStop' \in Call \cup {0} /\ reply' \in [Call -> Seq(Result)]
        /\ stopTimers' \in SUBSET Call
        BY <1>5, <2>1, <2>2 DEF CallStop, RuntimeTypeOK
  <2>4. ServiceTypeOK' /\ Objects'
        BY <1>1, <1>2, <1>5 DEF CallStop, IntentLost
  <2>5. QED BY <1>5, <2>1, <2>3, <2>4 DEF CallStop, NewCall, RuntimeTypeOK, PluginTypeOK
<1>6. CASE ContinueRestart
  <2>1. Head(posted) \in Call /\ posted' \in Seq(Call)
        BY <1>6 DEF ContinueRestart, RuntimeTypeOK
  <2>2. QED BY <1>6, <2>1, PluginStartTyping DEF ContinueRestart, RuntimeTypeOK, PluginTypeOK
<1>7. CASE PermissionResult
  <2>1. pendingStart' \in Call \cup {0} /\ reply' \in [Call -> Seq(Result)]
        BY <1>7, CompleteStartType DEF PermissionResult, RuntimeTypeOK, Result
  <2>2. ServiceTypeOK' /\ Objects'
        BY <1>1, <1>2, <1>7 DEF PermissionResult
  <2>3. pendingPermission' \in BOOLEAN
        BY <1>7 DEF PermissionResult
  <2>4. dialogs' \in Nat /\ RuntimeTypeOK'
        BY <1>7, <2>1 DEF PermissionResult, RuntimeTypeOK
  <2>5. QED BY <1>7, <2>2, <2>3, <2>4 DEF PermissionResult, PluginTypeOK
<1>8. ASSUME NEW c \in Call, StartTimeout(c)
      PROVE  RuntimeTypeOK' /\ ServiceTypeOK' /\ Objects' /\ PluginTypeOK'
  <2>1. pendingStart' \in Call \cup {0} /\ reply' \in [Call -> Seq(Result)]
        BY <1>8, CompleteStartType DEF StartTimeout, Result
  <2>2. ServiceTypeOK' /\ Objects'
        BY <1>1, <1>2, <1>8 DEF StartTimeout, IntentLost
  <2>3. QED BY <1>8, <2>1, <2>2 DEF StartTimeout, RuntimeTypeOK, PluginTypeOK
<1>9. ASSUME NEW c \in Call, StopTimeout(c)
      PROVE  RuntimeTypeOK' /\ ServiceTypeOK' /\ Objects' /\ PluginTypeOK'
  <2>1. /\ pendingStop' \in Call \cup {0} /\ reply' \in [Call -> Seq(Result)]
        /\ posted' \in Seq(Call)
        BY <1>9, CompleteStopType DEF StopTimeout, Result
  <2>2. QED BY <1>1, <1>9, <2>1 DEF StopTimeout, RuntimeTypeOK, PluginTypeOK
<1>10. ASSUME NEW type \in {"start", "stop", "other"}, ExternalIntent(type)
       PROVE  RuntimeTypeOK' /\ ServiceTypeOK' /\ Objects' /\ PluginTypeOK'
  <2>1. external' \in 0 .. MaxExternal
        BY <1>10, ServiceAssumption DEF ExternalIntent, ServiceTypeOK
  <2>2. ServiceTypeOK'
        BY <1>10, <2>1, SendIntentType
        DEF ExternalIntent, ServiceTypeOK, execVars, hookVars
  <2>3. Objects'
        BY <1>10, SendIntentType DEF ExternalIntent, Objects, Instance
  <2>4. QED BY <1>10, <2>2, <2>3 DEF ExternalIntent, RuntimeTypeOK, PluginTypeOK, runtimeVars
<1>11. Outside \subseteq {"start", "stop", "other"}
       BY DEF Outside
<1>12. QED
  BY <1>3, <1>4, <1>5, <1>6, <1>7, <1>8, <1>9, <1>10, <1>11 DEF PluginStep

LEMMA TypingStep == Typing /\ [Next]_vars => Typing'
<1> SUFFICES ASSUME Typing, [Next]_vars PROVE Typing'
    OBVIOUS
<1>1. CASE PluginStep
      BY <1>1, PluginTyping DEF Typing, TypeOK, PluginTypeOK
<1>2. CASE ServiceStep /\ UNCHANGED pluginVars
      BY <1>2, ServiceTyping DEF Typing, TypeOK, pluginVars
<1>3. CASE UNCHANGED vars
      BY <1>3
      DEF Typing, TypeOK, RuntimeTypeOK, ServiceTypeOK, Objects, vars, runtimeVars, serviceVars,
          managerVars, execVars, hookVars, pluginVars
<1>4. QED BY <1>1, <1>2, <1>3 DEF Next

\* The runtime, the service and the plugin keep their types, for any number of
\* calls and service objects and with every fault: a message finds its service
\* object, and no task is taken from an empty queue.
THEOREM VpnTypeCorrect == Spec => []TypeOK
<1>1. Typing => TypeOK
      BY DEF Typing
<1>2. QED BY <1>1, TypingInit, TypingStep, PTL DEF Spec


----------------------------------------------------------------------------
(* The waiters.                                                            *)

waiters == <<kind, reply, pendingStart, pendingStop, posted, calls>>

\* A call that waits has no answer yet, and waits in one place: for a start, for a
\* stop, or as a posted continuation.
Waiting ==
  /\ \A c \in Call : kind[c] = "none" <=> c > calls
  /\ \A c \in Call : kind[c] = "none" => reply[c] = << >>
  /\ pendingStart # 0 =>
       kind[pendingStart] \in {"start", "restart"} /\ reply[pendingStart] = << >>
  /\ pendingStop # 0 =>
       /\ kind[pendingStop] \in {"stop", "restart"} /\ reply[pendingStop] = << >>
       /\ pendingStop # pendingStart
  /\ \A k \in DOMAIN posted :
       /\ kind[posted[k]] = "restart" /\ reply[posted[k]] = << >>
       /\ posted[k] \notin {pendingStart, pendingStop}
  /\ \A k, m \in DOMAIN posted : k # m => posted[k] # posted[m]

LEMMA WaitingInit == Init => Waiting
<1> SUFFICES ASSUME Init PROVE Waiting
    OBVIOUS
<1>1. \A c \in Call : c > calls /\ kind[c] = "none" /\ reply[c] = << >>
      BY RuntimeAssumption DEF Init, RuntimeInit, Call
<1>2. pendingStart = 0 /\ pendingStop = 0 /\ posted = << >>
      BY DEF Init, RuntimeInit
<1>3. QED BY <1>1, <1>2 DEF Waiting

\* All that a step may do to the waiters, and who says "done".
WaiterStep ==
  \/ UNCHANGED waiters
  \/ \E res \in Result :
       /\ CompleteStart(res)
       /\ res = "done" => \E i \in Instance : StartIgnored(i) \/ ReplyStarted(i)
       /\ UNCHANGED <<kind, pendingStop, posted, calls, native>>
  \/ \E res \in Result :
       /\ CompleteStop(res)
       /\ res = "done" => \E i \in Instance : At(i, "stopped") /\ StopDone(i)
       /\ UNCHANGED <<kind, pendingStart, calls, native>>
  \/ CallStart
  \/ CallStop("stop") \/ CallStop("restart")
  \/ ContinueRestart

LEMMA MainWaiters == MainStep /\ UNCHANGED calls => WaiterStep
<1> SUFFICES ASSUME MainStep, UNCHANGED calls PROVE WaiterStep
    OBVIOUS
<1> USE DEF waiters, runtimeVars, execVars
<1>1. CASE OnStart \/ OnStartPromoted \/ OnOther
      BY <1>1 DEF OnStart, OnStartPromoted, OnOther, WaiterStep
<1>2. CASE OnStartNotPromoted \/ OnStop \/ OnDestroy
      BY <1>2 DEF OnStartNotPromoted, OnStop, RequestStop, OnDestroy, ClearPendingStart,
         WaiterStep, Result
<1>3. QED BY <1>1, <1>2 DEF MainStep

LEMMA ExecutorWaiters ==
  ASSUME NEW i \in Instance, StartStep(i) \/ StopStep(i), UNCHANGED calls
  PROVE  WaiterStep
<1> USE DEF waiters, runtimeVars
<1>1. CASE \/ StartCancelled(i) \/ StartConfigured(i) \/ StartConnecting(i) \/ OpenTun(i)
           \/ CancelBeforeHandOff(i) \/ HandOff(i) \/ NativeStart(i) \/ NativeStarted(i)
      BY <1>1 DEF StartCancelled, StartConfigured, StartConnecting, OpenTun,
         CancelBeforeHandOff, HandOff, NativeStart, NativeStarted, FinishCancelledStart,
         WaiterStep
<1>2. CASE \/ StartedTooLate(i) \/ StartedInTime(i) \/ AnnounceConnected(i) \/ StartFailed(i)
           \/ FailedNativeStop(i) \/ StopBegin(i) \/ NativeStop(i) \/ StopLeave(i)
      BY <1>2 DEF StartedTooLate, StartedInTime, AnnounceConnected, StartFailed,
         FailedNativeStop, StopBegin, NativeStop, StopLeave, WaiterStep
<1>3. CASE StartIgnored(i) \/ ReplyStarted(i)
      BY <1>3 DEF StartIgnored, ReplyStarted, WaiterStep, Result
<1>4. CASE StartNotConfigured(i) \/ GiveUpStart(i)
      BY <1>4 DEF StartNotConfigured, GiveUpStart, WaiterStep, Result
<1>5. CASE StopDone(i)
      BY <1>5 DEF StopDone, WaiterStep, Result
<1>6. QED BY <1>1, <1>2, <1>3, <1>4, <1>5 DEF StartStep, StopStep

LEMMA StepOfWaiters == [Next]_vars => WaiterStep
<1> SUFFICES ASSUME [Next]_vars PROVE WaiterStep
    OBVIOUS
<1>1. CASE PluginStep
  <2> USE DEF waiters, runtimeVars, pluginVars, serviceVars, execVars, IntentSent, IntentLost
  <2>1. CASE PrepareConfig \/ (\E type \in Outside : ExternalIntent(type))
        BY <2>1 DEF PrepareConfig, ExternalIntent, WaiterStep
  <2>2. CASE CallStart \/ (\E method \in {"stop", "restart"} : CallStop(method))
             \/ ContinueRestart
        BY <2>2 DEF WaiterStep
  <2>3. CASE PermissionResult
    <3>1. CASE UNCHANGED <<pendingStart, reply>>
          BY <2>3, <3>1 DEF PermissionResult, WaiterStep
    <3>2. CASE CompleteStart("error") /\ UNCHANGED serviceVars
          BY <2>3, <3>2 DEF PermissionResult, WaiterStep, Result
    <3>3. QED BY <2>3, <3>1, <3>2 DEF PermissionResult
  <2>4. ASSUME NEW c \in Call, StartTimeout(c) PROVE WaiterStep
        BY <2>4 DEF StartTimeout, WaiterStep, Result
  <2>5. ASSUME NEW c \in Call, StopTimeout(c) PROVE WaiterStep
        BY <2>5 DEF StopTimeout, WaiterStep, Result
  <2>6. QED BY <1>1, <2>1, <2>2, <2>3, <2>4, <2>5 DEF PluginStep
<1>2. CASE ServiceStep /\ UNCHANGED pluginVars
  <2>1. UNCHANGED calls
        BY <1>2 DEF pluginVars
  <2>2. CASE BringDown
        BY <2>1, <2>2 DEF BringDown, runtimeVars, waiters, WaiterStep
  <2>3. CASE OnRevoke
        BY <2>1, <2>3 DEF OnRevoke, RequestStop, ClearPendingStart, WaiterStep, Result
  <2>4. QED BY <1>2, <2>1, <2>2, <2>3, MainWaiters, ExecutorWaiters DEF ServiceStep
<1>3. CASE UNCHANGED vars
      BY <1>3 DEF vars, runtimeVars, pluginVars, waiters, WaiterStep
<1>4. QED BY <1>1, <1>2, <1>3 DEF Next


\* An answer goes to one call.
LEMMA AnsweredOnly ==
  ASSUME Typing, NEW c \in Call \cup {0}, NEW res \in Result
  PROVE  /\ c = 0 => Answered(c, res) = reply
         /\ \A d \in Call : d # c => Answered(c, res)[d] = reply[d]
         /\ c # 0 => Answered(c, res) = [reply EXCEPT ![c] = Append(reply[c], res)]
BY DEF Typing, TypeOK, RuntimeTypeOK, Answered

\* The waiters are calls that were made.
LEMMA WaitersCalled ==
  ASSUME Typing, Waiting
  PROVE  /\ pendingStart \in Call \cup {0} /\ pendingStop \in Call \cup {0}
         /\ 0 \notin Call
         /\ calls < MaxCall => calls + 1 \in Call /\ kind[calls + 1] = "none"
                               /\ reply[calls + 1] = << >>
         /\ calls + 1 # 0
         /\ \A k \in DOMAIN posted : posted[k] \in Call
<1>1. calls < MaxCall => calls + 1 \in Call
      BY RuntimeAssumption DEF Typing, TypeOK, Call
<1>2. calls \in Nat /\ calls + 1 > calls /\ calls + 1 # 0 /\ 0 \notin Call
      BY RuntimeAssumption DEF Typing, TypeOK, Call
<1>3. \A k \in DOMAIN posted : posted[k] \in Call
      BY DEF Typing, TypeOK, RuntimeTypeOK
<1>4. QED BY <1>1, <1>2, <1>3 DEF Typing, TypeOK, RuntimeTypeOK, Waiting

\* A start refuses, waits or fails; the call has no answer and waits nowhere else.
LEMMA PluginStartWaits ==
  ASSUME Typing, NEW c \in Call, PluginStart(c)
  PROVE  \/ /\ pendingStart' = pendingStart
            /\ reply' = [reply EXCEPT ![c] = Append(reply[c], "error")]
         \/ pendingStart = 0 /\ pendingStart' = c /\ reply' = reply
<1>1. c # 0
      BY DEF Call
<1>2. QED BY <1>1 DEF PluginStart, RefuseStart, WaitForStart, FailStartAtOnce, Answered

LEMMA WaitingStep == Typing /\ Waiting /\ [Next]_vars => Waiting'
<1> SUFFICES ASSUME Typing, Waiting, WaiterStep PROVE Waiting'
    BY StepOfWaiters
<1> USE WaitersCalled
<1>0. /\ kind \in [Call -> Kind] /\ reply \in [Call -> Seq(Result)] /\ posted \in Seq(Call)
      /\ calls \in 0 .. MaxCall
      BY DEF Typing, TypeOK, RuntimeTypeOK
<1>1. CASE UNCHANGED waiters
      BY <1>1 DEF waiters, Waiting
<1>2. ASSUME NEW res \in Result, CompleteStart(res),
             UNCHANGED <<kind, pendingStop, posted, calls>>
      PROVE  Waiting'
  <2>1. \A d \in Call : d # pendingStart => reply'[d] = reply[d]
        BY <1>2, AnsweredOnly DEF CompleteStart
  <2>2. pendingStart' = 0
        BY <1>2 DEF CompleteStart
  <2>3. \A d \in Call : kind[d] = "none" => reply'[d] = << >>
        BY <2>1 DEF Waiting
  <2>4. pendingStop # 0 => reply'[pendingStop] = << >>
        BY <2>1 DEF Waiting
  <2>5. \A k \in DOMAIN posted : reply'[posted[k]] = << >>
        BY <2>1 DEF Waiting
  <2>6. QED BY <1>2, <2>2, <2>3, <2>4, <2>5 DEF Waiting
<1>3. ASSUME NEW res \in Result, CompleteStop(res), UNCHANGED <<kind, pendingStart, calls>>
      PROVE  Waiting'
  <2>1. pendingStop' = 0
        BY <1>3 DEF CompleteStop
  <2>2. CASE posted' = posted /\ reply' = Answered(pendingStop, res)
    <3>1. \A d \in Call : d # pendingStop => reply'[d] = reply[d]
          BY <2>2, AnsweredOnly
    <3>2. \A d \in Call : kind[d] = "none" => reply'[d] = << >>
          BY <3>1 DEF Waiting
    <3>3. pendingStart # 0 => reply'[pendingStart] = << >>
          BY <3>1 DEF Waiting
    <3>4. \A k \in DOMAIN posted : reply'[posted[k]] = << >>
          BY <3>1 DEF Waiting
    <3>5. QED BY <1>3, <2>1, <2>2, <3>2, <3>3, <3>4 DEF Waiting
  <2>3. CASE /\ pendingStop # 0 /\ kind[pendingStop] = "restart"
             /\ posted' = Append(posted, pendingStop) /\ reply' = reply
    <3>1. DOMAIN posted' = 1 .. Len(posted) + 1 /\ DOMAIN posted = 1 .. Len(posted)
          BY <1>0, <2>3
    <3>2. \A k \in DOMAIN posted : posted'[k] = posted[k]
          BY <1>0, <2>3
    <3>3. posted'[Len(posted) + 1] = pendingStop
          BY <1>0, <2>3
    <3>4. \A k \in DOMAIN posted' :
            k \in DOMAIN posted \/ k = Len(posted) + 1
          BY <1>0, <3>1
    <3>5. \A k \in DOMAIN posted' :
            /\ kind[posted'[k]] = "restart" /\ reply[posted'[k]] = << >>
            /\ posted'[k] \notin {pendingStart, 0}
          BY <2>3, <3>2, <3>3, <3>4 DEF Waiting
    <3>6. \A k, m \in DOMAIN posted' : k # m => posted'[k] # posted'[m]
          BY <3>2, <3>3, <3>4 DEF Waiting
    <3>7. QED BY <1>3, <2>1, <2>3, <3>5, <3>6 DEF Waiting
  <2>4. QED BY <1>3, <2>2, <2>3 DEF CompleteStop
<1>4. CASE CallStart
  <2> DEFINE c == calls + 1
  <2>1. c \in Call /\ kind[c] = "none" /\ reply[c] = << >> /\ c # 0
        BY <1>4 DEF CallStart, NewCall
  <2>2. kind' = [kind EXCEPT ![c] = "start"] /\ calls' = c /\ UNCHANGED <<pendingStop, posted>>
        BY <1>4 DEF CallStart, NewCall
  <2>3. \A d \in Call : kind'[d] = "none" <=> d > calls'
        BY <1>0, <2>1, <2>2 DEF Waiting, Call
  <2>4. \A d \in Call : d # c => kind'[d] = kind[d]
        BY <1>0, <2>2
  <2>5. kind'[c] = "start"
        BY <1>0, <2>1, <2>2
  <2> HIDE DEF c
  <2>6. c \notin {pendingStart, pendingStop} /\ \A k \in DOMAIN posted : posted[k] # c
        BY <2>1 DEF Waiting
  <2>7. CASE pendingStart' = pendingStart /\ reply' = [reply EXCEPT ![c] = Append(reply[c], "error")]
    <3>1. \A d \in Call : d # c => reply'[d] = reply[d]
          BY <1>0, <2>7
    <3>2. QED BY <2>2, <2>3, <2>4, <2>5, <2>6, <2>7, <3>1 DEF Waiting
  <2>8. CASE pendingStart = 0 /\ pendingStart' = c /\ reply' = reply
        BY <2>1, <2>2, <2>3, <2>4, <2>5, <2>6, <2>8 DEF Waiting
  <2>9. QED BY <1>4, <2>1, <2>7, <2>8, PluginStartWaits DEF CallStart, c
<1>5. ASSUME NEW method \in {"stop", "restart"}, CallStop(method) PROVE Waiting'
  <2> DEFINE c == calls + 1
  <2>1. c \in Call /\ kind[c] = "none" /\ reply[c] = << >> /\ c # 0
        BY <1>5 DEF CallStop, NewCall
  <2>2. /\ kind' = [kind EXCEPT ![c] = method] /\ calls' = c
        /\ UNCHANGED <<pendingStart, posted>>
        BY <1>5 DEF CallStop, NewCall
  <2>3. \A d \in Call : kind'[d] = "none" <=> d > calls'
        BY <1>0, <2>1, <2>2 DEF Waiting, Call
  <2>4. \A d \in Call : d # c => kind'[d] = kind[d]
        BY <1>0, <2>2
  <2>5. kind'[c] = method
        BY <1>0, <2>1, <2>2
  <2>6. \/ pendingStop' = pendingStop /\ reply' = [reply EXCEPT ![c] = Append(reply[c], "error")]
        \/ pendingStop = 0 /\ pendingStop' = c /\ reply' = reply
        BY <1>5, <2>1 DEF CallStop, Answered
  <2> HIDE DEF c
  <2>7. c \notin {pendingStart, pendingStop} /\ \A k \in DOMAIN posted : posted[k] # c
        BY <2>1 DEF Waiting
  <2>8. CASE pendingStop' = pendingStop /\ reply' = [reply EXCEPT ![c] = Append(reply[c], "error")]
    <3>1. \A d \in Call : d # c => reply'[d] = reply[d]
          BY <1>0, <2>8
    <3>2. QED BY <2>2, <2>3, <2>4, <2>5, <2>7, <2>8, <3>1 DEF Waiting
  <2>9. CASE pendingStop = 0 /\ pendingStop' = c /\ reply' = reply
        BY <2>1, <2>2, <2>3, <2>4, <2>5, <2>7, <2>9 DEF Waiting
  <2>10. QED BY <2>6, <2>8, <2>9
<1>6. CASE ContinueRestart
  <2> DEFINE c == Head(posted)
  <2>1. posted # << >> /\ posted' = Tail(posted) /\ UNCHANGED <<kind, pendingStop, calls>>
        BY <1>6 DEF ContinueRestart
  <2>2. /\ 1 \in DOMAIN posted /\ c = posted[1]
        /\ \A k \in DOMAIN posted' : k + 1 \in DOMAIN posted /\ posted'[k] = posted[k + 1]
                                     /\ k + 1 # 1
        /\ \A k, m \in DOMAIN posted' : k # m => k + 1 # m + 1
        BY <1>0, <2>1
  <2> HIDE DEF c
  <2>3. /\ c \in Call /\ kind[c] = "restart" /\ reply[c] = << >> /\ c # 0
        /\ c \notin {pendingStart, pendingStop}
        BY <2>2 DEF Waiting
  <2>4. \A k \in DOMAIN posted' :
          /\ kind[posted'[k]] = "restart" /\ reply[posted'[k]] = << >>
          /\ posted'[k] \notin {pendingStart, pendingStop, c}
          /\ posted'[k] \in Call
        BY <2>2 DEF Waiting
  <2>5. \A k, m \in DOMAIN posted' : k # m => posted'[k] # posted'[m]
        BY <2>2 DEF Waiting
  <2>6. CASE pendingStart' = pendingStart /\ reply' = [reply EXCEPT ![c] = Append(reply[c], "error")]
    <3>1. \A d \in Call : d # c => reply'[d] = reply[d]
          BY <1>0, <2>6
    <3>2. QED BY <2>1, <2>3, <2>4, <2>5, <2>6, <3>1 DEF Waiting
  <2>7. CASE pendingStart = 0 /\ pendingStart' = c /\ reply' = reply
        BY <2>1, <2>3, <2>4, <2>5, <2>7 DEF Waiting
  <2>8. QED BY <1>6, <2>3, <2>6, <2>7, PluginStartWaits DEF ContinueRestart, c
<1>7. QED BY <1>1, <1>2, <1>3, <1>4, <1>5, <1>6 DEF WaiterStep


----------------------------------------------------------------------------
(* The contract: answers.                                                  *)

\* The first answer of a call.
LEMMA FirstAnswer ==
  ASSUME Typing, NEW c \in Call, NEW res \in Result, reply[c] = << >>
  PROVE  [reply EXCEPT ![c] = Append(reply[c], res)] = [reply EXCEPT ![c] = <<res>>]
<1>1. Append(reply[c], res) = <<res>>
  <2>1. << >> \in Seq(Result) /\ Len(<< >>) = 0
        OBVIOUS
  <2>2. QED BY <2>1
<1>2. QED BY <1>1

\* A completed waiter is a call that was made and not answered before.
LEMMA CompletionAnswers ==
  ASSUME Typing, Waiting, NEW c \in {pendingStart, pendingStop}, NEW res \in Result,
         reply' = Answered(c, res), UNCHANGED <<kind, native>>
  PROVE  \/ c = 0 /\ UNCHANGED <<kind, reply, native>>
         \/ c # 0 /\ c \in Call /\ Contract!Answer(c, res)
<1>1. CASE c = 0
      BY <1>1 DEF Answered
<1>2. CASE c # 0
  <2>1. c \in Call /\ kind[c] # "none" /\ reply[c] = << >>
        BY <1>2, WaitersCalled DEF Waiting
  <2>2. reply' = [reply EXCEPT ![c] = Append(reply[c], res)]
        BY <1>2 DEF Answered
  <2>3. reply' = [reply EXCEPT ![c] = <<res>>]
        BY <2>1, <2>2, FirstAnswer
  <2>4. QED BY <1>2, <2>1, <2>3 DEF Contract!Answer
<1>3. QED BY <1>1, <1>2

LEMMA StepIsPromised == Typing /\ Waiting /\ [Next]_vars /\ Typing' =>
                          [Contract!ContractNext]_(Contract!contractVars)
<1> SUFFICES ASSUME Typing, Waiting, [Next]_vars, Typing'
             PROVE  [Contract!ContractNext]_(Contract!contractVars)
    OBVIOUS
<1> USE WaitersCalled DEF Contract!contractVars
<1>1. CASE UNCHANGED waiters
  <2>1. native' \in {"stopped", "starting", "running"}
        BY DEF Typing, TypeOK, ServiceTypeOK, Native
  <2>2. QED BY <1>1, <2>1 DEF waiters, Contract!ContractNext, Contract!CoreMoves
<1>2. ASSUME NEW res \in Result, CompleteStart(res), UNCHANGED <<kind, native>>
      PROVE  [Contract!ContractNext]_(Contract!contractVars)
      BY <1>2, CompletionAnswers
      DEF CompleteStart, Contract!ContractNext, Result, Contract!Result
<1>3. ASSUME NEW res \in Result, CompleteStop(res), UNCHANGED <<kind, native>>
      PROVE  [Contract!ContractNext]_(Contract!contractVars)
  <2>1. CASE reply' = reply
        BY <1>3, <2>1
  <2>2. CASE reply' = Answered(pendingStop, res)
        BY <1>3, <2>2, CompletionAnswers DEF Contract!ContractNext, Result, Contract!Result
  <2>3. QED BY <1>3, <2>1, <2>2 DEF CompleteStop
<1>4. ASSUME NEW method \in {"start", "stop", "restart"}, NewCall(method), UNCHANGED native,
             reply' = reply \/ reply' = Answered(calls + 1, "error")
      PROVE  [Contract!ContractNext]_(Contract!contractVars)
  <2> DEFINE c == calls + 1
  <2>1. /\ c \in Call /\ c # 0 /\ kind[c] = "none" /\ reply[c] = << >>
        /\ kind' = [kind EXCEPT ![c] = method]
        BY <1>4 DEF NewCall
  <2>2. Answered(c, "error") = [reply EXCEPT ![c] = <<"error">>]
        BY <2>1, FirstAnswer, AnsweredOnly DEF Result
  <2> HIDE DEF c
  <2>3. Contract!Make(c, method)
        BY <1>4, <2>1, <2>2 DEF Contract!Make, c
  <2>4. QED BY <2>1, <2>3 DEF Contract!ContractNext
<1>5. CASE CallStart
  <2>1. UNCHANGED native /\ (reply' = reply \/ reply' = Answered(calls + 1, "error"))
        BY <1>5 DEF CallStart, PluginStart, RefuseStart, WaitForStart, FailStartAtOnce,
           IntentSent, serviceVars, execVars
  <2>2. QED BY <1>4, <1>5, <2>1 DEF CallStart
<1>6. ASSUME NEW method \in {"stop", "restart"}, CallStop(method)
      PROVE  [Contract!ContractNext]_(Contract!contractVars)
  <2>1. UNCHANGED native /\ (reply' = reply \/ reply' = Answered(calls + 1, "error"))
        BY <1>6 DEF CallStop, IntentSent, IntentLost, serviceVars, execVars
  <2>2. QED BY <1>4, <1>6, <2>1 DEF CallStop
<1>7. CASE ContinueRestart
  <2> DEFINE c == Head(posted)
  <2>1. posted \in Seq(Call) /\ posted # << >>
        BY <1>7 DEF ContinueRestart, Typing, TypeOK, RuntimeTypeOK
  <2>2. 1 \in DOMAIN posted /\ c = posted[1]
        BY <2>1
  <2>3. c \in Call /\ kind[c] # "none" /\ reply[c] = << >>
        BY <2>2 DEF Waiting
  <2>4. UNCHANGED <<kind, native>>
        BY <1>7 DEF ContinueRestart, PluginStart, RefuseStart, WaitForStart, FailStartAtOnce,
           IntentSent, serviceVars, execVars
  <2> HIDE DEF c
  <2>5. CASE reply' = reply
        BY <2>4, <2>5
  <2>6. CASE reply' = [reply EXCEPT ![c] = Append(reply[c], "error")]
    <3>1. Contract!Answer(c, "error")
          BY <2>3, <2>4, <2>6, FirstAnswer DEF Contract!Answer, Result
    <3>2. QED BY <2>3, <3>1 DEF Contract!ContractNext, Contract!Result
  <2>7. QED BY <1>7, <2>3, <2>5, <2>6, PluginStartWaits DEF ContinueRestart, c
<1>8. WaiterStep
      BY StepOfWaiters
<1>9. QED BY <1>1, <1>2, <1>3, <1>5, <1>6, <1>7, <1>8 DEF WaiterStep

\* Whatever completes a waiter - a service object, a stop, a timer, the plugin, the
\* permission dialog - a call is answered at most once, and only after it was made;
\* for any number of calls and service objects, and with every fault.
THEOREM VpnAnswersOnce == Spec => Contract!AnswerSpec
<1>1. Init => Contract!ContractInit
      BY DEF Init, RuntimeInit, ServiceInit, Contract!ContractInit
<1>2. QED
  BY <1>1, TypingInit, TypingStep, WaitingInit, WaitingStep, StepIsPromised, PTL
  DEF Spec, Contract!AnswerSpec
=============================================================================
