-------------------------- MODULE VpnLifecycleProofs --------------------------
(* The life cycle of the VPN, for any number of calls, service objects and  *)
(* outside starts and stops, and whatever fails in configurations, TUN      *)
(* interfaces, native starts, intents and permissions.                      *)
(*                                                                          *)
(* As long as a service object is ended by its own tasks only, one object   *)
(* acts at a time: the activity manager destroys an object whose last       *)
(* request is done, and it is at rest then.  A revocation and an intent of  *)
(* another action end one in the middle of its work, a promotion that fails *)
(* takes back a request in the middle of an earlier one.                    *)
EXTENDS VpnProofs

\* The faults that take this away, and a native stop that fails, which
\* Clashmicore.stop does not declare.
Undisturbed == Faults \cap {"promote", "stop", "other", "revoke"} = {}

----------------------------------------------------------------------------
(* The inductive invariant.                                                *)

\* The object does nothing and holds nothing.
Rest(i) ==
  /\ queue[i] = << >> /\ pc[i] = "idle"
  /\ ~tun[i] /\ ~callback[i] /\ ~coreRunning[i] /\ ~desired[i]

Dormant ==
  /\ \A i \in Instance : Rest(i)
  /\ state = "disconnected" /\ native = "stopped" /\ writer = 0

\* Nobody asks for the service.
Gone == ~started

\* Only the latest object acts, and it was at rest before it was destroyed.
OneActs ==
  /\ ~alive => ~started
  /\ \A i \in Instance : i # instance => Rest(i)
  /\ Gone => /\ Dormant
             /\ inbox # << >> => Head(inbox).type = "destroy" /\ Len(inbox) = 1 /\ ~alive
  /\ inbox # << >> /\ Head(inbox).type = "destroy" => Dormant
  /\ \A k \in DOMAIN inbox : inbox[k].type = "destroy" => k = 1
  /\ \A k \in DOMAIN inbox : inbox[k].type # "destroy" =>
       inbox[k].to = instance /\ inbox[k].type \in {"start", "stop"}

\* Requests are served in the order of their numbers, and the latest one is under
\* way, or it has brought the core up.
Numbered ==
  /\ \A k \in DOMAIN inbox : inbox[k].type # "destroy" => inbox[k].id \in 1 .. lastId
  /\ \A k, m \in DOMAIN inbox :
       k < m /\ inbox[k].type # "destroy" => inbox[k].id < inbox[m].id
  /\ \A i \in Instance :
       /\ \A k \in DOMAIN queue[i] : queue[i][k].id \in 1 .. lastId /\ queue[i][k].self
       /\ \A k, m \in DOMAIN queue[i] : k < m => queue[i][k].id < queue[i][m].id
       /\ \A k \in DOMAIN queue[i], m \in DOMAIN inbox :
            inbox[m].type # "destroy" => queue[i][k].id < inbox[m].id
  /\ ~Gone =>
       \/ \E k \in DOMAIN inbox : inbox[k].type # "destroy" /\ inbox[k].id = lastId
       \/ \E k \in DOMAIN queue[instance] : queue[instance][k].id = lastId
       \/ /\ inbox = << >> /\ queue[instance] = << >>
          /\ coreRunning[instance] /\ desired[instance]

\* Where the program counter may be in a start and in a stop.
Opening  == {"connect", "tun", "check", "handoff", "native", "verify", "announce", "reply"}
Failing  == {"failed", "cleanup", "giveup"}
Stopping == {"stopping", "stopped", "leave"}

\* A stop that has not cleaned up yet.
StopAhead(i) ==
  \E k \in DOMAIN queue[i] : queue[i][k].type = "stop" /\ (k = 1 => pc[i] # "leave")

\* What the executor's place says of its object and of the core.
Placed(i) ==
  /\ pc[i] \in {"idle"} \cup Opening \cup Failing \cup Stopping
  /\ pc[i] \in Opening \cup Failing => queue[i] # << >> /\ Head(queue[i]).type = "start"
  /\ pc[i] \in Stopping => queue[i] # << >> /\ Head(queue[i]).type = "stop"
  /\ coreRunning[i] => pc[i] \in {"idle", "verify", "announce", "reply", "stopping", "stopped"}
  /\ pc[i] \in {"verify", "announce", "reply"} => coreRunning[i]
  /\ coreRunning[i] /\ pc[i] # "stopped" => native = "running"
  /\ pc[i] = "stopped" => native = "stopped"
  /\ pc[i] = "native" => native = "starting"
  /\ tun[i] => pc[i] = "check"
  /\ callback[i] => coreRunning[i] \/ pc[i] \in {"check", "handoff", "native", "failed"}
  /\ pc[i] \in {"check", "handoff", "native"} => callback[i]
  /\ pc[i] \in Stopping => ~callback[i]
  /\ coreRunning[i] \/ pc[i] \in Opening \ {"connect"} => writer = i

\* The last request wins: who is wanted has a start last, a later one than the start
\* that fails; who is not, but runs or opens, has a stop ahead.
Wanted(i) ==
  /\ desired[i] /\ ~promoting /\ queue[i] # << >> => queue[i][Len(queue[i])].type = "start"
  /\ desired[i] /\ ~promoting /\ pc[i] \in {"cleanup", "giveup"} => Len(queue[i]) # 1
  /\ ~desired[i] /\ (coreRunning[i] \/ pc[i] \in Opening) => StopAhead(i)
  /\ coreRunning[i] /\ ~StopAhead(i) =>
       callback[i] /\ (pc[i] \in {"idle", "reply"} => state = "connected")

\* Somebody still has to take back what is there.
Busy(i) == coreRunning[i] \/ pc[i] \in (Opening \ {"connect"}) \cup Failing \/ StopAhead(i)

Owned ==
  /\ native = "running" => \E i \in Instance : coreRunning[i] /\ pc[i] # "stopped"
  /\ native = "starting" => \E i \in Instance : pc[i] = "native"
  /\ state # "disconnected" => \E i \in Instance : Busy(i)
  /\ writer # 0 => writer = instance /\ Busy(writer)

Lifecycle ==
  /\ OneActs /\ Numbered /\ Owned
  /\ \A i \in Instance : Placed(i) /\ Wanted(i)


LEMMA LifecycleInit == Init => Lifecycle
<1> SUFFICES ASSUME Init PROVE Lifecycle
    OBVIOUS
<1>1. /\ inbox = << >> /\ ~started /\ ~alive /\ ~promoting
      /\ state = "disconnected" /\ native = "stopped" /\ writer = 0
      BY DEF Init, ServiceInit, RuntimeInit
<1>2. \A i \in Instance : queue[i] = << >> /\ pc[i] = "idle"
      BY DEF Init, ServiceInit
<1>3. \A i \in Instance : ~tun[i] /\ ~callback[i] /\ ~coreRunning[i] /\ ~desired[i]
      BY DEF Init, ServiceInit
<1>4. Dormant
      BY <1>1, <1>2, <1>3 DEF Dormant, Rest
<1>5. OneActs
      BY <1>1, <1>4 DEF OneActs, Dormant, Gone
<1>6. Numbered
      BY <1>1, <1>2 DEF Numbered, Gone
<1>7. Owned
      BY <1>1 DEF Owned
<1>8. \A i \in Instance : Placed(i) /\ Wanted(i)
      BY <1>1, <1>2, <1>3 DEF Placed, Wanted, Opening, Failing, Stopping
<1>9. QED BY <1>5, <1>6, <1>7, <1>8 DEF Lifecycle

----------------------------------------------------------------------------
(* Who acts.                                                               *)

\* What Owned says of the object that acts.
OwnedBy(i) ==
  /\ native = "running" => coreRunning[i] /\ pc[i] # "stopped"
  /\ native = "starting" => pc[i] = "native"
  /\ state # "disconnected" => Busy(i)
  /\ writer # 0 => writer = i /\ Busy(i)

\* A queue that is not empty, and what is left of it.
LEMMA QueueHead ==
  ASSUME NEW S, NEW q \in Seq(S), q # << >>
  PROVE  /\ Len(q) \in Nat \ {0} /\ DOMAIN q = 1 .. Len(q)
         /\ 1 \in DOMAIN q /\ Len(q) \in DOMAIN q /\ Head(q) = q[1]
         /\ Tail(q) \in Seq(S) /\ Len(Tail(q)) = Len(q) - 1
         /\ Tail(q) = << >> <=> Len(q) = 1
         /\ \A k \in DOMAIN Tail(q) : k + 1 \in DOMAIN q /\ Tail(q)[k] = q[k + 1]
         /\ \A k \in DOMAIN q : k # 1 => k - 1 \in DOMAIN Tail(q) /\ q[k] = Tail(q)[k - 1]
<1>1. Len(q) \in Nat \ {0} /\ DOMAIN q = 1 .. Len(q)
      BY EmptySeq, LenProperties
<1>2. 1 \in DOMAIN q /\ Len(q) \in DOMAIN q /\ Head(q) = q[1]
      BY <1>1
<1>3. /\ Tail(q) \in Seq(S) /\ Len(Tail(q)) = Len(q) - 1
      /\ \A k \in 1 .. Len(Tail(q)) : Tail(q)[k] = q[k + 1]
      BY HeadTailProperties
<1>4. DOMAIN Tail(q) = 1 .. Len(q) - 1
      BY <1>3, LenProperties
<1>5. Tail(q) = << >> <=> Len(q) = 1
      BY <1>1, <1>3, EmptySeq
<1>6. \A k \in DOMAIN Tail(q) : k + 1 \in DOMAIN q /\ Tail(q)[k] = q[k + 1]
      BY <1>1, <1>3, <1>4
<1>7. \A k \in DOMAIN q : k # 1 => k - 1 \in DOMAIN Tail(q) /\ q[k] = Tail(q)[k - 1]
  <2> SUFFICES ASSUME NEW k \in DOMAIN q, k # 1
               PROVE  k - 1 \in DOMAIN Tail(q) /\ q[k] = Tail(q)[k - 1]
      OBVIOUS
  <2>1. k - 1 \in DOMAIN Tail(q) /\ (k - 1) + 1 = k
        BY <1>1, <1>4
  <2>2. QED BY <1>6, <2>1
<1>8. QED BY <1>1, <1>2, <1>3, <1>5, <1>6, <1>7

\* A queue that got another entry.
LEMMA QueueAppended ==
  ASSUME NEW S, NEW q \in Seq(S), NEW e \in S
  PROVE  /\ Append(q, e) \in Seq(S) /\ Append(q, e) # << >>
         /\ Len(Append(q, e)) = Len(q) + 1 /\ Len(q) \in Nat
         /\ Len(q) + 1 \in DOMAIN Append(q, e) /\ Append(q, e)[Len(q) + 1] = e
         /\ DOMAIN q = 1 .. Len(q) /\ DOMAIN Append(q, e) = 1 .. (Len(q) + 1)
         /\ \A k \in DOMAIN q : k \in DOMAIN Append(q, e) /\ Append(q, e)[k] = q[k]
         /\ \A k \in DOMAIN Append(q, e) : k \in DOMAIN q \/ k = Len(q) + 1
         /\ q # << >> => Head(Append(q, e)) = Head(q)
BY AppendProperties

LEMMA RestNotBusy == ASSUME NEW i \in Instance, Rest(i) PROVE ~Busy(i)
BY DEF Rest, Busy, StopAhead, Opening, Failing

LEMMA RestIsFine == ASSUME NEW i \in Instance, Rest(i) PROVE Placed(i) /\ Wanted(i)
BY DEF Rest, Placed, Wanted, Opening, Failing, Stopping

\* An object that has a task is the latest one, alive and started, and no object
\* waits to be destroyed.
LEMMA WhoActs ==
  ASSUME Typing, Lifecycle, NEW i \in Instance, queue[i] # << >>
  PROVE  /\ i = instance /\ alive /\ started
         /\ \A k \in DOMAIN inbox : inbox[k].type # "destroy"
         /\ OwnedBy(i)
<1>1. ~Rest(i) /\ ~Dormant
      BY DEF Rest, Dormant
<1>2. i = instance /\ alive /\ started
      BY <1>1 DEF Lifecycle, OneActs, Gone
<1>3. \A k \in DOMAIN inbox : inbox[k].type # "destroy"
      BY <1>1 DEF Lifecycle, OneActs, Typing, TypeOK, ServiceTypeOK
<1>4. \A j \in Instance : j # i => Rest(j) /\ ~Busy(j)
      BY <1>2, RestNotBusy DEF Lifecycle, OneActs
<1>5. \A j \in Instance : j # i => ~coreRunning[j] /\ pc[j] = "idle"
      BY <1>4 DEF Rest
<1>6. OwnedBy(i)
      BY <1>2, <1>4, <1>5 DEF Lifecycle, Owned, OwnedBy
<1>7. QED BY <1>2, <1>3, <1>6

\* The task of the latest request is the last one, and the last one is its.
LEMMA LastTask ==
  ASSUME Typing, Lifecycle, NEW i \in Instance, queue[i] # << >>
  PROVE  /\ TaskId(i) = lastId <=> Len(queue[i]) = 1 /\ inbox = << >>
         /\ TaskId(i) # 0
<1>0. /\ queue[i] \in Seq(Task) /\ inbox \in Seq(Message) /\ lastId \in Nat
      /\ \A k \in DOMAIN queue[i] : queue[i][k].id \in Nat
      /\ \A k \in DOMAIN inbox : inbox[k].id \in Nat
  <2>1. queue[i] \in Seq(Task) /\ inbox \in Seq(Message) /\ lastId \in Nat
        BY DEF Typing, TypeOK, ServiceTypeOK
  <2>2. /\ \A k \in DOMAIN queue[i] : queue[i][k] \in Task
        /\ \A k \in DOMAIN inbox : inbox[k] \in Message
        BY <2>1
  <2>3. QED BY <2>1, <2>2 DEF Task, Message
<1>1. i = instance /\ started /\ \A k \in DOMAIN inbox : inbox[k].type # "destroy"
      BY WhoActs
<1>2. 1 \in DOMAIN queue[i] /\ TaskId(i) = queue[i][1].id
  <2>1. 1 \in DOMAIN queue[i] /\ Head(queue[i]) = queue[i][1]
        BY <1>0, QueueHead
  <2>2. QED BY <2>1 DEF TaskId
<1>3. TaskId(i) # 0
      BY <1>2 DEF Lifecycle, Numbered
<1>4. ASSUME TaskId(i) = lastId PROVE Len(queue[i]) = 1 /\ inbox = << >>
  <2>1. \A k \in DOMAIN queue[i] : ~(1 < k)
    <3> SUFFICES ASSUME NEW k \in DOMAIN queue[i], 1 < k PROVE FALSE
        OBVIOUS
    <3>1. queue[i][1].id < queue[i][k].id /\ queue[i][k].id <= lastId
          BY <1>0, <1>2 DEF Lifecycle, Numbered
    <3>2. QED BY <1>0, <1>2, <1>4, <3>1
  <2>2. Len(queue[i]) = 1
    <3>0. \A n \in Nat \ {0} : ~(1 < n) => n = 1
          OBVIOUS
    <3>1. Len(queue[i]) \in Nat \ {0} /\ Len(queue[i]) \in DOMAIN queue[i]
          BY <1>0, QueueHead
    <3>2. ~(1 < Len(queue[i]))
          BY <2>1, <3>1
    <3>3. QED BY <3>0, <3>1, <3>2
  <2>3. \A m \in DOMAIN inbox : FALSE
    <3> SUFFICES ASSUME NEW m \in DOMAIN inbox PROVE FALSE
        OBVIOUS
    <3>1. queue[i][1].id < inbox[m].id /\ inbox[m].id <= lastId
          BY <1>0, <1>1, <1>2 DEF Lifecycle, Numbered
    <3>2. QED BY <1>0, <1>2, <1>4, <3>1
  <2>4. QED BY <1>0, <2>2, <2>3
<1>5. ASSUME Len(queue[i]) = 1, inbox = << >> PROVE TaskId(i) = lastId
  <2>1. \E k \in DOMAIN queue[i] : queue[i][k].id = lastId
        BY <1>1, <1>5 DEF Lifecycle, Numbered, Gone
  <2>2. QED BY <1>0, <1>2, <1>5, <2>1
<1>6. QED BY <1>3, <1>4, <1>5


----------------------------------------------------------------------------
(* The executor: what a step of it has to show.                            *)

\* What one object's executor leaves alone.
OnlyAt(i) ==
  /\ UNCHANGED <<inbox, instance, alive, lastId, promoting>>
  /\ started' => started
  /\ \A j \in Instance : j # i =>
       UNCHANGED <<queue[j], pc[j], desired[j], coreRunning[j], tun[j], callback[j]>>

\* The queue stays, or its head is done; when this was the task of the latest
\* request, the core is up or the service is stopped.
QueueKept(i) ==
  \/ UNCHANGED <<queue[i], started>>
  \/ /\ queue'[i] = Tail(queue[i])
     /\ TaskId(i) = lastId => ~started' \/ (desired'[i] /\ coreRunning'[i])

\* A service that is stopped is at rest.
StoppedAtRest(i) ==
  ~started' => /\ Rest(i)' /\ inbox = << >>
               /\ state' = "disconnected" /\ native' = "stopped" /\ writer' = 0

LEMMA ExecutorLocal ==
  ASSUME Typing, NEW i \in Instance, StartStep(i) \/ StopStep(i)
  PROVE  OnlyAt(i)
<1>0. /\ desired \in [Instance -> BOOLEAN] /\ coreRunning \in [Instance -> BOOLEAN]
      /\ tun \in [Instance -> BOOLEAN] /\ callback \in [Instance -> BOOLEAN]
      /\ queue \in [Instance -> Seq(Task)] /\ pc \in [Instance -> ExecPc]
      BY DEF Typing, TypeOK, ServiceTypeOK
<1> USE <1>0 DEF OnlyAt, Goto, Return, StopSelf, StopSelfResult, managerVars, hookVars
<1>1. FinishCancelledStart(i) => OnlyAt(i)
      BY DEF FinishCancelledStart
<1>2. CASE StartCancelled(i) \/ CancelBeforeHandOff(i)
      BY <1>1, <1>2 DEF StartCancelled, CancelBeforeHandOff
<1>3. CASE StartIgnored(i) \/ StartConfigured(i) \/ StartNotConfigured(i)
      BY <1>3 DEF StartIgnored, StartConfigured, StartNotConfigured
<1>4. CASE StartConnecting(i) \/ OpenTun(i) \/ HandOff(i)
      BY <1>4 DEF StartConnecting, OpenTun, HandOff
<1>5. CASE NativeStart(i) \/ NativeStarted(i)
      BY <1>5 DEF NativeStart, NativeStarted
<1>6. CASE StartedTooLate(i) \/ StartedInTime(i) \/ AnnounceConnected(i) \/ ReplyStarted(i)
      BY <1>6 DEF StartedTooLate, StartedInTime, AnnounceConnected, ReplyStarted
<1>7. CASE StartFailed(i) \/ FailedNativeStop(i) \/ GiveUpStart(i)
  <2>1. CASE StartFailed(i)
        BY <2>1 DEF StartFailed
  <2>2. CASE FailedNativeStop(i)
        BY <2>2 DEF FailedNativeStop
  <2>3. CASE GiveUpStart(i)
        BY <2>3 DEF GiveUpStart
  <2>4. QED BY <1>7, <2>1, <2>2, <2>3
<1>8. CASE StopBegin(i) \/ NativeStop(i) \/ StopDone(i)
      BY <1>8 DEF StopBegin, NativeStop, StopDone
<1>9. CASE StopLeave(i)
      BY <1>9 DEF StopLeave
<1>10. QED
  BY <1>2, <1>3, <1>4, <1>5, <1>6, <1>7, <1>8, <1>9 DEF StartStep, StopStep

\* The requests that wait keep their order, and the latest one its place.
LEMMA NumberedKept ==
  ASSUME Typing, Lifecycle, NEW i \in Instance, queue[i] # << >>, OnlyAt(i), QueueKept(i)
  PROVE  Numbered'
<1>0. /\ queue[i] \in Seq(Task) /\ inbox \in Seq(Message) /\ lastId \in Nat
      BY DEF Typing, TypeOK, ServiceTypeOK
<1>1. i = instance /\ started
      BY WhoActs
<1>2. \A k \in DOMAIN queue'[i] :
        \/ k \in DOMAIN queue[i] /\ queue'[i] = queue[i]
        \/ /\ k + 1 \in DOMAIN queue[i] /\ queue'[i][k] = queue[i][k + 1]
           /\ queue'[i] = Tail(queue[i])
  <2>1. \A k \in DOMAIN Tail(queue[i]) :
          k + 1 \in DOMAIN queue[i] /\ Tail(queue[i])[k] = queue[i][k + 1]
        BY <1>0, QueueHead
  <2>2. queue'[i] = queue[i] \/ queue'[i] = Tail(queue[i])
        BY DEF QueueKept
  <2>3. CASE queue'[i] = queue[i]
        BY <2>3
  <2>4. CASE queue'[i] = Tail(queue[i])
        BY <2>1, <2>4
  <2>5. QED BY <2>2, <2>3, <2>4
<1>3. /\ \A k \in DOMAIN queue'[i] :
           /\ queue'[i][k].id \in 1 .. lastId /\ queue'[i][k].self
           /\ \A m \in DOMAIN inbox : inbox[m].type # "destroy" =>
                queue'[i][k].id < inbox[m].id
  <2> SUFFICES ASSUME NEW k \in DOMAIN queue'[i]
               PROVE  \E n \in DOMAIN queue[i] : queue'[i][k] = queue[i][n]
      BY DEF Lifecycle, Numbered
  <2>1. QED BY <1>2
<1>4. \A k, m \in DOMAIN queue'[i] : k < m => queue'[i][k].id < queue'[i][m].id
  <2> SUFFICES ASSUME NEW k \in DOMAIN queue'[i], NEW m \in DOMAIN queue'[i], k < m
               PROVE  queue'[i][k].id < queue'[i][m].id
      OBVIOUS
  <2>1. CASE queue'[i] = queue[i]
        BY <2>1 DEF Lifecycle, Numbered
  <2>2. CASE queue'[i] = Tail(queue[i])
    <3>1. /\ k + 1 \in DOMAIN queue[i] /\ queue'[i][k] = queue[i][k + 1]
          /\ m + 1 \in DOMAIN queue[i] /\ queue'[i][m] = queue[i][m + 1]
          BY <1>0, <2>2, QueueHead
    <3>2. k \in Nat /\ m \in Nat
          BY <1>0, <2>2, QueueHead, LenProperties
    <3>3. k + 1 < m + 1
          BY <3>2
    <3>4. QED BY <3>1, <3>3 DEF Lifecycle, Numbered
  <2>3. QED BY <2>1, <2>2 DEF QueueKept
<1>5. ~Gone' =>
       \/ \E k \in DOMAIN inbox : inbox[k].type # "destroy" /\ inbox[k].id = lastId
       \/ \E k \in DOMAIN queue'[i] : queue'[i][k].id = lastId
       \/ inbox = << >> /\ queue'[i] = << >> /\ coreRunning'[i] /\ desired'[i]
  <2> SUFFICES ASSUME started',
                      ~ \E k \in DOMAIN inbox : inbox[k].type # "destroy" /\ inbox[k].id = lastId
               PROVE  \/ \E k \in DOMAIN queue'[i] : queue'[i][k].id = lastId
                      \/ inbox = << >> /\ queue'[i] = << >> /\ coreRunning'[i] /\ desired'[i]
      BY DEF Gone
  <2>1. PICK k \in DOMAIN queue[i] : queue[i][k].id = lastId
        BY <1>1 DEF Lifecycle, Numbered, Gone
  <2>2. CASE UNCHANGED <<queue[i], started>>
        BY <2>1, <2>2
  <2>3. CASE queue'[i] = Tail(queue[i]) /\ TaskId(i) = lastId
    <3>1. queue'[i] = << >> /\ inbox = << >>
          BY <1>0, <2>3, LastTask, QueueHead
    <3>2. QED BY <1>1, <2>3, <3>1 DEF QueueKept, OnlyAt
  <2>4. CASE queue'[i] = Tail(queue[i]) /\ TaskId(i) # lastId
    <3>1. k # 1
          BY <1>0, <2>1, <2>4, QueueHead DEF TaskId
    <3>2. k - 1 \in DOMAIN queue'[i] /\ queue'[i][k - 1] = queue[i][k]
          BY <1>0, <2>4, <3>1, QueueHead
    <3>3. QED BY <2>1, <3>2
  <2>5. QED BY <2>2, <2>3, <2>4 DEF QueueKept
<1>6. \A j \in Instance : j # i => queue'[j] = queue[j]
      BY DEF OnlyAt
<1>7. \A j \in Instance :
       /\ \A k \in DOMAIN queue'[j] : queue'[j][k].id \in 1 .. lastId /\ queue'[j][k].self
       /\ \A k, m \in DOMAIN queue'[j] : k < m => queue'[j][k].id < queue'[j][m].id
       /\ \A k \in DOMAIN queue'[j], m \in DOMAIN inbox :
            inbox[m].type # "destroy" => queue'[j][k].id < inbox[m].id
  <2> SUFFICES ASSUME NEW j \in Instance, j # i
               PROVE
       /\ \A k \in DOMAIN queue'[j] : queue'[j][k].id \in 1 .. lastId /\ queue'[j][k].self
       /\ \A k, m \in DOMAIN queue'[j] : k < m => queue'[j][k].id < queue'[j][m].id
       /\ \A k \in DOMAIN queue'[j], m \in DOMAIN inbox :
            inbox[m].type # "destroy" => queue'[j][k].id < inbox[m].id
      BY <1>3, <1>4
  <2>1. QED BY <1>6 DEF Lifecycle, Numbered
<1>8. QED BY <1>1, <1>5, <1>7 DEF Numbered, OnlyAt, Lifecycle

LEMMA ExecutorKeeps ==
  ASSUME Typing, Lifecycle, NEW i \in Instance, queue[i] # << >>,
         OnlyAt(i), QueueKept(i), StoppedAtRest(i),
         Placed(i)', Wanted(i)', OwnedBy(i)'
  PROVE  Lifecycle'
<1>1. /\ i = instance /\ alive /\ started
      /\ \A k \in DOMAIN inbox : inbox[k].type # "destroy"
      BY WhoActs
<1>2. \A j \in Instance : j # i => Rest(j)'
      BY <1>1 DEF Lifecycle, OneActs, OnlyAt, Rest
<1>3. inbox # << >> => Head(inbox).type # "destroy"
      BY <1>1, QueueHead DEF Typing, TypeOK, ServiceTypeOK
<1>4. ~started' => Dormant' /\ inbox = << >>
      BY <1>2 DEF StoppedAtRest, Dormant
<1>5. OneActs'
      BY <1>1, <1>2, <1>3, <1>4 DEF OneActs, OnlyAt, Gone, Lifecycle
<1>6. Numbered'
      BY NumberedKept
<1>7. Owned'
      BY <1>1 DEF Owned, OwnedBy, OnlyAt
<1>8. \A j \in Instance : j # i => Placed(j)' /\ Wanted(j)'
      BY <1>2 DEF Rest, Placed, Wanted, Opening, Failing, Stopping
<1>9. QED BY <1>5, <1>6, <1>7, <1>8 DEF Lifecycle


----------------------------------------------------------------------------
(* The executor: its steps.                                                *)

\* A task that returns was not a stop that is ahead, and nobody waits behind the
\* task of the latest request.
LEMMA Returned ==
  ASSUME Typing, Lifecycle, NEW i \in Instance, queue[i] # << >>, Return(i),
         Head(queue[i]).type = "start" \/ pc[i] = "leave"
  PROVE  /\ queue'[i] = Tail(queue[i]) /\ pc'[i] = "idle"
         /\ StopAhead(i)' <=> StopAhead(i)
         /\ queue'[i] # << >> => queue'[i][Len(queue'[i])] = queue[i][Len(queue[i])]
         /\ TaskId(i) = lastId => queue'[i] = << >> /\ inbox = << >> /\ ~StopAhead(i)
<1>0. queue[i] \in Seq(Task)
      BY DEF Typing, TypeOK, ServiceTypeOK
<1>1. queue'[i] = Tail(queue[i]) /\ pc'[i] = "idle"
      BY DEF Typing, TypeOK, ServiceTypeOK, Return, Goto
<1>2. /\ Len(queue[i]) \in Nat \ {0} /\ DOMAIN queue[i] = 1 .. Len(queue[i])
      /\ Head(queue[i]) = queue[i][1]
      /\ Tail(queue[i]) \in Seq(Task) /\ Len(Tail(queue[i])) = Len(queue[i]) - 1
      /\ Tail(queue[i]) = << >> <=> Len(queue[i]) = 1
      /\ \A k \in DOMAIN Tail(queue[i]) :
           k + 1 \in DOMAIN queue[i] /\ Tail(queue[i])[k] = queue[i][k + 1]
      /\ \A k \in DOMAIN queue[i] : k # 1 =>
           k - 1 \in DOMAIN Tail(queue[i]) /\ queue[i][k] = Tail(queue[i])[k - 1]
      BY <1>0, QueueHead
<1>3. StopAhead(i) => StopAhead(i)'
  <2> SUFFICES ASSUME StopAhead(i) PROVE StopAhead(i)'
      OBVIOUS
  <2>1. PICK k \in DOMAIN queue[i] :
          queue[i][k].type = "stop" /\ (k = 1 => pc[i] # "leave")
        BY DEF StopAhead
  <2>2. k # 1
        BY <1>2, <2>1
  <2>3. k - 1 \in DOMAIN queue'[i] /\ queue'[i][k - 1].type = "stop"
        BY <1>1, <1>2, <2>1, <2>2
  <2>4. QED BY <1>1, <2>3 DEF StopAhead
<1>4. StopAhead(i)' => StopAhead(i)
  <2> SUFFICES ASSUME StopAhead(i)' PROVE StopAhead(i)
      OBVIOUS
  <2>1. PICK k \in DOMAIN queue'[i] : queue'[i][k].type = "stop"
        BY DEF StopAhead
  <2>2. k + 1 \in DOMAIN queue[i] /\ queue[i][k + 1].type = "stop"
        BY <1>1, <1>2, <2>1
  <2>3. k + 1 # 1
        BY <1>1, <1>2, <2>1, LenProperties
  <2>4. QED BY <2>2, <2>3 DEF StopAhead
<1>5. queue'[i] # << >> => queue'[i][Len(queue'[i])] = queue[i][Len(queue[i])]
  <2> SUFFICES ASSUME Tail(queue[i]) # << >>
               PROVE  Tail(queue[i])[Len(Tail(queue[i]))] = queue[i][Len(queue[i])]
      BY <1>1
  <2>1. Len(queue[i]) \in DOMAIN queue[i] /\ Len(queue[i]) # 1
        BY <1>2
  <2>2. queue[i][Len(queue[i])] = Tail(queue[i])[Len(queue[i]) - 1]
        BY <1>2, <2>1
  <2>3. QED BY <1>2, <2>2
<1>6. TaskId(i) = lastId => queue'[i] = << >> /\ inbox = << >> /\ ~StopAhead(i)
  <2> SUFFICES ASSUME TaskId(i) = lastId
               PROVE  queue'[i] = << >> /\ inbox = << >> /\ ~StopAhead(i)
      OBVIOUS
  <2>1. Len(queue[i]) = 1 /\ inbox = << >>
        BY LastTask
  <2>2. queue'[i] = << >>
        BY <1>1, <1>2, <2>1
  <2>3. DOMAIN queue[i] = {1}
        BY <1>2, <2>1
  <2>4. ~StopAhead(i)
        BY <1>2, <2>3 DEF StopAhead
  <2>5. QED BY <2>1, <2>2, <2>4
<1>7. QED BY <1>1, <1>3, <1>4, <1>5, <1>6

\* A task that goes on leaves the queue alone.
LEMMA WentOn ==
  ASSUME Typing, NEW i \in Instance, NEW p, Goto(i, p), UNCHANGED queue
  PROVE  /\ pc'[i] = p /\ queue'[i] = queue[i]
         /\ pc[i] # "leave" /\ p # "leave" => (StopAhead(i)' <=> StopAhead(i))
<1>1. pc'[i] = p
      BY DEF Typing, TypeOK, ServiceTypeOK, Goto
<1>2. QED BY <1>1 DEF StopAhead

\* What the invariant says of the object that acts.
LEMMA Acting ==
  ASSUME Typing, Lifecycle, NEW i \in Instance, queue[i] # << >>
  PROVE  /\ Placed(i) /\ Wanted(i) /\ OwnedBy(i)
         /\ i = instance /\ alive /\ started
BY WhoActs DEF Lifecycle

LEMMA CancelledStep ==
  ASSUME Typing, Lifecycle, NEW i \in Instance, queue[i] # << >>,
         Head(queue[i]).type = "start", pc[i] \in {"idle", "check"}, ~desired[i],
         FinishCancelledStart(i)
  PROVE  /\ QueueKept(i) /\ StoppedAtRest(i)
         /\ Placed(i)' /\ Wanted(i)' /\ OwnedBy(i)'
<1>0. /\ Placed(i) /\ Wanted(i) /\ OwnedBy(i)
      /\ i = instance /\ alive /\ started
      BY Acting
<1>1. /\ queue'[i] = Tail(queue[i]) /\ pc'[i] = "idle"
      /\ StopAhead(i)' <=> StopAhead(i)
      /\ TaskId(i) = lastId => queue'[i] = << >> /\ inbox = << >> /\ ~StopAhead(i)
      BY Returned DEF FinishCancelledStart
<1>2. /\ ~tun'[i] /\ ~callback'[i] /\ state' = "disconnected"
      /\ UNCHANGED <<desired, coreRunning, native, writer, promoting>>
      BY DEF FinishCancelledStart, Typing, TypeOK, ServiceTypeOK
<1>3. started' <=> TaskId(i) # lastId
      BY <1>0 DEF FinishCancelledStart, StopSelfResult
<1>4. native \in {"stopped", "starting", "running"}
      BY DEF Typing, TypeOK, ServiceTypeOK, Native
<1>5. QueueKept(i)
      BY <1>1, <1>3 DEF QueueKept
<1>6. Placed(i)'
      BY <1>0, <1>1, <1>2 DEF Placed, Opening, Failing, Stopping
<1>7. coreRunning[i] => StopAhead(i)
      BY <1>0 DEF Wanted
<1>8. Wanted(i)'
      BY <1>1, <1>2, <1>7 DEF Wanted, Opening
<1>9. native # "starting" /\ (native = "running" => coreRunning[i])
      BY <1>0 DEF OwnedBy
<1>10. writer # 0 => writer = i /\ (coreRunning[i] \/ StopAhead(i))
  <2>1. CASE pc[i] = "idle"
        BY <1>0, <2>1 DEF OwnedBy, Busy, Opening, Failing
  <2>2. CASE pc[i] = "check"
        BY <1>0, <2>2 DEF OwnedBy, Wanted, Opening
  <2>3. QED BY <2>1, <2>2
<1>11. OwnedBy(i)'
      BY <1>1, <1>2, <1>9, <1>10 DEF OwnedBy, Busy
<1>12. StoppedAtRest(i)
      BY <1>1, <1>2, <1>3, <1>4, <1>7, <1>9, <1>10 DEF StoppedAtRest, Rest
<1>13. QED BY <1>5, <1>6, <1>8, <1>11, <1>12


\* What each step of the executor of i is shown to do.
Kept(i) ==
  /\ QueueKept(i) /\ StoppedAtRest(i)
  /\ Placed(i)' /\ Wanted(i)' /\ OwnedBy(i)'

\* Nobody stops the service while it works.
LEMMA WorkGoesOn ==
  ASSUME Typing, Lifecycle, NEW i \in Instance, queue[i] # << >>,
         UNCHANGED <<queue, started>>
  PROVE  QueueKept(i) /\ StoppedAtRest(i)
BY Acting DEF QueueKept, StoppedAtRest

LEMMA IgnoredStep ==
  ASSUME Typing, Lifecycle, NEW i \in Instance, queue[i] # << >>, StartIgnored(i)
  PROVE  Kept(i)
<1>0. Placed(i) /\ Wanted(i) /\ OwnedBy(i) /\ started
      BY Acting
<1>1. /\ pc[i] = "idle" /\ Head(queue[i]).type = "start" /\ desired[i] /\ coreRunning[i]
      /\ UNCHANGED <<desired, coreRunning, tun, callback, native, state, writer, promoting,
                     started>>
      /\ Return(i)
      BY DEF StartIgnored, At, managerVars, hookVars
<1>2. /\ queue'[i] = Tail(queue[i]) /\ pc'[i] = "idle"
      /\ StopAhead(i)' <=> StopAhead(i)
      /\ queue'[i] # << >> => queue'[i][Len(queue'[i])] = queue[i][Len(queue[i])]
      BY <1>1, Returned
<1>3. Placed(i)'
      BY <1>0, <1>1, <1>2 DEF Placed, Opening, Failing, Stopping
<1>4. Wanted(i)'
      BY <1>0, <1>1, <1>2 DEF Wanted, Opening
<1>5. OwnedBy(i)'
      BY <1>0, <1>1, <1>2 DEF OwnedBy, Busy
<1>6. QueueKept(i) /\ StoppedAtRest(i)
      BY <1>0, <1>1, <1>2 DEF QueueKept, StoppedAtRest
<1>7. QED BY <1>3, <1>4, <1>5, <1>6 DEF Kept

LEMMA ConfiguredStep ==
  ASSUME Typing, Lifecycle, NEW i \in Instance, queue[i] # << >>, StartConfigured(i)
  PROVE  Kept(i)
<1>0. Placed(i) /\ Wanted(i) /\ OwnedBy(i)
      BY Acting
<1>1. /\ pc[i] = "idle" /\ Head(queue[i]).type = "start" /\ desired[i] /\ ~coreRunning[i]
      /\ UNCHANGED <<desired, coreRunning, tun, callback, native, state, writer, promoting,
                     started, queue>>
      /\ Goto(i, "connect")
      BY DEF StartConfigured, At, managerVars, hookVars
<1>2. pc'[i] = "connect" /\ (StopAhead(i)' <=> StopAhead(i))
      BY <1>1, WentOn
<1>3. Placed(i)'
      BY <1>0, <1>1, <1>2 DEF Placed, Opening, Failing, Stopping
<1>4. Wanted(i)'
      BY <1>0, <1>1, <1>2 DEF Wanted, Opening
<1>5. OwnedBy(i)'
      BY <1>0, <1>1, <1>2 DEF OwnedBy, Busy, Opening, Failing
<1>6. QED BY <1>1, <1>3, <1>4, <1>5, WorkGoesOn DEF Kept

LEMMA NotConfiguredStep ==
  ASSUME Typing, Lifecycle, NEW i \in Instance, queue[i] # << >>, StartNotConfigured(i)
  PROVE  Kept(i)
<1>0. /\ Placed(i) /\ Wanted(i) /\ OwnedBy(i)
      /\ i = instance /\ alive /\ started
      BY Acting
<1>1. /\ pc[i] = "idle" /\ Head(queue[i]).type = "start" /\ ~coreRunning[i]
      /\ UNCHANGED <<coreRunning, tun, callback, native, writer, promoting>>
      /\ state' = "disconnected" /\ ~desired'[i]
      /\ Return(i) /\ StopSelfResult(i, TaskId(i))
      BY DEF StartNotConfigured, At, hookVars, Typing, TypeOK, ServiceTypeOK
<1>2. /\ queue'[i] = Tail(queue[i]) /\ pc'[i] = "idle"
      /\ StopAhead(i)' <=> StopAhead(i)
      /\ TaskId(i) = lastId => queue'[i] = << >> /\ inbox = << >> /\ ~StopAhead(i)
      BY <1>1, Returned
<1>3. started' <=> TaskId(i) # lastId
      BY <1>0, <1>1 DEF StopSelfResult
<1>4. ~tun[i] /\ ~callback[i]
      BY <1>0, <1>1 DEF Placed
<1>5. /\ native = "stopped"
      /\ writer # 0 => writer = i /\ StopAhead(i)
  <2>1. native \in {"stopped", "starting", "running"}
        BY DEF Typing, TypeOK, ServiceTypeOK, Native
  <2>2. QED BY <1>0, <1>1, <2>1 DEF OwnedBy, Busy, Opening, Failing
<1>6. Placed(i)'
      BY <1>0, <1>1, <1>2, <1>4 DEF Placed, Opening, Failing, Stopping
<1>7. Wanted(i)'
      BY <1>1, <1>2 DEF Wanted, Opening
<1>8. OwnedBy(i)'
      BY <1>1, <1>2, <1>5 DEF OwnedBy, Busy
<1>9. QueueKept(i) /\ StoppedAtRest(i)
      BY <1>1, <1>2, <1>3, <1>4, <1>5 DEF QueueKept, StoppedAtRest, Rest
<1>10. QED BY <1>6, <1>7, <1>8, <1>9 DEF Kept

\* The way of a start from its configuration to the handed over descriptor.
LEMMA OpeningStep ==
  ASSUME Typing, Lifecycle, NEW i \in Instance, queue[i] # << >>,
         StartConnecting(i) \/ OpenTun(i) \/ HandOff(i) \/ NativeStart(i)
  PROVE  Kept(i)
<1>0. Placed(i) /\ Wanted(i) /\ OwnedBy(i)
      BY Acting
<1>1. /\ UNCHANGED <<desired, coreRunning, promoting, started, queue>>
      /\ \/ /\ pc[i] = "connect" /\ Goto(i, "tun") /\ writer' = i
            /\ UNCHANGED <<tun, callback, native>>
         \/ /\ pc[i] = "tun" /\ native # "starting" /\ callback'[i]
            /\ UNCHANGED <<native, state, writer>>
            /\ \/ Goto(i, "check") /\ tun'[i]
               \/ Goto(i, "failed") /\ UNCHANGED tun
         \/ /\ pc[i] = "check" /\ Goto(i, "handoff") /\ ~tun'[i]
            /\ UNCHANGED <<callback, native, state, writer>>
         \/ /\ pc[i] = "handoff" /\ Goto(i, "native") /\ native' = "starting"
            /\ UNCHANGED <<tun, callback, state, writer>>
  <2> USE DEF At, managerVars, hookVars, runtimeVars, Typing, TypeOK, ServiceTypeOK
  <2>1. CASE StartConnecting(i)
        BY <2>1 DEF StartConnecting
  <2>2. CASE OpenTun(i)
        BY <2>2 DEF OpenTun
  <2>3. CASE HandOff(i)
        BY <2>3 DEF HandOff
  <2>4. CASE NativeStart(i)
        BY <2>4 DEF NativeStart
  <2>5. QED BY <2>1, <2>2, <2>3, <2>4
<1>2. ~coreRunning[i]
      BY <1>0, <1>1 DEF Placed
<1>3. /\ StopAhead(i)' <=> StopAhead(i)
      /\ pc'[i] \in {"tun", "check", "failed", "handoff", "native"}
      /\ queue'[i] = queue[i]
      BY <1>1, WentOn
<1>4. Placed(i)'
  <2>1. pc[i] = "connect" => pc'[i] = "tun"
        BY <1>1, WentOn
  <2>2. pc[i] = "tun" =>
          (pc'[i] = "check" /\ tun'[i]) \/ (pc'[i] = "failed" /\ ~tun'[i])
        BY <1>0, <1>1, WentOn DEF Placed
  <2>3. pc[i] = "check" => pc'[i] = "handoff"
        BY <1>1, WentOn
  <2>4. pc[i] = "handoff" => pc'[i] = "native"
        BY <1>1, WentOn
  <2>5. QED BY <1>0, <1>1, <1>2, <1>3, <2>1, <2>2, <2>3, <2>4
        DEF Placed, Opening, Failing, Stopping
<1>5. Wanted(i)'
      BY <1>0, <1>1, <1>2, <1>3 DEF Wanted, Opening
<1>6. OwnedBy(i)'
  <2>1. Busy(i)'
        BY <1>3 DEF Busy, Opening, Failing
  <2>2. pc[i] = "handoff" => pc'[i] = "native"
        BY <1>1, WentOn
  <2>3. native' = "running" => FALSE
        BY <1>0, <1>1, <1>2 DEF OwnedBy
  <2>4. native' = "starting" => pc'[i] = "native"
        BY <1>0, <1>1, <2>2 DEF OwnedBy
  <2>5. writer' # 0 => writer' = i
        BY <1>0, <1>1 DEF OwnedBy
  <2>6. QED BY <2>1, <2>3, <2>4, <2>5 DEF OwnedBy
<1>7. QED BY <1>1, <1>4, <1>5, <1>6, WorkGoesOn DEF Kept


\* The native start and what follows it.
LEMMA StartedStep ==
  ASSUME Typing, Lifecycle, NEW i \in Instance, queue[i] # << >>,
         NativeStarted(i) \/ StartedInTime(i) \/ AnnounceConnected(i)
  PROVE  Kept(i)
<1>0. Placed(i) /\ Wanted(i) /\ OwnedBy(i)
      BY Acting
<1>1. /\ UNCHANGED <<desired, tun, callback, writer, promoting, started, queue>>
      /\ \/ /\ pc[i] = "native" /\ Goto(i, "verify") /\ native' = "running"
            /\ coreRunning'[i] /\ UNCHANGED state
         \/ /\ pc[i] = "native" /\ Goto(i, "failed") /\ native' = "stopped"
            /\ UNCHANGED <<coreRunning, state>>
         \/ /\ pc[i] = "verify" /\ desired[i] /\ Goto(i, "announce")
            /\ UNCHANGED <<coreRunning, native, state>>
         \/ /\ pc[i] = "announce" /\ Goto(i, "reply") /\ state' = "connected"
            /\ UNCHANGED <<coreRunning, native>>
  <2> USE DEF At, managerVars, hookVars, runtimeVars, Typing, TypeOK, ServiceTypeOK
  <2>1. CASE NativeStarted(i)
        BY <2>1 DEF NativeStarted
  <2>2. CASE StartedInTime(i)
        BY <2>2 DEF StartedInTime
  <2>3. CASE AnnounceConnected(i)
        BY <2>3 DEF AnnounceConnected
  <2>4. QED BY <2>1, <2>2, <2>3
<1>2. /\ StopAhead(i)' <=> StopAhead(i)
      /\ queue'[i] = queue[i]
      BY <1>1, WentOn
<1>3. \/ /\ pc[i] = "native" /\ pc'[i] = "verify" /\ native' = "running"
         /\ coreRunning'[i]
      \/ /\ pc[i] = "native" /\ pc'[i] = "failed" /\ native' = "stopped"
         /\ ~coreRunning'[i]
      \/ /\ pc[i] = "verify" /\ pc'[i] = "announce" /\ coreRunning'[i] /\ UNCHANGED native
      \/ /\ pc[i] = "announce" /\ pc'[i] = "reply" /\ state' = "connected"
         /\ coreRunning'[i] /\ UNCHANGED native
      BY <1>0, <1>1, WentOn DEF Placed
<1>4. Placed(i)'
      BY <1>0, <1>1, <1>2, <1>3 DEF Placed, Opening, Failing, Stopping
<1>5. Wanted(i)'
      BY <1>0, <1>1, <1>2, <1>3 DEF Wanted, Placed, Opening
<1>6. OwnedBy(i)'
      BY <1>0, <1>1, <1>3 DEF OwnedBy, Placed, Busy, Opening, Failing
<1>7. QED BY <1>1, <1>4, <1>5, <1>6, WorkGoesOn DEF Kept

\* A start that is done, or came too late for it.
LEMMA StartOverStep ==
  ASSUME Typing, Lifecycle, NEW i \in Instance, queue[i] # << >>,
         StartedTooLate(i) \/ ReplyStarted(i)
  PROVE  Kept(i)
<1>0. Placed(i) /\ Wanted(i) /\ OwnedBy(i) /\ started
      BY Acting
<1>1. /\ pc[i] = "verify" \/ pc[i] = "reply"
      /\ UNCHANGED <<desired, coreRunning, tun, callback, native, state, writer, promoting,
                     started>>
      /\ Return(i)
      BY DEF StartedTooLate, ReplyStarted, At, managerVars, hookVars, runtimeVars
<1>2. Head(queue[i]).type = "start" /\ coreRunning[i] /\ native = "running"
      BY <1>0, <1>1 DEF Placed, Opening
<1>3. /\ queue'[i] = Tail(queue[i]) /\ pc'[i] = "idle"
      /\ StopAhead(i)' <=> StopAhead(i)
      /\ queue'[i] # << >> => queue'[i][Len(queue'[i])] = queue[i][Len(queue[i])]
      /\ TaskId(i) = lastId => ~StopAhead(i)
      BY <1>1, <1>2, Returned
<1>4. ~desired[i] => StopAhead(i)
      BY <1>0, <1>2 DEF Wanted
<1>5. pc[i] = "verify" => ~desired[i]
      BY DEF StartedTooLate, ReplyStarted, At
<1>6. Placed(i)'
      BY <1>0, <1>1, <1>2, <1>3 DEF Placed, Opening, Failing, Stopping
<1>7. Wanted(i)'
      BY <1>0, <1>1, <1>2, <1>3, <1>4, <1>5 DEF Wanted, Opening
<1>8. OwnedBy(i)'
      BY <1>0, <1>1, <1>2, <1>3 DEF OwnedBy, Busy
<1>9. QueueKept(i) /\ StoppedAtRest(i)
      BY <1>0, <1>1, <1>2, <1>3, <1>4 DEF QueueKept, StoppedAtRest
<1>10. QED BY <1>6, <1>7, <1>8, <1>9 DEF Kept

\* A start that failed cleans up.
LEMMA FailingStep ==
  ASSUME Typing, Lifecycle, NEW i \in Instance, queue[i] # << >>,
         StartFailed(i) \/ FailedNativeStop(i)
  PROVE  Kept(i)
<1>0. Placed(i) /\ Wanted(i) /\ OwnedBy(i)
      BY Acting
<1>1. /\ UNCHANGED <<state, writer, promoting, started, queue>>
      /\ \/ /\ pc[i] = "failed" /\ Goto(i, "cleanup") /\ UNCHANGED native
            /\ ~desired'[i] /\ ~coreRunning'[i] /\ ~tun'[i] /\ ~callback'[i]
         \/ /\ pc[i] = "cleanup" /\ Goto(i, "giveup")
            /\ native # "starting" /\ native' \in {"stopped", native}
            /\ UNCHANGED <<desired, coreRunning, tun, callback>>
  <2> USE DEF At, managerVars, hookVars, runtimeVars, Typing, TypeOK, ServiceTypeOK
  <2>1. CASE StartFailed(i)
        BY <2>1 DEF StartFailed
  <2>2. CASE FailedNativeStop(i)
        BY <2>2 DEF FailedNativeStop
  <2>3. QED BY <2>1, <2>2
<1>2. /\ StopAhead(i)' <=> StopAhead(i)
      /\ queue'[i] = queue[i]
      BY <1>1, WentOn
<1>3. /\ ~coreRunning[i] /\ ~tun[i]
      /\ pc[i] = "cleanup" => ~callback[i]
      BY <1>0, <1>1 DEF Placed
<1>4. \/ pc[i] = "failed" /\ pc'[i] = "cleanup"
      \/ pc[i] = "cleanup" /\ pc'[i] = "giveup"
      BY <1>1, WentOn
<1>5. Placed(i)'
      BY <1>0, <1>1, <1>2, <1>3, <1>4 DEF Placed, Opening, Failing, Stopping
<1>6. Wanted(i)'
      BY <1>0, <1>1, <1>2, <1>3, <1>4 DEF Wanted, Opening
<1>7. OwnedBy(i)'
      BY <1>0, <1>1, <1>3, <1>4 DEF OwnedBy, Busy, Opening, Failing
<1>8. QED BY <1>1, <1>5, <1>6, <1>7, WorkGoesOn DEF Kept

LEMMA GivenUpStep ==
  ASSUME Typing, Lifecycle, NEW i \in Instance, queue[i] # << >>, GiveUpStart(i)
  PROVE  Kept(i)
<1>0. /\ Placed(i) /\ Wanted(i) /\ OwnedBy(i)
      /\ i = instance /\ alive /\ started
      BY Acting
<1>1. /\ pc[i] = "giveup"
      /\ UNCHANGED <<desired, coreRunning, tun, callback, native, promoting>>
      /\ state' = "disconnected" /\ writer' = 0
      /\ Return(i) /\ StopSelfResult(i, TaskId(i))
      BY DEF GiveUpStart, At
<1>2. /\ Head(queue[i]).type = "start"
      /\ ~coreRunning[i] /\ ~tun[i] /\ ~callback[i]
      BY <1>0, <1>1 DEF Placed, Failing
<1>3. /\ queue'[i] = Tail(queue[i]) /\ pc'[i] = "idle"
      /\ queue'[i] # << >> => queue'[i][Len(queue'[i])] = queue[i][Len(queue[i])]
      /\ TaskId(i) = lastId => queue'[i] = << >> /\ inbox = << >>
      BY <1>1, <1>2, Returned
<1>4. native = "stopped"
  <2>1. native \in {"stopped", "starting", "running"}
        BY DEF Typing, TypeOK, ServiceTypeOK, Native
  <2>2. QED BY <1>0, <1>1, <1>2, <2>1 DEF OwnedBy
<1>5. started' <=> TaskId(i) # lastId
      BY <1>0, <1>1 DEF StopSelfResult
<1>6. TaskId(i) = lastId => ~desired[i]
  <2>1. TaskId(i) = lastId => Len(queue[i]) = 1 /\ inbox = << >>
        BY LastTask
  <2>2. inbox = << >> => ~promoting
        BY DEF Typing, Objects
  <2>3. QED BY <1>0, <1>1, <2>1, <2>2 DEF Wanted
<1>7. Placed(i)'
      BY <1>1, <1>2, <1>3 DEF Placed, Opening, Failing, Stopping
<1>8. Wanted(i)'
      BY <1>0, <1>1, <1>2, <1>3 DEF Wanted, Opening
<1>9. OwnedBy(i)'
      BY <1>1, <1>4 DEF OwnedBy
<1>10. QueueKept(i) /\ StoppedAtRest(i)
      BY <1>1, <1>2, <1>3, <1>4, <1>5, <1>6 DEF QueueKept, StoppedAtRest, Rest
<1>11. QED BY <1>7, <1>8, <1>9, <1>10 DEF Kept


\* stopCore up to its answer.
LEMMA StoppingStep ==
  ASSUME Typing, Lifecycle, Undisturbed, NEW i \in Instance, queue[i] # << >>,
         StopBegin(i) \/ NativeStop(i)
  PROVE  Kept(i)
<1>0. Placed(i) /\ Wanted(i) /\ OwnedBy(i)
      BY Acting
<1>1. /\ UNCHANGED <<desired, coreRunning, tun, state, writer, promoting, started, queue>>
      /\ \/ /\ pc[i] = "idle" /\ Head(queue[i]).type = "stop"
            /\ ~callback'[i] /\ UNCHANGED native
            /\ \/ Goto(i, "stopping")
               \/ Goto(i, "stopped") /\ ~coreRunning[i]
         \/ /\ pc[i] = "stopping" /\ native # "starting" /\ Goto(i, "stopped")
            /\ native' = "stopped" /\ UNCHANGED callback
  <2> USE DEF At, managerVars, hookVars, runtimeVars, Typing, TypeOK, ServiceTypeOK
  <2>1. CASE StopBegin(i)
        BY <2>1 DEF StopBegin, NeedsNativeStop
  <2>2. CASE NativeStop(i)
    <3>1. "stop" \notin Faults
          BY DEF Undisturbed
    <3>2. QED BY <2>2, <3>1 DEF NativeStop
  <2>3. QED BY <2>1, <2>2
<1>2. /\ StopAhead(i)' <=> StopAhead(i)
      /\ queue'[i] = queue[i]
      BY <1>1, WentOn
<1>3. \/ /\ pc[i] = "idle" /\ pc'[i] = "stopping" /\ ~callback'[i] /\ UNCHANGED native
      \/ /\ pc[i] = "idle" /\ pc'[i] = "stopped" /\ ~callback'[i] /\ UNCHANGED native
         /\ ~coreRunning[i]
      \/ /\ pc[i] = "stopping" /\ pc'[i] = "stopped" /\ native' = "stopped"
         /\ UNCHANGED callback
      BY <1>1, WentOn
<1>4. Head(queue[i]).type = "stop" /\ ~tun[i]
      BY <1>0, <1>1 DEF Placed, Stopping
<1>5. StopAhead(i)
  <2>1. queue[i] \in Seq(Task)
        BY DEF Typing, TypeOK, ServiceTypeOK
  <2>2. 1 \in DOMAIN queue[i] /\ queue[i][1].type = "stop"
        BY <1>4, <2>1, QueueHead
  <2>3. QED BY <1>3, <2>2 DEF StopAhead
<1>6. pc'[i] = "stopped" => native' = "stopped"
  <2>1. native \in {"stopped", "starting", "running"}
        BY DEF Typing, TypeOK, ServiceTypeOK, Native
  <2>2. QED BY <1>0, <1>3, <2>1 DEF OwnedBy
<1>7. Placed(i)'
      BY <1>0, <1>1, <1>2, <1>3, <1>4, <1>6 DEF Placed, Opening, Failing, Stopping
<1>8. Wanted(i)'
      BY <1>0, <1>1, <1>2, <1>3, <1>5 DEF Wanted, Opening
<1>9. OwnedBy(i)'
      BY <1>0, <1>1, <1>2, <1>3, <1>5, <1>6 DEF OwnedBy, Busy
<1>10. QED BY <1>1, <1>7, <1>8, <1>9, WorkGoesOn DEF Kept

LEMMA StoppedStep ==
  ASSUME Typing, Lifecycle, NEW i \in Instance, queue[i] # << >>, StopDone(i)
  PROVE  Kept(i)
<1>0. Placed(i) /\ Wanted(i) /\ OwnedBy(i)
      BY Acting
<1>1. /\ UNCHANGED <<desired, callback, native, promoting, started, queue>>
      /\ Goto(i, "leave") /\ ~coreRunning'[i] /\ ~tun'[i]
      /\ state' = "disconnected" /\ writer' = 0
      BY DEF StopDone, managerVars, Typing, TypeOK, ServiceTypeOK
<1>2. pc[i] = "stopped"
      BY <1>0 DEF StopDone, At, Placed, Opening, Failing, Stopping
<1>3. pc'[i] = "leave" /\ queue'[i] = queue[i]
      BY <1>1, WentOn
<1>4. native' = "stopped" /\ ~callback'[i] /\ Head(queue'[i]).type = "stop"
      BY <1>0, <1>1, <1>2 DEF Placed, Stopping
<1>5. Placed(i)'
      BY <1>0, <1>1, <1>3, <1>4 DEF Placed, Opening, Failing, Stopping
<1>6. Wanted(i)'
      BY <1>0, <1>1, <1>3 DEF Wanted, Opening
<1>7. OwnedBy(i)'
      BY <1>1, <1>4 DEF OwnedBy
<1>8. QED BY <1>1, <1>5, <1>6, <1>7, WorkGoesOn DEF Kept

LEMMA LeftStep ==
  ASSUME Typing, Lifecycle, NEW i \in Instance, queue[i] # << >>, StopLeave(i)
  PROVE  Kept(i)
<1>0. /\ Placed(i) /\ Wanted(i) /\ OwnedBy(i)
      /\ i = instance /\ alive /\ started
      BY Acting
<1>1. /\ pc[i] = "leave" /\ Return(i)
      /\ UNCHANGED <<desired, coreRunning, tun, callback, native, state, writer, promoting>>
      BY DEF StopLeave, At, hookVars, runtimeVars
<1>2. /\ Head(queue[i]).type = "stop"
      /\ ~coreRunning[i] /\ ~tun[i] /\ ~callback[i]
      BY <1>0, <1>1 DEF Placed, Stopping
<1>3. /\ queue'[i] = Tail(queue[i]) /\ pc'[i] = "idle"
      /\ StopAhead(i)' <=> StopAhead(i)
      /\ queue'[i] # << >> => queue'[i][Len(queue'[i])] = queue[i][Len(queue[i])]
      /\ TaskId(i) = lastId => queue'[i] = << >> /\ inbox = << >> /\ ~StopAhead(i)
      BY <1>1, Returned
<1>4. native = "stopped"
  <2>1. native \in {"stopped", "starting", "running"}
        BY DEF Typing, TypeOK, ServiceTypeOK, Native
  <2>2. QED BY <1>0, <1>1, <1>2, <2>1 DEF OwnedBy
<1>5. TaskId(i) = lastId => ~desired[i]
  <2>1. queue[i] \in Seq(Task)
        BY DEF Typing, TypeOK, ServiceTypeOK
  <2>2. TaskId(i) = lastId => Len(queue[i]) = 1 /\ inbox = << >>
        BY LastTask
  <2>3. inbox = << >> => ~promoting
        BY DEF Typing, Objects
  <2>4. Head(queue[i]) = queue[i][1]
        BY <2>1, QueueHead
  <2>5. QED BY <1>0, <1>2, <2>2, <2>3, <2>4 DEF Wanted
<1>6. TaskId(i) # 0 /\ Head(queue[i]).self
  <2>1. queue[i] \in Seq(Task)
        BY DEF Typing, TypeOK, ServiceTypeOK
  <2>2. 1 \in DOMAIN queue[i] /\ Head(queue[i]) = queue[i][1]
        BY <2>1, QueueHead
  <2>3. QED BY <2>2, LastTask DEF Lifecycle, Numbered
<1>7. started' <=> TaskId(i) # lastId \/ desired[i]
      BY <1>0, <1>6 DEF StopLeave, StopSelfResult, TaskId
<1>8. /\ state # "disconnected" => StopAhead(i)
      /\ writer # 0 => writer = i /\ StopAhead(i)
      BY <1>0, <1>1, <1>2 DEF OwnedBy, Busy, Opening, Failing
<1>9. Placed(i)'
      BY <1>1, <1>2, <1>3 DEF Placed, Opening, Failing, Stopping
<1>10. Wanted(i)'
      BY <1>0, <1>1, <1>2, <1>3 DEF Wanted, Opening
<1>11. OwnedBy(i)'
      BY <1>1, <1>3, <1>4, <1>8 DEF OwnedBy, Busy
<1>12. QueueKept(i) /\ StoppedAtRest(i)
      BY <1>1, <1>2, <1>3, <1>4, <1>5, <1>7, <1>8 DEF QueueKept, StoppedAtRest, Rest
<1>13. QED BY <1>9, <1>10, <1>11, <1>12 DEF Kept

LEMMA ExecutorStep ==
  ASSUME Typing, Lifecycle, Undisturbed, NEW i \in Instance, StartStep(i) \/ StopStep(i)
  PROVE  Lifecycle'
<1>1. queue[i] # << >>
      BY DEF StartStep, StopStep, StartCancelled, StartIgnored, StartConfigured,
         StartNotConfigured, StartConnecting, OpenTun, CancelBeforeHandOff, HandOff,
         NativeStart, NativeStarted, StartedTooLate, StartedInTime, AnnounceConnected,
         ReplyStarted, StartFailed, FailedNativeStop, GiveUpStart, StopBegin, NativeStop,
         StopDone, StopLeave, At
<1>2. Kept(i)
  <2>1. CASE StartCancelled(i) \/ CancelBeforeHandOff(i)
    <3>1. Placed(i)
          BY <1>1, Acting
    <3>2. /\ Head(queue[i]).type = "start" /\ pc[i] \in {"idle", "check"} /\ ~desired[i]
          /\ FinishCancelledStart(i)
          BY <2>1, <3>1 DEF StartCancelled, CancelBeforeHandOff, At, Placed, Opening
    <3>3. QED BY <1>1, <3>2, CancelledStep DEF Kept
  <2>2. QED
    BY <1>1, <2>1, IgnoredStep, ConfiguredStep, NotConfiguredStep, OpeningStep, StartedStep,
       StartOverStep, FailingStep, GivenUpStep, StoppingStep, StoppedStep, LeftStep
    DEF StartStep, StopStep
<1>3. OnlyAt(i)
      BY ExecutorLocal
<1>4. QED BY <1>1, <1>2, <1>3, ExecutorKeeps DEF Kept


----------------------------------------------------------------------------
(* The activity manager.                                                   *)

\* What the invariant is about.
watched == <<inbox, instance, alive, started, lastId, promoting, desired, execVars, state>>

LEMMA QuietStep == ASSUME Lifecycle, UNCHANGED watched PROVE Lifecycle'
<1> USE DEF watched, execVars, hookVars
<1>1. OneActs'
      BY DEF Lifecycle, OneActs, Gone, Dormant, Rest
<1>2. Numbered'
      BY DEF Lifecycle, Numbered, Gone
<1>3. Owned'
      BY DEF Lifecycle, Owned, Busy, StopAhead
<1>4. \A i \in Instance : Placed(i)' /\ Wanted(i)'
      BY DEF Lifecycle, Placed, Wanted, StopAhead
<1>5. QED BY <1>1, <1>2, <1>3, <1>4 DEF Lifecycle

\* The objects and the core stay as they are while messages come and go.
LEMMA ObjectsStay ==
  ASSUME Typing, Lifecycle, UNCHANGED <<promoting, desired, execVars, state>>
  PROVE  /\ \A i \in Instance : Placed(i)' /\ Wanted(i)'
         /\ \A i \in Instance : (Rest(i)' <=> Rest(i)) /\ (Busy(i)' <=> Busy(i))
         /\ Dormant' <=> Dormant
         /\ UNCHANGED instance => Owned'
<1> USE DEF execVars, hookVars
<1>1. \A i \in Instance : Placed(i)' /\ Wanted(i)'
      BY DEF Lifecycle, Placed, Wanted, StopAhead
<1>2. \A i \in Instance : (Rest(i)' <=> Rest(i)) /\ (Busy(i)' <=> Busy(i))
      BY DEF Rest, Busy, StopAhead
<1>3. Dormant' <=> Dormant
      BY <1>2 DEF Dormant
<1>4. UNCHANGED instance => Owned'
  <2>1. writer \in Instance \cup {0}
        BY DEF Typing, TypeOK, ServiceTypeOK
  <2>2. QED BY <1>2, <2>1 DEF Lifecycle, Owned
<1>5. QED BY <1>1, <1>2, <1>3, <1>4

\* A request reaches the object that is up, or a new one while all others rest.
LEMMA RequestStep ==
  ASSUME Typing, Lifecycle, NEW type \in {"start", "stop"}, SendIntent(type),
         UNCHANGED <<promoting, desired, execVars, state>>
  PROVE  Lifecycle'
<1> DEFINE m == [to |-> instance', type |-> type, id |-> lastId']
<1>1. inbox' = Append(inbox, m)
      BY DEF SendIntent
<1>2. m.to = instance' /\ m.type = type /\ m.id = lastId' /\ type # "destroy"
      OBVIOUS
<1>3. /\ inbox \in Seq(Message) /\ lastId \in Nat /\ lastId' \in Nat /\ lastId' # 0
      /\ instance' \in Instance /\ instance \in Instance \cup {0}
      BY SendIntentType DEF Typing, TypeOK, ServiceTypeOK, SendIntent
<1>4. m \in Message
      BY <1>3 DEF Message
<1> HIDE DEF m
<1>5. /\ DOMAIN inbox = 1 .. Len(inbox) /\ Len(inbox) \in Nat
      /\ inbox' # << >> /\ DOMAIN inbox' = 1 .. (Len(inbox) + 1)
      /\ Len(inbox) + 1 \in DOMAIN inbox' /\ inbox'[Len(inbox) + 1] = m
      /\ \A k \in DOMAIN inbox : k \in DOMAIN inbox' /\ inbox'[k] = inbox[k]
      /\ \A k \in DOMAIN inbox' : k \in DOMAIN inbox \/ k = Len(inbox) + 1
      /\ inbox # << >> => Head(inbox') = Head(inbox)
      /\ inbox = << >> => Head(inbox') = m
  <2>1. inbox = << >> => Head(inbox') = m
        BY <1>1
  <2>2. QED BY <1>1, <1>3, <1>4, <2>1, QueueAppended
<1>6. \A k \in DOMAIN inbox : inbox[k].id \in Nat
  <2>1. \A k \in DOMAIN inbox : inbox[k] \in Message
        BY <1>3
  <2>2. QED BY <2>1 DEF Message
<1>7. alive' /\ started'
      BY DEF SendIntent
<1>8. CASE alive
  <2>1. instance' = instance /\ lastId' = lastId + 1
        BY <1>8 DEF SendIntent
  <2>2. OneActs'
    <3>1. \A i \in Instance : i # instance' => Rest(i)'
          BY <2>1, ObjectsStay DEF Lifecycle, OneActs
    <3>2. inbox' # << >> /\ Head(inbox').type = "destroy" => Dormant'
          BY <1>2, <1>5, ObjectsStay DEF Lifecycle, OneActs
    <3>3. \A k \in DOMAIN inbox' : inbox'[k].type = "destroy" => k = 1
          BY <1>2, <1>5 DEF Lifecycle, OneActs
    <3>4. \A k \in DOMAIN inbox' : inbox'[k].type # "destroy" =>
            inbox'[k].to = instance' /\ inbox'[k].type \in {"start", "stop"}
          BY <1>2, <1>5, <2>1 DEF Lifecycle, OneActs
    <3>5. QED BY <1>7, <3>1, <3>2, <3>3, <3>4 DEF OneActs, Gone
  <2>3. Numbered'
    <3>1. \A k \in DOMAIN inbox' : inbox'[k].type # "destroy" => inbox'[k].id \in 1 .. lastId'
      <4>1. \A k \in DOMAIN inbox : inbox[k].type # "destroy" => inbox[k].id \in 1 .. lastId'
            BY <1>3, <2>1 DEF Lifecycle, Numbered
      <4>2. m.id \in 1 .. lastId'
            BY <1>2, <1>3
      <4>3. QED BY <1>5, <4>1, <4>2
    <3>2. \A k, n \in DOMAIN inbox' :
            k < n /\ inbox'[k].type # "destroy" => inbox'[k].id < inbox'[n].id
      <4> SUFFICES ASSUME NEW k \in DOMAIN inbox', NEW n \in DOMAIN inbox',
                          k < n, inbox'[k].type # "destroy"
                   PROVE  inbox'[k].id < inbox'[n].id
          OBVIOUS
      <4>1. k \in DOMAIN inbox
            BY <1>5
      <4>2. CASE n \in DOMAIN inbox
            BY <1>5, <4>1, <4>2 DEF Lifecycle, Numbered
      <4>3. CASE n = Len(inbox) + 1
        <5>1. inbox[k].id \in 1 .. lastId
              BY <1>5, <4>1 DEF Lifecycle, Numbered
        <5>2. inbox[k].id < lastId + 1
              BY <1>3, <5>1
        <5>3. QED BY <1>2, <1>5, <2>1, <4>1, <4>3, <5>2
      <4>4. QED BY <1>5, <4>2, <4>3
    <3>3. \A i \in Instance : \A k \in DOMAIN queue[i] :
            queue[i][k].id \in 1 .. lastId' /\ queue[i][k].id < lastId' /\ queue[i][k].self
          BY <1>3, <2>1 DEF Lifecycle, Numbered
    <3>4. \A i \in Instance : \A k \in DOMAIN queue[i], n \in DOMAIN inbox' :
            inbox'[n].type # "destroy" => queue[i][k].id < inbox'[n].id
      <4> SUFFICES ASSUME NEW i \in Instance, NEW k \in DOMAIN queue[i],
                          NEW n \in DOMAIN inbox', inbox'[n].type # "destroy"
                   PROVE  queue[i][k].id < inbox'[n].id
          OBVIOUS
      <4>1. CASE n \in DOMAIN inbox
            BY <1>5, <4>1 DEF Lifecycle, Numbered
      <4>2. CASE n = Len(inbox) + 1
            BY <1>2, <1>5, <3>3, <4>2
      <4>3. QED BY <1>5, <4>1, <4>2
    <3>5. \E k \in DOMAIN inbox' : inbox'[k].type # "destroy" /\ inbox'[k].id = lastId'
          BY <1>2, <1>5
    <3>6. queue' = queue
          BY DEF execVars
    <3>7. QED BY <3>1, <3>2, <3>3, <3>4, <3>5, <3>6 DEF Lifecycle, Numbered
  <2>4. QED BY <2>1, <2>2, <2>3, ObjectsStay DEF Lifecycle
<1>9. CASE ~alive
  <2>1. Dormant /\ (inbox # << >> => Head(inbox).type = "destroy" /\ Len(inbox) = 1)
        BY <1>9 DEF Lifecycle, OneActs, Gone
  <2>2. \A k \in DOMAIN inbox : k = 1 /\ inbox[k].type = "destroy"
        BY <1>3, <2>1, QueueHead
  <2>3. Dormant'
        BY <2>1, ObjectsStay
  <2>4. \A k \in DOMAIN inbox' : inbox'[k].type # "destroy" => inbox'[k] = m
        BY <1>5, <2>2
  <2>5. \A k \in DOMAIN inbox' : inbox'[k].type = "destroy" => k = 1
        BY <1>2, <1>5, <2>2
  <2>6. OneActs'
        BY <1>2, <1>7, <2>3, <2>4, <2>5 DEF OneActs, Gone, Dormant
  <2>7. \A i \in Instance : queue'[i] = << >>
        BY <2>3 DEF Dormant, Rest
  <2>8. Numbered'
    <3>1. \A k \in DOMAIN inbox' : inbox'[k].type # "destroy" => inbox'[k].id \in 1 .. lastId'
          BY <1>2, <1>3, <2>4
    <3>2. \A k, n \in DOMAIN inbox' :
            k < n /\ inbox'[k].type # "destroy" => inbox'[k].id < inbox'[n].id
          BY <1>2, <1>5, <2>2
    <3>3. \E k \in DOMAIN inbox' : inbox'[k].type # "destroy" /\ inbox'[k].id = lastId'
          BY <1>2, <1>5
    <3>4. QED BY <2>7, <3>1, <3>2, <3>3 DEF Numbered
  <2>9. Owned'
        BY <2>3 DEF Owned, Dormant
  <2>10. QED BY <2>6, <2>8, <2>9, ObjectsStay DEF Lifecycle
<1>10. QED BY <1>8, <1>9

\* A service that nobody asks for is destroyed at rest.
LEMMA BringDownStep == ASSUME Typing, Lifecycle, BringDown PROVE Lifecycle'
<1> DEFINE m == [to |-> instance, type |-> "destroy", id |-> 0]
<1>1. Dormant /\ inbox = << >>
      BY DEF BringDown, Lifecycle, OneActs, Gone
<1>2. /\ inbox' = <<m>> /\ m.type = "destroy" /\ ~alive'
      /\ UNCHANGED <<instance, started, promoting, desired, execVars, state>> /\ ~started
      BY <1>1 DEF BringDown, runtimeVars
<1> HIDE DEF m
<1>3. /\ inbox' # << >> /\ Head(inbox') = m /\ Len(inbox') = 1
      /\ DOMAIN inbox' = {1} /\ inbox'[1] = m
      BY <1>2
<1>4. Dormant'
      BY <1>1, <1>2, ObjectsStay
<1>5. OneActs'
      BY <1>2, <1>3, <1>4 DEF OneActs, Gone, Dormant
<1>6. \A i \in Instance : queue'[i] = << >>
      BY <1>4 DEF Dormant, Rest
<1>7. Numbered'
      BY <1>2, <1>3, <1>6 DEF Numbered, Gone
<1>8. QED BY <1>2, <1>5, <1>7, ObjectsStay DEF Lifecycle


----------------------------------------------------------------------------
(* The main thread.                                                        *)

\* A request at the head of the inbox is for the latest object.
LEMMA HeadIsServed ==
  ASSUME Typing, Lifecycle, inbox # << >>, Head(inbox).type # "destroy"
  PROVE  /\ Head(inbox).to = instance /\ instance \in Instance
         /\ started /\ alive
         /\ \A k \in DOMAIN inbox : inbox[k].type # "destroy"
         /\ \A j \in Instance : j # instance => Rest(j)
         /\ OwnedBy(instance)
<1>1. inbox \in Seq(Message) /\ Head(inbox) \in Message
      BY HeadType DEF Typing, TypeOK, ServiceTypeOK
<1>2. 1 \in DOMAIN inbox /\ Head(inbox) = inbox[1]
      BY <1>1, QueueHead
<1>3. Head(inbox).to = instance /\ instance \in Instance
      BY <1>1, <1>2 DEF Lifecycle, OneActs, Message
<1>4. started /\ alive
      BY DEF Lifecycle, OneActs, Gone
<1>5. \A k \in DOMAIN inbox : inbox[k].type # "destroy"
      BY <1>2 DEF Lifecycle, OneActs
<1>6. \A j \in Instance : j # instance => Rest(j) /\ ~Busy(j)
      BY RestNotBusy DEF Lifecycle, OneActs
<1>7. \A j \in Instance : j # instance => ~coreRunning[j] /\ pc[j] = "idle"
      BY <1>6 DEF Rest
<1>8. OwnedBy(instance)
      BY <1>3, <1>6, <1>7 DEF Lifecycle, Owned, OwnedBy
<1>9. QED BY <1>3, <1>4, <1>5, <1>6, <1>8

LEMMA OnStartStep == ASSUME Typing, Lifecycle, OnStart PROVE Lifecycle'
<1>1. inbox # << >> /\ Head(inbox).type = "start"
      BY DEF OnStart, Receives
<1>2. /\ Head(inbox).to = instance /\ instance \in Instance /\ started /\ alive
      /\ \A j \in Instance : j # instance => Rest(j)
      BY <1>1, HeadIsServed
<1>3. /\ UNCHANGED <<inbox, instance, alive, started, lastId, coreRunning, tun, queue, pc,
                     native, callback, writer, state>>
      /\ promoting' /\ desired'[instance]
      /\ \A j \in Instance : j # instance => desired'[j] = desired[j]
      BY <1>2 DEF OnStart, execVars, hookVars, runtimeVars, Typing, TypeOK, ServiceTypeOK
<1>4. \A j \in Instance : j # instance => Rest(j)'
      BY <1>2, <1>3 DEF Rest
<1>5. OneActs'
      BY <1>1, <1>2, <1>3, <1>4 DEF Lifecycle, OneActs, Gone
<1>6. Numbered'
      BY <1>1, <1>3 DEF Lifecycle, Numbered, Gone
<1>7. Owned'
      BY <1>3 DEF Lifecycle, Owned, Busy, StopAhead
<1>8. \A j \in Instance : Placed(j)'
      BY <1>3 DEF Lifecycle, Placed
<1>9. \A j \in Instance : j # instance => Wanted(j)'
      BY <1>4 DEF Rest, Wanted, Opening
<1>10. Wanted(instance)'
  <2>1. Wanted(instance)
        BY <1>2 DEF Lifecycle
  <2>2. QED BY <1>3, <2>1 DEF Wanted, StopAhead
<1>11. \A j \in Instance : Wanted(j)'
      BY <1>3, <1>9, <1>10
<1>12. QED BY <1>5, <1>6, <1>7, <1>8, <1>11 DEF Lifecycle

\* The request at the head of the inbox becomes the last task of its object.
LEMMA TakenIntoQueue ==
  ASSUME Typing, Lifecycle, inbox # << >>, Head(inbox).type # "destroy",
         NEW type \in {"start", "stop"}, inbox' = Tail(inbox),
         Enqueue(instance, [type |-> type, id |-> Head(inbox).id, self |-> TRUE]),
         UNCHANGED <<instance, alive, started, lastId>>
  PROVE  /\ Numbered'
         /\ \A k \in DOMAIN inbox' : inbox'[k].type # "destroy" /\ inbox'[k].to = instance
                                     /\ inbox'[k].type \in {"start", "stop"}
         /\ inbox' # << >> => Head(inbox').type # "destroy"
         /\ \A j \in Instance : j # instance => queue'[j] = queue[j]
         /\ Len(queue'[instance]) = Len(queue[instance]) + 1
         /\ queue'[instance] # << >> /\ queue'[instance][Len(queue'[instance])].type = type
         /\ queue[instance] # << >> =>
              Head(queue'[instance]) = Head(queue[instance]) /\ Len(queue'[instance]) # 1
         /\ \A k \in DOMAIN queue[instance] :
              k \in DOMAIN queue'[instance] /\ queue'[instance][k] = queue[instance][k]
         /\ \A k \in DOMAIN queue'[instance] :
              \/ k \in DOMAIN queue[instance]
              \/ k = Len(queue[instance]) + 1 /\ queue'[instance][k].type = type
         /\ Len(queue[instance]) + 1 \in DOMAIN queue'[instance]
<1> DEFINE i == instance
           task == [type |-> type, id |-> Head(inbox).id, self |-> TRUE]
<1>1. /\ i \in Instance /\ started
      /\ \A k \in DOMAIN inbox : inbox[k].type # "destroy"
      BY HeadIsServed
<1>2. /\ inbox \in Seq(Message) /\ queue[i] \in Seq(Task) /\ lastId \in Nat
      /\ Head(inbox) \in Message /\ Head(inbox).id \in Nat
      BY <1>1, HeadType DEF Typing, TypeOK, ServiceTypeOK
<1>3. task \in Task /\ task.id = Head(inbox).id /\ task.self /\ task.type = type
      BY <1>2 DEF Task
<1>4. queue'[i] = Append(queue[i], task) /\ \A j \in Instance : j # i => queue'[j] = queue[j]
      BY <1>1 DEF Enqueue, Typing, TypeOK, ServiceTypeOK
<1> HIDE DEF task
<1>5. /\ Len(queue'[i]) = Len(queue[i]) + 1 /\ Len(queue[i]) \in Nat
      /\ queue'[i] # << >>
      /\ Len(queue[i]) + 1 \in DOMAIN queue'[i] /\ queue'[i][Len(queue[i]) + 1] = task
      /\ DOMAIN queue[i] = 1 .. Len(queue[i])
      /\ \A k \in DOMAIN queue[i] : k \in DOMAIN queue'[i] /\ queue'[i][k] = queue[i][k]
      /\ \A k \in DOMAIN queue'[i] : k \in DOMAIN queue[i] \/ k = Len(queue[i]) + 1
      /\ queue[i] # << >> => Head(queue'[i]) = Head(queue[i])
      BY <1>2, <1>3, <1>4, QueueAppended
<1>6. queue[i] # << >> => Len(queue'[i]) # 1
  <2>1. queue[i] # << >> => Len(queue[i]) \in Nat \ {0}
        BY <1>2, QueueHead
  <2>2. QED BY <1>5, <2>1
<1>7. /\ 1 \in DOMAIN inbox /\ Head(inbox) = inbox[1]
      /\ \A k \in DOMAIN inbox' : k + 1 \in DOMAIN inbox /\ inbox'[k] = inbox[k + 1]
      /\ \A k \in DOMAIN inbox : k # 1 => k - 1 \in DOMAIN inbox' /\ inbox[k] = inbox'[k - 1]
      BY <1>2, QueueHead
<1>8. \A k \in DOMAIN inbox' : k \in Nat /\ 1 < k + 1
      BY <1>2, QueueHead
<1>9. \A k \in DOMAIN inbox' : inbox'[k].type # "destroy" /\ inbox'[k].to = instance
                               /\ inbox'[k].type \in {"start", "stop"}
      BY <1>1, <1>7 DEF Lifecycle, OneActs
<1>10. inbox' # << >> => Head(inbox').type # "destroy"
  <2>1. inbox' \in Seq(Message)
        BY HeadType
  <2>2. inbox' # << >> => 1 \in DOMAIN inbox' /\ Head(inbox') = inbox'[1]
        BY <2>1, QueueHead
  <2>3. QED BY <1>9, <2>2
<1>11. Numbered'
  <2>1. /\ task.id = inbox[1].id /\ task.id \in 1 .. lastId
        /\ \A k \in DOMAIN queue[i] : queue[i][k].id < task.id
        BY <1>1, <1>3, <1>7 DEF Lifecycle, Numbered
  <2>2. \A k \in DOMAIN inbox' : inbox'[k].id \in 1 .. lastId /\ task.id < inbox'[k].id
    <3> SUFFICES ASSUME NEW k \in DOMAIN inbox'
                 PROVE  inbox'[k].id \in 1 .. lastId /\ task.id < inbox'[k].id
        OBVIOUS
    <3>1. k + 1 \in DOMAIN inbox /\ inbox'[k] = inbox[k + 1] /\ 1 < k + 1
          BY <1>7, <1>8
    <3>2. QED BY <1>1, <1>7, <2>1, <3>1 DEF Lifecycle, Numbered
  <2>3. \A k, n \in DOMAIN inbox' : k < n => inbox'[k].id < inbox'[n].id
    <3> SUFFICES ASSUME NEW k \in DOMAIN inbox', NEW n \in DOMAIN inbox', k < n
                 PROVE  inbox'[k].id < inbox'[n].id
        OBVIOUS
    <3>1. k + 1 \in DOMAIN inbox /\ n + 1 \in DOMAIN inbox /\ k + 1 < n + 1
          BY <1>7, <1>8
    <3>2. QED BY <1>1, <1>7, <3>1 DEF Lifecycle, Numbered
  <2>4. \A k \in DOMAIN queue'[i] : queue'[i][k].id \in 1 .. lastId /\ queue'[i][k].self
        BY <1>1, <1>3, <1>5, <2>1 DEF Lifecycle, Numbered
  <2>5. \A k, n \in DOMAIN queue'[i] : k < n => queue'[i][k].id < queue'[i][n].id
    <3> SUFFICES ASSUME NEW k \in DOMAIN queue'[i], NEW n \in DOMAIN queue'[i], k < n
                 PROVE  queue'[i][k].id < queue'[i][n].id
        OBVIOUS
    <3>1. k \in DOMAIN queue[i]
          BY <1>5
    <3>2. CASE n \in DOMAIN queue[i]
          BY <1>1, <1>5, <3>1, <3>2 DEF Lifecycle, Numbered
    <3>3. CASE n = Len(queue[i]) + 1
          BY <1>5, <2>1, <3>1, <3>3
    <3>4. QED BY <1>5, <3>2, <3>3
  <2>6. \A k \in DOMAIN queue'[i], n \in DOMAIN inbox' : queue'[i][k].id < inbox'[n].id
    <3> SUFFICES ASSUME NEW k \in DOMAIN queue'[i], NEW n \in DOMAIN inbox'
                 PROVE  queue'[i][k].id < inbox'[n].id
        OBVIOUS
    <3>1. CASE k \in DOMAIN queue[i]
          BY <1>1, <1>5, <1>7, <3>1 DEF Lifecycle, Numbered
    <3>2. CASE k = Len(queue[i]) + 1
          BY <1>5, <2>2, <3>2
    <3>3. QED BY <1>5, <3>1, <3>2
  <2>7. \A j \in Instance : j # i =>
          /\ \A k \in DOMAIN queue'[j] : queue'[j][k].id \in 1 .. lastId /\ queue'[j][k].self
          /\ \A k, n \in DOMAIN queue'[j] : k < n => queue'[j][k].id < queue'[j][n].id
          /\ \A k \in DOMAIN queue'[j], n \in DOMAIN inbox' : queue'[j][k].id < inbox'[n].id
        BY <1>1, <1>4, <1>7 DEF Lifecycle, Numbered
  <2>8. \/ \E k \in DOMAIN inbox' : inbox'[k].id = lastId
        \/ \E k \in DOMAIN queue'[i] : queue'[i][k].id = lastId
    <3>1. CASE \E k \in DOMAIN inbox : inbox[k].id = lastId
      <4>1. PICK k \in DOMAIN inbox : inbox[k].id = lastId
            BY <3>1
      <4>2. CASE k = 1
            BY <1>5, <2>1, <4>1, <4>2
      <4>3. CASE k # 1
            BY <1>7, <4>1, <4>3
      <4>4. QED BY <4>2, <4>3
    <3>2. CASE \E k \in DOMAIN queue[i] : queue[i][k].id = lastId
          BY <1>5, <3>2
    <3>3. QED BY <1>1, <3>1, <3>2 DEF Lifecycle, Numbered, Gone
  <2>9. QED BY <1>1, <1>9, <2>2, <2>3, <2>4, <2>5, <2>6, <2>7, <2>8 DEF Numbered
<1>12. QED BY <1>3, <1>4, <1>5, <1>6, <1>9, <1>10, <1>11


\* What the message that was taken leaves to show: its object.
LEMMA Taken ==
  ASSUME Typing, Lifecycle, inbox # << >>, Head(inbox).type # "destroy",
         NEW type \in {"start", "stop"}, inbox' = Tail(inbox),
         Enqueue(instance, [type |-> type, id |-> Head(inbox).id, self |-> TRUE]),
         UNCHANGED <<instance, alive, started, lastId, coreRunning, tun, pc, callback>>,
         \A j \in Instance : j # instance => desired'[j] = desired[j],
         NEW i \in Instance, i = instance, Placed(i)', Wanted(i)', OwnedBy(i)'
  PROVE  Lifecycle'
<1>1. \A j \in Instance : j # i => Rest(j) /\ queue'[j] = queue[j]
      BY HeadIsServed, TakenIntoQueue
<1>2. \A j \in Instance : j # i => Rest(j)'
      BY <1>1 DEF Rest
<1>3. started /\ alive
      BY HeadIsServed
<1>4. OneActs'
      BY <1>2, <1>3, TakenIntoQueue DEF OneActs, Gone
<1>5. Numbered'
      BY TakenIntoQueue
<1>6. Owned'
      BY DEF Owned, OwnedBy
<1>7. \A j \in Instance : j # i => Placed(j)' /\ Wanted(j)'
      BY <1>2 DEF Rest, Placed, Wanted, Opening, Failing, Stopping
<1>8. QED BY <1>4, <1>5, <1>6, <1>7 DEF Lifecycle

LEMMA OnStartPromotedStep == ASSUME Typing, Lifecycle, OnStartPromoted PROVE Lifecycle'
<1>1. inbox # << >> /\ Head(inbox).type = "start"
      BY DEF OnStartPromoted, Typing, Objects
<1>2. Head(inbox).to = instance /\ instance \in Instance /\ OwnedBy(instance)
      BY <1>1, HeadIsServed
<1> DEFINE i == instance
<1>3. /\ inbox' = Tail(inbox)
      /\ Enqueue(i, [type |-> "start", id |-> Head(inbox).id, self |-> TRUE])
      /\ UNCHANGED <<instance, alive, started, lastId, desired, coreRunning, tun, pc, native,
                     callback, writer, state>>
      /\ ~promoting'
      BY <1>2 DEF OnStartPromoted, hookVars, runtimeVars
<1>4. /\ queue'[i] # << >> /\ queue'[i][Len(queue'[i])].type = "start"
      /\ queue[i] # << >> => Head(queue'[i]) = Head(queue[i]) /\ Len(queue'[i]) # 1
      /\ \A k \in DOMAIN queue[i] : k \in DOMAIN queue'[i] /\ queue'[i][k] = queue[i][k]
      /\ \A k \in DOMAIN queue'[i] :
           k \in DOMAIN queue[i] \/ queue'[i][k].type = "start"
      BY <1>1, <1>3, TakenIntoQueue
<1>5. Placed(i) /\ Wanted(i)
      BY <1>2 DEF Lifecycle
<1>6. StopAhead(i)' <=> StopAhead(i)
      BY <1>3, <1>4 DEF StopAhead
<1>7. Placed(i)'
      BY <1>3, <1>4, <1>5 DEF Placed
<1>8. Wanted(i)'
      BY <1>3, <1>4, <1>5, <1>6 DEF Wanted, Placed, Failing
<1>9. OwnedBy(i)'
      BY <1>2, <1>3, <1>6 DEF OwnedBy, Busy
<1>10. \A j \in Instance : j # instance => desired'[j] = desired[j]
      BY <1>3
<1>11. QED BY <1>1, <1>2, <1>3, <1>7, <1>8, <1>9, <1>10, Taken

LEMMA OnStopStep == ASSUME Typing, Lifecycle, OnStop PROVE Lifecycle'
<1>1. inbox # << >> /\ Head(inbox).type = "stop" /\ ~promoting
      BY DEF OnStop, Receives
<1>2. Head(inbox).to = instance /\ instance \in Instance /\ OwnedBy(instance)
      BY <1>1, HeadIsServed
<1> DEFINE i == instance
<1>3. /\ inbox' = Tail(inbox)
      /\ Enqueue(i, [type |-> "stop", id |-> Head(inbox).id, self |-> TRUE])
      /\ UNCHANGED <<instance, alive, started, lastId, coreRunning, tun, pc, native,
                     callback, writer, promoting>>
      /\ ~desired'[i] /\ \A j \in Instance : j # i => desired'[j] = desired[j]
      BY <1>2 DEF OnStop, RequestStop, hookVars, Typing, TypeOK, ServiceTypeOK
<1>4. /\ queue'[i] # << >> /\ queue'[i][Len(queue'[i])].type = "stop"
      /\ queue[i] # << >> => Head(queue'[i]) = Head(queue[i]) /\ Len(queue'[i]) # 1
      /\ Len(queue'[i]) = Len(queue[i]) + 1 /\ Len(queue[i]) + 1 \in DOMAIN queue'[i]
      BY <1>1, <1>3, TakenIntoQueue
<1>5. Placed(i)
      BY <1>2 DEF Lifecycle
<1>6. StopAhead(i)'
  <2>1. queue[i] = << >> => pc[i] # "leave"
        BY <1>5 DEF Placed, Stopping
  <2>2. Len(queue'[i]) = 1 => pc'[i] # "leave"
        BY <1>3, <1>4, <2>1
  <2>3. QED BY <1>3, <1>4, <2>2 DEF StopAhead
<1>7. Placed(i)'
      BY <1>3, <1>4, <1>5 DEF Placed
<1>8. Wanted(i)'
      BY <1>3, <1>6 DEF Wanted
<1>9. OwnedBy(i)'
      BY <1>2, <1>3, <1>6 DEF OwnedBy, Busy
<1>10. QED BY <1>1, <1>2, <1>3, <1>7, <1>8, <1>9, Taken

\* A destroyed object has nothing left to stop.
LEMMA OnDestroyStep == ASSUME Typing, Lifecycle, OnDestroy PROVE Lifecycle'
<1> DEFINE i == Head(inbox).to
<1>1. inbox # << >> /\ Head(inbox).type = "destroy"
      BY DEF OnDestroy, Receives
<1>2. Dormant /\ i \in Instance
      BY <1>1, HeadType DEF Lifecycle, OneActs
<1>3. /\ inbox' = Tail(inbox)
      /\ UNCHANGED <<instance, alive, started, lastId, promoting, execVars, state>>
      /\ desired' = desired
  <2>1. ~coreRunning[i] /\ state = "disconnected" /\ ~desired[i]
        BY <1>2 DEF Dormant, Rest
  <2>2. desired' = [desired EXCEPT ![i] = FALSE]
        BY DEF OnDestroy
  <2>3. desired' = desired
    <3>1. desired \in [Instance -> BOOLEAN]
          BY DEF Typing, TypeOK, ServiceTypeOK
    <3>2. desired[i] = FALSE
          BY <1>2, <2>1, <3>1
    <3>3. QED BY <1>2, <2>2, <3>1, <3>2
  <2>4. QED BY <2>1, <2>3 DEF OnDestroy, execVars, hookVars
<1> HIDE DEF i
<1>4. inbox \in Seq(Message)
      BY DEF Typing, TypeOK, ServiceTypeOK
<1>5. /\ inbox[1] = Head(inbox)
      /\ inbox' = << >> <=> Len(inbox) = 1
      /\ \A k \in DOMAIN inbox' : k + 1 \in DOMAIN inbox /\ inbox'[k] = inbox[k + 1]
      /\ \A k \in DOMAIN inbox : k # 1 => k - 1 \in DOMAIN inbox' /\ inbox[k] = inbox'[k - 1]
      BY <1>1, <1>3, <1>4, QueueHead
<1>6. \A k \in DOMAIN inbox' : k \in Nat /\ k + 1 # 1
      BY <1>1, <1>3, <1>4, QueueHead, LenProperties
<1>7. \A k \in DOMAIN inbox' : inbox'[k].type # "destroy"
      BY <1>5, <1>6 DEF Lifecycle, OneActs
<1>8. inbox' # << >> => Head(inbox').type # "destroy"
  <2>1. inbox' \in Seq(Message)
        BY <1>1, <1>3, HeadType
  <2>2. inbox' # << >> => 1 \in DOMAIN inbox' /\ Head(inbox') = inbox'[1]
        BY <2>1, QueueHead
  <2>3. QED BY <1>7, <2>2
<1>9. OneActs'
  <2>1. Dormant'
        BY <1>2, <1>3, ObjectsStay
  <2>2. Gone => inbox' = << >>
        BY <1>1, <1>5 DEF Lifecycle, OneActs
  <2>3. \A k \in DOMAIN inbox' :
          inbox'[k].to = instance /\ inbox'[k].type \in {"start", "stop"}
        BY <1>5, <1>7 DEF Lifecycle, OneActs
  <2>4. ~alive' => ~started'
        BY <1>3 DEF Lifecycle, OneActs
  <2>5. QED BY <1>3, <1>7, <1>8, <2>1, <2>2, <2>3, <2>4 DEF OneActs, Gone, Dormant
<1>10. Numbered'
  <2>1. \A j \in Instance : queue'[j] = << >> /\ ~coreRunning[j]
        BY <1>2, <1>3 DEF Dormant, Rest, execVars
  <2>2. \A k \in DOMAIN inbox' : inbox'[k].id \in 1 .. lastId
        BY <1>5, <1>7 DEF Lifecycle, Numbered
  <2>3. \A k, n \in DOMAIN inbox' : k < n => inbox'[k].id < inbox'[n].id
    <3> SUFFICES ASSUME NEW k \in DOMAIN inbox', NEW n \in DOMAIN inbox', k < n
                 PROVE  inbox'[k].id < inbox'[n].id
        OBVIOUS
    <3>1. k + 1 \in DOMAIN inbox /\ n + 1 \in DOMAIN inbox /\ k + 1 < n + 1
          BY <1>5, <1>6
    <3>2. QED BY <1>5, <1>7, <3>1 DEF Lifecycle, Numbered
  <2>4. started => \E k \in DOMAIN inbox' : inbox'[k].id = lastId
    <3> SUFFICES ASSUME started PROVE \E k \in DOMAIN inbox' : inbox'[k].id = lastId
        OBVIOUS
    <3>1. PICK k \in DOMAIN inbox : inbox[k].type # "destroy" /\ inbox[k].id = lastId
      <4>1. instance \in Instance
            BY DEF Lifecycle, OneActs, Typing, TypeOK, ServiceTypeOK, Objects
      <4>2. QED BY <1>1, <1>3, <2>1, <4>1 DEF Lifecycle, Numbered, Gone, execVars
    <3>2. k # 1
          BY <1>1, <1>5, <3>1
    <3>3. QED BY <1>5, <3>1, <3>2
  <2>5. QED BY <1>3, <1>7, <2>1, <2>2, <2>3, <2>4 DEF Numbered, Gone
<1>11. QED BY <1>3, <1>9, <1>10, ObjectsStay DEF Lifecycle

----------------------------------------------------------------------------
(* Every step.                                                             *)

\* The plugin only sends requests.
LEMMA PluginOnlyAsks ==
  ASSUME Undisturbed, PluginStep
  PROVE  \/ UNCHANGED watched
         \/ \E type \in {"start", "stop"} :
              SendIntent(type) /\ UNCHANGED <<promoting, desired, execVars, state>>
<1> USE DEF watched, serviceVars, managerVars, IntentSent, IntentLost
<1>1. CASE PrepareConfig
      BY <1>1 DEF PrepareConfig
<1>2. CASE CallStart \/ ContinueRestart
      BY <1>2 DEF CallStart, ContinueRestart, PluginStart, RefuseStart, WaitForStart,
         FailStartAtOnce
<1>3. ASSUME NEW method \in {"stop", "restart"}, CallStop(method)
      PROVE  \/ UNCHANGED watched
             \/ \E type \in {"start", "stop"} :
                  SendIntent(type) /\ UNCHANGED <<promoting, desired, execVars, state>>
      BY <1>3 DEF CallStop
<1>4. CASE PermissionResult
      BY <1>4 DEF PermissionResult
<1>5. ASSUME NEW c \in Call, StartTimeout(c) \/ StopTimeout(c)
      PROVE  \/ UNCHANGED watched
             \/ \E type \in {"start", "stop"} :
                  SendIntent(type) /\ UNCHANGED <<promoting, desired, execVars, state>>
      BY <1>5 DEF StartTimeout, StopTimeout
<1>6. ASSUME NEW type \in Outside, ExternalIntent(type)
      PROVE  \E t \in {"start", "stop"} :
               SendIntent(t) /\ UNCHANGED <<promoting, desired, execVars, state>>
  <2>1. type \in {"start", "stop"}
        BY <1>6 DEF Outside, Undisturbed
  <2>2. QED BY <1>6, <2>1 DEF ExternalIntent, runtimeVars
<1>7. QED BY <1>1, <1>2, <1>3, <1>4, <1>5, <1>6 DEF PluginStep

LEMMA LifecycleStep == Undisturbed /\ Typing /\ Lifecycle /\ [Next]_vars => Lifecycle'
<1> SUFFICES ASSUME Undisturbed, Typing, Lifecycle, [Next]_vars PROVE Lifecycle'
    OBVIOUS
<1>1. CASE PluginStep
      BY <1>1, PluginOnlyAsks, QuietStep, RequestStep
<1>2. CASE ServiceStep
  <2>1. ~OnStartNotPromoted /\ ~OnRevoke
        BY DEF OnStartNotPromoted, OnRevoke, Undisturbed
  <2>2. ~OnOther
    <3> SUFFICES ASSUME OnOther PROVE FALSE
        OBVIOUS
    <3>1. inbox # << >> /\ Head(inbox).type = "other" /\ inbox \in Seq(Message)
          BY DEF OnOther, Receives, Typing, TypeOK, ServiceTypeOK
    <3>2. 1 \in DOMAIN inbox /\ inbox[1].type = "other"
          BY <3>1, QueueHead
    <3>3. QED BY <3>2 DEF Lifecycle, OneActs
  <2>3. QED
    BY <1>2, <2>1, <2>2, OnStartStep, OnStartPromotedStep, OnStopStep, OnDestroyStep,
       BringDownStep, ExecutorStep DEF ServiceStep, MainStep
<1>3. CASE UNCHANGED vars
      BY <1>3, QuietStep DEF vars, runtimeVars, serviceVars, managerVars, watched
<1>4. QED BY <1>1, <1>2, <1>3 DEF Next

\* What the theorems below rest on: of all objects and requests one acts at a time, and
\* its place says what it has opened, started and still has to take back.
THEOREM LifecycleHolds == ASSUME Undisturbed PROVE Spec => [](Typing /\ Lifecycle)
BY TypingInit, TypingStep, LifecycleInit, LifecycleStep, PTL DEF Spec

----------------------------------------------------------------------------
(* The invariants that are checked.                                        *)

\* "Start completed after stop request; queued stop will clean up": there is one, for
\* the core runs on and nobody wants it.
LEMMA StopIsQueued == Typing /\ Lifecycle => QueuedStopCleansUp
<1> SUFFICES ASSUME Typing, Lifecycle, NEW i \in Instance, At(i, "verify"), ~desired[i]
             PROVE  \E k \in 2 .. Len(queue[i]) : queue[i][k].type = "stop"
    BY DEF QueuedStopCleansUp
<1>1. queue[i] \in Seq(Task) /\ queue[i] # << >>
      BY DEF At, Typing, TypeOK, ServiceTypeOK
<1>2. Head(queue[i]).type = "start" /\ StopAhead(i)
      BY DEF At, Lifecycle, Placed, Wanted, Opening
<1>3. PICK k \in DOMAIN queue[i] : queue[i][k].type = "stop"
      BY <1>2 DEF StopAhead
<1>4. k # 1
      BY <1>1, <1>2, <1>3, QueueHead
<1>5. DOMAIN queue[i] = 1 .. Len(queue[i]) /\ Len(queue[i]) \in Nat
      BY <1>1, QueueHead
<1>6. k \in 2 .. Len(queue[i])
      BY <1>4, <1>5
<1>7. QED BY <1>3, <1>6

\* A start that finds its VPN cancelled during the native call has a stop queued behind
\* it that takes the core down.
THEOREM StopBehindLateStart == ASSUME Undisturbed PROVE Spec => []QueuedStopCleansUp
BY LifecycleHolds, StopIsQueued, PTL

\* A start that is ignored because the VPN is connected is answered truthfully: the core
\* runs.
THEOREM IgnoredIsConnected == ASSUME Undisturbed PROVE Spec => []IgnoredStartIsConnected
<1>1. Lifecycle => IgnoredStartIsConnected
      BY DEF Lifecycle, Placed, IgnoredStartIsConnected, At
<1>2. QED BY <1>1, LifecycleHolds, PTL

\* Two objects never tell the core about networks at the same time: an older one has
\* taken its callback back and its executor is at rest when the next one is created.
THEOREM OneObjectAtATime == ASSUME Undisturbed PROVE Spec => []OneObjectNotifies
<1>1. Lifecycle => OneObjectNotifies
  <2> SUFFICES ASSUME Lifecycle, NEW i \in Instance, Notifies(i) PROVE i = instance
      BY DEF OneObjectNotifies
  <2>1. i # instance => ~callback[i] /\ pc[i] = "idle"
        BY DEF Lifecycle, OneActs, Rest
  <2>2. QED BY <2>1 DEF Notifies, At
<1>2. QED BY <1>1, LifecycleHolds, PTL

\* When nothing is under way an object has the core, wants it, follows the network and
\* is shown, or no object has anything.
LEMMA WhenSettled ==
  ASSUME Typing, Lifecycle, Settled
  PROVE  /\ \A i \in Instance : pc[i] = "idle" /\ ~tun[i] /\ (callback[i] => coreRunning[i])
         /\ native \in {"stopped", "running"}
         /\ native = "running" =>
              /\ instance \in Instance /\ alive /\ desired[instance] /\ callback[instance]
              /\ coreRunning[instance] /\ state = "connected"
         /\ native = "stopped" =>
              /\ \A i \in Instance : ~coreRunning[i]
              /\ ~started /\ state = "disconnected" /\ writer = 0
<1>1. \A i \in Instance : /\ queue[i] = << >> /\ ~StopAhead(i)
                          /\ Placed(i) /\ Wanted(i)
      BY DEF Settled, Lifecycle, StopAhead
<1>2. \A i \in Instance : pc[i] = "idle"
      BY <1>1 DEF Placed
<1>3. \A i \in Instance : /\ ~tun[i] /\ (callback[i] => coreRunning[i])
                          /\ coreRunning[i] => /\ native = "running" /\ desired[i]
                                               /\ callback[i] /\ state = "connected"
      BY <1>1, <1>2 DEF Placed, Wanted
<1>4. \A i \in Instance : Busy(i) => coreRunning[i]
      BY <1>1, <1>2 DEF Busy, Opening, Failing
<1>5. native \in {"stopped", "running"}
  <2>1. native \in {"stopped", "starting", "running"}
        BY DEF Typing, TypeOK, ServiceTypeOK, Native
  <2>2. QED BY <1>2, <2>1 DEF Lifecycle, Owned
<1>6. ASSUME native = "running"
      PROVE  /\ instance \in Instance /\ alive /\ desired[instance] /\ callback[instance]
             /\ coreRunning[instance] /\ state = "connected"
  <2>1. PICK i \in Instance : coreRunning[i]
        BY <1>6 DEF Lifecycle, Owned
  <2>2. i = instance /\ alive
        BY <2>1 DEF Lifecycle, OneActs, Gone, Dormant, Rest
  <2>3. QED BY <1>3, <2>1, <2>2
<1>7. ASSUME native = "stopped"
      PROVE  /\ \A i \in Instance : ~coreRunning[i]
             /\ ~started /\ state = "disconnected" /\ writer = 0
  <2>1. \A i \in Instance : ~coreRunning[i] /\ ~Busy(i)
        BY <1>3, <1>4, <1>7
  <2>2. state = "disconnected"
        BY <2>1 DEF Lifecycle, Owned
  <2>3. writer = 0
        BY <2>1 DEF Lifecycle, Owned, Typing, TypeOK, ServiceTypeOK
  <2>4. ~started
    <3> SUFFICES ASSUME started PROVE FALSE
        OBVIOUS
    <3>1. instance \in Instance
          BY DEF Lifecycle, OneActs, Typing, TypeOK, ServiceTypeOK, Objects
    <3>2. inbox = << >> /\ queue[instance] = << >>
          BY <1>1, <3>1 DEF Settled
    <3>3. QED BY <2>1, <3>1, <3>2 DEF Lifecycle, Numbered, Gone
  <2>5. QED BY <2>1, <2>2, <2>3, <2>4
<1>8. QED BY <1>2, <1>3, <1>5, <1>6, <1>7

\* The state the user sees when nothing is under way is the core's.
THEOREM StateIsTrue == ASSUME Undisturbed PROVE Spec => []SettledStateIsTrue
<1>1. Typing /\ Lifecycle => SettledStateIsTrue
      BY WhenSettled DEF SettledStateIsTrue
<1>2. QED BY <1>1, LifecycleHolds, PTL

\* A core that runs when nothing is under way is the live service's.
THEOREM CoreIsOwned == ASSUME Undisturbed PROVE Spec => []SettledCoreIsOwned
<1>1. ASSUME Typing, Lifecycle, Settled, native = "running"
      PROVE  /\ alive /\ desired[instance] /\ coreRunning[instance]
             /\ \A i \in Instance : callback[i] <=> i = instance
             /\ writer = instance
  <2>1. \A i \in Instance : i # instance => ~callback[i]
        BY <1>1 DEF Lifecycle, OneActs, Rest
  <2>2. /\ instance \in Instance /\ alive
        /\ desired[instance] /\ coreRunning[instance] /\ callback[instance]
        BY <1>1, WhenSettled
  <2>3. writer = instance
        BY <1>1, <2>2 DEF Lifecycle, Placed
  <2>4. QED BY <2>1, <2>2, <2>3
<1>2. Typing /\ Lifecycle => SettledCoreIsOwned
      BY <1>1 DEF SettledCoreIsOwned
<1>3. QED BY <1>2, LifecycleHolds, PTL

\* When nothing is under way and no core runs, the service is stopped and holds nothing.
THEOREM ServiceIsStopped == ASSUME Undisturbed PROVE Spec => []SettledServiceIsStopped
<1>1. Typing /\ Lifecycle => SettledServiceIsStopped
      BY WhenSettled DEF SettledServiceIsStopped
<1>2. QED BY <1>1, LifecycleHolds, PTL

----------------------------------------------------------------------------
(* The answers.                                                            *)

\* Who answers a call now, and what the core does then: a "done" comes from a start
\* while the core runs, from a stop at the end of stopCore.
LEMMA DoneIsTrue ==
  ASSUME Typing, Waiting, Lifecycle, WaiterStep, NEW c \in Call, AnsweredNow(c, "done")
  PROVE  \/ kind[c] \in {"start", "restart"} /\ native = "running"
         \/ /\ kind[c] = "stop" /\ native = "stopped"
            /\ \E i \in Instance : At(i, "stopped") /\ StopDone(i)
<1>0. /\ kind \in [Call -> Kind] /\ reply \in [Call -> Seq(Result)] /\ posted \in Seq(Call)
      BY DEF Typing, TypeOK, RuntimeTypeOK
<1>1. reply'[c] # reply[c] /\ reply'[c][Len(reply'[c])] = "done"
      BY DEF AnsweredNow
<1>2. \A res \in Result : reply'[c] = Append(reply[c], res) => res = "done"
  <2> SUFFICES ASSUME NEW res \in Result, reply'[c] = Append(reply[c], res)
               PROVE  res = "done"
      OBVIOUS
  <2>1. reply[c] \in Seq(Result)
        BY <1>0
  <2>2. Len(reply'[c]) = Len(reply[c]) + 1 /\ reply'[c][Len(reply[c]) + 1] = res
        BY <2>1, QueueAppended
  <2>3. QED BY <1>1, <2>2
<1>3. ASSUME NEW d \in Call \cup {0}, NEW res \in Result, reply' = Answered(d, res)
      PROVE  c = d /\ d # 0 /\ res = "done"
  <2>1. d # 0 /\ c = d
        BY <1>1, <1>3, AnsweredOnly
  <2>2. reply'[c] = Append(reply[c], res)
        BY <1>0, <1>3, <2>1 DEF Answered
  <2>3. QED BY <1>2, <2>1, <2>2
<1>4. ASSUME NEW d \in Call,
             \/ reply' = reply
             \/ reply' = [reply EXCEPT ![d] = Append(reply[d], "error")]
      PROVE  FALSE
  <2>1. reply'[c] = Append(reply[c], "error")
        BY <1>0, <1>1, <1>4
  <2>2. QED BY <1>2, <2>1 DEF Result
<1>5. pendingStart \in Call \cup {0} /\ pendingStop \in Call \cup {0}
      BY WaitersCalled
<1>6. CASE UNCHANGED waiters
      BY <1>1, <1>6 DEF waiters
<1>7. ASSUME NEW res \in Result, CompleteStart(res),
             res = "done" => \E i \in Instance : StartIgnored(i) \/ ReplyStarted(i)
      PROVE  kind[c] \in {"start", "restart"} /\ native = "running"
  <2>1. c = pendingStart /\ pendingStart # 0 /\ res = "done"
        BY <1>3, <1>5, <1>7 DEF CompleteStart
  <2>2. PICK i \in Instance : StartIgnored(i) \/ ReplyStarted(i)
        BY <1>7, <2>1
  <2>3. native = "running"
        BY <2>2 DEF StartIgnored, ReplyStarted, At, Lifecycle, Placed
  <2>4. QED BY <2>1, <2>3 DEF Waiting
<1>8. ASSUME NEW res \in Result, CompleteStop(res),
             res = "done" => \E i \in Instance : At(i, "stopped") /\ StopDone(i)
      PROVE  /\ kind[c] = "stop" /\ native = "stopped"
             /\ \E i \in Instance : At(i, "stopped") /\ StopDone(i)
  <2>1. reply' = Answered(pendingStop, res)
        BY <1>1, <1>8 DEF CompleteStop
  <2>2. c = pendingStop /\ pendingStop # 0 /\ res = "done"
        BY <1>3, <1>5, <2>1
  <2>3. kind[c] \in {"stop", "restart"}
        BY <2>2 DEF Waiting
  <2>4. kind[c] # "restart"
        BY <1>1, <1>8, <2>2 DEF CompleteStop
  <2>5. PICK i \in Instance : At(i, "stopped") /\ StopDone(i)
        BY <1>8, <2>2
  <2>6. native = "stopped"
        BY <2>5 DEF At, Lifecycle, Placed
  <2>7. QED BY <2>3, <2>4, <2>5, <2>6
<1>9. ~CallStart
  <2> SUFFICES ASSUME CallStart PROVE FALSE
      OBVIOUS
  <2>1. calls + 1 \in Call /\ PluginStart(calls + 1)
        BY NewCallType DEF CallStart
  <2>2. QED BY <1>4, <2>1, PluginStartWaits
<1>10. \A method \in {"stop", "restart"} : ~CallStop(method)
  <2> SUFFICES ASSUME NEW method \in {"stop", "restart"}, CallStop(method) PROVE FALSE
      OBVIOUS
  <2>1. calls + 1 \in Call /\ calls + 1 # 0
        BY NewCallType, WaitersCalled DEF CallStop
  <2>2. reply' = reply \/ reply' = Answered(calls + 1, "error")
        BY DEF CallStop
  <2>3. QED BY <1>4, <2>1, <2>2, AnsweredOnly DEF Result
<1>11. ~ContinueRestart
  <2> SUFFICES ASSUME ContinueRestart PROVE FALSE
      OBVIOUS
  <2>1. Head(posted) \in Call /\ PluginStart(Head(posted))
        BY <1>0 DEF ContinueRestart
  <2>2. QED BY <1>4, <2>1, PluginStartWaits
<1>12. QED BY <1>6, <1>7, <1>8, <1>9, <1>10, <1>11 DEF WaiterStep


LEMMA AnswersTruly ==
  Typing /\ Waiting /\ Lifecycle /\ [Next]_vars =>
    [\A c \in Call :
       Contract!Answer(c, "done") =>
         IF kind[c] = "stop" THEN native = "stopped" \/ Contract!Superseded(c)
         ELSE native = "running"]_(Contract!contractVars)
<1> SUFFICES ASSUME Typing, Waiting, Lifecycle, [Next]_vars,
                    NEW c \in Call, Contract!Answer(c, "done")
             PROVE  IF kind[c] = "stop" THEN native = "stopped" \/ Contract!Superseded(c)
                    ELSE native = "running"
    OBVIOUS
<1>1. reply[c] = << >> /\ reply'[c] = <<"done">>
      BY DEF Contract!Answer, Typing, TypeOK, RuntimeTypeOK
<1>2. AnsweredNow(c, "done")
      BY <1>1 DEF AnsweredNow
<1>3. QED BY <1>2, StepOfWaiters, DoneIsTrue

\* A "done" is true when it is given: a start's while the core runs, a stop's while it is
\* down; and no call gets two answers.
THEOREM CallsKeepPromise == ASSUME Undisturbed PROVE Spec => CallsAsPromised
<1>1. Spec => [](Typing /\ Waiting /\ Lifecycle)
      BY TypingInit, TypingStep, WaitingInit, WaitingStep, LifecycleInit, LifecycleStep, PTL
      DEF Spec
<1>2. Spec => Contract!TrueAnswers
      BY <1>1, AnswersTruly, PTL DEF Spec, Contract!TrueAnswers
<1>3. QED BY <1>2, VpnAnswersOnce, PTL DEF CallsAsPromised, Contract!ContractSpec

\* "only after native listeners and the TUN interface have finished shutting down": when a
\* stop is answered "done" no interface that is wanted is open.
THEOREM DoneStopIsClosed == ASSUME Undisturbed PROVE Spec => StopDoneMeansClosed
<1>1. ASSUME Typing, Waiting, Lifecycle, [Next]_vars, NEW c \in Call, kind[c] = "stop",
             AnsweredNow(c, "done")
      PROVE  \A i \in Instance : ~(tun'[i] /\ desired[i])
  <2>1. PICK i \in Instance : At(i, "stopped") /\ StopDone(i)
        BY <1>1, StepOfWaiters, DoneIsTrue
  <2>2. i = instance /\ tun' = [tun EXCEPT ![i] = FALSE]
        BY <1>1, <2>1, WhoActs DEF At, StopDone
  <2>3. \A j \in Instance : j # i => ~tun[j]
        BY <1>1, <2>2 DEF Lifecycle, OneActs, Rest
  <2>4. tun \in [Instance -> BOOLEAN]
        BY <1>1 DEF Typing, TypeOK, ServiceTypeOK
  <2>5. QED BY <2>2, <2>3, <2>4
<1>2. Typing /\ Waiting /\ Lifecycle /\ [Next]_vars =>
        [\A c \in Call :
           (kind[c] = "stop" /\ AnsweredNow(c, "done")) =>
             \/ Contract!Superseded(c)
             \/ \A i \in Instance : ~(tun'[i] /\ desired[i])]_vars
      BY <1>1
<1>3. Spec => [](Typing /\ Waiting /\ Lifecycle)
      BY TypingInit, TypingStep, WaitingInit, WaitingStep, LifecycleInit, LifecycleStep, PTL
      DEF Spec
<1>4. QED BY <1>2, <1>3, PTL DEF Spec, StopDoneMeansClosed
=============================================================================
