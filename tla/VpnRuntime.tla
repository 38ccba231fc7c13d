----------------------------- MODULE VpnRuntime -----------------------------
(***************************************************************************)
(* ClashmiVpnRuntime.kt: the process-wide object between the Flutter       *)
(* plugin and the Android service.  It keeps the observable VPN state, the *)
(* prepared configuration and at most one waiting start and one waiting    *)
(* stop; whoever finishes the work completes the waiter.  All its methods  *)
(* are synchronized, so each is one atomic operator here.                  *)
(*                                                                         *)
(* A waiter is the number of the Flutter call it answers, 0 for null.      *)
(***************************************************************************)
EXTENDS Naturals, Sequences

CONSTANTS
  MaxCall      \* bound: Flutter calls ever made

ASSUME RuntimeAssumption == MaxCall \in Nat

VARIABLES
  state,         \* currentState
  prepared,      \* preparedConfig is not null
  pendingStart,  \* the call that waits for a start
  pendingStop,   \* the call that waits for a stop
  kind,          \* [Call -> Kind]: the method of each call made
  reply,         \* [Call -> Seq(Result)]: the answers a call was given
  posted         \* restart continuations posted on the main looper, in order

runtimeVars == <<state, prepared, pendingStart, pendingStop, kind, reply, posted>>

Call   == 1 .. MaxCall
Kind   == {"none", "start", "stop", "restart"}
Result == {"done", "error", "timeout"}
State  == {"disconnected", "connecting", "connected", "disconnecting"}

RuntimeTypeOK ==
  /\ state \in State
  /\ prepared \in BOOLEAN
  /\ pendingStart \in Call \cup {0}
  /\ pendingStop \in Call \cup {0}
  /\ kind \in [Call -> Kind]
  /\ reply \in [Call -> Seq(Result)]
  /\ posted \in Seq(Call)

RuntimeInit ==
  /\ state = "disconnected"
  /\ prepared = FALSE
  /\ pendingStart = 0
  /\ pendingStop = 0
  /\ kind = [c \in Call |-> "none"]
  /\ reply = [c \in Call |-> << >>]
  /\ posted = << >>

\* The replies after the waiter c, if there is one, got the result res.
Answered(c, res) ==
  IF c = 0 THEN reply ELSE [reply EXCEPT ![c] = Append(@, res)]

\* Fault: the waiter is told the result and stays in its slot.
CompleteStartKeepingWaiter(res) ==
  /\ pendingStart' = pendingStart
  /\ reply' = Answered(pendingStart, res)

\* completeStart, and clearPendingStart with an error.
CompleteStart(res) ==
  /\ pendingStart' = 0
  /\ reply' = Answered(pendingStart, res)

\* Fault: the waiter is dropped without an answer.
ClearPendingStartSilently ==
  /\ pendingStart' = 0
  /\ reply' = reply

ClearPendingStart == CompleteStart("error")

\* Fault: whatever is not a plain stop, no waiter included, goes on as a restart.
CompleteStopRestartingAlways(res) ==
  LET stops == \E c \in Call : c = pendingStop /\ kind[c] = "stop"
  IN  /\ pendingStop' = 0
      /\ posted' = IF stops \/ res # "done" THEN posted ELSE Append(posted, pendingStop)
      /\ reply' = IF stops \/ res # "done" THEN Answered(pendingStop, res) ELSE reply

\* completeStop: the waiter of a restart does not answer a "done", it posts the
\* start that follows.
CompleteStop(res) ==
  LET restarts == pendingStop # 0 /\ kind[pendingStop] = "restart" /\ res = "done"
  IN  /\ pendingStop' = 0
      /\ posted' = IF restarts THEN Append(posted, pendingStop) ELSE posted
      /\ reply' = IF restarts THEN reply ELSE Answered(pendingStop, res)
=============================================================================
