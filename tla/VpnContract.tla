---------------------------- MODULE VpnContract ----------------------------
(***************************************************************************)
(* What the VPN promises to its Flutter callers: every call is answered,   *)
(* once, and a "done" is true when it is given: a stop is done only when   *)
(* the native core is down or a later call wants it up again, a start or   *)
(* restart only when it is up.                                             *)
(* Nothing is said of intents, services, executors, waiters or timers.     *)
(***************************************************************************)
EXTENDS Naturals

CONSTANTS
  Call  \* the calls that can be made, numbered in their order

VARIABLES
  kind,   \* [Call -> Kind]: the method of each call made
  reply,  \* [Call -> Seq(Result)]: the answers a call was given
  core    \* the native core: "stopped", "starting" or "running"

contractVars == <<kind, reply, core>>

Result == {"done", "error", "timeout"}

ContractInit ==
  /\ kind = [c \in Call |-> "none"]
  /\ reply = [c \in Call |-> << >>]
  /\ core = "stopped"

\* A method is called; what the plugin must refuse it refuses at once.
Make(c, method) ==
  /\ kind[c] = "none"
  /\ kind' = [kind EXCEPT ![c] = method]
  /\ reply' \in {reply, [reply EXCEPT ![c] = <<"error">>]}
  /\ UNCHANGED core

\* A later call asked for the VPN again.
Superseded(c) == \E d \in Call : d > c /\ kind[d] \in {"start", "restart"}

Answer(c, res) ==
  /\ kind[c] # "none" /\ reply[c] = << >>
  /\ reply' = [reply EXCEPT ![c] = <<res>>]
  /\ UNCHANGED <<kind, core>>

\* The core starts, comes up, fails or goes down, for whatever reason.
CoreMoves ==
  /\ core' \in {"stopped", "starting", "running"} \ {core}
  /\ UNCHANGED <<kind, reply>>

ContractNext ==
  \/ CoreMoves
  \/ \E c \in Call :
       \/ \E method \in {"start", "stop", "restart"} : Make(c, method)
       \/ \E res \in Result : Answer(c, res)

\* Every call is answered once,
AnswerSpec == ContractInit /\ [][ContractNext]_contractVars

\* truthfully,
TrueAnswers ==
  [][\A c \in Call :
       Answer(c, "done") =>
         IF kind[c] = "stop" THEN core = "stopped" \/ Superseded(c)
         ELSE core = "running"]_contractVars

\* and in the end.
ContractFairness ==
  \A c \in Call : WF_contractVars(\E res \in Result : Answer(c, res))

ContractSpec     == AnswerSpec /\ TrueAnswers
ContractFairSpec == AnswerSpec /\ ContractFairness
=============================================================================
