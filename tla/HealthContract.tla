--------------------------- MODULE HealthContract ---------------------------
(***************************************************************************)
(* What the Android network health monitor promises to the core: the       *)
(* health checks of a revision of its state are decided on for the         *)
(* providers it may check at that moment, each provider gets one check and *)
(* at most one retry per revision, and a provider that may be checked is   *)
(* checked in the end, unless checks that do not return take up all there  *)
(* is to check with.  Nothing is said of runs, queues or workers.          *)
(***************************************************************************)
EXTENDS Naturals

CONSTANTS
  Provider,  \* provider objects
  Slow       \* providers whose checks may never return: nothing is promised

VARIABLES
  revision,  \* the number of changes of network, providers or run
  allowed,   \* the providers that may be checked now
  decided,   \* the checks decided on, as jobs
  crowded    \* checks that do not return take up everything; any step may change it

contractVars == <<revision, allowed, decided>>

CheckJob(p, n) == [provider |-> p, revision |-> revision, attempt |-> n]

ContractInit ==
  /\ revision = 0
  /\ allowed = {}
  /\ decided = {}

\* Something changed; what was decided stays decided.
Change ==
  /\ revision' = revision + 1
  /\ allowed' \in SUBSET Provider
  /\ UNCHANGED decided

\* The check of a provider, or its retry, is decided on.
Decide(p, n) ==
  /\ p \in allowed
  /\ CheckJob(p, n) \notin decided
  /\ n = 2 => CheckJob(p, 1) \in decided
  /\ decided' = decided \cup {CheckJob(p, n)}
  /\ UNCHANGED <<revision, allowed>>

ContractNext == Change \/ \E p \in Provider, n \in {1, 2} : Decide(p, n)

ContractSpec == ContractInit /\ [][ContractNext]_contractVars

\* A check that can be decided on is, unless it is crowded again and again.
ContractFairness ==
  \A p \in Provider \ Slow : WF_contractVars(Decide(p, 1) /\ ~crowded)

ContractFairSpec == ContractSpec /\ ContractFairness
=============================================================================
