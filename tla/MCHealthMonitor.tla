-------------------------- MODULE MCHealthMonitor --------------------------
(* Model-checking instance of HealthMonitor.                               *)
EXTENDS HealthMonitor, TLC

\* The workers of a run are interchangeable in a safety run.
MonitorSymmetry == Permutations(Worker)
=============================================================================
