--------------------------- MODULE MCLogForwarder ---------------------------
(* Model-checking instance of LogForwarder, and of RotatingLog in it.        *)
EXTENDS LogForwarder
=============================================================================
