---------------------------- MODULE MCVpnPlugin ----------------------------
(* Model-checking instance of VpnPlugin.                                   *)
EXTENDS VpnPlugin
=============================================================================
