---------------------------- MODULE MCCoreSystem ----------------------------
(* Model-checking instance of CoreSystem: the configuration a has a control  *)
(* host and a local proxy, b has neither, c another proxy, whose port is      *)
(* spelled so that the build does not find it.                               *)
EXTENDS CoreSystem, TLC

CONSTANTS a, b, c, h1, portA, portC

MCControl    == a :> {h1} @@ b :> {} @@ c :> {}
MCBuildProxy == a :> portA @@ b :> NoProxy @@ c :> NoProxy
MCProxy      == a :> portA @@ b :> NoProxy @@ c :> portC
=============================================================================
