--------------------------- MODULE MCCoreRuntime ---------------------------
(* Model-checking instance of CoreRuntime: the configuration a has both     *)
(* control hosts, b only the first, c none.                                 *)
EXTENDS CoreRuntime, TLC

CONSTANTS a, b, c, h1, h2

MCControl == a :> {h1, h2} @@ b :> {h1} @@ c :> {}
=============================================================================
