------------------------------ MODULE YamlMerge ------------------------------
(***************************************************************************)
(* mergeMapping of core.go, the recursion over two trees.  RuntimeConfig   *)
(* has it as a parameter.                                                  *)
(***************************************************************************)
EXTENDS YamlTree

\* Fault: a mapping of the patch replaces the one it patches.
MergeShallow(dst, patch) ==
  Mapping(Over([k \in DOMAIN patch.of \ Skipped |-> patch.of[k]], dst.of))

\* A mapping is merged into a mapping; anything else replaces what is there.
RECURSIVE MergeMapping(_, _)
MergeMapping(dst, patch) ==
  LET Merged(k) == IF IsMapping(Find(dst, k)) /\ IsMapping(patch.of[k])
                   THEN MergeMapping(dst.of[k], patch.of[k]) ELSE patch.of[k]
  IN  Mapping(Over([k \in DOMAIN patch.of \ Skipped |-> Merged(k)], dst.of))
=============================================================================
