------------------------------ MODULE YamlTree ------------------------------
(***************************************************************************)
(* The yaml.Node trees of core.go and how it reads and edits them.  A node *)
(* is a kind and a content; scalars are strings, as in yaml.Node, and a    *)
(* list of name servers is one scalar.                                     *)
(***************************************************************************)
EXTENDS Sequences

Scalar(v)   == [kind |-> "scalar", of |-> v]
Sequence(s) == [kind |-> "sequence", of |-> s]
Mapping(f)  == [kind |-> "mapping", of |-> f]
None        == [kind |-> "none", of |-> "none"]

\* The content f laid over the content g.
Over(f, g) == [k \in DOMAIN f \cup DOMAIN g |-> IF k \in DOMAIN f THEN f[k] ELSE g[k]]

IsMapping(n) == n.kind = "mapping"

\* findValue, scalarString, ensureMapping, setNode
Find(m, k)    == IF k \in DOMAIN m.of THEN m.of[k] ELSE None
Text(m, k)    == IF Find(m, k).kind = "scalar" THEN Find(m, k).of ELSE ""
Section(m, k) == IF IsMapping(Find(m, k)) THEN Find(m, k) ELSE Mapping(<< >>)
Set(m, k, v)  == Mapping(Over([j \in {k} |-> v], m.of))
Entries(m, k) == IF Find(m, k).kind = "sequence" THEN Find(m, k).of ELSE << >>

\* shouldSkipPatchKey
Skipped == {"overwrite-rule-providers", "overwrite-rules", "overwrite-sub-rules",
            "overwrite-proxy-groups", "overwrite-hosts", "extension"}
=============================================================================
