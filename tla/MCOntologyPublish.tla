------------------------- MODULE MCOntologyPublish -------------------------
(* Small instances of OntologyPublish for TLC.                              *)
EXTENDS OntologyPublish, TLC

CONSTANTS w1, w2, types, links, a

TwoWorkers == {w1, w2}
OneTable == {types}
TwoTables == {types, links}
OneItem == {a}

(* The workers are alike. *)
AnyWorker == Permutations(Workers)
=============================================================================
