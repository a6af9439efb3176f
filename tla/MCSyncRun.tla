----------------------------- MODULE MCSyncRun -----------------------------
(* Small instances of SyncRun for TLC.                                      *)
EXTENDS SyncRun, TLC

CONSTANTS r1, r2, r3, x, y

TwoRuns == {r1, r2}
ThreeRuns == {r1, r2, r3}
OneColumn == {x}
TwoColumns == {x, y}

(* The runs are alike. *)
AnyRun == Permutations(Runs)
=============================================================================
