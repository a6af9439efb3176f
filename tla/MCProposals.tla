---------------------------- MODULE MCProposals ----------------------------
(* Small instances of Proposals for TLC.                                    *)
EXTENDS Proposals, TLC

CONSTANTS p1, p2

OneActor == {p1}
TwoActors == {p1, p2}

(* The actors are alike. *)
AnyActor == Permutations(Actors)
=============================================================================
