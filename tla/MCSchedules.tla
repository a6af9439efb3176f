---------------------------- MODULE MCSchedules ----------------------------
(* Small instances of Schedules for TLC.                                    *)
EXTENDS Schedules, TLC

CONSTANTS s1, s2, i1, i2, c1, c2

OneSync == {s1}
TwoSyncs == {s1, s2}
OneInstance == {i1}
TwoInstances == {i1, i2}
OneClient == {c1}
TwoClients == {c1, c2}

(* The instances are alike, and so are the clients. *)
Anyone == Permutations(Instances) \cup Permutations(Clients)

(* State constraint: at most two runs under way at once; a click or a fault  *)
(* only early, with one schedule and nobody else changing it.                *)
Few ==
    /\ Cardinality(firing) <= 2
    /\ faults > 0 \/ (\E e \in firing : ~e.claimed) =>
          now <= 2 /\ nextId <= 2 /\ \A c \in Clients : request[c] = Idle
=============================================================================
