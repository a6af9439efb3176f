----------------------------- MODULE MCAccounts -----------------------------
(* A small instance of Accounts for TLC.                                    *)
EXTENDS Accounts, TLC

CONSTANTS ann, bob, c1, c2, i1, i2

TwoNames == {ann, bob}
TwoClients == {c1, c2}
OneClient == {c1}
OneInstance == {i1}
TwoInstances == {i1, i2}

(* Requests under way at once are alike.                                    *)
AnyClient == Permutations(Clients)
=============================================================================
