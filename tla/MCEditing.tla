----------------------------- MODULE MCEditing -----------------------------
(* Editing for TLC. Its five parts share no state, so one run explores each *)
(* in turn: the others stay as they began.                                  *)
EXTENDS Editing, TLC

CONSTANTS f1, f2, c1, c2, order, customer

VARIABLES part

TwoPeople == {c1, c2}
TwoFolders == {f1, f2}
AnyClient == Permutations(TwoPeople)
OrderToCustomer == {[from |-> order, to |-> customer]}
OneOrBoth == {<<order>>, <<customer>>, <<order, customer>>}

EmptyPart == Empty /\ part \in {"workspace", "builder", "dashboards", "removal", "imports"}
ItsSteps ==
    /\ UNCHANGED part
    /\ \/ part = "workspace" /\ Folding
       \/ part = "builder" /\ Building
       \/ part = "dashboards" /\ Boarding
       \/ part = "removal" /\ Removing
       \/ part = "imports" /\ Importing
EachInTurn == EmptyPart /\ [][ItsSteps]_<<part, everything>>
=============================================================================
