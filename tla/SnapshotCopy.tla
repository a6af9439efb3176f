---------------------------- MODULE SnapshotCopy ----------------------------
(***************************************************************************)
(* What syncing a dataset promises its readers, whatever runs do behind    *)
(* it: the copy goes in one step from one whole snapshot of the source to  *)
(* another, and the views built on it never lose a column.  Which snapshot *)
(* is not promised, not even a newer one than before: SyncRun's            *)
(* CopiesGoForward fails.                                                  *)
(***************************************************************************)
EXTENDS Naturals, Sequences

CONSTANTS
    Columns,  \* the columns the source may have
    NoCopy    \* nothing has been copied yet

VARIABLES
    history,  \* the columns of every version the source has had
    copy,     \* the copy: which version of the source, and which columns
    viewed    \* the columns that views of the copy read

abstract == <<history, copy, viewed>>

Init ==
    /\ \E shape \in SUBSET Columns : history = <<shape>>
    /\ copy = NoCopy
    /\ viewed = {}

SourceChanges ==
    /\ \E shape \in SUBSET Columns : history' = Append(history, shape)
    /\ UNCHANGED <<copy, viewed>>

(* One whole version of the source, and no view left without its columns.    *)
Install ==
    /\ \E v \in DOMAIN history : \E shape \in SUBSET history[v] :
          viewed \subseteq shape /\ copy' = [version |-> v, shape |-> shape]
    /\ UNCHANGED <<history, viewed>>

CreateView ==
    /\ copy # NoCopy
    /\ \E columns \in SUBSET copy.shape : viewed' = viewed \cup columns
    /\ UNCHANGED <<history, copy>>

RemoveViews == viewed' = {} /\ UNCHANGED <<history, copy>>

Next == SourceChanges \/ Install \/ CreateView \/ RemoveViews

Spec == Init /\ [][Next]_abstract
=============================================================================
