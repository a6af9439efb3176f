------------------------------ MODULE SyncRun ------------------------------
(***************************************************************************)
(* Runs of one sync (connections.ts, runSync): copy the source view into     *)
(* its landing table, then bring the dataset's card, the object types        *)
(* built on it and the registry in memory up to date.  Run now, the          *)
(* assistant and the scheduler all call it, and nothing keeps two runs of    *)
(* one sync apart, so any number of them are under way at once.              *)
(*                                                                           *)
(* A version of the source stands for its rows, and for how many there       *)
(* are: two versions never have the same row count.  Version 0 is no rows.   *)
(* A shape is the set of columns a table has.  PostgreSQL's part is the      *)
(* table lock: count() shares it, TRUNCATE and DROP take it alone, and of    *)
(* two transactions waiting for each other one is aborted.                   *)
(*                                                                           *)
(* Left out: widened types, batches, the row limit, and who asked.           *)
(***************************************************************************)
EXTENDS Naturals, Sequences, FiniteSets

CONSTANTS
    Runs,        \* the runs: rows of connection_sync_run
    Columns,     \* the columns the source may have
    MaxVersion,  \* bound: versions of the source
    MaxFaults,   \* bound: failures of a statement, and crashes
    NoTable,     \* the landing table before the first run
    Nobody       \* nobody holds the landing table exclusively

ASSUME BoundsAreNaturals == MaxVersion \in Nat \ {0} /\ MaxFaults \in Nat

VARIABLES
    history,   \* the shape of every version the source has had
    readable,  \* can the connection read the source's catalogue?
    landing,   \* the landing table
    viewed,    \* the columns that views built on the landing table read
    pc,        \* how far each run is
    runRow,    \* the status of its connection_sync_run row
    began,     \* history: the source's version when it began
    cols,      \* the columns it read from the source's catalogue
    read,      \* the version of the source whose rows it read
    sharing,   \* the runs whose transaction has counted the landing table
    writer,    \* the run whose transaction has emptied it
    card,      \* the row count on the dataset's card
    count,     \* the row count of the object types built on it
    loaded,    \* the row count each run's reload has read
    registry,  \* the row count the registry in memory answers with
    faults     \* how many failures there have been

vars == <<history, readable, landing, viewed, pc, runRow, began, cols, read, sharing,
          writer, card, count, loaded, registry, faults>>
source == <<history, readable>>
table == <<landing, viewed>>
locks == <<sharing, writer>>
told == <<card, count, loaded, registry>>
reads == <<began, cols, read>>

Shapes == SUBSET Columns
Versions == 0..MaxVersion
Table == [version : Versions, shape : Shapes]

(* How far a run is: before, in and after the transaction.                   *)
Writes == {"count", "empty", "create", "commit"}
Tells == {"card", "refresh", "load", "install", "finish"}
Steps == {"idle", "columns", "rows", "ended"} \cup Writes \cup Tells
ASSUME NoTableIsNone == NoTable \notin Table
ASSUME NobodyIsNone == Nobody \notin Runs

Version == Len(history)
Goto(r, step) == pc' = [pc EXCEPT ![r] = step]
Mark(r, status) == runRow' = [runRow EXCEPT ![r] = status]

(* fail(): mark the run's row, and throw.                                    *)
Fail(r) == Goto(r, "ended") /\ Mark(r, "failed")
Fault == faults < MaxFaults /\ faults' = faults + 1

(* A transaction that ends, by COMMIT or ROLLBACK, lets go of its locks.     *)
Release(r) ==
    /\ sharing' = sharing \ {r}
    /\ writer' = IF writer = r THEN Nobody ELSE writer

------------------------------------------------------------------------------
(* The far side, and the people building on the landed table.                *)

SourceChanges(shape) ==
    /\ Version < MaxVersion
    /\ history' = Append(history, shape)
    /\ UNCHANGED <<readable, table, pc, runRow, reads, locks, told, faults>>

(* A password changed, a host unreachable, a grant revoked - or put right.   *)
ReadabilityChanges ==
    /\ readable' = ~readable
    /\ IF readable THEN Fault ELSE UNCHANGED faults
    /\ UNCHANGED <<history, table, pc, runRow, reads, locks, told>>

(* A combined dataset: a view on some columns of the landed table.           *)
CreateView(columns) ==
    /\ landing # NoTable /\ writer = Nobody
    /\ columns \subseteq landing.shape
    /\ viewed' = viewed \cup columns
    /\ UNCHANGED <<source, landing, pc, runRow, reads, locks, told, faults>>

RemoveViews ==
    /\ viewed # {}
    /\ viewed' = {}
    /\ UNCHANGED <<source, landing, pc, runRow, reads, locks, told, faults>>

------------------------------------------------------------------------------
(* runSync, as far as the transaction.                                       *)

(* The run's row is inserted as 'running'.                                   *)
Begin(r) ==
    /\ pc[r] = "idle"
    /\ Goto(r, "columns") /\ Mark(r, "running")
    /\ began' = [began EXCEPT ![r] = Version]
    /\ UNCHANGED <<source, table, cols, read, locks, told, faults>>

(* sourceColumns.  A view that shows no column fails the run.                *)
ReadColumns(r) ==
    /\ pc[r] = "columns" /\ readable
    /\ IF history[Version] = {}
       THEN Fail(r) /\ UNCHANGED cols
       ELSE /\ Goto(r, "rows")
            /\ cols' = [cols EXCEPT ![r] = history[Version]]
            /\ UNCHANGED runRow
    /\ UNCHANGED <<source, table, began, read, locks, told, faults>>

(* sourceColumns throws a BadRequest of its own, which the handler passes on *)
(* as one that fail() has thrown.                                            *)
ColumnsUnreadable(r) ==
    /\ pc[r] = "columns" /\ ~readable
    /\ Goto(r, "ended")
    /\ UNCHANGED <<source, table, runRow, reads, locks, told, faults>>

(* The SELECT names the columns read before: one that is gone fails it.      *)
ReadRows(r) ==
    /\ pc[r] = "rows"
    /\ IF readable /\ cols[r] \subseteq history[Version]
       THEN /\ Goto(r, "count")
            /\ read' = [read EXCEPT ![r] = Version]
            /\ UNCHANGED runRow
       ELSE Fail(r) /\ UNCHANGED read
    /\ UNCHANGED <<source, table, began, cols, locks, told, faults>>

------------------------------------------------------------------------------
(* writeLanding: one transaction.                                            *)

(* BEGIN; does the table exist?  Counting it shares its lock until the end.  *)
CountLanding(r) ==
    /\ pc[r] = "count"
    /\ IF landing = NoTable
       THEN Goto(r, "create") /\ UNCHANGED sharing
       ELSE writer = Nobody /\ Goto(r, "empty") /\ sharing' = sharing \cup {r}
    /\ UNCHANGED <<source, table, runRow, reads, writer, told, faults>>

(* Every column read is one it has: a column that is gone is kept.           *)
Reusable_Swapped(r) == cols[r] \subseteq landing.shape

(* reusableLanding: every column it has is still read.                       *)
Reusable(r) == landing.shape \subseteq cols[r]

(* DROP TABLE ... CASCADE.                                                   *)
DependedOn_Ignored == FALSE

(* refuseIfDependedOn.                                                       *)
DependedOn == viewed # {}

Alone(r) == sharing \subseteq {r} /\ writer = Nobody

(* TRUNCATE, or DROP and CREATE, then the INSERTs: under the exclusive lock, *)
(* seen by nobody else before the COMMIT.                                    *)
EmptyLanding(r) ==
    /\ pc[r] = "empty"
    /\ IF Reusable(r) \/ ~DependedOn
       THEN Alone(r) /\ writer' = r /\ Goto(r, "commit") /\ UNCHANGED <<sharing, runRow>>
       ELSE Fail(r) /\ Release(r)
    /\ UNCHANGED <<source, table, reads, told, faults>>

(* There was no table when this run looked.  By now another run may have     *)
(* made it, and DROP TABLE IF EXISTS removes it - unless views read it - or  *)
(* may be making it, and this CREATE fails.                                  *)
CreateLanding(r) ==
    /\ pc[r] = "create"
    /\ IF viewed # {} \/ (landing = NoTable /\ writer # Nobody)
       THEN Fail(r) /\ Release(r)
       ELSE Alone(r) /\ writer' = r /\ Goto(r, "commit") /\ UNCHANGED <<sharing, runRow>>
    /\ UNCHANGED <<source, table, reads, told, faults>>

(* Two runs that have both counted wait for each other: one is aborted.      *)
DeadlockAbort(r) ==
    /\ pc[r] = "empty"
    /\ \E q \in sharing \ {r} : pc[q] = "empty"
    /\ Fail(r) /\ Release(r)
    /\ UNCHANGED <<source, table, reads, told, faults>>

(* A table truncated in place keeps its columns and gains the new ones.      *)
Commit(r) ==
    /\ pc[r] = "commit"
    /\ landing' = [version |-> read[r],
                   shape |-> IF landing # NoTable /\ Reusable(r)
                             THEN landing.shape \cup cols[r] ELSE cols[r]]
    /\ Release(r)
    /\ Goto(r, "card")
    /\ UNCHANGED <<source, viewed, runRow, reads, told, faults>>

(* An error path without the ROLLBACK.                                       *)
WriteFails_NoRollback(r) ==
    /\ pc[r] \in Writes
    /\ Fault
    /\ Fail(r)
    /\ UNCHANGED <<source, table, reads, locks, told>>

(* Any statement of it fails: ROLLBACK, and the run is marked failed.        *)
WriteFails(r) ==
    /\ pc[r] \in Writes
    /\ Fault
    /\ Fail(r) /\ Release(r)
    /\ UNCHANGED <<source, table, reads, told>>

------------------------------------------------------------------------------
(* After the transaction: statements of their own.                           *)

(* ensureSyncDataset.                                                        *)
EnsureDataset(r) ==
    /\ pc[r] = "card"
    /\ card' = read[r]
    /\ Goto(r, "refresh")
    /\ UNCHANGED <<source, table, runRow, reads, locks, count, loaded, registry, faults>>

(* refreshObjectTypes: the UPDATE of row_count ...                           *)
RefreshObjectTypes(r) ==
    /\ pc[r] = "refresh"
    /\ count' = read[r]
    /\ Goto(r, "load")
    /\ UNCHANGED <<source, table, runRow, reads, locks, card, loaded, registry, faults>>

(* ... and loadRegistry: read the stored counts, then put them in memory.    *)
LoadRegistry(r) ==
    /\ pc[r] = "load"
    /\ loaded' = [loaded EXCEPT ![r] = count]
    /\ Goto(r, "install")
    /\ UNCHANGED <<source, table, runRow, reads, locks, card, count, registry, faults>>

InstallRegistry(r) ==
    /\ pc[r] = "install"
    /\ registry' = loaded[r]
    /\ Goto(r, "finish")
    /\ UNCHANGED <<source, table, runRow, reads, locks, card, count, loaded, faults>>

(* The run is marked 'success', not 'succeeded' as a scheduled run is.       *)
Finish(r) ==
    /\ pc[r] = "finish"
    /\ Goto(r, "ended") /\ Mark(r, "success")
    /\ UNCHANGED <<source, table, reads, locks, told, faults>>

(* An error swallowed.                                                       *)
StepFails_SaysSuccess(r) ==
    /\ pc[r] \in {"columns", "rows"} \cup Tells
    /\ Fault
    /\ Goto(r, "ended") /\ Mark(r, "success")
    /\ UNCHANGED <<source, table, reads, locks, told>>

(* A statement outside the transaction fails with an error of the database:  *)
(* the handler marks the run failed, whatever was committed before.          *)
StepFails(r) ==
    /\ pc[r] \in {"columns", "rows"} \cup Tells
    /\ Fault
    /\ Fail(r)
    /\ UNCHANGED <<source, table, reads, locks, told>>

(* The service stops: open transactions roll back, the registry is loaded    *)
(* again at boot, and the rows of runs that were under way stay 'running'.   *)
Crash ==
    /\ Fault
    /\ pc' = [r \in Runs |-> IF pc[r] = "idle" THEN "idle" ELSE "ended"]
    /\ sharing' = {} /\ writer' = Nobody
    /\ registry' = count
    /\ UNCHANGED <<source, table, runRow, reads, card, count, loaded>>

------------------------------------------------------------------------------
Init ==
    /\ \E shape \in Shapes \ {{}} : history = <<shape>>
    /\ readable = TRUE
    /\ landing = NoTable
    /\ viewed = {}
    /\ pc = [r \in Runs |-> "idle"]
    /\ runRow = [r \in Runs |-> "none"]
    /\ began = [r \in Runs |-> 0]
    /\ cols = [r \in Runs |-> {}]
    /\ read = [r \in Runs |-> 0]
    /\ sharing = {}
    /\ writer = Nobody
    /\ card = 0 /\ count = 0 /\ registry = 0
    /\ loaded = [r \in Runs |-> 0]
    /\ faults = 0

Copying(r) == ReadColumns(r) \/ ColumnsUnreadable(r) \/ ReadRows(r)
Writing(r) == CountLanding(r) \/ EmptyLanding(r) \/ CreateLanding(r) \/ DeadlockAbort(r) \/ Commit(r)
Telling(r) == EnsureDataset(r) \/ RefreshObjectTypes(r) \/ LoadRegistry(r) \/ InstallRegistry(r) \/ Finish(r)
RunStep(r) == Copying(r) \/ Writing(r) \/ Telling(r)

Next ==
    \/ \E shape \in Shapes : SourceChanges(shape) \/ CreateView(shape)
    \/ ReadabilityChanges
    \/ RemoveViews
    \/ \E r \in Runs : Begin(r) \/ RunStep(r) \/ WriteFails(r) \/ StepFails(r)
    \/ Crash

Spec == Init /\ [][Next]_vars

(* Every statement of a run that can be answered is, in time.                *)
FairSpec == Spec /\ \A r \in Runs : WF_vars(RunStep(r))

------------------------------------------------------------------------------
TypeOK ==
    /\ history \in Seq(Shapes) /\ Version \in 1..MaxVersion
    /\ readable \in BOOLEAN
    /\ landing \in Table \cup {NoTable}
    /\ viewed \in Shapes
    /\ pc \in [Runs -> Steps]
    /\ runRow \in [Runs -> {"none", "running", "success", "failed"}]
    /\ began \in [Runs -> Versions]
    /\ cols \in [Runs -> Shapes]
    /\ read \in [Runs -> Versions]
    /\ sharing \subseteq Runs
    /\ writer \in Runs \cup {Nobody}
    /\ {card, count, registry} \subseteq Versions
    /\ loaded \in [Runs -> Versions]
    /\ faults \in 0..MaxFaults

(* "The dataset is what the source holds": the landed table is always the    *)
(* whole of one run's read, its rows and its columns, and never a mixture of *)
(* two runs, or the columns of one with the rows of another.                 *)
LandingIsOneRead ==
    landing # NoTable =>
        \E r \in Runs : /\ landing = [version |-> read[r], shape |-> cols[r]]
                        /\ landing.version >= began[r]
                        /\ landing.shape \subseteq history[landing.version]

(* "Views built on it stay valid": whatever runs do, the columns a view      *)
(* reads are columns of the landed table.                                    *)
ViewsStayValid == viewed # {} => landing # NoTable /\ viewed \subseteq landing.shape

(* A run that says 'success' has copied: no error after its read is lost,    *)
(* and what it read was no older than the moment it began.                   *)
SuccessIsACopy ==
    \A r \in Runs : runRow[r] = "success" => landing # NoTable /\ read[r] >= began[r] /\ read[r] > 0

(* What these rest on: a run past its read holds the rows and the columns of *)
(* one version of the source; the run at its COMMIT is the one that holds    *)
(* the table, and what it is about to commit has the columns views read; and *)
(* the landed table is the read of a run that is past reading.               *)
HoldsARead ==
    \A r \in Runs :
        /\ pc[r] # "idle" => began[r] <= Version
        /\ pc[r] \in Writes \cup Tells =>
              /\ read[r] \in DOMAIN history /\ began[r] <= read[r]
              /\ cols[r] \subseteq history[read[r]]

OneWriter ==
    \A r \in Runs : /\ pc[r] = "commit" <=> writer = r
                    /\ writer = r => viewed \subseteq cols[r]

LandingHasARun ==
    landing # NoTable =>
        \E r \in Runs : /\ pc[r] \in Tells \cup {"ended"}
                        /\ landing = [version |-> read[r], shape |-> cols[r]]
                        /\ began[r] <= read[r] /\ read[r] \in DOMAIN history
                        /\ cols[r] \subseteq history[read[r]]

SuccessHasItsRead ==
    \A r \in Runs :
        /\ pc[r] \in Tells => landing # NoTable
        /\ runRow[r] = "success" => /\ pc[r] = "ended" /\ landing # NoTable
                                    /\ began[r] <= read[r] /\ read[r] > 0

IInv ==
    /\ TypeOK /\ HoldsARead /\ OneWriter /\ LandingHasARun /\ SuccessHasItsRead
    /\ ViewsStayValid

(* Overlapping runs, failures and crashes included, the landed table and the *)
(* views of it behave as SnapshotCopy says.                                  *)
Copy == INSTANCE SnapshotCopy WITH copy <- landing, NoCopy <- NoTable
IsSnapshotCopy == Copy!Spec

(* Every run ends: the lock two overlapping runs wait for, and the one a     *)
(* failed run held, never keep another waiting for ever.                     *)
RunsEnd == \A r \in Runs : pc[r] # "idle" ~> pc[r] = "ended"

(* runSync's handler: "A BadRequest here already has its run row marked      *)
(* failed by fail()".  A run that ends on an error its handler has caught,   *)
(* and not by the service stopping, does not leave its row 'running'.        *)
EndedRunsAreMarked ==
    [][\A r \in Runs : pc[r] # "ended" /\ pc'[r] = "ended" /\ ~Crash
                            => runRow'[r] # "running"]_vars

(* writeLanding: "the dataset is what the source holds now".  A run never    *)
(* replaces a copy by an older one.                                          *)
CopiesGoForward ==
    [][landing # NoTable /\ landing' # landing => landing'.version >= landing.version]_vars
=============================================================================
