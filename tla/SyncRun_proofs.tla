--------------------------- MODULE SyncRun_proofs ---------------------------
(***************************************************************************)
(* Theorems about SyncRun, for any number of overlapping runs, any columns *)
(* and versions of the source, and any number of failures and crashes.     *)
(***************************************************************************)
EXTENDS SyncRun, TLAPS

USE BoundsAreNaturals, NoTableIsNone, NobodyIsNone

(* The steps of a run and of the world around it keep every variable's type. *)
LEMMA TypeStep ==
  ASSUME TypeOK, [Next]_vars
  PROVE  TypeOK'
<1>. USE DEF TypeOK, Version, Goto, Mark, Fail, Fault, Release, source, table, locks, told, reads,
             Shapes, Versions, Steps, Writes, Tells
<1>1. ASSUME NEW shape \in Shapes, SourceChanges(shape) PROVE TypeOK'
  BY <1>1 DEF SourceChanges
<1>2. CASE ReadabilityChanges
  BY <1>2 DEF ReadabilityChanges
<1>3. ASSUME NEW shape \in Shapes, CreateView(shape) PROVE TypeOK'
  BY <1>3 DEF CreateView
<1>4. CASE RemoveViews
  BY <1>4 DEF RemoveViews
<1>5. ASSUME NEW r \in Runs, Begin(r) PROVE TypeOK'
  BY <1>5 DEF Begin
<1>6. ASSUME NEW r \in Runs, Copying(r) PROVE TypeOK'
  <2>1. CASE ReadColumns(r)
    <3>1. CASE history[Version] = {}
      BY <2>1, <3>1 DEF ReadColumns
    <3>2. CASE history[Version] # {}
      <4>1. history[Version] \in Shapes
        OBVIOUS
      <4>2. cols' \in [Runs -> Shapes]
        BY <2>1, <3>2, <4>1 DEF ReadColumns
      <4>. QED BY <2>1, <3>2, <4>2 DEF ReadColumns
    <3>. QED BY <3>1, <3>2
  <2>2. CASE ColumnsUnreadable(r)
    BY <2>2 DEF ColumnsUnreadable
  <2>3. CASE ReadRows(r)
    <3>1. CASE readable /\ cols[r] \subseteq history[Version]
      <4>1. Len(history) \in Versions
        OBVIOUS
      <4>2. read' \in [Runs -> Versions]
        BY <2>3, <3>1, <4>1 DEF ReadRows
      <4>. QED BY <2>3, <3>1, <4>2 DEF ReadRows
    <3>2. CASE ~(readable /\ cols[r] \subseteq history[Version])
      BY <2>3, <3>2 DEF ReadRows
    <3>. QED BY <3>1, <3>2
  <2>. QED BY <1>6, <2>1, <2>2, <2>3 DEF Copying
<1>7. ASSUME NEW r \in Runs, Writing(r) PROVE TypeOK'
  <2>1. CASE CountLanding(r)
    BY <2>1 DEF CountLanding
  <2>2. CASE EmptyLanding(r)
    BY <2>2 DEF EmptyLanding
  <2>3. CASE CreateLanding(r)
    BY <2>3 DEF CreateLanding
  <2>4. CASE DeadlockAbort(r)
    BY <2>4 DEF DeadlockAbort
  <2>5. CASE Commit(r)
    <3>1. landing # NoTable => landing.shape \in SUBSET Columns
      BY DEF Table
    <3>2. landing' \in Table
      BY <2>5, <3>1 DEF Commit, Table
    <3>. QED BY <2>5, <3>2 DEF Commit
  <2>. QED BY <1>7, <2>1, <2>2, <2>3, <2>4, <2>5 DEF Writing
<1>8. ASSUME NEW r \in Runs, Telling(r) PROVE TypeOK'
  <2>1. CASE EnsureDataset(r)
    BY <2>1 DEF EnsureDataset
  <2>2. CASE RefreshObjectTypes(r)
    BY <2>2 DEF RefreshObjectTypes
  <2>3. CASE LoadRegistry(r)
    BY <2>3 DEF LoadRegistry
  <2>4. CASE InstallRegistry(r)
    BY <2>4 DEF InstallRegistry
  <2>5. CASE Finish(r)
    BY <2>5 DEF Finish
  <2>. QED BY <1>8, <2>1, <2>2, <2>3, <2>4, <2>5 DEF Telling
<1>9. ASSUME NEW r \in Runs, WriteFails(r) PROVE TypeOK'
  BY <1>9 DEF WriteFails
<1>10. ASSUME NEW r \in Runs, StepFails(r) PROVE TypeOK'
  BY <1>10 DEF StepFails
<1>11. CASE Crash
  BY <1>11 DEF Crash
<1>12. CASE UNCHANGED vars
  BY <1>12 DEF vars
<1>. QED BY <1>1, <1>2, <1>3, <1>4, <1>5, <1>6, <1>7, <1>8, <1>9, <1>10, <1>11, <1>12
         DEF Next, RunStep

(* The service starts with no run, no landing table and no lock held.        *)
LEMMA InitInv == Init => IInv
<1>. SUFFICES ASSUME Init PROVE IInv
  OBVIOUS
<1>1. TypeOK
  <2>1. history \in Seq(Shapes) /\ Len(history) = 1
    BY DEF Init, Shapes
  <2>. QED BY <2>1 DEF Init, TypeOK, Version, Versions, Shapes, Steps
<1>. QED BY <1>1 DEF Init, IInv, HoldsARead, OneWriter, LandingHasARun, SuccessHasItsRead,
                     ViewsStayValid, Version, Writes, Tells

(* One run goes on, within the transaction, from it or after it, and neither *)
(* its read nor the landed table changes.  Most steps are of this kind.      *)
LEMMA RunMoves ==
  ASSUME IInv, TypeOK', NEW r \in Runs, NEW step \in Steps, NEW status,
         UNCHANGED <<history, landing, viewed, began, cols, read>>,
         Goto(r, step), Mark(r, status),
         pc[r] \notin {"idle", "ended"},
         step \in Writes => pc[r] \in Writes,
         step \in Tells => pc[r] \in Tells,
         pc[r] \in Tells => step \in Tells \cup {"ended"},
         \/ step = "commit" /\ writer = Nobody /\ writer' = r /\ viewed \subseteq cols[r]
         \/ step # "commit" /\ writer' = (IF writer = r THEN Nobody ELSE writer),
         \/ status = runRow[r] \/ status = "failed"
         \/ status = "success" /\ step = "ended" /\ pc[r] \in Tells
  PROVE  IInv'
<1>0. /\ pc \in [Runs -> Steps] /\ writer \in Runs \cup {Nobody}
      /\ runRow \in [Runs -> {"none", "running", "success", "failed"}]
      /\ pc' = [pc EXCEPT ![r] = step] /\ runRow' = [runRow EXCEPT ![r] = status]
  BY DEF IInv, TypeOK, Goto, Mark
<1>1. HoldsARead'
  BY <1>0 DEF IInv, HoldsARead, Version
<1>2. OneWriter'
  BY <1>0 DEF IInv, OneWriter
<1>3. LandingHasARun'
  <2>1. SUFFICES ASSUME landing # NoTable PROVE LandingHasARun'
    BY DEF LandingHasARun
  <2>2. PICK q \in Runs : /\ pc[q] \in Tells \cup {"ended"}
                         /\ landing = [version |-> read[q], shape |-> cols[q]]
                         /\ began[q] <= read[q] /\ read[q] \in DOMAIN history
                         /\ cols[q] \subseteq history[read[q]]
    BY <2>1 DEF IInv, LandingHasARun
  <2>3. pc'[q] \in Tells \cup {"ended"}
    BY <1>0, <2>2
  <2>. QED BY <2>2, <2>3 DEF LandingHasARun
<1>4. SuccessHasItsRead'
  <2>1. ASSUME NEW q \in Runs, pc'[q] \in Tells PROVE landing' # NoTable
    BY <1>0, <2>1 DEF IInv, SuccessHasItsRead
  <2>2. ASSUME NEW q \in Runs, runRow'[q] = "success"
        PROVE  /\ pc'[q] = "ended" /\ landing' # NoTable
               /\ began'[q] <= read'[q] /\ read'[q] > 0
    <3>1. CASE q # r
      BY <1>0, <2>2, <3>1 DEF IInv, SuccessHasItsRead
    <3>2. CASE q = r
      <4>1. runRow[r] # "success"
        BY DEF IInv, SuccessHasItsRead
      <4>2. status = "success"
        BY <1>0, <2>2, <3>2
      <4>3. step = "ended" /\ pc[r] \in Tells
        BY <4>1, <4>2
      <4>4. read[r] \in DOMAIN history /\ began[r] <= read[r] /\ landing # NoTable
        BY <4>3 DEF IInv, HoldsARead, SuccessHasItsRead
      <4>5. read[r] > 0
        BY <4>4 DEF IInv, TypeOK, Version
      <4>. QED BY <1>0, <3>2, <4>3, <4>4, <4>5
    <3>. QED BY <3>1, <3>2
  <2>. QED BY <2>1, <2>2 DEF SuccessHasItsRead
<1>5. ViewsStayValid'
  BY DEF IInv, ViewsStayValid
<1>. QED BY <1>1, <1>2, <1>3, <1>4, <1>5 DEF IInv

(* The same, of a run whose row is not marked.                               *)
LEMMA RunGoesOn ==
  ASSUME IInv, TypeOK', NEW r \in Runs, NEW step \in Steps,
         UNCHANGED <<history, landing, viewed, began, cols, read, runRow>>,
         Goto(r, step),
         pc[r] \notin {"idle", "ended"},
         step \in Writes => pc[r] \in Writes,
         step \in Tells => pc[r] \in Tells,
         pc[r] \in Tells => step \in Tells \cup {"ended"},
         \/ step = "commit" /\ writer = Nobody /\ writer' = r /\ viewed \subseteq cols[r]
         \/ step # "commit" /\ writer' = (IF writer = r THEN Nobody ELSE writer)
  PROVE  IInv'
<1>1. Mark(r, runRow[r])
  BY DEF IInv, TypeOK, Mark
<1>. QED BY <1>1, RunMoves

(* A run outside its COMMIT holds nothing.                                   *)
LEMMA HoldsNothing ==
  ASSUME IInv, NEW r \in Runs, pc[r] # "commit"
  PROVE  writer # r
BY DEF IInv, OneWriter

(* The version of the source a run reads: a version there is, with columns.  *)
LEMMA PresentVersion ==
  ASSUME TypeOK
  PROVE  /\ Version \in DOMAIN history /\ Version \in Versions
         /\ history[Version] \in Shapes
BY DEF TypeOK, Version, Versions

LEMMA SourceStep ==
  ASSUME IInv, TypeOK', NEW shape \in Shapes, SourceChanges(shape)
  PROVE  IInv'
<1>0. /\ history \in Seq(Shapes) /\ history' = Append(history, shape)
      /\ UNCHANGED <<landing, viewed, pc, runRow, began, cols, read, sharing, writer>>
  BY DEF IInv, TypeOK, SourceChanges, table, reads, locks
<1>1. /\ Len(history') = Len(history) + 1 /\ Len(history) \in Nat
      /\ \A v \in DOMAIN history : v \in DOMAIN history' /\ history'[v] = history[v]
  BY <1>0
<1>2. HoldsARead'
  <2>1. ASSUME NEW q \in Runs, pc'[q] # "idle" PROVE began'[q] <= Version'
    <3>1. began[q] <= Len(history) /\ began[q] \in Nat
      BY <1>0, <2>1 DEF IInv, TypeOK, HoldsARead, Version, Versions
    <3>. QED BY <1>0, <1>1, <3>1 DEF Version
  <2>2. ASSUME NEW q \in Runs, pc'[q] \in Writes \cup Tells
        PROVE  /\ read'[q] \in DOMAIN history' /\ began'[q] <= read'[q]
               /\ cols'[q] \subseteq history'[read'[q]]
    BY <1>0, <1>1, <2>2 DEF IInv, HoldsARead
  <2>. QED BY <2>1, <2>2 DEF HoldsARead
<1>3. LandingHasARun'
  BY <1>0, <1>1 DEF IInv, LandingHasARun
<1>. QED BY <1>0, <1>2, <1>3 DEF IInv, OneWriter, SuccessHasItsRead, ViewsStayValid

(* A run that begins or reads its source is not one the table came from.     *)
LEMMA ReadingStep ==
  ASSUME IInv, TypeOK', NEW r \in Runs, NEW step \in {"columns", "rows", "count"},
         UNCHANGED <<history, landing, viewed, writer>>,
         pc[r] \in {"idle", "columns", "rows"}, Goto(r, step),
         runRow' = runRow \/ Mark(r, "running"),
         began'[r] <= Version,
         step = "count" => /\ read'[r] \in DOMAIN history /\ began'[r] <= read'[r]
                           /\ cols'[r] \subseteq history[read'[r]],
         \A q \in Runs \ {r} : began'[q] = began[q] /\ cols'[q] = cols[q] /\ read'[q] = read[q]
  PROVE  IInv'
<1>0. /\ pc \in [Runs -> Steps] /\ pc' = [pc EXCEPT ![r] = step]
      /\ runRow \in [Runs -> {"none", "running", "success", "failed"}]
  BY DEF IInv, TypeOK, Goto
<1>1. HoldsARead'
  BY <1>0 DEF IInv, HoldsARead, Version, Writes, Tells
<1>2. OneWriter'
  BY <1>0 DEF IInv, OneWriter
<1>3. LandingHasARun'
  <2>1. SUFFICES ASSUME landing # NoTable PROVE LandingHasARun'
    BY DEF LandingHasARun
  <2>2. PICK q \in Runs : /\ pc[q] \in Tells \cup {"ended"}
                         /\ landing = [version |-> read[q], shape |-> cols[q]]
                         /\ began[q] <= read[q] /\ read[q] \in DOMAIN history
                         /\ cols[q] \subseteq history[read[q]]
    BY <2>1 DEF IInv, LandingHasARun
  <2>3. q # r
    BY <2>2 DEF Tells
  <2>. QED BY <1>0, <2>2, <2>3 DEF LandingHasARun
<1>4. SuccessHasItsRead'
  <2>1. runRow[r] # "success"
    BY DEF IInv, SuccessHasItsRead
  <2>2. \A q \in Runs : pc'[q] \in Tells => landing' # NoTable
    BY <1>0 DEF IInv, SuccessHasItsRead, Tells
  <2>3. \A q \in Runs : runRow'[q] = "success" => q # r /\ runRow[q] = "success"
    BY <1>0, <2>1 DEF Mark
  <2>. QED BY <1>0, <2>2, <2>3 DEF IInv, SuccessHasItsRead
<1>5. ViewsStayValid'
  BY DEF IInv, ViewsStayValid
<1>. QED BY <1>1, <1>2, <1>3, <1>4, <1>5 DEF IInv

LEMMA CopyingStep ==
  ASSUME IInv, TypeOK', NEW r \in Runs, Begin(r) \/ Copying(r)
  PROVE  IInv'
<1>. USE DEF source, table, locks, reads
<1>0. /\ Version \in DOMAIN history /\ Version \in Nat
      /\ began \in [Runs -> Versions] /\ cols \in [Runs -> Shapes] /\ read \in [Runs -> Versions]
  <2>1. Version \in DOMAIN history /\ Version \in Versions
    BY PresentVersion DEF IInv
  <2>2. Version \in Nat
    BY <2>1 DEF Versions
  <2>. QED BY <2>1, <2>2 DEF IInv, TypeOK
<1>1. CASE Begin(r)
  <2>1. began'[r] = Version /\ \A q \in Runs \ {r} : began'[q] = began[q]
    BY <1>0, <1>1 DEF Begin
  <2>2. Version <= Version
    BY <1>0
  <2>. QED BY <1>1, <2>1, <2>2, ReadingStep DEF Begin
<1>2. CASE ReadColumns(r)
  <2>1. CASE history[Version] = {}
    <3>1. writer # r
      BY <1>2, HoldsNothing DEF ReadColumns
    <3>. QED BY <1>2, <2>1, <3>1, RunMoves DEF ReadColumns, Fail, Writes, Tells, Steps
  <2>2. CASE history[Version] # {}
    <3>1. began[r] <= Version
      BY <1>2 DEF ReadColumns, IInv, HoldsARead
    <3>. QED BY <1>0, <1>2, <2>2, <3>1, ReadingStep DEF ReadColumns
  <2>. QED BY <2>1, <2>2
<1>3. CASE ColumnsUnreadable(r)
  <2>1. writer # r
    BY <1>3, HoldsNothing DEF ColumnsUnreadable
  <2>. QED BY <1>3, <2>1, RunGoesOn DEF ColumnsUnreadable, Writes, Tells, Steps
<1>4. CASE ReadRows(r)
  <2>1. CASE readable /\ cols[r] \subseteq history[Version]
    <3>1. began[r] <= Version
      BY <1>4 DEF ReadRows, IInv, HoldsARead
    <3>. QED BY <1>0, <1>4, <2>1, <3>1, ReadingStep DEF ReadRows
  <2>2. CASE ~(readable /\ cols[r] \subseteq history[Version])
    <3>1. writer # r
      BY <1>4, HoldsNothing DEF ReadRows
    <3>. QED BY <1>4, <2>2, <3>1, RunMoves DEF ReadRows, Fail, Writes, Tells, Steps
  <2>. QED BY <2>1, <2>2
<1>. QED BY <1>1, <1>2, <1>3, <1>4 DEF Copying

(* The COMMIT: the table is that run's read, and views keep their columns.   *)
LEMMA CommitStep ==
  ASSUME IInv, TypeOK', NEW r \in Runs, Commit(r)
  PROVE  IInv'
<1>0. /\ pc \in [Runs -> Steps] /\ pc[r] = "commit" /\ pc' = [pc EXCEPT ![r] = "card"]
      /\ UNCHANGED <<history, viewed, runRow, began, cols, read>>
  BY DEF Commit, IInv, TypeOK, source, reads, Goto
<1>1. landing' = [version |-> read[r], shape |-> cols[r]]
  BY DEF Commit, Reusable
<1>2. /\ writer = r /\ viewed \subseteq cols[r]
      /\ read[r] \in DOMAIN history /\ began[r] <= read[r] /\ cols[r] \subseteq history[read[r]]
  BY <1>0 DEF IInv, OneWriter, HoldsARead, Writes
<1>3. landing' # NoTable
  <2>1. read[r] \in Versions /\ cols[r] \in Shapes
    BY DEF IInv, TypeOK
  <2>2. landing' \in Table
    BY <1>1, <2>1 DEF Table
  <2>. QED BY <2>2
<1>4. HoldsARead'
  BY <1>0 DEF IInv, HoldsARead, Version, Writes, Tells
<1>5. OneWriter'
  <2>1. writer' = Nobody
    BY <1>2 DEF Commit, Release
  <2>2. \A q \in Runs : pc'[q] # "commit"
    BY <1>0, <1>2 DEF IInv, OneWriter
  <2>. QED BY <2>1, <2>2 DEF OneWriter
<1>6. LandingHasARun'
  <2>1. pc'[r] \in Tells \cup {"ended"}
    BY <1>0 DEF Tells
  <2>. QED BY <1>0, <1>1, <1>2, <2>1 DEF LandingHasARun
<1>7. SuccessHasItsRead'
  <2>1. runRow[r] # "success"
    BY <1>0 DEF IInv, SuccessHasItsRead
  <2>. QED BY <1>0, <1>3, <2>1 DEF IInv, SuccessHasItsRead
<1>8. ViewsStayValid'
  BY <1>0, <1>1, <1>2, <1>3 DEF ViewsStayValid
<1>. QED BY <1>4, <1>5, <1>6, <1>7, <1>8 DEF IInv

LEMMA WritingStep ==
  ASSUME IInv, TypeOK', NEW r \in Runs, Writing(r)
  PROVE  IInv'
<1>. USE DEF source, table, locks, reads, Writes, Tells, Steps
<1>1. CASE CountLanding(r)
  <2>1. writer # r
    BY <1>1, HoldsNothing DEF CountLanding
  <2>. QED BY <1>1, <2>1, RunGoesOn DEF CountLanding
<1>2. CASE EmptyLanding(r)
  <2>1. CASE Reusable(r) \/ ~DependedOn
    <3>1. viewed \subseteq cols[r]
      BY <2>1 DEF Reusable, DependedOn, IInv, ViewsStayValid
    <3>. QED BY <1>2, <2>1, <3>1, RunGoesOn DEF EmptyLanding, Alone
  <2>2. CASE ~(Reusable(r) \/ ~DependedOn)
    BY <1>2, <2>2, RunMoves DEF EmptyLanding, Fail, Release
  <2>. QED BY <2>1, <2>2
<1>3. CASE CreateLanding(r)
  <2>1. CASE viewed # {} \/ (landing = NoTable /\ writer # Nobody)
    BY <1>3, <2>1, RunMoves DEF CreateLanding, Fail, Release
  <2>2. CASE ~(viewed # {} \/ (landing = NoTable /\ writer # Nobody))
    BY <1>3, <2>2, RunGoesOn DEF CreateLanding, Alone
  <2>. QED BY <2>1, <2>2
<1>4. CASE DeadlockAbort(r)
  BY <1>4, RunMoves DEF DeadlockAbort, Fail, Release
<1>5. CASE Commit(r)
  BY <1>5, CommitStep
<1>. QED BY <1>1, <1>2, <1>3, <1>4, <1>5 DEF Writing

LEMMA TellingStep ==
  ASSUME IInv, TypeOK', NEW r \in Runs, Telling(r)
  PROVE  IInv'
<1>. USE DEF source, table, reads, locks, Writes, Tells, Steps
<1>0. pc[r] \in Tells /\ writer # r
  BY HoldsNothing DEF Telling, EnsureDataset, RefreshObjectTypes, LoadRegistry, InstallRegistry,
                      Finish
<1>1. CASE EnsureDataset(r)
  BY <1>0, <1>1, RunGoesOn DEF EnsureDataset
<1>2. CASE RefreshObjectTypes(r)
  BY <1>0, <1>2, RunGoesOn DEF RefreshObjectTypes
<1>3. CASE LoadRegistry(r)
  BY <1>0, <1>3, RunGoesOn DEF LoadRegistry
<1>4. CASE InstallRegistry(r)
  BY <1>0, <1>4, RunGoesOn DEF InstallRegistry
<1>5. CASE Finish(r)
  BY <1>0, <1>5, RunMoves DEF Finish
<1>. QED BY <1>1, <1>2, <1>3, <1>4, <1>5 DEF Telling

(* Every step keeps the invariant.                                           *)
LEMMA NextInv ==
  ASSUME IInv, [Next]_vars
  PROVE  IInv'
<1>0. TypeOK'
  BY TypeStep DEF IInv
<1>. USE DEF source, table, reads, locks
<1>1. ASSUME NEW shape \in Shapes, SourceChanges(shape) PROVE IInv'
  BY <1>0, <1>1, SourceStep
<1>2. CASE ReadabilityChanges
  BY <1>0, <1>2 DEF ReadabilityChanges, IInv, HoldsARead, OneWriter, LandingHasARun,
                    SuccessHasItsRead, ViewsStayValid, Version
<1>3. ASSUME NEW shape \in Shapes, CreateView(shape) PROVE IInv'
  <2>1. /\ writer = Nobody /\ landing # NoTable /\ shape \subseteq landing.shape
        /\ viewed' = viewed \cup shape
        /\ UNCHANGED <<history, landing, pc, runRow, began, cols, read, writer>>
    BY <1>3 DEF CreateView
  <2>2. OneWriter'
    BY <2>1 DEF IInv, OneWriter
  <2>3. ViewsStayValid'
    BY <2>1 DEF IInv, ViewsStayValid
  <2>. QED BY <1>0, <2>1, <2>2, <2>3 DEF IInv, HoldsARead, LandingHasARun, SuccessHasItsRead,
                                         Version
<1>4. CASE RemoveViews
  BY <1>0, <1>4 DEF RemoveViews, IInv, HoldsARead, OneWriter, LandingHasARun,
                    SuccessHasItsRead, ViewsStayValid, Version
<1>5. ASSUME NEW r \in Runs, Begin(r) \/ Copying(r) PROVE IInv'
  BY <1>0, <1>5, CopyingStep
<1>6. ASSUME NEW r \in Runs, Writing(r) PROVE IInv'
  BY <1>0, <1>6, WritingStep
<1>7. ASSUME NEW r \in Runs, Telling(r) PROVE IInv'
  BY <1>0, <1>7, TellingStep
<1>8. ASSUME NEW r \in Runs, WriteFails(r) PROVE IInv'
  BY <1>0, <1>8, RunMoves DEF WriteFails, Fail, Release, Writes, Tells, Steps
<1>9. ASSUME NEW r \in Runs, StepFails(r) PROVE IInv'
  <2>1. pc[r] \in {"columns", "rows"} \cup Tells /\ writer # r
    BY <1>9, HoldsNothing DEF StepFails, Tells
  <2>. QED BY <1>0, <1>9, <2>1, RunMoves DEF StepFails, Fail, Writes, Tells, Steps
<1>10. CASE Crash
  <2>0. /\ pc \in [Runs -> Steps] /\ writer' = Nobody
        /\ \A q \in Runs : pc'[q] = IF pc[q] = "idle" THEN "idle" ELSE "ended"
        /\ UNCHANGED <<history, landing, viewed, runRow, began, cols, read>>
    BY <1>10 DEF Crash, IInv, TypeOK
  <2>1. HoldsARead'
    BY <2>0 DEF IInv, HoldsARead, Version, Writes, Tells
  <2>2. OneWriter'
    BY <2>0 DEF OneWriter
  <2>3. LandingHasARun'
    <3>1. \A q \in Runs : pc[q] \in Tells \cup {"ended"} => pc'[q] \in Tells \cup {"ended"}
      BY <2>0 DEF Tells
    <3>. QED BY <2>0, <3>1 DEF IInv, LandingHasARun
  <2>4. SuccessHasItsRead'
    BY <2>0 DEF IInv, SuccessHasItsRead, Tells
  <2>. QED BY <1>0, <2>0, <2>1, <2>2, <2>3, <2>4 DEF IInv, ViewsStayValid
<1>11. CASE UNCHANGED vars
  BY <1>0, <1>11 DEF vars, IInv, HoldsARead, OneWriter, LandingHasARun, SuccessHasItsRead,
                     ViewsStayValid, Version
<1>. QED BY <1>1, <1>2, <1>3, <1>4, <1>5, <1>6, <1>7, <1>8, <1>9, <1>10, <1>11
         DEF Next, RunStep

LEMMA Invariant == Spec => []IInv
<1>1. Init => IInv
  BY InitInv
<1>2. IInv /\ [Next]_vars => IInv'
  BY NextInv
<1>. QED BY <1>1, <1>2, PTL DEF Spec

(* Every variable keeps its type.                                            *)
THEOREM TypeCorrect == Spec => []TypeOK
<1>1. IInv => TypeOK
  BY DEF IInv
<1>. QED BY <1>1, Invariant, PTL

(* The landed table is at every moment the whole of one run's read: no       *)
(* mixture of two runs, however they overlap, fail or crash (runSync,        *)
(* writeLanding).                                                            *)
THEOREM WholeReads == Spec => []LandingIsOneRead
<1>1. IInv => LandingIsOneRead
  BY DEF IInv, LandingHasARun, LandingIsOneRead
<1>. QED BY <1>1, Invariant, PTL

(* No run takes from the landed table a column that a view reads             *)
(* (reusableLanding, refuseIfDependedOn).                                    *)
THEOREM ViewsKept == Spec => []ViewsStayValid
<1>1. IInv => ViewsStayValid
  BY DEF IInv
<1>. QED BY <1>1, Invariant, PTL

(* A run marked 'success' has copied a version of the source no older than   *)
(* the moment it began (runSync).                                            *)
THEOREM SuccessIsReal == Spec => []SuccessIsACopy
<1>1. IInv => SuccessIsACopy
  BY DEF IInv, SuccessHasItsRead, SuccessIsACopy, TypeOK, Versions
<1>. QED BY <1>1, Invariant, PTL

(* A step that changes neither the source, the landed table nor the views on *)
(* it is a stutter of the abstract copy.                                     *)
LEMMA StutterStep ==
  ASSUME UNCHANGED <<history, landing, viewed>>
  PROVE  [Copy!Next]_Copy!abstract
BY DEF Copy!abstract

LEMMA CopyStep ==
  ASSUME IInv, [Next]_vars
  PROVE  [Copy!Next]_Copy!abstract
<1>. USE DEF source, table
<1>1. ASSUME NEW shape \in Shapes, SourceChanges(shape) PROVE Copy!SourceChanges
  BY <1>1 DEF SourceChanges, Shapes, Copy!SourceChanges
<1>2. CASE ReadabilityChanges
  BY <1>2, StutterStep DEF ReadabilityChanges
<1>3. ASSUME NEW shape \in Shapes, CreateView(shape) PROVE Copy!CreateView
  BY <1>3 DEF CreateView, Copy!CreateView
<1>4. CASE RemoveViews
  BY <1>4 DEF RemoveViews, Copy!Next, Copy!RemoveViews
<1>5. ASSUME NEW r \in Runs, Begin(r) \/ Copying(r) \/ Telling(r) PROVE [Copy!Next]_Copy!abstract
  BY <1>5, StutterStep DEF Begin, Copying, ReadColumns, ColumnsUnreadable, ReadRows, Telling,
     EnsureDataset, RefreshObjectTypes, LoadRegistry, InstallRegistry, Finish
<1>6. ASSUME NEW r \in Runs, Writing(r) PROVE [Copy!Next]_Copy!abstract
  <2>1. CASE Commit(r)
    <3>1. landing' = [version |-> read[r], shape |-> cols[r]]
      BY <2>1 DEF Commit, Reusable
    <3>2. /\ read[r] \in DOMAIN history /\ cols[r] \subseteq history[read[r]]
          /\ viewed \subseteq cols[r]
      BY <2>1 DEF Commit, IInv, HoldsARead, OneWriter, Writes
    <3>3. UNCHANGED <<history, viewed>>
      BY <2>1 DEF Commit
    <3>4. Copy!Install
      BY <3>1, <3>2, <3>3 DEF Copy!Install
    <3>. QED BY <3>4 DEF Copy!Next
  <2>2. CASE ~Commit(r)
    BY <1>6, <2>2, StutterStep DEF Writing, CountLanding, EmptyLanding, CreateLanding, DeadlockAbort
  <2>. QED BY <2>1, <2>2
<1>7. ASSUME NEW r \in Runs, WriteFails(r) \/ StepFails(r) PROVE [Copy!Next]_Copy!abstract
  BY <1>7, StutterStep DEF WriteFails, StepFails
<1>8. CASE Crash
  BY <1>8, StutterStep DEF Crash
<1>9. CASE UNCHANGED vars
  BY <1>9, StutterStep DEF vars
<1>. QED BY <1>1, <1>2, <1>3, <1>4, <1>5, <1>6, <1>7, <1>8, <1>9 DEF Next, RunStep, Copy!Next

(* Whatever overlaps, fails or crashes, the landed table and its views       *)
(* behave as SnapshotCopy promises: from one whole snapshot of the source to *)
(* another in one step, and no view ever broken.                             *)
THEOREM SyncingIsCopying == Spec => IsSnapshotCopy
<1>1. Init => Copy!Init
  BY DEF Init, Copy!Init, Shapes
<1>2. IInv /\ [Next]_vars => [Copy!Next]_Copy!abstract
  BY CopyStep
<1>. QED BY <1>1, <1>2, Invariant, PTL DEF Spec, IsSnapshotCopy, Copy!Spec
=============================================================================
