----------------------- MODULE OntologyPublish_proofs -----------------------
(***************************************************************************)
(* Theorems about OntologyPublish, for any number of spaces, tables, items *)
(* and workers, and any number of changes, failures and crashes.           *)
(***************************************************************************)
EXTENDS OntologyPublish, TLAPS

USE BoundsAreNaturals, FreshAreSpaces, NoneIsNothing, NoVersionIsNoDocument, MainIsNoWorker

(* Every step keeps every variable's type.                                   *)
LEMMA TypeStep ==
  ASSUME TypeOK, [Next]_vars
  PROVE  TypeOK'
<1>. USE DEF TypeOK, Goto, Fault, Ends, Begins, EnsureVersion, HasVersion, stored, local, startup, ghosts,
             Everyone, Document, Registry, Steps
<1>1. ASSUME NEW w \in Workers, NEW s \in Spaces, OpenSpace(w, s) PROVE TypeOK'
  <2>1. spaces' \subseteq Spaces /\ Spaces \ Fresh \subseteq spaces' /\ toBoot' \subseteq spaces'
    BY <1>1 DEF OpenSpace
  <2>2. space' \in [Everyone -> Spaces] /\ pc' \in [Everyone -> Steps] /\ alone' \in [Everyone -> BOOLEAN]
    BY <1>1 DEF OpenSpace
  <2>. QED BY <1>1, <2>1, <2>2 DEF OpenSpace
<1>2. ASSUME NEW w \in Workers, NEW s \in Spaces, NEW new \in Content, Change(w, s, new) PROVE TypeOK'
  <2>1. rows' \in [Spaces -> Content] /\ doc' \in [Spaces -> Document \cup {NoVersion}]
    BY <1>2 DEF Change, Content
  <2>2. space' \in [Everyone -> Spaces] /\ pc' \in [Everyone -> Steps] /\ alone' \in [Everyone -> BOOLEAN]
    BY <1>2 DEF Change
  <2>3. changes' \in 0..MaxChanges
    BY <1>2 DEF Change
  <2>. QED BY <1>2, <2>1, <2>2, <2>3 DEF Change
<1>3. ASSUME NEW w \in Workers, ReloadAll(w) PROVE TypeOK'
  BY <1>3 DEF ReloadAll
<1>4. ASSUME NEW w \in Workers, OpenStep(w) PROVE TypeOK'
  <2>1. CASE EnsureSpaceOntology(w)
    BY <2>1 DEF EnsureSpaceOntology, Content
  <2>2. CASE Load(w, "openLoad", "openInstall")
    BY <2>2 DEF Load
  <2>3. CASE InstallOpened(w)
    BY <2>3 DEF InstallOpened, Install, Content
  <2>. QED BY <1>4, <2>1, <2>2, <2>3 DEF OpenStep
<1>5. ASSUME NEW w \in Workers, ReloadStep(w) PROVE TypeOK'
  <2>1. CASE ListSpaces(w)
    BY <2>1 DEF ListSpaces
  <2>2. CASE Clear(w)
    BY <2>2 DEF Clear
  <2>3. CASE InstallEach(w)
    BY <2>3 DEF InstallEach, Install
  <2>4. CASE ReloadEnds(w)
    BY <2>4 DEF ReloadEnds, Content
  <2>5. ASSUME NEW s \in Spaces, LoadEach(w, s) PROVE TypeOK'
    BY <2>5 DEF LoadEach
  <2>6. ASSUME NEW s \in Spaces, LoadEachFails(w, s) PROVE TypeOK'
    BY <2>6 DEF LoadEachFails
  <2>. QED BY <1>5, <2>1, <2>2, <2>3, <2>4, <2>5, <2>6 DEF ReloadStep
<1>6. ASSUME NEW w \in Workers, StepFails(w) PROVE TypeOK'
  BY <1>6 DEF StepFails, Content
<1>7. ASSUME NEW w \in Everyone, PublishStep(w) PROVE TypeOK'
  <2>1. CASE ReadVersion(w)
    BY <2>1 DEF ReadVersion, Content
  <2>2. ASSUME NEW t \in Tables, ReadTable(w, t) PROVE TypeOK'
    BY <2>2 DEF ReadTable, Content
  <2>3. CASE StoreDocument(w)
    BY <2>3 DEF StoreDocument, Bumped
  <2>4. CASE Load(w, "load", "install")
    BY <2>4 DEF Load
  <2>5. CASE InstallPublished(w)
    BY <2>5 DEF InstallPublished, Install
  <2>6. CASE ReadCards(w)
    BY <2>6 DEF ReadCards
  <2>7. CASE DeleteStale(w)
    BY <2>7 DEF DeleteStale, Content
  <2>8. ASSUME NEW x \in Missing(w), InsertMissing(w, x) PROVE TypeOK'
    BY <2>8 DEF InsertMissing, Missing, Content
  <2>9. CASE PublishEnds(w)
    BY <2>9 DEF PublishEnds, Content
  <2>. QED BY <1>7, <2>1, <2>2, <2>3, <2>4, <2>5, <2>6, <2>7, <2>8, <2>9 DEF PublishStep
<1>8. CASE BootVersions
  BY <1>8 DEF BootVersions, ToPublish, Content
<1>9. ASSUME NEW s \in Spaces, BootPublish(s) PROVE TypeOK'
  BY <1>9 DEF BootPublish
<1>10. CASE Crash
  <2>1. /\ pc' \in [Everyone -> Steps] /\ minor' \in [Everyone -> Nat]
        /\ got' \in [Everyone -> Content] /\ seen' \in [Everyone -> Content]
    BY <1>10 DEF Crash, Content
  <2>2. left' \in [Everyone -> SUBSET Tables] /\ todo' \in [Everyone -> SUBSET Spaces]
    BY <1>10 DEF Crash
  <2>3. registry' \in [Spaces -> Registry \cup {NoRegistry}] /\ faults' \in 0..MaxFaults
    BY <1>10 DEF Crash
  <2>. QED BY <1>10, <2>1, <2>2, <2>3 DEF Crash
<1>11. CASE UNCHANGED vars
  BY <1>11 DEF vars
<1>. QED BY <1>1, <1>2, <1>3, <1>4, <1>5, <1>6, <1>7, <1>8, <1>9, <1>10, <1>11 DEF Next

(* The cards are the rows when the last of the missing ones is inserted.     *)
LEMMA PublishedIsDescribed ==
  ASSUME IInv, NEW w \in Everyone, Undisturbed(w), pc[w] = "insert", Missing(w) = {}
  PROVE  Described(space[w])
<1>1. space[w] \in Spaces /\ Progress(w)
  BY DEF IInv, TypeOK, PublishesGoOn
<1>2. cards[space[w]] = seen[w] \cap got[w] /\ got[w] = rows[space[w]]
  BY <1>1 DEF Progress
<1>3. cards[space[w]] = rows[space[w]]
  BY <1>2 DEF Missing
<1>. QED BY <1>1, <1>3 DEF Progress, Described, HasVersion

(* Nobody starts beside the start-up, and who is alone stays so until somebody begins. *)
LEMMA OneAtATimeStep ==
  ASSUME IInv, TypeOK', [Next]_vars
  PROVE  OneAtATime'
<1>. USE DEF IInv, OneAtATime, TypeOK,
             Goto, Fault, Ends, Begins, EnsureVersion, HasVersion, stored, local, startup, ghosts, Everyone
<1>1. ASSUME NEW w \in Workers, NEW s \in Spaces, OpenSpace(w, s) PROVE OneAtATime'
  BY <1>1 DEF OpenSpace
<1>2. ASSUME NEW w \in Workers, NEW s \in Spaces, NEW new \in Content, Change(w, s, new) PROVE OneAtATime'
  BY <1>2 DEF Change
<1>3. ASSUME NEW w \in Workers, ReloadAll(w) PROVE OneAtATime'
  BY <1>3 DEF ReloadAll
<1>4. ASSUME NEW w \in Workers, OpenStep(w) PROVE OneAtATime'
  BY <1>4 DEF OpenStep, EnsureSpaceOntology, Load, InstallOpened, Install
<1>5. ASSUME NEW w \in Workers, ReloadStep(w) PROVE OneAtATime'
  BY <1>5 DEF ReloadStep, ListSpaces, Clear, LoadEach, LoadEachFails, InstallEach, Install, ReloadEnds
<1>6. ASSUME NEW w \in Workers, StepFails(w) PROVE OneAtATime'
  BY <1>6 DEF StepFails
<1>7. ASSUME NEW w \in Everyone, PublishStep(w) PROVE OneAtATime'
  BY <1>7 DEF PublishStep, ReadVersion, ReadTable, StoreDocument, Load, Bumped,
     InstallPublished, Install, ReadCards, DeleteStale, Stale, InsertMissing, Missing, PublishEnds
<1>8. CASE BootVersions
  BY <1>8 DEF BootVersions, ToPublish
<1>9. ASSUME NEW s \in Spaces, BootPublish(s) PROVE OneAtATime'
  BY <1>9 DEF BootPublish, Earliest
<1>10. CASE Crash
  BY <1>10 DEF Crash
<1>11. CASE UNCHANGED vars
  BY <1>11 DEF vars
<1>. QED BY <1>1, <1>2, <1>3, <1>4, <1>5, <1>6, <1>7, <1>8, <1>9, <1>10, <1>11 DEF Next

(* A reload under way keeps the list of what it has still to load.          *)
LEMMA ReloadsGoOnStep ==
  ASSUME IInv, TypeOK', [Next]_vars
  PROVE  ReloadsGoOn'
<1>. USE DEF IInv, OneAtATime, ReloadsGoOn, TypeOK,
             Goto, Fault, Ends, Begins, EnsureVersion, HasVersion, stored, local, startup, ghosts, Everyone
<1>1. ASSUME NEW w \in Workers, NEW s \in Spaces, OpenSpace(w, s) PROVE ReloadsGoOn'
  BY <1>1 DEF OpenSpace
<1>2. ASSUME NEW w \in Workers, NEW s \in Spaces, NEW new \in Content, Change(w, s, new) PROVE ReloadsGoOn'
  BY <1>2 DEF Change
<1>3. ASSUME NEW w \in Workers, ReloadAll(w) PROVE ReloadsGoOn'
  BY <1>3 DEF ReloadAll
<1>4. ASSUME NEW w \in Workers, OpenStep(w) PROVE ReloadsGoOn'
  BY <1>4 DEF OpenStep, EnsureSpaceOntology, Load, InstallOpened, Install
<1>5. ASSUME NEW w \in Workers, ReloadStep(w) PROVE ReloadsGoOn'
  BY <1>5 DEF ReloadStep, ListSpaces, Clear, LoadEach, LoadEachFails, InstallEach, Install, ReloadEnds
<1>6. ASSUME NEW w \in Workers, StepFails(w) PROVE ReloadsGoOn'
  BY <1>6 DEF StepFails
<1>7. ASSUME NEW w \in Everyone, PublishStep(w) PROVE ReloadsGoOn'
  <2>1. CASE ReadVersion(w)
    BY <2>1 DEF ReadVersion
  <2>2. ASSUME NEW t \in Tables, ReadTable(w, t) PROVE ReloadsGoOn'
    BY <2>2 DEF ReadTable
  <2>3. CASE StoreDocument(w)
    <3>1. doc'[space[w]] \in Document /\ doc'[space[w]].says = got[w]
      BY <2>3 DEF StoreDocument, Bumped, Document, Content
    <3>2. doc'[space[w]] # NoVersion
      BY <3>1
    <3>. QED BY <2>3, <3>1, <3>2 DEF StoreDocument
  <2>4. CASE Load(w, "load", "install")
    BY <2>4 DEF Load
  <2>5. CASE InstallPublished(w)
    BY <2>5 DEF InstallPublished, Install
  <2>6. CASE ReadCards(w)
    BY <2>6 DEF ReadCards
  <2>7. CASE DeleteStale(w)
    BY <2>7 DEF DeleteStale, Stale
  <2>8. ASSUME NEW x \in Missing(w), InsertMissing(w, x) PROVE ReloadsGoOn'
    BY <2>8 DEF InsertMissing, Missing
  <2>9. CASE PublishEnds(w)
    BY <2>9 DEF PublishEnds
  <2>. QED BY <1>7, <2>1, <2>2, <2>3, <2>4, <2>5, <2>6, <2>7, <2>8, <2>9 DEF PublishStep
<1>8. CASE BootVersions
  <2>1. [minor |-> 0, says |-> {}] \in Document
    BY DEF Document, Content
  <2>2. [minor |-> 0, says |-> {}] # NoVersion
    BY <2>1
  <2>3. \A s \in spaces : doc'[s] # NoVersion
    BY <1>8, <2>2 DEF BootVersions
  <2>. QED BY <1>8, <2>3 DEF BootVersions, ToPublish
<1>9. ASSUME NEW s \in Spaces, BootPublish(s) PROVE ReloadsGoOn'
  BY <1>9 DEF BootPublish, Earliest
<1>10. CASE Crash
  BY <1>10 DEF Crash
<1>11. CASE UNCHANGED vars
  BY <1>11 DEF vars
<1>. QED BY <1>1, <1>2, <1>3, <1>4, <1>5, <1>6, <1>7, <1>8, <1>9, <1>10, <1>11 DEF Next

(* A space leaves the registry only with a reload that will come to it.     *)
LEMMA OneFailureIsOneSpaceStep ==
  ASSUME IInv, TypeOK', [Next]_vars
  PROVE  OneFailureIsOneSpace'
<1>. USE DEF IInv, OneAtATime, ReloadsGoOn, BootedAreDescribed, OneFailureIsOneSpace, Described, TypeOK, Registry,
             Goto, Fault, Ends, Begins, EnsureVersion, HasVersion, stored, local, startup, ghosts, Everyone
<1>1. ASSUME NEW w \in Workers, NEW s \in Spaces, OpenSpace(w, s) PROVE OneFailureIsOneSpace'
  BY <1>1 DEF OpenSpace
<1>2. ASSUME NEW w \in Workers, NEW s \in Spaces, NEW new \in Content, Change(w, s, new) PROVE OneFailureIsOneSpace'
  BY <1>2 DEF Change
<1>3. ASSUME NEW w \in Workers, ReloadAll(w) PROVE OneFailureIsOneSpace'
  BY <1>3 DEF ReloadAll
<1>4. ASSUME NEW w \in Workers, OpenStep(w) PROVE OneFailureIsOneSpace'
  <2>1. CASE EnsureSpaceOntology(w)
    BY <2>1 DEF EnsureSpaceOntology
  <2>2. CASE Load(w, "openLoad", "openInstall")
    BY <2>2 DEF Load
  <2>3. CASE InstallOpened(w)
    BY <2>3 DEF InstallOpened, Install
  <2>. QED BY <1>4, <2>1, <2>2, <2>3 DEF OpenStep
<1>5. ASSUME NEW w \in Workers, ReloadStep(w) PROVE OneFailureIsOneSpace'
  <2>1. CASE ListSpaces(w)
    BY <2>1 DEF ListSpaces
  <2>2. CASE Clear(w)
    BY <2>2 DEF Clear
  <2>3. CASE InstallEach(w)
    BY <2>3 DEF InstallEach, Install
  <2>4. CASE ReloadEnds(w)
    BY <2>4 DEF ReloadEnds
  <2>5. ASSUME NEW s \in Spaces, LoadEach(w, s) PROVE OneFailureIsOneSpace'
    BY <2>5 DEF LoadEach
  <2>6. ASSUME NEW s \in Spaces, LoadEachFails(w, s) PROVE OneFailureIsOneSpace'
    BY <2>6 DEF LoadEachFails
  <2>. QED BY <1>5, <2>1, <2>2, <2>3, <2>4, <2>5, <2>6 DEF ReloadStep
<1>6. ASSUME NEW w \in Workers, StepFails(w) PROVE OneFailureIsOneSpace'
  BY <1>6 DEF StepFails
<1>7. ASSUME NEW w \in Everyone, PublishStep(w) PROVE OneFailureIsOneSpace'
  <2>1. CASE ReadVersion(w)
    BY <2>1 DEF ReadVersion
  <2>2. ASSUME NEW t \in Tables, ReadTable(w, t) PROVE OneFailureIsOneSpace'
    BY <2>2 DEF ReadTable
  <2>3. CASE StoreDocument(w)
    BY <2>3 DEF StoreDocument, Bumped
  <2>4. CASE Load(w, "load", "install")
    BY <2>4 DEF Load
  <2>5. CASE InstallPublished(w)
    BY <2>5 DEF InstallPublished, Install
  <2>6. CASE ReadCards(w)
    BY <2>6 DEF ReadCards
  <2>7. CASE DeleteStale(w)
    BY <2>7 DEF DeleteStale, Stale
  <2>8. ASSUME NEW x \in Missing(w), InsertMissing(w, x) PROVE OneFailureIsOneSpace'
    BY <2>8 DEF InsertMissing, Missing
  <2>9. CASE PublishEnds(w)
    <3>1. CASE w # Main
      <4>1. todo[w] = {} /\ todo' = todo
        BY <2>9, <3>1 DEF PublishEnds
      <4>. QED BY <2>9, <3>1, <4>1 DEF PublishEnds
    <3>2. CASE w = Main
      <4>1. ~serving /\ Described(space[w])
        BY <2>9, <3>2, PublishedIsDescribed DEF PublishEnds, Undisturbed
      <4>2. SUFFICES ASSUME toBoot' = {}, NEW s \in Spaces \ Fresh PROVE registry'[s] # NoRegistry
        BY <2>9, <3>2, <4>1 DEF PublishEnds
      <4>3. Described(s)
        BY <2>9, <3>2, <4>1, <4>2 DEF PublishEnds
      <4>4. registry[s] \in Registry
        BY <4>3
      <4>. QED BY <2>9, <4>4 DEF PublishEnds
    <3>. QED BY <3>1, <3>2
  <2>. QED BY <1>7, <2>1, <2>2, <2>3, <2>4, <2>5, <2>6, <2>7, <2>8, <2>9 DEF PublishStep
<1>8. CASE BootVersions
  BY <1>8 DEF BootVersions, ToPublish
<1>9. ASSUME NEW s \in Spaces, BootPublish(s) PROVE OneFailureIsOneSpace'
  BY <1>9 DEF BootPublish, Earliest
<1>10. CASE Crash
  BY <1>10 DEF Crash
<1>11. CASE UNCHANGED vars
  BY <1>11 DEF vars
<1>. QED BY <1>1, <1>2, <1>3, <1>4, <1>5, <1>6, <1>7, <1>8, <1>9, <1>10, <1>11 DEF Next

(* The start-up takes a space off its list when it is in step.              *)
LEMMA BootedAreDescribedStep ==
  ASSUME IInv, TypeOK', [Next]_vars
  PROVE  BootedAreDescribed'
<1>. USE DEF IInv, OneAtATime, PublishesGoOn, BootedAreDescribed, Undisturbed, Progress, Described, TypeOK, Registry,
             Goto, Fault, Ends, Begins, EnsureVersion, HasVersion, stored, local, startup, ghosts, Everyone
<1>1. ASSUME NEW w \in Workers, NEW s \in Spaces, OpenSpace(w, s) PROVE BootedAreDescribed'
  BY <1>1 DEF OpenSpace
<1>2. ASSUME NEW w \in Workers, NEW s \in Spaces, NEW new \in Content, Change(w, s, new) PROVE BootedAreDescribed'
  BY <1>2 DEF Change
<1>3. ASSUME NEW w \in Workers, ReloadAll(w) PROVE BootedAreDescribed'
  BY <1>3 DEF ReloadAll
<1>4. ASSUME NEW w \in Workers, OpenStep(w) PROVE BootedAreDescribed'
  BY <1>4 DEF OpenStep, EnsureSpaceOntology, Load, InstallOpened, Install
<1>5. ASSUME NEW w \in Workers, ReloadStep(w) PROVE BootedAreDescribed'
  BY <1>5 DEF ReloadStep, ListSpaces, Clear, LoadEach, LoadEachFails, InstallEach, Install, ReloadEnds
<1>6. ASSUME NEW w \in Workers, StepFails(w) PROVE BootedAreDescribed'
  BY <1>6 DEF StepFails
<1>7. ASSUME NEW w \in Everyone, PublishStep(w) PROVE BootedAreDescribed'
  <2>1. CASE ReadVersion(w)
    BY <2>1 DEF ReadVersion
  <2>2. ASSUME NEW t \in Tables, ReadTable(w, t) PROVE BootedAreDescribed'
    BY <2>2 DEF ReadTable
  <2>3. CASE StoreDocument(w)
    BY <2>3 DEF StoreDocument, Bumped
  <2>4. CASE Load(w, "load", "install")
    BY <2>4 DEF Load
  <2>5. CASE InstallPublished(w)
    BY <2>5 DEF InstallPublished, Install
  <2>6. CASE ReadCards(w)
    BY <2>6 DEF ReadCards
  <2>7. CASE DeleteStale(w)
    BY <2>7 DEF DeleteStale, Stale
  <2>8. ASSUME NEW x \in Missing(w), InsertMissing(w, x) PROVE BootedAreDescribed'
    BY <2>8 DEF InsertMissing, Missing
  <2>9. CASE PublishEnds(w)
    <3>1. w = Main /\ ~serving => Described(space[w])
      BY <2>9, PublishedIsDescribed DEF PublishEnds, Undisturbed
    <3>. QED BY <2>9, <3>1 DEF PublishEnds
  <2>. QED BY <1>7, <2>1, <2>2, <2>3, <2>4, <2>5, <2>6, <2>7, <2>8, <2>9 DEF PublishStep
<1>8. CASE BootVersions
  BY <1>8 DEF BootVersions, ToPublish
<1>9. ASSUME NEW s \in Spaces, BootPublish(s) PROVE BootedAreDescribed'
  BY <1>9 DEF BootPublish, Earliest
<1>10. CASE Crash
  BY <1>10 DEF Crash
<1>11. CASE UNCHANGED vars
  BY <1>11 DEF vars
<1>. QED BY <1>1, <1>2, <1>3, <1>4, <1>5, <1>6, <1>7, <1>8, <1>9, <1>10, <1>11 DEF Next

(* Each step of an undisturbed publish makes one more of the three true.    *)
LEMMA PublishesGoOnStep ==
  ASSUME IInv, TypeOK', [Next]_vars
  PROVE  PublishesGoOn'
<1>. USE DEF IInv, OneAtATime, PublishesGoOn, Undisturbed, Progress, TypeOK, Content, Things,
             Goto, Fault, Ends, Begins, EnsureVersion, HasVersion, stored, local, startup, ghosts, Everyone
<1>1. ASSUME NEW w \in Workers, NEW s \in Spaces, OpenSpace(w, s) PROVE PublishesGoOn'
  BY <1>1 DEF OpenSpace
<1>2. ASSUME NEW w \in Workers, NEW s \in Spaces, NEW new \in Content, Change(w, s, new) PROVE PublishesGoOn'
  BY <1>2 DEF Change
<1>3. ASSUME NEW w \in Workers, ReloadAll(w) PROVE PublishesGoOn'
  BY <1>3 DEF ReloadAll
<1>4. ASSUME NEW w \in Workers, OpenStep(w) PROVE PublishesGoOn'
  BY <1>4 DEF OpenStep, EnsureSpaceOntology, Load, InstallOpened, Install
<1>5. ASSUME NEW w \in Workers, ReloadStep(w) PROVE PublishesGoOn'
  BY <1>5 DEF ReloadStep, ListSpaces, Clear, LoadEach, LoadEachFails, InstallEach, Install, ReloadEnds
<1>6. ASSUME NEW w \in Workers, StepFails(w) PROVE PublishesGoOn'
  BY <1>6 DEF StepFails
<1>7. ASSUME NEW w \in Everyone, PublishStep(w) PROVE PublishesGoOn'
  <2>1. CASE ReadVersion(w)
    BY <2>1 DEF ReadVersion
  <2>2. ASSUME NEW t \in Tables, ReadTable(w, t) PROVE PublishesGoOn'
    <3>1. Undisturbed(w) => Progress(w)
      OBVIOUS
    <3>2. ASSUME Undisturbed(w) PROVE got'[w] = {x \in rows[space[w]] : x[1] \notin left'[w]}
      BY <2>2, <3>1, <3>2 DEF ReadTable
    <3>3. ASSUME Undisturbed(w), left[w] = {t} PROVE got'[w] = rows[space[w]]
      BY <2>2, <3>2, <3>3 DEF ReadTable
    <3>4. ASSUME Undisturbed(w) PROVE Progress(w)'
      BY <2>2, <3>2, <3>3, <3>4 DEF ReadTable
    <3>5. ASSUME NEW u \in Everyone, u # w, Undisturbed(u) PROVE Progress(u)'
      <4>1. /\ Progress(u) /\ pc'[u] = pc[u] /\ got'[u] = got[u] /\ left'[u] = left[u]
            /\ UNCHANGED <<rows, doc, cards, registry, space, seen>>
        BY <2>2, <3>5 DEF ReadTable
      <4>. QED BY <4>1
    <3>6. \A u \in Everyone : Undisturbed(u)' => Undisturbed(u)
      BY <2>2 DEF ReadTable
    <3>7. \A u \in Everyone : Undisturbed(u) => Progress(u)'
      BY <3>4, <3>5
    <3>. HIDE DEF Undisturbed, Progress
    <3>. QED BY <3>6, <3>7
  <2>3. CASE StoreDocument(w)
    <3>1. doc'[space[w]] \in Document /\ doc'[space[w]].says = got[w]
      BY <2>3 DEF StoreDocument, Bumped, Document, Content
    <3>2. doc'[space[w]] # NoVersion
      BY <3>1
    <3>. QED BY <2>3, <3>1, <3>2 DEF StoreDocument
  <2>4. CASE Load(w, "load", "install")
    BY <2>4 DEF Load
  <2>5. CASE InstallPublished(w)
    BY <2>5 DEF InstallPublished, Install
  <2>6. CASE ReadCards(w)
    BY <2>6 DEF ReadCards
  <2>7. CASE DeleteStale(w)
    BY <2>7 DEF DeleteStale, Stale
  <2>8. ASSUME NEW x \in Missing(w), InsertMissing(w, x) PROVE PublishesGoOn'
    BY <2>8 DEF InsertMissing, Missing
  <2>9. CASE PublishEnds(w)
    BY <2>9 DEF PublishEnds
  <2>. QED BY <1>7, <2>1, <2>2, <2>3, <2>4, <2>5, <2>6, <2>7, <2>8, <2>9 DEF PublishStep
<1>8. CASE BootVersions
  BY <1>8 DEF BootVersions, ToPublish
<1>9. ASSUME NEW s \in Spaces, BootPublish(s) PROVE PublishesGoOn'
  BY <1>9 DEF BootPublish, Earliest
<1>10. CASE Crash
  BY <1>10 DEF Crash
<1>11. CASE UNCHANGED vars
  BY <1>11 DEF vars
<1>. QED BY <1>1, <1>2, <1>3, <1>4, <1>5, <1>6, <1>7, <1>8, <1>9, <1>10, <1>11 DEF Next

(* The system starts with nothing read, and with nobody at work.             *)
LEMMA InitInv == Init => IInv
<1>. SUFFICES ASSUME Init PROVE IInv
  OBVIOUS
<1>. USE DEF Init
<1>1. TypeOK
  <2>1. 1 \in Spaces
    BY DEF Spaces
  <2>2. /\ pc \in [Everyone -> Steps] /\ space \in [Everyone -> Spaces]
        /\ minor \in [Everyone -> Nat] /\ alone \in [Everyone -> BOOLEAN]
    BY <2>1 DEF Steps
  <2>3. /\ got \in [Everyone -> Content] /\ seen \in [Everyone -> Content]
        /\ left \in [Everyone -> SUBSET Tables] /\ todo \in [Everyone -> SUBSET Spaces]
    BY DEF Content
  <2>4. /\ rows \in [Spaces -> Content] /\ cards \in [Spaces -> Content]
        /\ doc \in [Spaces -> Document \cup {NoVersion}]
        /\ registry \in [Spaces -> Registry \cup {NoRegistry}]
    BY DEF Content
  <2>5. spaces \subseteq Spaces /\ Spaces \ Fresh \subseteq spaces /\ serving \in BOOLEAN /\ toBoot \subseteq spaces
    OBVIOUS
  <2>6. failed \subseteq Spaces /\ changes \in 0..MaxChanges /\ faults \in 0..MaxFaults
    OBVIOUS
  <2>. QED BY <2>2, <2>3, <2>4, <2>5, <2>6 DEF TypeOK
<1>2. OneAtATime /\ ReloadsGoOn /\ BootedAreDescribed /\ OneFailureIsOneSpace
  BY DEF OneAtATime, ReloadsGoOn, BootedAreDescribed, OneFailureIsOneSpace, Everyone
<1>3. PublishesGoOn
  BY DEF PublishesGoOn, Progress
<1>. QED BY <1>1, <1>2, <1>3 DEF IInv

(* IInv is inductive.                                                        *)
LEMMA Inductive == IInv /\ [Next]_vars => IInv'
<1>. SUFFICES ASSUME IInv, [Next]_vars PROVE IInv'
  OBVIOUS
<1>1. TypeOK'
  BY TypeStep DEF IInv
<1>2. OneAtATime' /\ ReloadsGoOn' /\ OneFailureIsOneSpace'
  BY <1>1, OneAtATimeStep, ReloadsGoOnStep, OneFailureIsOneSpaceStep
<1>3. BootedAreDescribed' /\ PublishesGoOn'
  BY <1>1, BootedAreDescribedStep, PublishesGoOnStep
<1>. QED BY <1>1, <1>2, <1>3 DEF IInv

(* In every reachable state: the types, and what the properties rest on.     *)
THEOREM InvariantHolds == Spec => []IInv
BY InitInv, Inductive, PTL DEF Spec

(* The types of the variables.                                               *)
THEOREM TypeCorrect == Spec => []TypeOK
<1>1. IInv => TypeOK
  BY DEF IInv
<1>. QED BY <1>1, InvariantHolds, PTL

(* "One failing to load must not prevent the others": while the service      *)
(* serves, a space is missing from the registry only when its own load       *)
(* failed or a full reload is still on its way to it.                        *)
THEOREM OneFailureHarmsOne == Spec => []OneFailureIsOneSpace
<1>1. IInv => OneFailureIsOneSpace
  BY DEF IInv
<1>. QED BY <1>1, InvariantHolds, PTL

(* A step that takes a worker from "insert" to "idle" without a failure is   *)
(* the end of its publish.                                                   *)
LEMMA SoloStep ==
  ASSUME IInv, [Next]_vars, NEW w \in Workers, pc[w] = "insert", pc'[w] = "idle", faults' = faults
  PROVE  PublishEnds(w)
<1>. USE DEF IInv, TypeOK, OneAtATime, Goto, Ends, Begins, Everyone
<1>1. ASSUME NEW v \in Workers, NEW s \in Spaces, OpenSpace(v, s) PROVE FALSE
  BY <1>1 DEF OpenSpace
<1>2. ASSUME NEW v \in Workers, NEW s \in Spaces, NEW new \in Content, Change(v, s, new) PROVE FALSE
  BY <1>2 DEF Change
<1>3. ASSUME NEW v \in Workers, ReloadAll(v) \/ OpenStep(v) PROVE FALSE
  BY <1>3 DEF ReloadAll, OpenStep, EnsureSpaceOntology, Load, InstallOpened
<1>4. ASSUME NEW v \in Workers, ReloadStep(v) PROVE FALSE
  BY <1>4 DEF ReloadStep, ListSpaces, Clear, InstallEach, ReloadEnds, LoadEach, LoadEachFails
<1>5. ASSUME NEW v \in Workers, StepFails(v) \/ Crash PROVE FALSE
  BY <1>5 DEF StepFails, Crash, Fault
<1>6. ASSUME NEW v \in Everyone, PublishStep(v) PROVE PublishEnds(w)
  BY <1>6 DEF PublishStep, ReadVersion, ReadTable, StoreDocument, Load, InstallPublished, ReadCards,
     DeleteStale, InsertMissing, PublishEnds
<1>7. CASE BootVersions \/ UNCHANGED vars
  BY <1>7 DEF BootVersions, vars
<1>8. ASSUME NEW s \in Spaces, BootPublish(s) PROVE FALSE
  BY <1>8 DEF BootPublish
<1>. QED BY <1>1, <1>2, <1>3, <1>4, <1>5, <1>6, <1>7, <1>8 DEF Next

(* publishChange rebuilds, it does not patch: a publish nobody overlaps ends *)
(* with document, registry and cards in step with the rows.                  *)
THEOREM SoloRepairs == Spec => SoloPublishRepairs
<1>1. ASSUME IInv, [Next]_vars, NEW w \in Workers,
             pc[w] = "insert", pc'[w] = "idle", faults' = faults, alone[w]
      PROVE  Described(space[w])'
  <2>1. PublishEnds(w)
    BY <1>1, SoloStep
  <2>2. Undisturbed(w) /\ w \in Everyone
    BY <1>1, MainIsNoWorker DEF Undisturbed, Everyone
  <2>3. Described(space[w])
    BY <1>1, <2>1, <2>2, PublishedIsDescribed DEF PublishEnds
  <2>. QED BY <2>1, <2>3 DEF PublishEnds, stored, Described, HasVersion
<1>2. IInv /\ [Next]_vars =>
        \A w \in Workers : pc[w] = "insert" /\ pc'[w] = "idle" /\ faults' = faults /\ alone[w]
                            => Described(space[w])'
  BY <1>1
<1>. QED BY <1>2, InvariantHolds, PTL DEF Spec, SoloPublishRepairs

(* No request is served before every space is in step.                       *)
THEOREM StartRepairs == Spec => BootRepairs
<1>1. ASSUME IInv, [Next]_vars, ~serving, serving'
      PROVE  \A s \in spaces : Described(s)'
  <2>. USE <1>1 DEF IInv, OneAtATime, startup, Begins
  <2>1. ASSUME NEW w \in Workers, NEW s \in Spaces, OpenSpace(w, s) PROVE FALSE
    BY <2>1 DEF OpenSpace
  <2>2. ASSUME NEW w \in Workers, NEW s \in Spaces, NEW new \in Content, Change(w, s, new) PROVE FALSE
    BY <2>2 DEF Change
  <2>3. ASSUME NEW w \in Workers, ReloadAll(w) \/ OpenStep(w) PROVE FALSE
    BY <2>3 DEF ReloadAll, OpenStep, EnsureSpaceOntology, Load, InstallOpened
  <2>4. ASSUME NEW w \in Workers, ReloadStep(w) \/ StepFails(w) PROVE FALSE
    BY <2>4 DEF ReloadStep, ListSpaces, Clear, InstallEach, ReloadEnds, LoadEach, LoadEachFails, StepFails
  <2>5. ASSUME NEW w \in Everyone, PublishStep(w) PROVE \A s \in spaces : Described(s)'
    <3>1. w = Main /\ PublishEnds(w)
      BY <2>5 DEF PublishStep, ReadVersion, ReadTable, StoreDocument, Load, InstallPublished, ReadCards,
         DeleteStale, InsertMissing, PublishEnds, Everyone
    <3>2. Described(space[w])
      BY <3>1, PublishedIsDescribed DEF PublishEnds, Undisturbed
    <3>3. toBoot \ {space[w]} = {} /\ space[w] \in toBoot
      BY <3>1 DEF PublishEnds
    <3>4. \A s \in spaces : Described(s)
      BY <3>2, <3>3 DEF BootedAreDescribed
    <3>. QED BY <3>1, <3>4 DEF PublishEnds, stored, Described, HasVersion
  <2>6. CASE BootVersions
    BY <2>6 DEF BootVersions, ToPublish
  <2>7. ASSUME NEW s \in Spaces, BootPublish(s) PROVE FALSE
    BY <2>7 DEF BootPublish
  <2>8. CASE Crash \/ UNCHANGED vars
    BY <2>8 DEF Crash, vars
  <2>. QED BY <2>1, <2>2, <2>3, <2>4, <2>5, <2>6, <2>7, <2>8 DEF Next
<1>. QED BY <1>1, InvariantHolds, PTL DEF Spec, BootRepairs
=============================================================================
