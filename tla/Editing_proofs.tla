--------------------------- MODULE Editing_proofs ---------------------------
(***************************************************************************)
(* Theorems about the parts of Editing: folders and connections, boards,   *)
(* imports, removals and the ontology's edits, for any number of people,   *)
(* requests and things, and however the requests overlap.                  *)
(***************************************************************************)
EXTENDS Editing, FiniteSetTheorems, SequenceTheorems, WellFoundedInduction, TLAPS

---------------------------------------------------------------------------
(* Folders and connections (Workspace).                                    *)
---------------------------------------------------------------------------

(* The tree of a folder has the folder ...                                  *)
LEMMA TreeHasRoot ==
  ASSUME NEW parent, NEW f \in Folders
  PROVE  f \in TreeIn(parent, f)
BY DEF TreeIn

(* ... and, with a folder, its children, ...                                *)
LEMMA TreeIsClosed ==
  ASSUME NEW parent, NEW f
  PROVE  ClosedUnder(parent, TreeIn(parent, f))
<1>. SUFFICES ASSUME NEW g \in Folders, parent[g] \in TreeIn(parent, f),
                     NEW tree \in SUBSET Folders, f \in tree, ClosedUnder(parent, tree)
              PROVE  g \in tree
  BY DEF ClosedUnder, TreeIn
<1>. QED BY DEF ClosedUnder, TreeIn

(* ... and nothing more than any other such set.                            *)
LEMMA TreeIsLeast ==
  ASSUME NEW parent, NEW f, NEW tree \in SUBSET Folders, f \in tree, ClosedUnder(parent, tree)
  PROVE  TreeIn(parent, f) \subseteq tree
BY DEF TreeIn

(* A new folder joins the trees its parent is in and changes no other.      *)
LEMMA NewFolderInTrees ==
  ASSUME TypeOK, ParentsStand, NEW g \in Folders, folders[g] = Absent,
         NEW parent \in Folders \cup {Root}, folders' = [folders EXCEPT ![g] = parent],
         NEW f \in Folders
  PROVE  TreeIn(folders', f) \subseteq TreeIn(folders, f) \cup {g}
<1>. DEFINE tree == TreeIn(folders, f) \cup {g}
<1>1. tree \in SUBSET Folders /\ f \in tree
  BY TreeHasRoot DEF TreeIn
<1>2. ASSUME NEW h \in Folders, folders'[h] \in tree PROVE h \in tree
  <2>1. CASE h = g
    BY <2>1
  <2>2. CASE h /= g
    <3>1. folders'[h] = folders[h] /\ folders[h] \in Folders
      BY <1>1, <1>2, <2>2 DEF TypeOK
    <3>2. folders[h] /= g
      BY <3>1, MarkersAreNoFolders DEF ParentsStand, FolderIs
    <3>. QED BY <1>2, <3>1, <3>2, TreeIsClosed DEF ClosedUnder
  <2>. QED BY <2>1, <2>2
<1>3. ClosedUnder(folders', tree)
  BY <1>2 DEF ClosedUnder
<1>. HIDE DEF tree
<1>4. TreeIn(folders', f) \subseteq tree
  BY <1>1, <1>3, TreeIsLeast
<1>. QED BY <1>4 DEF tree

(* Where no folder gets another parent, no tree is larger.                  *)
LEMMA NoLargerTrees ==
  ASSUME \A g \in Folders : folders'[g] \in Folders => folders'[g] = folders[g], NEW f \in Folders
  PROVE  TreeIn(folders', f) \subseteq TreeIn(folders, f)
<1>1. TreeIn(folders, f) \in SUBSET Folders /\ f \in TreeIn(folders, f)
  BY TreeHasRoot DEF TreeIn
<1>2. ClosedUnder(folders', TreeIn(folders, f))
  <2>. SUFFICES ASSUME NEW g \in Folders, folders'[g] \in TreeIn(folders, f) PROVE g \in TreeIn(folders, f)
    BY DEF ClosedUnder
  <2>1. folders'[g] = folders[g]
    BY <1>1
  <2>. QED BY <2>1, TreeIsClosed DEF ClosedUnder
<1>. QED BY <1>1, <1>2, TreeIsLeast

---------------------------------------------------------------------------
(* What steps do, as far as folders, connections and passwords go.         *)
Others(c) == \A d \in Clients \ {c} : job'[d] = job[d]

(* A request in one of these phases answers for no password and plans no    *)
(* deletion of a folder or project.                                         *)
Harmless(j) ==
    \/ j.pc \in {"idle", "syncs", "dropSchedule", "dropSync", "dropConn", "define"}
    \/ j.pc = "test" /\ ~j.own /\ j.ref \in Refs

(* Nothing but one request's phase.                                         *)
Quiet(c) ==
    /\ ~(job[c].pc = "test" /\ job[c].own) /\ job[c].pc \notin {"undo", "forget"} /\ Harmless(job'[c]) /\ Others(c)
    /\ UNCHANGED <<project, folders, conns, creds, nextConn, seed, missed, lost, declined>>
ProjectMade(c) ==
    /\ ~project /\ project' /\ Harmless(job[c]) /\ Harmless(job'[c]) /\ Others(c)
    /\ UNCHANGED <<folders, conns, creds, nextConn, seed, missed, lost, declined>>
FolderMade(c, f, parent) ==
    /\ project /\ ~FolderIs(f) /\ FolderIs(parent) /\ folders' = [folders EXCEPT ![f] = parent]
    /\ Harmless(job[c]) /\ Harmless(job'[c]) /\ Others(c)
    /\ UNCHANGED <<project, conns, creds, nextConn, seed, missed, lost, declined>>
Stored(c, r) ==
    /\ r \in Refs /\ creds' = creds \cup {r} /\ Harmless(job[c]) /\ Others(c)
    /\ job'[c].pc = "test" /\ job'[c].own /\ job'[c].ref = r
    /\ UNCHANGED <<project, folders, conns, nextConn, seed, missed, lost, declined>>
Connected(c, f, r) ==
    /\ job[c].pc = "test" /\ f = job[c].folder /\ r = job[c].ref /\ r \in Refs
    /\ project /\ FolderIs(f) /\ f \in Folders \cup {Root} /\ nextConn \in ConnIds
    /\ conns' = [conns EXCEPT ![nextConn] = [folder |-> f, ref |-> r]] /\ nextConn' = nextConn + 1
    /\ missed' = IF Covering(c, f) THEN missed \cup {r} ELSE missed
    /\ lost' = IF r \in creds THEN lost ELSE lost \cup {r}
    /\ Harmless(job'[c]) /\ Others(c) /\ UNCHANGED <<project, folders, creds, seed, declined>>
Refused(c) ==
    /\ job[c].pc = "test" /\ job[c].own /\ job'[c].pc = "undo" /\ job'[c].own
    /\ job'[c].ref = job[c].ref /\ job[c].ref \in Refs /\ Others(c)
    /\ UNCHANGED <<project, folders, conns, creds, nextConn, seed, missed, lost, declined>>
TakenBack(c) ==
    /\ job[c].pc = "undo" /\ creds' = creds \ {job[c].ref} /\ lost' = lost \cup {job[c].ref}
    /\ Harmless(job'[c]) /\ Others(c)
    /\ UNCHANGED <<project, folders, conns, nextConn, seed, missed, declined>>
FolderPlanned(c, f) ==
    /\ job'[c].pc = "deleteFolder" /\ job'[c].folder = f /\ job'[c].refs = HeldUnder(f)
    /\ Harmless(job[c]) /\ Others(c)
    /\ UNCHANGED <<project, folders, conns, creds, nextConn, seed, missed, lost, declined>>
ProjectPlanned(c) ==
    /\ job'[c].pc = "deleteProject" /\ job'[c].refs = RefsHeld(Folders \cup {Root})
    /\ Harmless(job[c]) /\ Others(c)
    /\ UNCHANGED <<project, folders, conns, creds, nextConn, seed, missed, lost, declined>>
Gone(j) == IF j.pc = "deleteFolder" THEN TreeOf(j.folder) ELSE Folders \cup {Root}
Deleted(c) ==
    /\ job[c].pc \in {"deleteFolder", "deleteProject"} /\ project' = (project /\ job[c].pc = "deleteFolder")
    /\ folders' = [f \in Folders |-> IF f \in Gone(job[c]) THEN Absent ELSE folders[f]]
    /\ conns' = [k \in ConnIds |-> IF conns[k] /= Absent /\ conns[k].folder \in Gone(job[c]) THEN Absent ELSE conns[k]]
    /\ declined' = (declined /\ Home \notin Gone(job[c]))
    /\ job'[c].pc = "forget" /\ job'[c].refs = job[c].refs /\ Others(c)
    /\ UNCHANGED <<creds, nextConn, seed, missed, lost>>
Dropped(c, k) ==
    /\ job[c].pc = "dropConn" /\ conns' = [conns EXCEPT ![k] = Absent] /\ Others(c)
    /\ \/ k \notin ConnIds \/ conns[k] = Absent \/ conns[k].ref = 0
       \/ k \in ConnIds /\ conns[k] /= Absent /\ job'[c].pc = "forget" /\ job'[c].refs = {conns[k].ref}
    /\ job'[c].pc = "forget" \/ Harmless(job'[c])
    /\ declined' = (declined \/ (k \in ConnIds /\ conns[k] /= Absent /\ conns[k].ref = 0 /\ conns[k].folder = Home))
    /\ UNCHANGED <<project, folders, creds, nextConn, seed, missed, lost>>
Forgot(c) ==
    /\ job[c].pc = "forget" /\ creds' = creds \ Forgotten(job[c].refs) /\ Harmless(job'[c]) /\ Others(c)
    /\ UNCHANGED <<project, folders, conns, nextConn, seed, missed, lost, declined>>

Effect ==
    \/ \E c \in Clients :
         \/ Quiet(c) \/ ProjectMade(c) \/ Refused(c) \/ TakenBack(c) \/ ProjectPlanned(c) \/ Deleted(c) \/ Forgot(c)
         \/ \E f \in Folders : FolderPlanned(c, f) \/ \E parent \in Folders \cup {Root} : FolderMade(c, f, parent)
         \/ \E r \in Refs : Stored(c, r) \/ \E f \in Folders \cup {Root} : Connected(c, f, r)
         \/ \E k \in 0..MaxConn : Dropped(c, k)
    \/ SeedFolders \/ SeedConnection
    \/ UNCHANGED vars

(* Every step has one of these effects.                                     *)
LEMMA Effects ==
  ASSUME TypeOK, JobsHold, DeletionStands, [Next]_vars
  PROVE  Effect
<1>. USE DEF rows, ghosts, TypeOK, Asks, Ends, Goes, Idle, Harmless, Others
<1>1. ASSUME NEW c \in Clients, NEW f \in Folders \cup {Root}, NEW ref \in Refs, AskConnectBy(c, f, ref) PROVE Quiet(c)
  BY <1>1 DEF AskConnectBy, Quiet
<1>2. ASSUME NEW c \in Clients, NEW k \in ConnIds, AskSync(c, k) PROVE Quiet(c)
  BY <1>2 DEF AskSync, Quiet
<1>3. ASSUME NEW c \in Clients, CreateSync(c) PROVE Quiet(c)
  BY <1>3 DEF CreateSync, Quiet
<1>4. ASSUME NEW c \in Clients, NEW s \in SyncIds, SetSchedule(c, s) PROVE Quiet(c)
  BY <1>4 DEF SetSchedule, Quiet
<1>5. ASSUME NEW c \in Clients, NEW k \in ConnIds, AskRemoveConnection(c, k) PROVE Quiet(c)
  BY <1>5 DEF AskRemoveConnection, Quiet
<1>6. ASSUME NEW c \in Clients, NextSyncOf(c) PROVE Quiet(c)
  BY <1>6 DEF NextSyncOf, Job, Quiet
<1>7. ASSUME NEW c \in Clients, NEW s \in SyncIds, AskDeleteSync(c, s) PROVE Quiet(c)
  BY <1>7 DEF AskDeleteSync, Quiet
<1>8. ASSUME NEW c \in Clients, DropSchedule(c) PROVE Quiet(c)
  BY <1>8 DEF DropSchedule, Job, Quiet
<1>9. ASSUME NEW c \in Clients, DropSync(c) PROVE Quiet(c)
  BY <1>9 DEF DropSync, Job, Quiet
<1>10. ASSUME NEW c \in Clients, CreateProject(c) PROVE ProjectMade(c)
  BY <1>10 DEF CreateProject, ProjectMade
<1>11. ASSUME NEW c \in Clients, NEW f \in Folders, NEW parent \in Folders \cup {Root}, CreateFolder(c, f, parent)
       PROVE  FolderMade(c, f, parent)
  BY <1>11 DEF CreateFolder, FolderMade
<1>12. ASSUME NEW c \in Clients, NEW f \in Folders \cup {Root}, AskConnect(c, f) PROVE \E r \in Refs : Stored(c, r)
  <2>1. Stored(c, nextRef)
    BY <1>12 DEF AskConnect, Stored
  <2>. QED BY <1>12, <2>1 DEF AskConnect
<1>13. ASSUME NEW c \in Clients, NEW taken \in BOOLEAN, CreateConnection(c, taken)
       PROVE  \/ \E f \in Folders \cup {Root}, r \in Refs : Connected(c, f, r)
              \/ Refused(c) \/ Quiet(c)
  <2>. DEFINE f == job[c].folder
              r == job[c].ref
  <2>1. job[c].pc = "test" /\ f \in Folders \cup {Root} /\ r \in Refs /\ job[c].own \in BOOLEAN
    BY <1>13 DEF CreateConnection, JobsHold, Job
  <2>2. CASE project /\ FolderIs(f) /\ ~taken /\ nextConn \in ConnIds
    <3>1. Connected(c, f, r)
      BY <1>13, <2>1, <2>2 DEF CreateConnection, Connected, Row
    <3>. QED BY <2>1, <3>1
  <2>3. CASE ~(project /\ FolderIs(f) /\ ~taken /\ nextConn \in ConnIds)
    <3>1. CASE job[c].own
      BY <1>13, <2>1, <2>3, <3>1 DEF CreateConnection, Refused, Job
    <3>2. CASE ~job[c].own
      BY <1>13, <2>1, <2>3, <3>2 DEF CreateConnection, Quiet
    <3>. QED BY <3>1, <3>2
  <2>. QED BY <2>2, <2>3
<1>14. ASSUME NEW c \in Clients, DeleteCredential(c) PROVE TakenBack(c)
  BY <1>14 DEF DeleteCredential, TakenBack
<1>15. ASSUME NEW c \in Clients, NEW f \in Folders, AskDeleteFolder(c, f) PROVE FolderPlanned(c, f)
  BY <1>15 DEF AskDeleteFolder, FolderPlanned
<1>16. ASSUME NEW c \in Clients, AskDeleteProject(c) PROVE ProjectPlanned(c)
  BY <1>16 DEF AskDeleteProject, ProjectPlanned
<1>17. ASSUME NEW c \in Clients, DeleteFolder(c) PROVE Deleted(c) \/ Quiet(c)
  <2>1. CASE FolderIs(job[c].folder)
    BY <1>17, <2>1 DEF DeleteFolder, Deleted, Cascade, Gone, Is, Job
  <2>2. CASE ~FolderIs(job[c].folder)
    BY <1>17, <2>2 DEF DeleteFolder, Quiet
  <2>. QED BY <2>1, <2>2
<1>18. ASSUME NEW c \in Clients, DeleteProject(c) PROVE Deleted(c) \/ Quiet(c)
  <2>1. CASE project
    <3>1. Gone(job[c]) = Folders \cup {Root} /\ job[c].pc = "deleteProject" /\ Home \in Folders
      BY <1>18, HomeIsAFolder DEF DeleteProject, Gone
    <3>2. job'[c].pc = "forget" /\ job'[c].refs = job[c].refs /\ Others(c)
      BY <1>18, <2>1 DEF DeleteProject, Job
    <3>3. ~project' /\ ~declined'
      BY <1>18 DEF DeleteProject
    <3>4. /\ folders' = [f \in Folders |-> IF f \in Gone(job[c]) THEN Absent ELSE folders[f]]
          /\ conns' = [k \in ConnIds |-> IF conns[k] /= Absent /\ conns[k].folder \in Gone(job[c]) THEN Absent ELSE conns[k]]
      BY <1>18, <2>1, <3>1 DEF DeleteProject, Cascade, Is
    <3>5. UNCHANGED <<creds, nextConn, seed, missed, lost>>
      BY <1>18 DEF DeleteProject
    <3>. HIDE DEF Others
    <3>6. project' = (project /\ job[c].pc = "deleteFolder") /\ declined' = (declined /\ Home \notin Gone(job[c]))
      BY <1>18, <3>1 DEF DeleteProject
    <3>. QED BY <3>1, <3>2, <3>4, <3>5, <3>6 DEF Deleted
  <2>2. CASE ~project
    BY <1>18, <2>2 DEF DeleteProject, Quiet, DeletionStands
  <2>. QED BY <2>1, <2>2
<1>19. ASSUME NEW c \in Clients, DropConnection(c) PROVE \E k \in 0..MaxConn : Dropped(c, k)
  <2>1. job[c].conn \in 0..MaxConn
    BY DEF Job
  <2>2. Dropped(c, job[c].conn)
    BY <1>19, <2>1 DEF DropConnection, Dropped, Is, Job
  <2>. QED BY <2>1, <2>2
<1>20. ASSUME NEW c \in Clients, ForgetCredentials(c) PROVE Forgot(c)
  BY <1>20 DEF ForgetCredentials, Forgot
<1>. HIDE DEF rows, ghosts, TypeOK, Asks, Ends, Goes, Idle, Harmless, Others
<1>. QED BY <1>1, <1>2, <1>3, <1>4, <1>5, <1>6, <1>7, <1>8, <1>9, <1>10, <1>11, <1>12, <1>13, <1>14, <1>15, <1>16,
            <1>17, <1>18, <1>19, <1>20 DEF Next, Effect

(* A connection is made in a folder that is there, under a new id, and goes *)
(* with it.                                                                 *)
LEMMA ConnectionsLiveStep ==
  ASSUME TypeOK, ConnectionsLive, ParentsStand, TypeOK', Effect
  PROVE  ConnectionsLive'
<1>. USE DEF TypeOK, ConnectionsLive, FolderIs
<1>1. ASSUME NEW c \in Clients, Quiet(c) PROVE ConnectionsLive'
  BY <1>1 DEF Quiet
<1>2. ASSUME NEW c \in Clients, ProjectMade(c) PROVE ConnectionsLive'
  BY <1>2 DEF ProjectMade
<1>3. ASSUME NEW c \in Clients, NEW f \in Folders, NEW parent \in Folders \cup {Root}, FolderMade(c, f, parent)
      PROVE  ConnectionsLive'
  BY <1>3 DEF FolderMade
<1>4. ASSUME NEW c \in Clients, NEW r \in Refs, Stored(c, r) PROVE ConnectionsLive'
  BY <1>4 DEF Stored
<1>5. ASSUME NEW c \in Clients, NEW f \in Folders \cup {Root}, NEW r \in Refs, Connected(c, f, r)
      PROVE  ConnectionsLive'
  BY <1>5 DEF Connected, Conn, ConnIds
<1>6. ASSUME NEW c \in Clients, Refused(c) PROVE ConnectionsLive'
  BY <1>6 DEF Refused
<1>7. ASSUME NEW c \in Clients, TakenBack(c) PROVE ConnectionsLive'
  BY <1>7 DEF TakenBack
<1>8. ASSUME NEW c \in Clients, NEW f \in Folders, FolderPlanned(c, f) PROVE ConnectionsLive'
  BY <1>8 DEF FolderPlanned
<1>9. ASSUME NEW c \in Clients, ProjectPlanned(c) PROVE ConnectionsLive'
  BY <1>9 DEF ProjectPlanned
<1>10. ASSUME NEW c \in Clients, Deleted(c) PROVE ConnectionsLive'
  BY <1>10, MarkersAreNoFolders DEF Deleted, Gone, Conn
<1>11. ASSUME NEW c \in Clients, NEW k \in 0..MaxConn, Dropped(c, k) PROVE ConnectionsLive'
  BY <1>11 DEF Dropped
<1>12. ASSUME NEW c \in Clients, Forgot(c) PROVE ConnectionsLive'
  BY <1>12 DEF Forgot
<1>13. ASSUME SeedFolders PROVE ConnectionsLive'
  BY <1>13, HomeIsAFolder DEF SeedFolders
<1>14. ASSUME SeedConnection PROVE ConnectionsLive'
  BY <1>14 DEF SeedConnection, Row, Is, ConnIds
<1>15. ASSUME UNCHANGED vars PROVE ConnectionsLive'
  BY <1>15 DEF vars
<1>. HIDE DEF TypeOK, ConnectionsLive, FolderIs
<1>. QED BY <1>1, <1>2, <1>3, <1>4, <1>5, <1>6, <1>7, <1>8, <1>9, <1>10, <1>11, <1>12, <1>13, <1>14, <1>15 DEF Effect

(* A folder is made under one that is there, and goes with it.              *)
LEMMA ParentsStandStep ==
  ASSUME TypeOK, ParentsStand, TypeOK', Effect
  PROVE  ParentsStand'
<1>. USE DEF TypeOK, ParentsStand, FolderIs
<1>1. ASSUME NEW c \in Clients, Quiet(c) PROVE ParentsStand'
  BY <1>1 DEF Quiet
<1>2. ASSUME NEW c \in Clients, ProjectMade(c) PROVE ParentsStand'
  BY <1>2 DEF ProjectMade
<1>3. ASSUME NEW c \in Clients, NEW f \in Folders, NEW parent \in Folders \cup {Root}, FolderMade(c, f, parent)
      PROVE  ParentsStand'
  BY <1>3, MarkersAreNoFolders DEF FolderMade
<1>4. ASSUME NEW c \in Clients, NEW r \in Refs, Stored(c, r) PROVE ParentsStand'
  BY <1>4 DEF Stored
<1>5. ASSUME NEW c \in Clients, NEW f \in Folders \cup {Root}, NEW r \in Refs, Connected(c, f, r)
      PROVE  ParentsStand'
  BY <1>5 DEF Connected
<1>6. ASSUME NEW c \in Clients, Refused(c) PROVE ParentsStand'
  BY <1>6 DEF Refused
<1>7. ASSUME NEW c \in Clients, TakenBack(c) PROVE ParentsStand'
  BY <1>7 DEF TakenBack
<1>8. ASSUME NEW c \in Clients, NEW f \in Folders, FolderPlanned(c, f) PROVE ParentsStand'
  BY <1>8 DEF FolderPlanned
<1>9. ASSUME NEW c \in Clients, ProjectPlanned(c) PROVE ParentsStand'
  BY <1>9 DEF ProjectPlanned
<1>10. ASSUME NEW c \in Clients, Deleted(c) PROVE ParentsStand'
  <2>. SUFFICES ASSUME NEW g \in Folders, folders'[g] /= Absent, folders'[g] /= Root
                PROVE  folders'[g] \in Folders /\ folders'[folders'[g]] /= Absent
    OBVIOUS
  <2>1. folders'[g] = folders[g] /\ g \notin Gone(job[c])
    BY <1>10 DEF Deleted
  <2>2. folders[g] \in Folders /\ folders[folders[g]] /= Absent
    BY <2>1
  <2>3. folders[g] \notin Gone(job[c])
    BY <2>1, <2>2, TreeIsClosed DEF Gone, ClosedUnder, TreeOf
  <2>. QED BY <1>10, <2>1, <2>2, <2>3 DEF Deleted
<1>11. ASSUME NEW c \in Clients, NEW k \in 0..MaxConn, Dropped(c, k) PROVE ParentsStand'
  BY <1>11 DEF Dropped
<1>12. ASSUME NEW c \in Clients, Forgot(c) PROVE ParentsStand'
  BY <1>12 DEF Forgot
<1>13. ASSUME SeedFolders PROVE ParentsStand'
  BY <1>13, HomeIsAFolder, MarkersAreNoFolders DEF SeedFolders
<1>14. ASSUME SeedConnection PROVE ParentsStand'
  BY <1>14 DEF SeedConnection
<1>15. ASSUME UNCHANGED vars PROVE ParentsStand'
  BY <1>15 DEF vars
<1>. HIDE DEF TypeOK, ParentsStand, FolderIs
<1>. QED BY <1>1, <1>2, <1>3, <1>4, <1>5, <1>6, <1>7, <1>8, <1>9, <1>10, <1>11, <1>12, <1>13, <1>14, <1>15 DEF Effect

(* Requests go on with what they began with.                                *)
LEMMA JobsHoldStep ==
  ASSUME TypeOK, JobsHold, TypeOK', Effect
  PROVE  JobsHold'
<1>. USE DEF TypeOK, JobsHold, Harmless, Others
<1>1. ASSUME NEW c \in Clients, Quiet(c) PROVE JobsHold'
  BY <1>1 DEF Quiet
<1>2. ASSUME NEW c \in Clients, ProjectMade(c) PROVE JobsHold'
  BY <1>2 DEF ProjectMade
<1>3. ASSUME NEW c \in Clients, NEW f \in Folders, NEW parent \in Folders \cup {Root}, FolderMade(c, f, parent)
      PROVE  JobsHold'
  BY <1>3 DEF FolderMade
<1>4. ASSUME NEW c \in Clients, NEW r \in Refs, Stored(c, r) PROVE JobsHold'
  BY <1>4 DEF Stored
<1>5. ASSUME NEW c \in Clients, NEW f \in Folders \cup {Root}, NEW r \in Refs, Connected(c, f, r)
      PROVE  JobsHold'
  BY <1>5 DEF Connected
<1>6. ASSUME NEW c \in Clients, Refused(c) PROVE JobsHold'
  BY <1>6 DEF Refused
<1>7. ASSUME NEW c \in Clients, TakenBack(c) PROVE JobsHold'
  BY <1>7 DEF TakenBack
<1>8. ASSUME NEW c \in Clients, NEW f \in Folders, FolderPlanned(c, f) PROVE JobsHold'
  BY <1>8 DEF FolderPlanned
<1>9. ASSUME NEW c \in Clients, ProjectPlanned(c) PROVE JobsHold'
  BY <1>9 DEF ProjectPlanned
<1>10. ASSUME NEW c \in Clients, Deleted(c) PROVE JobsHold'
  BY <1>10 DEF Deleted
<1>11. ASSUME NEW c \in Clients, NEW k \in 0..MaxConn, Dropped(c, k) PROVE JobsHold'
  BY <1>11 DEF Dropped
<1>12. ASSUME NEW c \in Clients, Forgot(c) PROVE JobsHold'
  BY <1>12 DEF Forgot
<1>13. ASSUME SeedFolders PROVE JobsHold'
  BY <1>13 DEF SeedFolders
<1>14. ASSUME SeedConnection PROVE JobsHold'
  BY <1>14 DEF SeedConnection
<1>15. ASSUME UNCHANGED vars PROVE JobsHold'
  BY <1>15 DEF vars
<1>. HIDE DEF TypeOK, JobsHold, Harmless, Others
<1>. QED BY <1>1, <1>2, <1>3, <1>4, <1>5, <1>6, <1>7, <1>8, <1>9, <1>10, <1>11, <1>12, <1>13, <1>14, <1>15 DEF Effect

(* A password that is stored, or whose last connection goes, is some         *)
(* request's to forget.                                                     *)
LEMMA PasswordsAnsweredForStep ==
  ASSUME TypeOK, ConnectionsLive, JobsHold, PlansInclude, PasswordsAnsweredFor, TypeOK', Effect
  PROVE  PasswordsAnsweredFor'
<1>. USE DEF TypeOK, PasswordsAnsweredFor, AnswersFor, Others, Harmless
<1>1. ASSUME NEW c \in Clients, Quiet(c) PROVE PasswordsAnsweredFor'
  BY <1>1 DEF Quiet
<1>2. ASSUME NEW c \in Clients, ProjectMade(c) PROVE PasswordsAnsweredFor'
  BY <1>2 DEF ProjectMade
<1>3. ASSUME NEW c \in Clients, NEW f \in Folders, NEW parent \in Folders \cup {Root}, FolderMade(c, f, parent)
      PROVE  PasswordsAnsweredFor'
  BY <1>3 DEF FolderMade
<1>4. ASSUME NEW c \in Clients, NEW r \in Refs, Stored(c, r) PROVE PasswordsAnsweredFor'
  BY <1>4 DEF Stored
<1>5. ASSUME NEW c \in Clients, NEW f \in Folders \cup {Root}, NEW r \in Refs, Connected(c, f, r)
      PROVE  PasswordsAnsweredFor'
  <2>. SUFFICES ASSUME NEW q \in creds, q /= r
                PROVE  \/ \E k \in ConnIds : conns'[k] /= Absent /\ conns'[k].ref = q
                       \/ \E d \in Clients : AnswersFor(job'[d], q)
                       \/ q \in missed'
    <3>1. nextConn \in ConnIds /\ conns'[nextConn] = [folder |-> f, ref |-> r] /\ creds' = creds
      BY <1>5 DEF Connected
    <3>2. conns'[nextConn] /= Absent /\ conns'[nextConn].ref = r
      BY <1>5, <3>1, AbsentIsNoConnection DEF Conn, Refs, Connected
    <3>. QED BY <3>1, <3>2
  <2>1. CASE \E k \in ConnIds : conns[k] /= Absent /\ conns[k].ref = q
    <3>1. PICK k \in ConnIds : conns[k] /= Absent /\ conns[k].ref = q
      BY <2>1
    <3>2. k /= nextConn
      BY <1>5, <3>1 DEF ConnectionsLive, ConnIds, Connected
    <3>. QED BY <1>5, <3>1, <3>2 DEF Connected
  <2>2. CASE \E d \in Clients : AnswersFor(job[d], q)
    BY <1>5, <2>2 DEF Connected
  <2>3. CASE q \in missed
    BY <1>5, <2>3 DEF Connected
  <2>. QED BY <2>1, <2>2, <2>3
<1>6. ASSUME NEW c \in Clients, Refused(c) PROVE PasswordsAnsweredFor'
  BY <1>6 DEF Refused
<1>7. ASSUME NEW c \in Clients, TakenBack(c) PROVE PasswordsAnsweredFor'
  BY <1>7 DEF TakenBack, JobsHold
<1>8. ASSUME NEW c \in Clients, NEW f \in Folders, FolderPlanned(c, f) PROVE PasswordsAnsweredFor'
  BY <1>8 DEF FolderPlanned
<1>9. ASSUME NEW c \in Clients, ProjectPlanned(c) PROVE PasswordsAnsweredFor'
  BY <1>9 DEF ProjectPlanned
<1>10. ASSUME NEW c \in Clients, Deleted(c) PROVE PasswordsAnsweredFor'
  BY <1>10 DEF Deleted, PlansInclude, Includes, Gone, Conn, Refs
<1>11. ASSUME NEW c \in Clients, NEW k \in 0..MaxConn, Dropped(c, k) PROVE PasswordsAnsweredFor'
  <2>. SUFFICES ASSUME NEW q \in creds
                PROVE  \/ \E i \in ConnIds : conns'[i] /= Absent /\ conns'[i].ref = q
                       \/ \E d \in Clients : AnswersFor(job'[d], q)
                       \/ q \in missed'
    BY <1>11 DEF Dropped
  <2>1. CASE \E i \in ConnIds : conns[i] /= Absent /\ conns[i].ref = q
    <3>1. PICK i \in ConnIds : conns[i] /= Absent /\ conns[i].ref = q
      BY <2>1
    <3>2. CASE i = k
      <4>1. q /= 0
        BY DEF Refs
      <4>. QED BY <1>11, <3>1, <3>2, <4>1 DEF Dropped
    <3>3. CASE i /= k
      BY <1>11, <3>1, <3>3 DEF Dropped
    <3>. QED BY <3>2, <3>3
  <2>2. CASE \E d \in Clients : AnswersFor(job[d], q)
    BY <1>11, <2>2 DEF Dropped
  <2>3. CASE q \in missed
    BY <1>11, <2>3 DEF Dropped
  <2>. QED BY <2>1, <2>2, <2>3
<1>12. ASSUME NEW c \in Clients, Forgot(c) PROVE PasswordsAnsweredFor'
  BY <1>12 DEF Forgot, Forgotten, RefsHeld, Conn, Is, Refs
<1>13. ASSUME SeedFolders PROVE PasswordsAnsweredFor'
  BY <1>13 DEF SeedFolders, ghosts
<1>14. ASSUME SeedConnection PROVE PasswordsAnsweredFor'
  BY <1>14 DEF SeedConnection, ConnectionsLive, ConnIds, Row, ghosts
<1>15. ASSUME UNCHANGED vars PROVE PasswordsAnsweredFor'
  BY <1>15 DEF vars
<1>. HIDE DEF TypeOK, PasswordsAnsweredFor, AnswersFor, Others, Harmless
<1>. QED BY <1>1, <1>2, <1>3, <1>4, <1>5, <1>6, <1>7, <1>8, <1>9, <1>10, <1>11, <1>12, <1>13, <1>14, <1>15 DEF Effect

(* What is made under a deletion under way is counted as missed.            *)
LEMMA PlansIncludeStep ==
  ASSUME TypeOK, ConnectionsLive, ParentsStand, JobsHold, PlansInclude, TypeOK', Effect
  PROVE  PlansInclude'
<1>. USE DEF TypeOK, PlansInclude, Includes, Others, Harmless, TreeOf
<1>1. ASSUME NEW c \in Clients, Quiet(c) PROVE PlansInclude'
  BY <1>1 DEF Quiet
<1>2. ASSUME NEW c \in Clients, ProjectMade(c) PROVE PlansInclude'
  BY <1>2 DEF ProjectMade
<1>3. ASSUME NEW c \in Clients, NEW f \in Folders, NEW parent \in Folders \cup {Root}, FolderMade(c, f, parent)
      PROVE  PlansInclude'
  <2>1. \A d \in Clients : job'[d] = job[d] \/ Harmless(job'[d])
    BY <1>3 DEF FolderMade
  <2>2. UNCHANGED <<conns, missed>> /\ folders[f] = Absent
    BY <1>3 DEF FolderMade, FolderIs
  <2>3. \A k \in ConnIds : conns[k] /= Absent => conns[k].folder /= f
    BY <2>2, MarkersAreNoFolders DEF ConnectionsLive, FolderIs
  <2>4. \A g \in Folders : TreeIn(folders', g) \subseteq TreeIn(folders, g) \cup {f}
    BY <1>3, <2>2, NewFolderInTrees DEF FolderMade
  <2>5. \A d \in Clients : job[d].pc = "deleteFolder" => job[d].folder \in Folders
    BY DEF JobsHold
  <2>. QED BY <2>1, <2>2, <2>3, <2>4, <2>5
<1>4. ASSUME NEW c \in Clients, NEW r \in Refs, Stored(c, r) PROVE PlansInclude'
  BY <1>4 DEF Stored
<1>5. ASSUME NEW c \in Clients, NEW f \in Folders \cup {Root}, NEW r \in Refs, Connected(c, f, r)
      PROVE  PlansInclude'
  BY <1>5 DEF Connected, Covering, ConnIds
<1>6. ASSUME NEW c \in Clients, Refused(c) PROVE PlansInclude'
  BY <1>6 DEF Refused
<1>7. ASSUME NEW c \in Clients, TakenBack(c) PROVE PlansInclude'
  BY <1>7 DEF TakenBack
<1>8. ASSUME NEW c \in Clients, NEW f \in Folders, FolderPlanned(c, f) PROVE PlansInclude'
  BY <1>8 DEF FolderPlanned, HeldUnder, RefsHeld, Is
<1>9. ASSUME NEW c \in Clients, ProjectPlanned(c) PROVE PlansInclude'
  BY <1>9 DEF ProjectPlanned, RefsHeld, Is, Conn
<1>10. ASSUME NEW c \in Clients, Deleted(c) PROVE PlansInclude'
  <2>1. \A g \in Folders : TreeIn(folders', g) \subseteq TreeIn(folders, g)
    BY <1>10, NoLargerTrees, MarkersAreNoFolders DEF Deleted
  <2>. QED BY <1>10, <2>1 DEF Deleted, JobsHold
<1>11. ASSUME NEW c \in Clients, NEW k \in 0..MaxConn, Dropped(c, k) PROVE PlansInclude'
  BY <1>11 DEF Dropped
<1>12. ASSUME NEW c \in Clients, Forgot(c) PROVE PlansInclude'
  BY <1>12 DEF Forgot
<1>13. ASSUME SeedFolders PROVE PlansInclude'
  <2>1. \A g \in Folders : TreeIn(folders', g) \subseteq TreeIn(folders, g)
    BY <1>13, NoLargerTrees, HomeIsAFolder, MarkersAreNoFolders DEF SeedFolders
  <2>. QED BY <1>13, <2>1 DEF SeedFolders, JobsHold, ghosts
<1>14. ASSUME SeedConnection PROVE PlansInclude'
  BY <1>14 DEF SeedConnection, Row, ConnIds, ghosts
<1>15. ASSUME UNCHANGED vars PROVE PlansInclude'
  BY <1>15 DEF vars
<1>. HIDE DEF TypeOK, PlansInclude, Includes, Others, Harmless, TreeOf
<1>. QED BY <1>1, <1>2, <1>3, <1>4, <1>5, <1>6, <1>7, <1>8, <1>9, <1>10, <1>11, <1>12, <1>13, <1>14, <1>15 DEF Effect

(* The seeding makes the built-in connection only where a project or folder  *)
(* was missing, and the deletion of those is no deletion of the connection. *)
LEMMA DeletionStandsStep ==
  ASSUME TypeOK, ConnectionsLive, JobsHold, DeletionStands, TypeOK', Effect
  PROVE  DeletionStands'
<1>. USE DEF TypeOK, DeletionStands, FolderIs
<1>1. ASSUME NEW c \in Clients, Quiet(c) PROVE DeletionStands'
  BY <1>1 DEF Quiet
<1>2. ASSUME NEW c \in Clients, ProjectMade(c) PROVE DeletionStands'
  BY <1>2 DEF ProjectMade
<1>3. ASSUME NEW c \in Clients, NEW f \in Folders, NEW parent \in Folders \cup {Root}, FolderMade(c, f, parent)
      PROVE  DeletionStands'
  BY <1>3, HomeIsAFolder, MarkersAreNoFolders DEF FolderMade
<1>4. ASSUME NEW c \in Clients, NEW r \in Refs, Stored(c, r) PROVE DeletionStands'
  BY <1>4 DEF Stored
<1>5. ASSUME NEW c \in Clients, NEW f \in Folders \cup {Root}, NEW r \in Refs, Connected(c, f, r)
      PROVE  DeletionStands'
  BY <1>5 DEF Connected, Refs, ConnIds
<1>6. ASSUME NEW c \in Clients, Refused(c) PROVE DeletionStands'
  BY <1>6 DEF Refused
<1>7. ASSUME NEW c \in Clients, TakenBack(c) PROVE DeletionStands'
  BY <1>7 DEF TakenBack
<1>8. ASSUME NEW c \in Clients, NEW f \in Folders, FolderPlanned(c, f) PROVE DeletionStands'
  BY <1>8 DEF FolderPlanned
<1>9. ASSUME NEW c \in Clients, ProjectPlanned(c) PROVE DeletionStands'
  BY <1>9 DEF ProjectPlanned
<1>10. ASSUME NEW c \in Clients, Deleted(c) PROVE DeletionStands'
  BY <1>10 DEF Deleted, Gone, TreeOf
<1>11. ASSUME NEW c \in Clients, NEW k \in 0..MaxConn, Dropped(c, k) PROVE DeletionStands'
  BY <1>11 DEF Dropped, ConnectionsLive, ConnIds
<1>12. ASSUME NEW c \in Clients, Forgot(c) PROVE DeletionStands'
  BY <1>12 DEF Forgot
<1>13. ASSUME SeedFolders PROVE DeletionStands'
  BY <1>13, HomeIsAFolder, MarkersAreNoFolders DEF SeedFolders, FirstSetup, ConnectionsLive, ghosts
<1>14. ASSUME SeedConnection PROVE DeletionStands'
  BY <1>14 DEF SeedConnection, Row, ConnIds, ghosts
<1>15. ASSUME UNCHANGED vars PROVE DeletionStands'
  BY <1>15 DEF vars
<1>. HIDE DEF TypeOK, DeletionStands, FolderIs
<1>. QED BY <1>1, <1>2, <1>3, <1>4, <1>5, <1>6, <1>7, <1>8, <1>9, <1>10, <1>11, <1>12, <1>13, <1>14, <1>15 DEF Effect

(* A password goes only when no connection refers to it.                    *)
LEMMA PasswordStaysStep ==
  ASSUME TypeOK, PasswordStays, TypeOK', Effect
  PROVE  PasswordStays'
<1>. USE DEF TypeOK, PasswordStays, RefsHeld, Is
<1>1. ASSUME NEW c \in Clients, Quiet(c) PROVE PasswordStays'
  BY <1>1 DEF Quiet
<1>2. ASSUME NEW c \in Clients, ProjectMade(c) PROVE PasswordStays'
  BY <1>2 DEF ProjectMade
<1>3. ASSUME NEW c \in Clients, NEW f \in Folders, NEW parent \in Folders \cup {Root}, FolderMade(c, f, parent)
      PROVE  PasswordStays'
  BY <1>3 DEF FolderMade
<1>4. ASSUME NEW c \in Clients, NEW r \in Refs, Stored(c, r) PROVE PasswordStays'
  BY <1>4 DEF Stored
<1>5. ASSUME NEW c \in Clients, NEW f \in Folders \cup {Root}, NEW r \in Refs, Connected(c, f, r)
      PROVE  PasswordStays'
  BY <1>5 DEF Connected, ConnIds
<1>6. ASSUME NEW c \in Clients, Refused(c) PROVE PasswordStays'
  BY <1>6 DEF Refused
<1>7. ASSUME NEW c \in Clients, TakenBack(c) PROVE PasswordStays'
  BY <1>7 DEF TakenBack
<1>8. ASSUME NEW c \in Clients, NEW f \in Folders, FolderPlanned(c, f) PROVE PasswordStays'
  BY <1>8 DEF FolderPlanned
<1>9. ASSUME NEW c \in Clients, ProjectPlanned(c) PROVE PasswordStays'
  BY <1>9 DEF ProjectPlanned
<1>10. ASSUME NEW c \in Clients, Deleted(c) PROVE PasswordStays'
  BY <1>10 DEF Deleted
<1>11. ASSUME NEW c \in Clients, NEW k \in 0..MaxConn, Dropped(c, k) PROVE PasswordStays'
  BY <1>11 DEF Dropped
<1>12. ASSUME NEW c \in Clients, Forgot(c) PROVE PasswordStays'
  BY <1>12 DEF Forgot, Forgotten
<1>13. ASSUME SeedFolders PROVE PasswordStays'
  BY <1>13 DEF SeedFolders, ghosts
<1>14. ASSUME SeedConnection PROVE PasswordStays'
  BY <1>14 DEF SeedConnection, Row, ConnIds, ghosts
<1>15. ASSUME UNCHANGED vars PROVE PasswordStays'
  BY <1>15 DEF vars
<1>. HIDE DEF TypeOK, PasswordStays, RefsHeld, Is
<1>. QED BY <1>1, <1>2, <1>3, <1>4, <1>5, <1>6, <1>7, <1>8, <1>9, <1>10, <1>11, <1>12, <1>13, <1>14, <1>15 DEF Effect

(* Every step keeps every variable's type.                                   *)
LEMMA TypeStep ==
  ASSUME TypeOK, JobsHold, [Next]_vars
  PROVE  TypeOK'
<1>. USE DEF TypeOK, Asks, Ends, Goes, rows, ghosts
<1>1. Idle \in Job
  BY BoundsAreNaturals DEF Idle, Job, Phases
<1>2. ASSUME NEW c \in Clients, CreateProject(c) PROVE TypeOK'
  BY <1>1, <1>2 DEF CreateProject
<1>3. ASSUME NEW c \in Clients, NEW f \in Folders, NEW parent \in Folders \cup {Root}, CreateFolder(c, f, parent)
      PROVE  TypeOK'
  BY <1>1, <1>3 DEF CreateFolder
<1>4. ASSUME NEW c \in Clients, NEW f \in Folders \cup {Root}, AskConnect(c, f) PROVE TypeOK'
  <2>1. [Idle EXCEPT !.pc = "test", !.folder = f, !.ref = nextRef, !.own = TRUE] \in Job
    <3>1. nextRef \in 0..MaxRef
      BY <1>4 DEF AskConnect, Refs
    <3>. QED BY <1>1, <3>1 DEF Job, Phases
  <2>. QED BY <1>4, <2>1 DEF AskConnect
<1>5. ASSUME NEW c \in Clients, NEW f \in Folders \cup {Root}, NEW ref \in Refs, AskConnectBy(c, f, ref) PROVE TypeOK'
  <2>1. [Idle EXCEPT !.pc = "test", !.folder = f, !.ref = ref] \in Job
    <3>1. ref \in 0..MaxRef
      BY DEF Refs
    <3>. QED BY <1>1, <3>1 DEF Job, Phases
  <2>. QED BY <1>5, <2>1 DEF AskConnectBy
<1>6. ASSUME NEW c \in Clients, NEW taken \in BOOLEAN, CreateConnection(c, taken) PROVE TypeOK'
  <2>1. [job[c] EXCEPT !.pc = "undo"] \in Job
    BY DEF Job, Phases
  <2>2. Row(job[c].folder, job[c].ref) \in Conn /\ job[c].ref \in 0..MaxRef
    BY DEF Job, Conn, Row
  <2>. QED BY <1>1, <1>6, <2>1, <2>2 DEF CreateConnection
<1>7. ASSUME NEW c \in Clients, DeleteCredential(c) PROVE TypeOK'
  <2>1. job[c].ref \in 0..MaxRef
    BY DEF Job
  <2>. QED BY <1>1, <1>7, <2>1 DEF DeleteCredential
<1>8. ASSUME NEW c \in Clients, NEW k \in ConnIds, AskSync(c, k) PROVE TypeOK'
  <2>1. [Idle EXCEPT !.pc = "define", !.conn = k] \in Job
    <3>1. k \in 0..MaxConn
      BY DEF ConnIds
    <3>. QED BY <1>1, <3>1 DEF Job, Phases
  <2>. QED BY <1>8, <2>1 DEF AskSync
<1>9. ASSUME NEW c \in Clients, CreateSync(c) PROVE TypeOK'
  <2>1. job[c].conn \in 0..MaxConn
    BY DEF Job
  <2>. QED BY <1>1, <1>9, <2>1 DEF CreateSync
<1>10. ASSUME NEW c \in Clients, NEW s \in SyncIds, SetSchedule(c, s) PROVE TypeOK'
  BY <1>1, <1>10 DEF SetSchedule
<1>11. ASSUME NEW c \in Clients, NEW f \in Folders, AskDeleteFolder(c, f) PROVE TypeOK'
  <2>1. HeldUnder(f) \subseteq Refs
    BY DEF HeldUnder, RefsHeld, Is, Conn, Refs
  <2>2. [Idle EXCEPT !.pc = "deleteFolder", !.folder = f, !.refs = HeldUnder(f)] \in Job
    BY <1>1, <2>1 DEF Job, Phases
  <2>. QED BY <1>11, <2>2 DEF AskDeleteFolder
<1>12. ASSUME NEW c \in Clients, AskDeleteProject(c) PROVE TypeOK'
  <2>1. RefsHeld(Folders \cup {Root}) \subseteq Refs
    BY DEF RefsHeld, Is, Conn, Refs
  <2>2. [Idle EXCEPT !.pc = "deleteProject", !.refs = RefsHeld(Folders \cup {Root})] \in Job
    BY <1>1, <2>1 DEF Job, Phases
  <2>. QED BY <1>12, <2>2 DEF AskDeleteProject
<1>13. ASSUME NEW gone, Cascade(gone) \/ UNCHANGED <<folders, conns, syncs>>
       PROVE  /\ folders' \in [Folders -> Folders \cup {Root, Absent}] /\ conns' \in [ConnIds -> Conn \cup {Absent}]
              /\ syncs' \in [SyncIds -> 0..MaxConn]
  BY <1>13, BoundsAreNaturals DEF Cascade
<1>14. ASSUME NEW c \in Clients PROVE [job[c] EXCEPT !.pc = "forget"] \in Job
  BY DEF Job, Phases
<1>15. ASSUME NEW c \in Clients, DeleteFolder(c) PROVE TypeOK'
  <2>1. Cascade(TreeOf(job[c].folder)) \/ UNCHANGED <<folders, conns, syncs>>
    BY <1>15 DEF DeleteFolder
  <2>. QED BY <1>1, <1>13, <1>14, <1>15, <2>1 DEF DeleteFolder
<1>16. ASSUME NEW c \in Clients, DeleteProject(c) PROVE TypeOK'
  <2>1. Cascade(Folders \cup {Root}) \/ UNCHANGED <<folders, conns, syncs>>
    BY <1>16 DEF DeleteProject
  <2>. QED BY <1>1, <1>13, <1>14, <1>16, <2>1 DEF DeleteProject
<1>17. ASSUME NEW c \in Clients, NEW k \in ConnIds, AskRemoveConnection(c, k) PROVE TypeOK'
  <2>1. [Idle EXCEPT !.pc = "syncs", !.conn = k] \in Job
    <3>1. k \in 0..MaxConn
      BY DEF ConnIds
    <3>. QED BY <1>1, <3>1 DEF Job, Phases
  <2>. QED BY <1>17, <2>1 DEF AskRemoveConnection
<1>18. ASSUME NEW c \in Clients, NextSyncOf(c) PROVE TypeOK'
  <2>1. [job[c] EXCEPT !.pc = "dropConn"] \in Job
    BY DEF Job, Phases
  <2>2. \A s \in SyncsOf(job[c].conn) : [job[c] EXCEPT !.pc = "dropSchedule", !.sync = s] \in Job
    <3>1. \A s \in SyncsOf(job[c].conn) : s \in 0..MaxSync
      BY BoundsAreNaturals DEF SyncsOf, SyncIds
    <3>. QED BY <3>1 DEF Job, Phases
  <2>. QED BY <1>18, <2>1, <2>2 DEF NextSyncOf
<1>19. ASSUME NEW c \in Clients, NEW s \in SyncIds, AskDeleteSync(c, s) PROVE TypeOK'
  <2>1. [Idle EXCEPT !.pc = "dropSchedule", !.sync = s] \in Job
    <3>1. s \in 0..MaxSync
      BY DEF SyncIds
    <3>. QED BY <1>1, <3>1 DEF Job, Phases
  <2>. QED BY <1>19, <2>1 DEF AskDeleteSync
<1>20. ASSUME NEW c \in Clients, DropSchedule(c) PROVE TypeOK'
  <2>1. [job[c] EXCEPT !.pc = "dropSync"] \in Job
    BY DEF Job, Phases
  <2>. QED BY <1>20, <2>1 DEF DropSchedule
<1>21. ASSUME NEW c \in Clients, DropSync(c) PROVE TypeOK'
  <2>1. [job[c] EXCEPT !.pc = "syncs"] \in Job
    BY DEF Job, Phases
  <2>2. 0 \in 0..MaxConn
    BY BoundsAreNaturals
  <2>3. syncs' \in [SyncIds -> 0..MaxConn]
    BY <1>21, <2>2 DEF DropSync
  <2>4. job' \in [Clients -> Job]
    BY <1>1, <1>21, <2>1 DEF DropSync
  <2>. QED BY <1>21, <2>3, <2>4 DEF DropSync
<1>22. ASSUME NEW c \in Clients, DropConnection(c) PROVE TypeOK'
  <2>1. job' \in [Clients -> Job]
    <3>1. CASE Is(job[c].conn) /\ conns[job[c].conn].ref /= 0
      <4>1. conns[job[c].conn].ref \in Refs
        BY <3>1 DEF Is, Conn, Refs
      <4>2. [job[c] EXCEPT !.pc = "forget", !.refs = {conns[job[c].conn].ref}] \in Job
        BY <4>1 DEF Job, Phases
      <4>. QED BY <1>22, <3>1, <4>2 DEF DropConnection
    <3>2. CASE ~(Is(job[c].conn) /\ conns[job[c].conn].ref /= 0)
      BY <1>1, <1>22, <3>2 DEF DropConnection
    <3>. QED BY <3>1, <3>2
  <2>2. conns' \in [ConnIds -> Conn \cup {Absent}]
    BY <1>22 DEF DropConnection
  <2>3. syncs' \in [SyncIds -> 0..MaxConn]
    BY <1>22, BoundsAreNaturals DEF DropConnection
  <2>4. declined' \in BOOLEAN
    BY <1>22 DEF DropConnection
  <2>. QED BY <1>22, <2>1, <2>2, <2>3, <2>4 DEF DropConnection
<1>23. ASSUME NEW c \in Clients, ForgetCredentials(c) PROVE TypeOK'
  BY <1>1, <1>23 DEF ForgetCredentials
<1>24. ASSUME SeedFolders PROVE TypeOK'
  BY <1>24, HomeIsAFolder DEF SeedFolders
<1>25. ASSUME SeedConnection PROVE TypeOK'
  <2>1. Row(Home, 0) \in Conn
    BY HomeIsAFolder, BoundsAreNaturals DEF Row, Conn
  <2>. QED BY <1>25, <2>1 DEF SeedConnection
<1>26. CASE UNCHANGED vars
  BY <1>26 DEF vars
<1>. HIDE DEF TypeOK, Asks, Ends, Goes, rows, ghosts
<1>. QED BY <1>2, <1>3, <1>4, <1>5, <1>6, <1>7, <1>8, <1>9, <1>10, <1>11, <1>12, <1>15, <1>16, <1>17, <1>18, <1>19,
            <1>20, <1>21, <1>22, <1>23, <1>24, <1>25, <1>26 DEF Next

---------------------------------------------------------------------------
(* The invariant is inductive.                                              *)
LEMMA InitInv == Init => IInv
<1>. SUFFICES ASSUME Init PROVE IInv
  OBVIOUS
<1>. USE DEF Init, Idle
<1>1. \A k \in ConnIds : conns[k] = Absent
  OBVIOUS
<1>2. TypeOK
  <2>1. Idle \in Job
    BY BoundsAreNaturals DEF Job, Phases
  <2>. HIDE DEF Idle
  <2>2. folders \in [Folders -> Folders \cup {Root, Absent}] /\ conns \in [ConnIds -> Conn \cup {Absent}]
    OBVIOUS
  <2>3. syncs \in [SyncIds -> 0..MaxConn] /\ job \in [Clients -> Job]
    BY <2>1, BoundsAreNaturals
  <2>. QED BY <2>2, <2>3 DEF TypeOK
<1>3. ConnectionsLive /\ ParentsStand /\ JobsHold /\ PasswordsAnsweredFor
  BY <1>1 DEF ConnectionsLive, ParentsStand, JobsHold, PasswordsAnsweredFor, FolderIs
<1>4. PlansInclude /\ DeletionStands
  BY <1>1 DEF PlansInclude, DeletionStands
<1>5. PasswordStays
  BY <1>1 DEF PasswordStays, RefsHeld, Is
<1>. QED BY <1>2, <1>3, <1>4, <1>5 DEF IInv

LEMMA Inductive == IInv /\ [Next]_vars => IInv'
<1>. SUFFICES ASSUME IInv, [Next]_vars PROVE IInv'
  OBVIOUS
<1>. USE DEF IInv
<1>1. TypeOK' /\ Effect
  BY TypeStep, Effects
<1>2. ConnectionsLive' /\ ParentsStand' /\ JobsHold'
  BY <1>1, ConnectionsLiveStep, ParentsStandStep, JobsHoldStep
<1>3. PasswordsAnsweredFor' /\ PasswordStays'
  BY <1>1, PasswordsAnsweredForStep, PasswordStaysStep
<1>4. PlansInclude' /\ DeletionStands'
  BY <1>1, PlansIncludeStep, DeletionStandsStep
<1>. QED BY <1>1, <1>2, <1>3, <1>4

(* A request that answers for a password holds it.                          *)
LEMMA AnsweredForIsHeld == IInv => PasswordsMatchConnections
<1>. SUFFICES ASSUME IInv, NEW r \in creds, r \notin missed
              PROVE  r \in RefsHeld(Folders \cup {Root}) \cup Held
  BY DEF IInv, PasswordsMatchConnections, NoPasswordLeft
<1>. USE DEF IInv, TypeOK
<1>1. CASE \E k \in ConnIds : conns[k] /= Absent /\ conns[k].ref = r
  <2>1. PICK k \in ConnIds : conns[k] /= Absent /\ conns[k].ref = r
    BY <1>1
  <2>2. conns[k].folder \in Folders \cup {Root} /\ r /= 0
    BY <2>1 DEF Conn, Refs
  <2>. QED BY <2>1, <2>2 DEF RefsHeld, Is
<1>2. CASE \E c \in Clients : AnswersFor(job[c], r)
  BY <1>2 DEF AnswersFor, Held
<1>. QED BY <1>1, <1>2 DEF PasswordsAnsweredFor

(* Only the seeding makes the built-in connection, and not while it counts  *)
(* as deleted.                                                              *)
LEMMA NotMadeAgain ==
  ASSUME IInv, [Next]_vars
  PROVE  declined => \A k \in ConnIds : conns[k] = Absent => conns'[k] /= [folder |-> Home, ref |-> 0]
<1>. SUFFICES ASSUME declined, NEW i \in ConnIds, conns[i] = Absent
              PROVE  conns'[i] /= [folder |-> Home, ref |-> 0]
  OBVIOUS
<1>1. Absent /= [folder |-> Home, ref |-> 0]
  BY AbsentIsNoConnection, HomeIsAFolder, BoundsAreNaturals DEF Conn
<1>2. Effect /\ TypeOK /\ seed /= "first"
  BY Effects DEF IInv, DeletionStands
<1>3. ASSUME NEW c \in Clients, NEW f \in Folders \cup {Root}, NEW r \in Refs, Connected(c, f, r)
      PROVE  conns'[i] /= [folder |-> Home, ref |-> 0]
  <2>1. i = nextConn => conns'[i].ref = r
    BY <1>2, <1>3 DEF Connected, TypeOK
  <2>2. i /= nextConn => conns'[i] = Absent
    BY <1>2, <1>3 DEF Connected, TypeOK
  <2>. QED BY <1>1, <2>1, <2>2 DEF Refs
<1>4. ASSUME NEW c \in Clients, Deleted(c) PROVE conns'[i] = Absent
  BY <1>4 DEF Deleted
<1>5. ASSUME NEW c \in Clients, NEW k \in 0..MaxConn, Dropped(c, k) PROVE conns'[i] = Absent
  BY <1>2, <1>5 DEF Dropped, TypeOK
<1>6. ASSUME SeedConnection PROVE conns' = conns
  BY <1>2, <1>6 DEF SeedConnection
<1>7. ASSUME Effect, conns' /= conns
      PROVE  \/ \E c \in Clients : \/ Deleted(c) \/ \E k \in 0..MaxConn : Dropped(c, k)
                                   \/ \E f \in Folders \cup {Root}, r \in Refs : Connected(c, f, r)
             \/ SeedConnection
  BY <1>7 DEF Effect, Quiet, ProjectMade, Refused, TakenBack, ProjectPlanned, Forgot, FolderPlanned, FolderMade,
              Stored, SeedFolders, vars
<1>. QED BY <1>1, <1>2, <1>3, <1>4, <1>5, <1>6, <1>7

---------------------------------------------------------------------------
(* The types of the variables.                                              *)
THEOREM TypeCorrect == Spec => []TypeOK
<1>1. IInv => TypeOK
  BY DEF IInv
<1>. QED BY <1>1, InitInv, Inductive, PTL DEF Spec

(* Every stored password is behind a connection, a request under way or a   *)
(* connection a deletion could not see; and no connection loses its own.    *)
THEOREM PasswordsAgree == Spec => []PasswordsMatchConnections
BY InitInv, Inductive, AnsweredForIsHeld, PTL DEF Spec

(* The built-in connection, deleted by itself, is not made again.           *)
THEOREM DeletionLasts == Spec => DeletedStaysDeleted
<1>1. IInv /\ [Next]_vars
      => [declined => \A k \in ConnIds : conns[k] = Absent => conns'[k] /= [folder |-> Home, ref |-> 0]]_vars
  BY NotMadeAgain
<1>. QED BY <1>1, InitInv, Inductive, PTL DEF Spec, DeletedStaysDeleted

---------------------------------------------------------------------------
(* The boards (Dashboards).                                                *)
---------------------------------------------------------------------------

(* A set of natural numbers has a least one.                                *)
Less == {p \in Nat \X Nat : p[1] < p[2]}
LEMMA LeastNatural ==
  ASSUME NEW S \in SUBSET Nat, S # {}
  PROVE  \E m \in S : \A n \in S : m <= n
<1>1. IsWellFoundedOn(Less, Nat)
  BY NatLessThanWellFounded DEF OpToRel, Less
<1>2. PICK m \in S : \A n \in S : ~(<<n, m>> \in Less)
  BY <1>1, WFMin
<1>3. ASSUME NEW n \in S PROVE m <= n
  <2>1. <<n, m>> \in Nat \X Nat /\ ~(<<n, m>> \in Less)
    BY <1>2
  <2>2. ~(n < m)
    BY <2>1 DEF Less
  <2>. QED BY <2>2
<1>. QED BY <1>3

(* There is a number no board of that title has, and Free takes the first. *)
LEMMA FreeIsFree ==
  ASSUME D!TypeOK, NEW title \in Titles
  PROVE  D!Free(title) \in D!Slug /\ D!Free(title) \notin D!Slugs
<1>. DEFINE open == {n \in 1..(MaxBoard + 1) : <<title, n>> \notin D!TakenLike(title)}
<1>0. MaxBoard \in Nat
  BY EditingBounds
<1>1. open # {}
  <2>. SUFFICES ASSUME open = {} PROVE FALSE
    OBVIOUS
  <2>1. \A n \in 1..(MaxBoard + 1) : \E k \in 1..MaxBoard : board[k].slug = <<title, n>>
    BY DEF D!TakenLike, D!Slugs, D!Boards, D!Is, D!Ids
  <2>. DEFINE f == [n \in 1..(MaxBoard + 1) |-> CHOOSE k \in 1..MaxBoard : board[k].slug = <<title, n>>]
  <2>2. \A n \in 1..(MaxBoard + 1) : f[n] \in 1..MaxBoard /\ board[f[n]].slug = <<title, n>>
    BY <2>1
  <2>3. f \in [1..(MaxBoard + 1) -> 1..MaxBoard]
    BY <2>2
  <2>4. /\ IsFiniteSet(1..(MaxBoard + 1)) /\ Cardinality(1..(MaxBoard + 1)) = MaxBoard + 1
        /\ IsFiniteSet(1..MaxBoard) /\ Cardinality(1..MaxBoard) = MaxBoard
    BY <1>0, FS_Interval
  <2>. HIDE DEF f
  <2>5. PICK n1, n2 \in 1..(MaxBoard + 1) : n1 # n2 /\ f[n1] = f[n2]
    BY <1>0, <2>3, <2>4, FS_PigeonHole
  <2>6. <<title, n1>> = <<title, n2>>
    BY <2>2, <2>5
  <2>. QED BY <2>5, <2>6
<1>2. D!Min(open) \in open
  <2>1. open \in SUBSET Nat
    BY <1>0
  <2>. HIDE DEF open
  <2>2. PICK m \in open : \A n \in open : m <= n
    BY <1>1, <2>1, LeastNatural
  <2>. QED BY <2>2 DEF D!Min
<1>3. D!Free(title) = <<title, D!Min(open)>>
  BY DEF D!Free
<1>4. <<title, D!Min(open)>> \notin D!Slugs
  BY <1>2 DEF D!TakenLike
<1>. QED BY <1>0, <1>2, <1>3, <1>4 DEF D!Slug

(* What is read of the boards has its type.                                *)
LEMMA BoardTypes ==
  ASSUME D!TypeOK
  PROVE  /\ D!Slugs \subseteq D!Slug
         /\ \A k \in D!Boards : k \in D!Ids /\ board[k] \in D!Row
         /\ \A slug : D!At(slug) \subseteq D!Boards /\ \A k \in D!At(slug) : board[k].slug = slug
<1>1. \A k \in D!Boards : k \in D!Ids /\ board[k] \in D!Row
  BY DEF D!TypeOK, D!Boards, D!Is
<1>. QED BY <1>1 DEF D!Slugs, D!At, D!Row

(* An address stays explained when boards keep theirs, what explains stays, *)
(* and whose slug is new has it.                                            *)
LEMMA StaysExplained ==
  ASSUME \A h \in had : D!Explained(h),
         \A h \in had : (h[1] \in D!Ids /\ board'[h[1]] # None => board[h[1]] # None)
                        /\ (h[1] \in D!Ids => board'[h[1]].slug = board[h[1]].slug),
         \A h \in had' : h \in had \/ board'[h[1]].slug = h[2],
         unexplained \subseteq unexplained', renames \subseteq renames',
         \A c \in Clients : dJob[c].pc = "record" => dJob'[c] = dJob[c]
  PROVE  \A h \in had' : D!Explained(h)'
<1>. SUFFICES ASSUME NEW h \in had', h \in had PROVE D!Explained(h)'
  BY DEF D!Explained
<1>1. D!Explained(h)
  OBVIOUS
<1>. QED BY <1>1 DEF D!Explained, D!Is

(* A request that begins.                                                  *)
LEMMA AskKeeps ==
  ASSUME D!IInv, NEW c \in Clients, NEW j \in D!Job, D!Asks(c, j),
         j.pc \in {"upsert", "rename", "import"},
         j.pc \in {"upsert", "rename"} => j.slug \in D!Slug /\ j.title \in Titles,
         j.pc = "rename" => j.id \in 1..(nextBoard - 1) /\ j.was \in D!Row,
         j.pc = "import" => j.todo # <<>>,
         j.pc = "upsert" /\ j.new => j.slug \notin j.seen
  PROVE  D!IInv'
<1>. USE DEF D!IInv, D!Asks, D!Goes
<1>0. dJob \in [Clients -> D!Job] /\ dJob' = [dJob EXCEPT ![c] = j] /\ dJob[c].pc = "idle"
  BY DEF D!TypeOK
<1>1. D!TypeOK'
  BY <1>0, EditingBounds DEF D!TypeOK
<1>2. D!JobsHold' /\ D!NewIsFree'
  BY <1>0 DEF D!JobsHold, D!NewIsFree
<1>3. D!IdsAreFresh' /\ D!MadeBefore' /\ D!NewIsNotAnEdit'
  BY DEF D!IdsAreFresh, D!MadeBefore, D!NewIsNotAnEdit, D!Boards, D!Is
<1>4. \A h \in had' : D!Explained(h)'
  BY <1>0, StaysExplained
<1>. QED BY <1>1, <1>2, <1>3, <1>4

(* What a written board changes.                                           *)
LEMMA WrittenKeeps ==
  ASSUME D!TypeOK, D!IdsAreFresh, D!MadeBefore, NEW row \in D!Row, D!Written(row.slug, row.title, row.layout)
  PROVE  /\ board' \in [D!Ids -> D!Row \cup {None}] /\ had' \subseteq D!Ids \X D!Slug
         /\ nextBoard' \in 1..(MaxBoard + 1) /\ nextBoard <= nextBoard' /\ D!IdsAreFresh' /\ D!MadeBefore'
         /\ \A h \in had : /\ h[1] \in D!Ids /\ board'[h[1]] # None => board[h[1]] # None
                           /\ h[1] \in D!Ids => board'[h[1]].slug = board[h[1]].slug
         /\ \A h \in had' : h \in had \/ board'[h[1]].slug = h[2]
<1>. USE EditingBounds
<1>0. row.slug \in D!Slug /\ row.title \in Titles /\ row.layout \in SUBSET Metrics
  BY DEF D!Row
<1>1. CASE D!At(row.slug) # {}
  <2>1. board' = [k \in D!Ids |-> IF k \in D!At(row.slug)
                                  THEN [board[k] EXCEPT !.title = row.title, !.layout = row.layout] ELSE board[k]]
        /\ had' = had /\ nextBoard' = nextBoard
    BY <1>1 DEF D!Written
  <2>2. \A k \in D!At(row.slug) : board[k] \in D!Row /\ board[k] # None
    BY BoardTypes DEF D!Boards, D!Is
  <2>3. board' \in [D!Ids -> D!Row \cup {None}]
    BY <1>0, <2>1, <2>2 DEF D!TypeOK, D!Row
  <2>4. \A k \in D!Ids : board'[k].slug = board[k].slug /\ (board'[k] # None => board[k] # None)
    BY <1>0, <2>1, <2>2 DEF D!Row
  <2>5. had \subseteq D!Ids \X D!Slug /\ nextBoard \in 1..(MaxBoard + 1)
    BY DEF D!TypeOK
  <2>6. D!IdsAreFresh' /\ D!MadeBefore'
    BY <2>1, <2>4 DEF D!IdsAreFresh, D!MadeBefore, D!Boards, D!Is
  <2>7. \A h \in had : /\ h[1] \in D!Ids /\ board'[h[1]] # None => board[h[1]] # None
                       /\ h[1] \in D!Ids => board'[h[1]].slug = board[h[1]].slug
    BY <2>4
  <2>8. had' = had /\ nextBoard' = nextBoard
    BY <2>1
  <2>9. nextBoard' \in 1..(MaxBoard + 1) /\ nextBoard <= nextBoard'
    BY <2>5, <2>8
  <2>. QED BY <2>1, <2>3, <2>5, <2>6, <2>7, <2>8, <2>9
<1>2. CASE D!At(row.slug) = {}
  <2>1. /\ nextBoard \in D!Ids
        /\ board' = [board EXCEPT ![nextBoard] = [slug |-> row.slug, title |-> row.title, layout |-> row.layout]]
        /\ had' = had \cup {<<nextBoard, row.slug>>} /\ nextBoard' = nextBoard + 1
    BY <1>2 DEF D!Written
  <2>2. [slug |-> row.slug, title |-> row.title, layout |-> row.layout] \in D!Row
    BY <1>0 DEF D!Row
  <2>3. board' \in [D!Ids -> D!Row \cup {None}] /\ had' \subseteq D!Ids \X D!Slug /\ nextBoard' \in 1..(MaxBoard + 1)
    BY <1>0, <2>1, <2>2 DEF D!TypeOK, D!Ids
  <2>4. \A h \in had : h[1] \in D!Ids /\ h[1] < nextBoard
    BY DEF D!TypeOK, D!IdsAreFresh
  <2>5. \A h \in had : board'[h[1]] = board[h[1]]
    BY <2>1, <2>4 DEF D!TypeOK
  <2>6. D!IdsAreFresh' /\ D!MadeBefore'
    <3>1. nextBoard \in Nat
      BY DEF D!TypeOK
    <3>2. \A k \in D!Ids \ {nextBoard} : board'[k] = board[k]
      BY <2>1 DEF D!TypeOK
    <3>3. D!MadeBefore'
      BY <2>1, <3>1, <3>2 DEF D!MadeBefore, D!Boards, D!Is, D!Ids
    <3>. QED BY <2>1, <2>4, <3>1, <3>3 DEF D!IdsAreFresh, D!Ids
  <2>7. board'[nextBoard].slug = row.slug
    BY <2>1 DEF D!TypeOK
  <2>. QED BY <2>1, <2>3, <2>5, <2>6, <2>7 DEF D!TypeOK
<1>. QED BY <1>1, <1>2

(* What a request's statement leaves of the other requests.                *)
LEMMA OneMoves ==
  ASSUME D!TypeOK, D!JobsHold, D!NewIsFree, NEW c \in Clients, NEW j \in D!Job, D!Goes(c, j),
         nextBoard' \in 1..(MaxBoard + 1), nextBoard <= nextBoard',
         j = D!Idle \/ (j.pc = "record" /\ j.slug \in D!Slug /\ j.title \in Titles
                        /\ j.id \in 1..(nextBoard - 1) /\ j.was \in D!Row)
                    \/ (j.pc = "import" /\ j.todo # <<>>)
  PROVE  dJob' \in [Clients -> D!Job] /\ D!JobsHold' /\ D!NewIsFree'
<1>0. dJob \in [Clients -> D!Job] /\ dJob' = [dJob EXCEPT ![c] = j] /\ nextBoard \in 1..(MaxBoard + 1)
  BY DEF D!TypeOK, D!Goes
<1>1. dJob'[c] = j /\ \A d \in Clients \ {c} : dJob'[d] = dJob[d]
  BY <1>0
<1>2. D!Idle.pc = "idle"
  BY DEF D!Idle
<1>3. D!NewIsFree'
  BY <1>1, <1>2 DEF D!NewIsFree
<1>4. \A d \in Clients \ {c} : dJob'[d].pc \in {"rename", "record"} => dJob'[d].id \in 1..(nextBoard' - 1)
  BY <1>0, <1>1, EditingBounds DEF D!JobsHold
<1>5. j.pc \in {"rename", "record"} => j.id \in 1..(nextBoard' - 1)
  BY <1>0, <1>2, EditingBounds
<1>6. D!JobsHold'
  BY <1>1, <1>2, <1>4, <1>5 DEF D!JobsHold
<1>. QED BY <1>0, <1>3, <1>6

LEMMA IdleIsAJob == D!Idle \in D!Job
BY EditingBounds DEF D!Idle, D!Job

LEMMA SaveKeeps ==
  ASSUME D!IInv, NEW c \in Clients, NEW title \in Titles, NEW layout \in D!Layouts, D!AskSave(c, title, layout)
  PROVE  D!IInv'
<1>. DEFINE j == [D!Idle EXCEPT !.pc = "upsert", !.new = TRUE, !.slug = D!Free(title), !.title = title,
                               !.layout = layout, !.seen = D!Slugs]
<1>1. D!Asks(c, j)
  BY DEF D!AskSave
<1>2. D!Slugs \subseteq D!Slug /\ D!Free(title) \in D!Slug /\ D!Free(title) \notin D!Slugs
  BY BoardTypes, FreeIsFree DEF D!IInv
<1>3. layout \in SUBSET Metrics
  BY DEF D!Layouts
<1>4. j \in D!Job
  BY <1>2, <1>3, IdleIsAJob DEF D!Job
<1>5. j.pc = "upsert" /\ j.slug = D!Free(title) /\ j.title = title /\ j.seen = D!Slugs
  BY DEF D!Idle
<1>. HIDE DEF j
<1>. QED BY <1>1, <1>2, <1>4, <1>5, AskKeeps

LEMMA EditKeeps ==
  ASSUME D!IInv, NEW c \in Clients, NEW slug \in D!Slugs, NEW title \in Titles, NEW layout \in D!Layouts,
         D!AskEdit(c, slug, title, layout)
  PROVE  D!IInv'
<1>. DEFINE j == [D!Idle EXCEPT !.pc = "upsert", !.slug = slug, !.title = title, !.layout = layout]
<1>1. D!Asks(c, j)
  BY DEF D!AskEdit
<1>2. slug \in D!Slug /\ layout \in SUBSET Metrics
  BY BoardTypes DEF D!IInv, D!Layouts
<1>3. j \in D!Job
  BY <1>2, IdleIsAJob DEF D!Job
<1>4. j.pc = "upsert" /\ j.slug = slug /\ j.title = title /\ ~j.new
  BY DEF D!Idle
<1>. HIDE DEF j
<1>. QED BY <1>1, <1>2, <1>3, <1>4, AskKeeps

LEMMA ImportKeeps ==
  ASSUME D!IInv, NEW c \in Clients, NEW file \in Seq(D!Row), file # <<>>, NEW overwrite \in BOOLEAN,
         D!AskImport(c, file, overwrite)
  PROVE  D!IInv'
<1>. DEFINE j == [D!Idle EXCEPT !.pc = "import", !.todo = file, !.seen = D!Slugs, !.overwrite = overwrite]
<1>1. D!Asks(c, j)
  BY DEF D!AskImport
<1>2. D!Slugs \subseteq D!Slug
  BY BoardTypes DEF D!IInv
<1>3. j \in D!Job
  BY <1>2, IdleIsAJob DEF D!Job
<1>4. j.pc = "import" /\ j.todo = file
  BY DEF D!Idle
<1>. HIDE DEF j
<1>. QED BY <1>1, <1>2, <1>3, <1>4, AskKeeps

(* A board with an id was made before the next one.                        *)
LEMMA RenameAsksKeep ==
  ASSUME D!IInv, NEW c \in Clients, NEW slug \in D!Slugs, NEW title \in Titles, D!AskRename(c, slug, title)
  PROVE  D!IInv'
<1>1. PICK k \in D!At(slug) : D!Asks(c, [D!Idle EXCEPT !.pc = "rename", !.id = k, !.title = title,
                                                       !.slug = D!Slugify(title), !.was = board[k]])
  BY DEF D!AskRename
<1>. DEFINE j == [D!Idle EXCEPT !.pc = "rename", !.id = k, !.title = title, !.slug = D!Slugify(title), !.was = board[k]]
<1>2. k \in D!Boards /\ k \in D!Ids /\ board[k] \in D!Row
  BY BoardTypes DEF D!IInv
<1>3. k \in 1..(nextBoard - 1)
  BY <1>2, EditingBounds DEF D!IInv, D!MadeBefore, D!TypeOK, D!Boards, D!Ids
<1>4. D!Slugify(title) \in D!Slug
  BY DEF D!Slugify, D!Slug
<1>5. j \in D!Job
  <2>1. k \in 0..MaxBoard /\ board[k] \in D!Row
    BY <1>2, EditingBounds DEF D!Ids
  <2>. QED BY <1>4, <2>1, IdleIsAJob DEF D!Job
<1>6. j.pc = "rename" /\ j.slug = D!Slugify(title) /\ j.title = title /\ j.id = k /\ j.was = board[k]
  BY DEF D!Idle
<1>7. D!Asks(c, j)
  BY <1>1
<1>. HIDE DEF j
<1>. QED BY <1>2, <1>3, <1>4, <1>5, <1>6, <1>7, AskKeeps

(* A written board in one statement of a request.                           *)
LEMMA IdleIsIdle == D!Idle.pc = "idle"
BY DEF D!Idle
LEMMA WriteKeeps ==
  ASSUME D!IInv, NEW c \in Clients, NEW row \in D!Row, D!Written(row.slug, row.title, row.layout),
         NEW j \in D!Job, D!Goes(c, j), j = D!Idle \/ (j.pc = "import" /\ j.todo # <<>>), dJob[c].pc # "record",
         replaced' = {}, UNCHANGED <<metrics, renames, unexplained, dAsked>>
  PROVE  D!IInv'
<1>. USE DEF D!IInv
<1>1. /\ board' \in [D!Ids -> D!Row \cup {None}] /\ had' \subseteq D!Ids \X D!Slug
      /\ nextBoard' \in 1..(MaxBoard + 1) /\ nextBoard <= nextBoard' /\ D!IdsAreFresh' /\ D!MadeBefore'
      /\ \A h \in had : /\ h[1] \in D!Ids /\ board'[h[1]] # None => board[h[1]] # None
                        /\ h[1] \in D!Ids => board'[h[1]].slug = board[h[1]].slug
      /\ \A h \in had' : h \in had \/ board'[h[1]].slug = h[2]
  BY WrittenKeeps
<1>2. dJob' \in [Clients -> D!Job] /\ D!JobsHold' /\ D!NewIsFree'
  BY <1>1, OneMoves
<1>3. D!TypeOK' /\ D!NewIsNotAnEdit'
  BY <1>1, <1>2 DEF D!TypeOK, D!NewIsNotAnEdit
<1>4. \A d \in Clients : dJob[d].pc = "record" => dJob'[d] = dJob[d]
  BY DEF D!Goes, D!TypeOK
<1>5. \A h \in had' : D!Explained(h)'
  BY <1>1, <1>4, StaysExplained
<1>. QED BY <1>1, <1>2, <1>3, <1>5

(* The write of a new board, or of one that is edited.                      *)
LEMMA UpsertKeeps ==
  ASSUME D!IInv, NEW c \in Clients, D!Upsert(c)
  PROVE  D!IInv'
<1>. DEFINE j == dJob[c]  row == [slug |-> j.slug, title |-> j.title, layout |-> j.layout]
<1>. USE DEF D!IInv
<1>1. dJob \in [Clients -> D!Job] /\ j \in D!Job /\ j.pc = "upsert" /\ j.slug \in D!Slug /\ j.title \in Titles
  BY DEF D!TypeOK, D!JobsHold, D!Upsert
<1>2. row \in D!Row /\ D!Written(row.slug, row.title, row.layout)
  BY <1>1 DEF D!Row, D!Job, D!Upsert
<1>3. D!Goes(c, D!Idle) /\ metrics' = metrics /\ renames' = renames /\ unexplained' = unexplained /\ dAsked' = dAsked
  BY DEF D!Upsert
<1>4. replaced' = {}
  BY <1>1 DEF D!Upsert, D!Unasked, D!NewIsFree, D!NewIsNotAnEdit
<1>. QED BY <1>1, <1>2, <1>3, <1>4, WriteKeeps, IdleIsAJob, IdleIsIdle

(* The next board of a restore: one it saw it may write over when it is to. *)
LEMMA ImportNextKeeps ==
  ASSUME D!IInv, NEW c \in Clients, D!ImportNext(c)
  PROVE  D!IInv'
<1>. DEFINE j == dJob[c]  row == Head(j.todo)
            then == IF Len(j.todo) = 1 THEN D!Idle ELSE [j EXCEPT !.todo = Tail(@)]
<1>. USE DEF D!IInv
<1>1. j \in D!Job /\ j.pc = "import" /\ j.todo \in Seq(D!Row) /\ j.todo # <<>>
  BY DEF D!ImportNext, D!TypeOK, D!Job
<1>2. row \in D!Row /\ Tail(j.todo) \in Seq(D!Row) /\ (Len(j.todo) # 1 => Tail(j.todo) # <<>>)
  <2>1. j.todo \in Seq(D!Row) /\ j.todo # <<>>
    BY <1>1
  <2>2. Head(j.todo) \in D!Row /\ Tail(j.todo) \in Seq(D!Row) /\ Len(Tail(j.todo)) = Len(j.todo) - 1 /\ Len(j.todo) \in Nat
    BY <2>1, HeadTailProperties, LenProperties
  <2>3. Len(j.todo) # 1 => Len(Tail(j.todo)) # 0
    BY <2>2
  <2>4. Tail(j.todo) = <<>> => Len(Tail(j.todo)) = 0
    BY EmptySeq
  <2>. QED BY <2>2, <2>3, <2>4
<1>3. D!Goes(c, then) /\ metrics' = metrics /\ renames' = renames /\ unexplained' = unexplained /\ dAsked' = dAsked
  BY DEF D!ImportNext
<1>4. then \in D!Job /\ (then = D!Idle \/ (then.pc = "import" /\ then.todo # <<>>))
  <2>1. CASE Len(j.todo) = 1
    BY <2>1, IdleIsAJob
  <2>2. CASE Len(j.todo) # 1
    BY <1>1, <1>2, <2>2 DEF D!Job
  <2>. QED BY <2>1, <2>2
<1>5. CASE D!Skipped(j, row)
  <2>1. UNCHANGED <<board, had, nextBoard, replaced>>
    BY <1>5 DEF D!ImportNext
  <2>2. nextBoard' \in 1..(MaxBoard + 1) /\ nextBoard <= nextBoard'
    BY <2>1, EditingBounds DEF D!TypeOK
  <2>. HIDE DEF then
  <2>3. dJob' \in [Clients -> D!Job] /\ D!JobsHold' /\ D!NewIsFree'
    BY <1>3, <1>4, <2>2, OneMoves
  <2>4. D!TypeOK' /\ D!NewIsNotAnEdit' /\ D!IdsAreFresh' /\ D!MadeBefore'
    BY <1>3, <2>1, <2>3 DEF D!TypeOK, D!NewIsNotAnEdit, D!IdsAreFresh, D!MadeBefore, D!Boards, D!Is
  <2>5. \A d \in Clients : dJob[d].pc = "record" => dJob'[d] = dJob[d]
    BY <1>1, <1>3 DEF D!Goes, D!TypeOK
  <2>6. \A h \in had' : D!Explained(h)'
    BY <1>3, <2>1, <2>5, StaysExplained
  <2>. QED BY <2>3, <2>4, <2>6
<1>6. CASE ~D!Skipped(j, row)
  <2>1. D!Written(row.slug, row.title, row.layout)
    BY <1>6 DEF D!ImportNext
  <2>2. replaced' = {}
    BY <1>6 DEF D!ImportNext, D!Skipped, D!Unasked, D!NewIsNotAnEdit
  <2>. HIDE DEF then
  <2>. QED BY <1>1, <1>2, <1>3, <1>4, <2>1, <2>2, WriteKeeps
<1>. QED BY <1>5, <1>6

(* A rename that is done leaves the address it read to be recorded, or the  *)
(* board is known to have been renamed twice at once.                       *)
LEMMA RenameKeeps ==
  ASSUME D!IInv, NEW c \in Clients, D!Rename(c)
  PROVE  D!IInv'
<1>. DEFINE j == dJob[c]  done == D!Is(j.id) /\ D!At(j.slug) \subseteq {j.id}
            then == IF done /\ D!Worth(j.was, j.title, j.slug) THEN [j EXCEPT !.pc = "record"] ELSE D!Idle
<1>. USE DEF D!IInv
<1>1. j \in D!Job /\ j.pc = "rename" /\ j.slug \in D!Slug /\ j.title \in Titles /\ j.id \in 1..(nextBoard - 1)
      /\ j.was \in D!Row
  BY DEF D!Rename, D!TypeOK, D!JobsHold
<1>2. D!Goes(c, then) /\ UNCHANGED <<metrics, renames, replaced, nextBoard, dAsked>>
  BY DEF D!Rename
<1>3. then \in D!Job /\ (then = D!Idle \/ then = [j EXCEPT !.pc = "record"])
  BY <1>1, IdleIsAJob DEF D!Job
<1>3a. then # D!Idle => /\ then.pc = "record" /\ then.slug = j.slug /\ then.title = j.title
                        /\ then.id = j.id /\ then.was = j.was
  BY <1>1, <1>3 DEF D!Job
<1>4. nextBoard' \in 1..(MaxBoard + 1) /\ nextBoard <= nextBoard'
  BY <1>2, EditingBounds DEF D!TypeOK
<1>5. dJob' \in [Clients -> D!Job] /\ D!JobsHold' /\ D!NewIsFree'
  <2>. HIDE DEF then
  <2>. QED BY <1>1, <1>2, <1>3, <1>3a, <1>4, OneMoves
<1>6. \A d \in Clients : dJob[d].pc = "record" => dJob'[d] = dJob[d]
  BY <1>1, <1>2 DEF D!Goes, D!TypeOK
<1>7. CASE ~done
  <2>1. UNCHANGED <<board, had, unexplained>>
    BY <1>7 DEF D!Rename
  <2>2. D!TypeOK' /\ D!NewIsNotAnEdit' /\ D!IdsAreFresh' /\ D!MadeBefore'
    BY <1>2, <1>5, <2>1 DEF D!TypeOK, D!NewIsNotAnEdit, D!IdsAreFresh, D!MadeBefore, D!Boards, D!Is
  <2>3. \A h \in had' : D!Explained(h)'
    BY <1>2, <1>6, <2>1, StaysExplained
  <2>. QED BY <1>5, <2>2, <2>3
<1>8. CASE done
  <2>1. /\ board' = [board EXCEPT ![j.id].title = j.title, ![j.id].slug = j.slug]
        /\ had' = had \cup {<<j.id, j.slug>>}
        /\ unexplained' = IF board[j.id].slug /= j.was.slug THEN unexplained \cup {j.id} ELSE unexplained
    BY <1>8 DEF D!Rename
  <2>2. j.id \in D!Ids /\ board[j.id] \in D!Row /\ board \in [D!Ids -> D!Row \cup {None}]
    BY <1>8 DEF D!TypeOK, D!Is
  <2>. DEFINE new == [board[j.id] EXCEPT !.title = j.title, !.slug = j.slug]
  <2>3. board' = [board EXCEPT ![j.id] = new] /\ new \in D!Row /\ new.slug = j.slug
    BY <1>1, <2>1, <2>2 DEF D!Row
  <2>. HIDE DEF new
  <2>4. board' \in [D!Ids -> D!Row \cup {None}] /\ board'[j.id].slug = j.slug
        /\ \A k \in D!Ids \ {j.id} : board'[k] = board[k]
    BY <2>2, <2>3
  <2>5. had' \subseteq D!Ids \X D!Slug /\ unexplained' \subseteq D!Ids /\ unexplained \subseteq unexplained'
    BY <1>1, <2>1, <2>2 DEF D!TypeOK
  <2>6. D!TypeOK' /\ D!NewIsNotAnEdit'
    BY <1>2, <1>5, <2>4, <2>5 DEF D!TypeOK, D!NewIsNotAnEdit
  <2>7. D!IdsAreFresh' /\ D!MadeBefore'
    <3>1. nextBoard \in Nat /\ j.id < nextBoard
      BY <1>1 DEF D!TypeOK
    <3>2. D!IdsAreFresh'
      BY <1>2, <2>1, <3>1 DEF D!IdsAreFresh
    <3>3. D!MadeBefore'
      BY <1>2, <2>4, <3>1 DEF D!MadeBefore, D!Boards, D!Is
    <3>. QED BY <3>2, <3>3
  <2>8. ASSUME NEW h \in had' PROVE D!Explained(h)'
    <3>1. CASE h[1] # j.id
      <4>1. h \in had
        BY <2>1, <3>1
      <4>2. D!Explained(h) /\ h[1] \in D!Ids
        BY <4>1 DEF D!TypeOK
      <4>3. board'[h[1]] = board[h[1]]
        BY <2>4, <3>1, <4>2
      <4>. QED BY <1>2, <1>6, <2>5, <4>2, <4>3 DEF D!Explained, D!Is
    <3>2. CASE h[1] = j.id
      <4>1. CASE h[2] = j.slug
        BY <2>4, <3>2, <4>1 DEF D!Explained
      <4>2. CASE h[2] # j.slug
        <5>1. h \in had /\ D!Explained(h)
          BY <2>1, <4>2
        <5>2. CASE board[j.id].slug = h[2]
          <6>1. CASE h[2] # j.was.slug
            BY <2>1, <3>2, <5>2, <6>1 DEF D!Explained
          <6>2. CASE h[2] = j.was.slug
            <7>1. D!Worth(j.was, j.title, j.slug)
              BY <4>2, <6>2 DEF D!Worth
            <7>2. dJob'[c] = [j EXCEPT !.pc = "record"]
              BY <1>2, <1>8, <7>1 DEF D!Goes, D!TypeOK
            <7>3. dJob'[c].pc = "record" /\ dJob'[c].id = h[1] /\ dJob'[c].was.slug = h[2]
              BY <1>1, <3>2, <6>2, <7>2 DEF D!Job
            <7>. QED BY <7>3 DEF D!Explained
          <6>. QED BY <6>1, <6>2
        <5>3. CASE board[j.id].slug # h[2]
          BY <1>2, <1>6, <1>8, <2>5, <3>2, <5>1, <5>3 DEF D!Explained
        <5>. QED BY <5>2, <5>3
      <4>. QED BY <4>1, <4>2
    <3>. QED BY <3>1, <3>2
  <2>. QED BY <1>5, <2>6, <2>7, <2>8
<1>. QED BY <1>7, <1>8

(* The record of a rename is of the slug the board no longer has.          *)
LEMMA RecordKeeps ==
  ASSUME D!IInv, NEW c \in Clients, D!RecordRename(c)
  PROVE  D!IInv'
<1>. DEFINE j == dJob[c]
<1>. USE DEF D!IInv
<1>1. j \in D!Job /\ j.pc = "record" /\ j.slug \in D!Slug /\ j.id \in 1..(nextBoard - 1) /\ j.was \in D!Row
  BY DEF D!RecordRename, D!TypeOK, D!JobsHold
<1>2. D!Goes(c, D!Idle) /\ UNCHANGED <<board, metrics, had, replaced, nextBoard, dAsked>>
  BY DEF D!RecordRename
<1>3. nextBoard' \in 1..(MaxBoard + 1) /\ nextBoard <= nextBoard' /\ j.id \in D!Ids /\ j.was.slug \in D!Slug
  BY <1>1, <1>2, EditingBounds DEF D!TypeOK, D!Ids, D!Row
<1>4. dJob' \in [Clients -> D!Job] /\ D!JobsHold' /\ D!NewIsFree'
  BY <1>2, <1>3, IdleIsAJob, OneMoves
<1>5. /\ renames \subseteq renames' /\ unexplained \subseteq unexplained' /\ unexplained' \subseteq D!Ids
      /\ renames' \subseteq [id: D!Ids, from: D!Slug, to: D!Slug]
      /\ j.id \in unexplained' \/ \E r \in renames' : r.id = j.id /\ r.from = j.was.slug
  <2>1. CASE renames' = renames \cup {[id |-> j.id, from |-> j.was.slug, to |-> j.slug]} /\ UNCHANGED unexplained
    <3>. DEFINE r == [id |-> j.id, from |-> j.was.slug, to |-> j.slug]
    <3>1. r \in [id: D!Ids, from: D!Slug, to: D!Slug] /\ r.id = j.id /\ r.from = j.was.slug
      BY <1>1, <1>3
    <3>. HIDE DEF r
    <3>2. renames' = renames \cup {r}
      BY <2>1 DEF r
    <3>. QED BY <2>1, <3>1, <3>2 DEF D!TypeOK
  <2>2. CASE unexplained' = unexplained \cup {j.id} /\ UNCHANGED renames
    BY <1>3, <2>2 DEF D!TypeOK
  <2>. QED BY <2>1, <2>2 DEF D!RecordRename
<1>6. D!TypeOK' /\ D!NewIsNotAnEdit' /\ D!IdsAreFresh' /\ D!MadeBefore'
  BY <1>2, <1>4, <1>5 DEF D!TypeOK, D!NewIsNotAnEdit, D!IdsAreFresh, D!MadeBefore, D!Boards, D!Is
<1>7. \A d \in Clients \ {c} : dJob'[d] = dJob[d]
  BY <1>2 DEF D!Goes, D!TypeOK
<1>8. \A h \in had' : D!Explained(h)'
  BY <1>2, <1>5, <1>7 DEF D!Explained, D!Is
<1>. QED BY <1>4, <1>6, <1>8

(* A board that goes takes its addresses and its renames with it.          *)
LEMMA DeleteBoardKeeps ==
  ASSUME D!IInv, NEW c \in Clients, NEW slug \in D!Slugs, D!DeleteDashboard(c, slug)
  PROVE  D!IInv'
<1>. USE DEF D!IInv
<1>1. /\ board' = [k \in D!Ids |-> IF k \in D!At(slug) THEN None ELSE board[k]]
      /\ renames' = {r \in renames : r.id \notin D!At(slug)}
      /\ had' = {h \in had : h[1] \notin D!At(slug)}
      /\ dAsked < BoardAsks /\ dAsked' = dAsked + 1
      /\ UNCHANGED <<metrics, unexplained, replaced, dJob, nextBoard>>
  BY DEF D!DeleteDashboard
<1>2. D!TypeOK'
  BY <1>1, EditingBounds DEF D!TypeOK
<1>3. D!JobsHold' /\ D!NewIsFree' /\ D!NewIsNotAnEdit' /\ D!IdsAreFresh'
  BY <1>1 DEF D!JobsHold, D!NewIsFree, D!NewIsNotAnEdit, D!IdsAreFresh
<1>4. D!MadeBefore'
  BY <1>1 DEF D!MadeBefore, D!Boards, D!Is
<1>5. ASSUME NEW h \in had' PROVE D!Explained(h)'
  <2>1. h \in had /\ h[1] \notin D!At(slug) /\ h[1] \in D!Ids /\ D!Explained(h)
    BY <1>1 DEF D!TypeOK
  <2>2. board'[h[1]] = board[h[1]]
    BY <1>1, <2>1
  <2>. QED BY <1>1, <2>1, <2>2 DEF D!Explained, D!Is
<1>. QED BY <1>2, <1>3, <1>4, <1>5

LEMMA CatalogueKeeps ==
  ASSUME D!IInv, NEW m \in Metrics, D!CatalogueChanges(m)
  PROVE  D!IInv'
<1>. USE DEF D!IInv
<1>1. /\ metrics' \subseteq Metrics /\ dAsked < BoardAsks /\ dAsked' = dAsked + 1
      /\ UNCHANGED <<board, renames, had, unexplained, replaced, dJob, nextBoard>>
  BY DEF D!CatalogueChanges, D!TypeOK
<1>2. D!TypeOK'
  BY <1>1, EditingBounds DEF D!TypeOK
<1>. QED BY <1>1, <1>2 DEF D!JobsHold, D!NewIsFree, D!NewIsNotAnEdit, D!IdsAreFresh, D!MadeBefore, D!Boards, D!Is, D!Explained

LEMMA BoardsInit == D!Init => D!IInv
<1>. SUFFICES ASSUME D!Init PROVE D!IInv
  OBVIOUS
<1>1. D!TypeOK
  BY IdleIsAJob, EditingBounds DEF D!Init, D!TypeOK
<1>. QED BY <1>1, IdleIsIdle DEF D!Init, D!IInv, D!JobsHold, D!NewIsFree, D!NewIsNotAnEdit, D!IdsAreFresh, D!MadeBefore, D!Boards, D!Is, D!Explained

LEMMA BoardsStep == D!IInv /\ [D!Next]_boards => D!IInv'
<1>1. ASSUME D!IInv, D!Next PROVE D!IInv'
  <2>1. ASSUME NEW c \in Clients, NEW title \in Titles, NEW layout \in D!Layouts, D!AskSave(c, title, layout)
        PROVE  D!IInv'
    BY <1>1, <2>1, SaveKeeps
  <2>2. ASSUME NEW c \in Clients, NEW title \in Titles, NEW layout \in D!Layouts, NEW slug \in D!Slugs,
               D!AskEdit(c, slug, title, layout)
        PROVE  D!IInv'
    BY <1>1, <2>2, EditKeeps
  <2>3. ASSUME NEW c \in Clients, NEW title \in Titles, NEW layout \in D!Layouts, NEW overwrite \in BOOLEAN, NEW n \in 1..2,
               LET b == [slug |-> <<title, n>>, title |-> title, layout |-> layout]
               IN D!AskImport(c, <<b, [b EXCEPT !.slug = D!Slugify(title)]>>, overwrite)
        PROVE  D!IInv'
    <3>. DEFINE b == [slug |-> <<title, n>>, title |-> title, layout |-> layout]
                file == <<b, [b EXCEPT !.slug = D!Slugify(title)]>>
    <3>1. b \in D!Row /\ [b EXCEPT !.slug = D!Slugify(title)] \in D!Row
      BY DEF D!Row, D!Slug, D!Slugify, D!Layouts
    <3>2. file \in Seq(D!Row) /\ file # <<>>
      BY <3>1
    <3>3. D!AskImport(c, file, overwrite)
      BY <2>3
    <3>. HIDE DEF file
    <3>. QED BY <1>1, <3>2, <3>3, ImportKeeps
  <2>4. ASSUME NEW c \in Clients, NEW slug \in D!Slugs, D!DeleteDashboard(c, slug) PROVE D!IInv'
    BY <1>1, <2>4, DeleteBoardKeeps
  <2>5. ASSUME NEW c \in Clients, NEW slug \in D!Slugs, NEW title \in Titles, D!AskRename(c, slug, title) PROVE D!IInv'
    BY <1>1, <2>5, RenameAsksKeep
  <2>6. ASSUME NEW c \in Clients, D!Upsert(c) \/ D!Rename(c) \/ D!RecordRename(c) \/ D!ImportNext(c) PROVE D!IInv'
    BY <1>1, <2>6, UpsertKeeps, RenameKeeps, RecordKeeps, ImportNextKeeps
  <2>7. ASSUME NEW m \in Metrics, D!CatalogueChanges(m) PROVE D!IInv'
    BY <1>1, <2>7, CatalogueKeeps
  <2>. QED BY <1>1, <2>1, <2>2, <2>3, <2>4, <2>5, <2>6, <2>7 DEF D!Next
<1>2. ASSUME D!IInv, UNCHANGED boards PROVE D!IInv'
  BY <1>2 DEF boards, D!IInv, D!TypeOK, D!JobsHold, D!NewIsFree, D!NewIsNotAnEdit, D!IdsAreFresh, D!MadeBefore,
              D!Boards, D!Is, D!Explained
<1>. QED BY <1>1, <1>2

(* A new board overwrites none that was seen, and every address a board has *)
(* had can be explained (dashboards.ts).                                    *)
THEOREM BoardsHold == EditingSpec => []BoardsKeepTheirNames
<1>1. Empty => D!IInv
  BY BoardsInit DEF Empty
<1>2. D!IInv /\ [Folding \/ Building \/ Boarding \/ Removing \/ Importing]_everything => D!IInv'
  <2>1. [Folding \/ Building \/ Boarding \/ Removing \/ Importing]_everything => [D!Next]_boards
    BY DEF Folding, Building, Boarding, Removing, Importing, everything
  <2>. QED BY <2>1, BoardsStep
<1>3. D!IInv => BoardsKeepTheirNames
  BY DEF D!IInv, BoardsKeepTheirNames, D!StaleLinksExplained, D!Explained
<1>. QED BY <1>1, <1>2, <1>3, PTL DEF EditingSpec

---------------------------------------------------------------------------
(* The imports (Imports).                                                  *)
---------------------------------------------------------------------------

(* A list without repetitions is its head and the rest, which lacks it.    *)
LEMMA ListSplits ==
  ASSUME NEW S, NEW s \in Seq(S), s # <<>>, \A m, n \in DOMAIN s : s[m] = s[n] => m = n
  PROVE  /\ Head(s) \in S /\ Tail(s) \in Seq(S) /\ I!ToSet(s) = {Head(s)} \cup I!ToSet(Tail(s))
         /\ Head(s) \notin I!ToSet(Tail(s)) /\ \A m, n \in DOMAIN Tail(s) : Tail(s)[m] = Tail(s)[n] => m = n
<1>1. /\ Head(s) = s[1] /\ Head(s) \in S /\ Tail(s) \in Seq(S) /\ Len(s) \in Nat /\ Len(s) # 0
      /\ Len(Tail(s)) = Len(s) - 1 /\ \A k \in 1..Len(Tail(s)) : Tail(s)[k] = s[k + 1]
  BY HeadTailProperties, LenProperties, EmptySeq
<1>2. DOMAIN s = 1..Len(s) /\ DOMAIN Tail(s) = 1..(Len(s) - 1)
  BY <1>1, LenProperties
<1>3. \A k \in DOMAIN s : k # 1 => k - 1 \in DOMAIN Tail(s) /\ s[k] = Tail(s)[k - 1]
  BY <1>1, <1>2
<1>4. 1 \in DOMAIN s /\ \A k \in DOMAIN Tail(s) : k + 1 \in DOMAIN s /\ k + 1 # 1 /\ Tail(s)[k] = s[k + 1]
  BY <1>1, <1>2
<1>5. I!ToSet(s) = {Head(s)} \cup I!ToSet(Tail(s))
  <2>1. ASSUME NEW k \in DOMAIN s PROVE s[k] \in {Head(s)} \cup I!ToSet(Tail(s))
    <3>1. CASE k = 1
      BY <1>1, <3>1
    <3>2. CASE k # 1
      BY <1>3, <3>2 DEF I!ToSet
    <3>. QED BY <3>1, <3>2
  <2>2. ASSUME NEW k \in DOMAIN Tail(s) PROVE Tail(s)[k] \in I!ToSet(s)
    BY <1>4 DEF I!ToSet
  <2>3. Head(s) \in I!ToSet(s)
    BY <1>1, <1>4 DEF I!ToSet
  <2>. QED BY <2>1, <2>2, <2>3 DEF I!ToSet
<1>6. Head(s) \notin I!ToSet(Tail(s))
  BY <1>1, <1>4 DEF I!ToSet
<1>7. ASSUME NEW m \in DOMAIN Tail(s), NEW n \in DOMAIN Tail(s), Tail(s)[m] = Tail(s)[n] PROVE m = n
  <2>1. m + 1 = n + 1
    BY <1>4, <1>7
  <2>. QED BY <1>2, <2>1
<1>. QED BY <1>1, <1>5, <1>6, <1>7

(* One request goes on and the others do not.                              *)
LEMMA RequestGoesOn ==
  ASSUME I!IInv, NEW c \in Clients, NEW j \in I!Job, I!Shared(j), iJob' = [iJob EXCEPT ![c] = j]
  PROVE  iJob' \in [Clients -> I!Job] /\ \A d \in Clients : I!Shared(iJob'[d])
BY DEF I!IInv, I!TypeOK

(* What the rows have to be like while requests go on.                     *)
LEMMA OnlyRequests ==
  ASSUME I!IInv, iJob' \in [Clients -> I!Job], \A d \in Clients : I!Shared(iJob'[d]),
         UNCHANGED <<iTypes, made, figures>>, iLanded' \subseteq Tables,
         told' = told \/ I!EveryTableIsAccountedFor'
  PROVE  I!IInv'
<1>. USE DEF I!IInv
<1>1. I!TypeOK' /\ I!EarlierMade' /\ I!FiguresAreOfTypes'
  BY DEF I!TypeOK, I!EarlierMade, I!FiguresAreOfTypes
<1>2. I!OneOfEach'
  BY DEF I!OneOfEach
<1>3. I!EveryTableIsAccountedFor'
  BY DEF I!EveryTableIsAccountedFor
<1>. QED BY <1>1, <1>2, <1>3 DEF I!Shared

LEMMA IdleShares == I!Idle \in I!Job /\ I!Shared(I!Idle)
<1>1. I!ToSet(<<>>) = {}
  BY DEF I!ToSet
<1>2. I!Idle.todo = <<>> /\ <<>> \in Seq(Tables) /\ DOMAIN I!Idle.todo = {}
  BY EmptySeq DEF I!Idle
<1>3. I!Idle \in I!Job
  BY <1>2 DEF I!Idle, I!Job
<1>. QED BY <1>1, <1>2, <1>3 DEF I!Idle, I!Shared

LEMMA ImportAsked ==
  ASSUME I!IInv, NEW c \in Clients, NEW r \in Requests, I!AskImport(c, r)
  PROVE  I!IInv'
<1>. DEFINE j == [I!Idle EXCEPT !.at = "sync", !.todo = r, !.asked = I!ToSet(r)]
<1>1. r \in Seq(Tables) /\ r # <<>> /\ \A m, n \in DOMAIN r : r[m] = r[n] => m = n
  BY RequestsAreLists
<1>2. I!ToSet(r) \subseteq Tables
  BY <1>1, ElementOfSeq, LenProperties DEF I!ToSet
<1>3. /\ j.at = "sync" /\ j.todo = r /\ j.asked = I!ToSet(r) /\ j.sources = {} /\ j.failed = {} /\ j.keyed = {}
      /\ j \in I!Job
  BY <1>1, <1>2, IdleShares DEF I!Idle, I!Job
<1>. HIDE DEF j
<1>4. I!Shared(j)
  BY <1>1, <1>3 DEF I!Shared
<1>5. iJob' = [iJob EXCEPT ![c] = j] /\ UNCHANGED <<iLanded, iTypes, made, figures, told>>
  BY DEF I!AskImport, I!rows, j
<1>. QED BY <1>3, <1>4, <1>5, RequestGoesOn, OnlyRequests DEF I!IInv, I!TypeOK

(* The sync and its keys are stored: the same tables are still to do.      *)
LEMMA TableStarts ==
  ASSUME I!IInv, NEW c \in Clients, I!CreateSync(c) \/ I!StoreKeys(c)
  PROVE  I!IInv'
<1>1. PICK at \in {"keys", "run"} : iJob[c].at \in {"sync", "keys"} /\ iJob' = [iJob EXCEPT ![c] = [iJob[c] EXCEPT !.at = at]]
  BY DEF I!CreateSync, I!StoreKeys, I!To
<1>. DEFINE j == [iJob[c] EXCEPT !.at = at]
<1>2. iJob[c] \in I!Job /\ I!Shared(iJob[c])
  BY DEF I!IInv, I!TypeOK
<1>3. /\ j \in I!Job /\ j.at = at /\ j.todo = iJob[c].todo /\ j.asked = iJob[c].asked
      /\ j.sources = iJob[c].sources /\ j.failed = iJob[c].failed
  BY <1>2 DEF I!Job
<1>4. iJob' = [iJob EXCEPT ![c] = j]
  BY <1>1
<1>. HIDE DEF j
<1>5. I!Shared(j)
  BY <1>1, <1>2, <1>3 DEF I!Shared
<1>6. UNCHANGED <<iLanded, iTypes, made, figures, told>>
  BY DEF I!CreateSync, I!StoreKeys, I!rows
<1>. QED BY <1>3, <1>4, <1>5, <1>6, RequestGoesOn, OnlyRequests DEF I!IInv, I!TypeOK

(* A table that is done, landed or failed, leaves the list.                *)
LEMMA TableIsDone ==
  ASSUME I!IInv, NEW c \in Clients, NEW j \in I!Job, iJob[c].at \in {"sync", "keys", "run"},
         j.todo = Tail(iJob[c].todo), j.at = I!NextTable(j.todo), j.asked = iJob[c].asked,
         \/ j.sources = iJob[c].sources \cup {Head(iJob[c].todo)} /\ j.failed = iJob[c].failed
         \/ j.failed = iJob[c].failed \cup {Head(iJob[c].todo)} /\ j.sources = iJob[c].sources
  PROVE  I!Shared(j)
<1>1. iJob[c] \in I!Job /\ I!Shared(iJob[c])
  BY DEF I!IInv, I!TypeOK
<1>2. iJob[c].todo \in Seq(Tables) /\ iJob[c].todo # <<>> /\ \A m, n \in DOMAIN iJob[c].todo : iJob[c].todo[m] = iJob[c].todo[n] => m = n
  BY <1>1 DEF I!Job, I!Shared
<1>3. /\ I!ToSet(iJob[c].todo) = {Head(iJob[c].todo)} \cup I!ToSet(j.todo) /\ Head(iJob[c].todo) \notin I!ToSet(j.todo)
      /\ \A m, n \in DOMAIN j.todo : j.todo[m] = j.todo[n] => m = n
  BY <1>2, ListSplits
<1>4. j.at \in {"sync", "keys", "run"} <=> j.todo # <<>>
  BY DEF I!NextTable
<1>. QED BY <1>1, <1>3, <1>4 DEF I!Shared

LEMMA TableLands ==
  ASSUME I!IInv, NEW c \in Clients, I!Run(c)
  PROVE  I!IInv'
<1>. DEFINE t == Head(iJob[c].todo)  rest == Tail(iJob[c].todo)
            j == I!AfterLanding(iJob[c])
<1>1. iJob[c] \in I!Job /\ I!Shared(iJob[c]) /\ iJob[c].at = "run"
  BY DEF I!IInv, I!TypeOK, I!Run
<1>2. t \in Tables /\ rest \in Seq(Tables)
  BY <1>1, ListSplits DEF I!Job, I!Shared
<1>3. /\ j \in I!Job /\ j.todo = rest /\ j.at = I!NextTable(rest) /\ j.asked = iJob[c].asked
      /\ j.sources = iJob[c].sources \cup {t} /\ j.failed = iJob[c].failed
  BY <1>1, <1>2 DEF I!Job, I!NextTable, I!AfterLanding
<1>4. iLanded' = iLanded \cup {t} /\ UNCHANGED <<iTypes, made, figures, told>>
  BY DEF I!Run, I!rows
<1>4a. iJob' = [iJob EXCEPT ![c] = j]
  BY DEF I!Run
<1>. HIDE DEF j, rest, t
<1>5. I!Shared(j)
  BY <1>1, <1>3, TableIsDone DEF rest, t
<1>. QED BY <1>2, <1>3, <1>4, <1>4a, <1>5, RequestGoesOn, OnlyRequests DEF I!IInv, I!TypeOK

LEMMA TableIsNamed ==
  ASSUME I!IInv, NEW c \in Clients, I!TableFails(c)
  PROVE  I!IInv'
<1>. DEFINE t == Head(iJob[c].todo)  rest == Tail(iJob[c].todo)  j == I!AfterFailure(iJob[c])
<1>1. iJob[c] \in I!Job /\ I!Shared(iJob[c]) /\ iJob[c].at \in {"sync", "keys", "run"}
  BY DEF I!IInv, I!TypeOK, I!TableFails
<1>2. t \in Tables /\ rest \in Seq(Tables)
  BY <1>1, ListSplits DEF I!Job, I!Shared
<1>3. /\ j \in I!Job /\ j.todo = rest /\ j.at = I!NextTable(rest) /\ j.asked = iJob[c].asked
      /\ j.failed = iJob[c].failed \cup {t} /\ j.sources = iJob[c].sources
  BY <1>1, <1>2 DEF I!Job, I!NextTable, I!AfterFailure
<1>4. iJob' = [iJob EXCEPT ![c] = j] /\ UNCHANGED <<iLanded, iTypes, made, figures, told>>
  BY DEF I!TableFails, I!rows, I!Failing, I!TypeOK
<1>. HIDE DEF j, rest, t
<1>5. I!Shared(j)
  BY <1>1, <1>3, TableIsDone DEF rest, t
<1>. QED BY <1>3, <1>4, <1>5, RequestGoesOn, OnlyRequests DEF I!IInv, I!TypeOK

LEMMA RemodelAsked ==
  ASSUME I!IInv, NEW c \in Clients, I!AskRemodel(c)
  PROVE  I!IInv'
<1>. DEFINE there == DOMAIN synced \cap iLanded
            j == [I!Idle EXCEPT !.at = "profile", !.sources = there, !.keyed = {t \in there : synced[t]}, !.asked = there]
<1>1. there \subseteq Tables /\ {t \in there : synced[t]} \subseteq Tables
  BY DEF I!IInv, I!TypeOK
<1>2. /\ j \in I!Job /\ j.at = "profile" /\ j.todo = <<>> /\ j.asked = there /\ j.sources = there /\ j.failed = {}
  BY <1>1, IdleShares DEF I!Job, I!Idle
<1>3. iJob' = [iJob EXCEPT ![c] = j] /\ UNCHANGED <<iLanded, iTypes, made, figures, told>>
  BY DEF I!AskRemodel, I!rows
<1>. HIDE DEF j, there
<1>4. I!ToSet(<<>>) = {} /\ DOMAIN <<>> = {}
  BY DEF I!ToSet
<1>5. I!Shared(j)
  BY <1>2, <1>4 DEF I!Shared
<1>. QED BY <1>2, <1>3, <1>5, RequestGoesOn, OnlyRequests DEF I!IInv, I!TypeOK

(* When every table is done, what is answered is what was asked.           *)
LEMMA AnswersForAll ==
  ASSUME NEW j, I!Shared(j), j.at \in {"profile", "model"}
  PROVE  /\ I!Answer(j).asked = I!Answer(j).failed \cup I!Answer(j).modelled
         /\ I!Answer(j).failed \cap I!Answer(j).modelled = {}
<1>1. I!ToSet(<<>>) = {} /\ j.todo = <<>>
  BY DEF I!ToSet, I!Shared
<1>. QED BY <1>1 DEF I!Answer, I!Shared

LEMMA TablesProfiled ==
  ASSUME I!IInv, NEW c \in Clients, I!Profile(c)
  PROVE  I!IInv'
<1>. DEFINE j == iJob[c]
<1>1. j \in I!Job /\ I!Shared(j) /\ j.at = "profile"
  BY DEF I!IInv, I!TypeOK, I!Profile
<1>2. UNCHANGED <<iLanded, iTypes, made, figures>> /\ told' = IF j.sources = {} THEN I!Answer(j) ELSE told
  BY DEF I!Profile, I!rows
<1>3. told' = told \/ I!EveryTableIsAccountedFor'
  BY <1>1, <1>2, AnswersForAll DEF I!EveryTableIsAccountedFor
<1>4. iJob' \in [Clients -> I!Job] /\ \A d \in Clients : I!Shared(iJob'[d])
  <2>1. CASE iJob' = [iJob EXCEPT ![c] = I!Idle]
    BY <2>1, IdleShares, RequestGoesOn
  <2>2. CASE iJob' = [iJob EXCEPT ![c].at = "model"]
    <3>. DEFINE k == [j EXCEPT !.at = "model"]
    <3>1. /\ k \in I!Job /\ k.at = "model" /\ k.todo = j.todo /\ k.asked = j.asked
          /\ k.sources = j.sources /\ k.failed = j.failed
      BY <1>1 DEF I!Job
    <3>2. iJob' = [iJob EXCEPT ![c] = k]
      BY <2>2
    <3>. HIDE DEF k
    <3>3. I!Shared(k)
      BY <1>1, <3>1 DEF I!Shared
    <3>. QED BY <3>1, <3>2, <3>3, RequestGoesOn
  <2>. QED BY <2>1, <2>2 DEF I!Profile, I!To
<1>. QED BY <1>2, <1>3, <1>4, OnlyRequests DEF I!IInv, I!TypeOK

LEMMA ModelGivenUp ==
  ASSUME I!IInv, NEW c \in Clients, I!ModelFails(c)
  PROVE  I!IInv'
<1>1. iJob' = [iJob EXCEPT ![c] = I!Idle] /\ UNCHANGED <<iLanded, iTypes, made, figures, told>>
  BY DEF I!ModelFails, I!rows
<1>. QED BY <1>1, IdleShares, RequestGoesOn, OnlyRequests DEF I!IInv, I!TypeOK

(* The transaction: a type for each table that has none, a figure for each  *)
(* type that has none.                                                      *)
LEMMA TablesModelled ==
  ASSUME I!IInv, NEW c \in Clients, I!Model(c)
  PROVE  I!IInv'
<1>. DEFINE j == iJob[c]  all == I!Planned(j.sources)  on == {y \in all : y.on \in j.sources}
            new == {I!NewType(t) : t \in {u \in j.sources : I!TypesOn(u) = {}}}
<1>. USE DEF I!IInv
<1>1. j \in I!Job /\ I!Shared(j) /\ j.at = "model" /\ j.sources \subseteq Tables
  BY DEF I!TypeOK, I!Model, I!Job
<1>2. /\ iTypes' = all /\ \A y \in all : y.nth <= MaxTypes
      /\ made' = [t \in Tables |-> IF I!NewType(t) \in all THEN made[t] + 1 ELSE made[t]]
      /\ figures' = {f \in figures : f.adopted \/ f.on \notin on} \cup I!Automatic(on)
      /\ told' = I!Answer(j) /\ iJob' = [iJob EXCEPT ![c] = I!Idle] /\ UNCHANGED iLanded
  BY DEF I!Model
<1>3. all = iTypes \cup new
  BY DEF I!Planned
<1>4. \A t \in Tables : I!NewType(t).on = t /\ I!NewType(t).nth = made[t] + 1 /\ made[t] \in Nat
                       /\ I!NewType(t) \notin iTypes
  <2>. SUFFICES ASSUME NEW t \in Tables
                PROVE  I!NewType(t).on = t /\ I!NewType(t).nth = made[t] + 1 /\ made[t] \in Nat /\ I!NewType(t) \notin iTypes
    OBVIOUS
  <2>1. I!NewType(t).on = t /\ I!NewType(t).nth = made[t] + 1 /\ made[t] \in Nat
    BY EditingBounds DEF I!NewType, I!TypeOK
  <2>. QED BY <2>1 DEF I!EarlierMade
<1>5. \A y \in new : y.on \in j.sources /\ y = I!NewType(y.on) /\ I!TypesOn(y.on) = {} /\ y.nth = made[y.on] + 1
  BY <1>1, <1>4
<1>. HIDE DEF all, new, on
<1>6. \A y \in new : y \in I!Type
  BY <1>1, <1>2, <1>3, <1>4, <1>5, EditingBounds DEF I!Type, I!NewType
<1>7. all \subseteq I!Type /\ on \subseteq all
  BY <1>3, <1>6 DEF I!TypeOK, on
<1>8. made' \in [Tables -> 0..MaxTypes]
  <2>. SUFFICES ASSUME NEW t \in Tables PROVE (IF I!NewType(t) \in all THEN made[t] + 1 ELSE made[t]) \in 0..MaxTypes
    BY <1>2
  <2>1. made[t] \in 0..MaxTypes
    BY DEF I!TypeOK
  <2>. QED BY <1>2, <1>4, <2>1, EditingBounds
<1>9. figures' \subseteq [on : I!Type, adopted : BOOLEAN]
  <2>1. I!Automatic(on) \subseteq [on : I!Type, adopted : BOOLEAN]
    <3>1. \A y \in on : [on |-> y, adopted |-> FALSE] \in [on : I!Type, adopted : BOOLEAN]
      BY <1>7
    <3>. QED BY <3>1 DEF I!Automatic
  <2>. QED BY <1>2, <2>1 DEF I!TypeOK
<1>10. iJob' \in [Clients -> I!Job] /\ \A d \in Clients : I!Shared(iJob'[d])
  BY <1>2, IdleShares, RequestGoesOn
<1>11. I!TypeOK'
  BY <1>2, <1>7, <1>8, <1>9, <1>10 DEF I!TypeOK
<1>12. I!EarlierMade'
  <2>. SUFFICES ASSUME NEW y \in all PROVE y.nth <= made'[y.on]
    BY <1>2 DEF I!EarlierMade
  <2>1. y \in I!Type /\ y.on \in Tables /\ y.nth \in Nat /\ made[y.on] \in Nat
    BY <1>4, <1>7, EditingBounds DEF I!Type
  <2>2. CASE y \in iTypes
    BY <1>2, <2>1, <2>2 DEF I!EarlierMade
  <2>3. CASE y \in new
    BY <1>2, <1>3, <1>5, <2>1, <2>3
  <2>. QED BY <1>3, <2>2, <2>3
<1>13. I!FiguresAreOfTypes'
  <2>1. \A f \in I!Automatic(on) : f.on \in all
    <3>1. \A y \in on : [on |-> y, adopted |-> FALSE].on \in all
      BY <1>7
    <3>. QED BY <3>1 DEF I!Automatic
  <2>. QED BY <1>2, <1>3, <2>1 DEF I!FiguresAreOfTypes
<1>14. \A y, z \in all : y.on = z.on => y = z
  BY <1>3, <1>5 DEF I!OneOfEach, I!TypesOn
<1>15. ASSUME NEW y \in all PROVE \E f \in figures' : f.on = y /\ \A g \in figures' : g.on = y => g = f
  <2>. DEFINE auto == [on |-> y, adopted |-> FALSE]  own == [on |-> y, adopted |-> TRUE]
  <2>1. \A g \in figures' : g.on = y => g \in {auto, own}
    BY <1>9
  <2>2. CASE own \in figures
    <3>1. own \in figures'
      BY <1>2, <2>2
    <3>2. auto \notin figures
      <4>1. y \in iTypes
        BY <2>2 DEF I!FiguresAreOfTypes
      <4>2. PICK f \in figures : f.on = y /\ \A g \in figures : g.on = y => g = f
        BY <4>1 DEF I!OneOfEach
      <4>. QED BY <2>2, <4>2
    <3>3. auto \notin I!Automatic(on)
      BY <2>2 DEF I!Automatic
    <3>4. auto \notin figures'
      BY <1>2, <3>2, <3>3
    <3>. QED BY <2>1, <3>1, <3>4
  <2>3. CASE own \notin figures
    <3>1. own \notin figures'
      BY <1>2, <2>3 DEF I!Automatic
    <3>2. auto \in figures'
      <4>1. CASE y \in on
        BY <1>2, <2>3, <4>1 DEF I!Automatic
      <4>2. CASE y \notin on
        <5>1. y \in iTypes
          BY <1>3, <1>5, <4>2 DEF on
        <5>2. PICK f \in figures : f.on = y
          BY <5>1 DEF I!OneOfEach
        <5>3. f = auto
          BY <2>3, <5>2 DEF I!TypeOK
        <5>. QED BY <1>2, <4>2, <5>2, <5>3
      <4>. QED BY <4>1, <4>2
    <3>. QED BY <2>1, <3>1, <3>2
  <2>. QED BY <2>2, <2>3
<1>16. I!OneOfEach'
  BY <1>2, <1>14, <1>15 DEF I!OneOfEach
<1>17. I!EveryTableIsAccountedFor'
  BY <1>1, <1>2, AnswersForAll DEF I!EveryTableIsAccountedFor
<1>. QED BY <1>10, <1>11, <1>12, <1>13, <1>16, <1>17

(* A figure that is adopted takes the place of the automatic one.          *)
LEMMA FigureAdopted ==
  ASSUME I!IInv, NEW y \in iTypes, I!Adopt(y)
  PROVE  I!IInv'
<1>. DEFINE auto == [on |-> y, adopted |-> FALSE]  own == [on |-> y, adopted |-> TRUE]
<1>. USE DEF I!IInv
<1>1. /\ auto \in figures /\ figures' = (figures \ {auto}) \cup {own}
      /\ UNCHANGED <<synced, iLanded, iTypes, made, links, iJob, told>>
  BY DEF I!Adopt
<1>1a. own \in [on : I!Type, adopted : BOOLEAN] /\ own.on = y /\ auto.on = y
  BY DEF I!TypeOK
<1>. HIDE DEF auto, own
<1>2. I!TypeOK' /\ I!EarlierMade' /\ I!FiguresAreOfTypes' /\ (\A d \in Clients : I!Shared(iJob'[d])) /\ I!EveryTableIsAccountedFor'
  BY <1>1, <1>1a DEF I!TypeOK, I!EarlierMade, I!FiguresAreOfTypes, I!EveryTableIsAccountedFor
<1>3. ASSUME NEW z \in iTypes PROVE \E f \in figures' : f.on = z /\ \A g \in figures' : g.on = z => g = f
  <2>1. PICK f \in figures : f.on = z /\ \A g \in figures : g.on = z => g = f
    BY DEF I!OneOfEach
  <2>2. CASE z = y
    BY <1>1, <1>1a, <2>1, <2>2
  <2>3. CASE z # y
    BY <1>1, <1>1a, <2>1, <2>3
  <2>. QED BY <2>2, <2>3
<1>. QED BY <1>1, <1>2, <1>3 DEF I!OneOfEach

LEMMA TypeRemoved ==
  ASSUME I!IInv, NEW y \in iTypes, I!RemoveType(y)
  PROVE  I!IInv'
<1>. USE DEF I!IInv
<1>1. /\ iTypes' = iTypes \ {y} /\ figures' = {f \in figures : f.on # y}
      /\ UNCHANGED <<synced, iLanded, made, iJob, told>>
  BY DEF I!RemoveType, I!Gone
<1>2. I!TypeOK' /\ I!EarlierMade' /\ I!FiguresAreOfTypes' /\ (\A d \in Clients : I!Shared(iJob'[d])) /\ I!EveryTableIsAccountedFor'
  BY <1>1 DEF I!TypeOK, I!EarlierMade, I!FiguresAreOfTypes, I!EveryTableIsAccountedFor
<1>3. ASSUME NEW z \in iTypes' PROVE \E f \in figures' : f.on = z /\ \A g \in figures' : g.on = z => g = f
  <2>1. PICK f \in figures : f.on = z /\ \A g \in figures : g.on = z => g = f
    BY <1>1 DEF I!OneOfEach
  <2>. QED BY <1>1, <2>1
<1>. QED BY <1>1, <1>2, <1>3 DEF I!OneOfEach

LEMMA ImportsInit == I!Init => I!IInv
<1>. SUFFICES ASSUME I!Init PROVE I!IInv
  OBVIOUS
<1>1. I!TypeOK /\ \A c \in Clients : I!Shared(iJob[c])
  BY IdleShares, EditingBounds DEF I!Init, I!TypeOK
<1>. QED BY <1>1 DEF I!Init, I!IInv, I!EarlierMade, I!FiguresAreOfTypes, I!OneOfEach, I!EveryTableIsAccountedFor, I!Nothing

LEMMA ImportsStep == I!IInv /\ [I!Next]_imports => I!IInv'
<1>1. ASSUME I!IInv, I!Next PROVE I!IInv'
  <2>1. ASSUME NEW c \in Clients,
               \/ \E r \in Requests : I!AskImport(c, r)
               \/ I!CreateSync(c) \/ I!StoreKeys(c) \/ I!Run(c) \/ I!TableFails(c)
               \/ I!AskRemodel(c) \/ I!Profile(c) \/ I!Model(c) \/ I!ModelFails(c)
        PROVE  I!IInv'
    BY <1>1, <2>1, ImportAsked, TableStarts, TableLands, TableIsNamed, RemodelAsked, TablesProfiled, TablesModelled, ModelGivenUp
  <2>2. ASSUME NEW y \in iTypes, I!Adopt(y) \/ I!RemoveType(y) PROVE I!IInv'
    BY <1>1, <2>2, FigureAdopted, TypeRemoved
  <2>3. ASSUME NEW t \in Tables, I!RemoveDataset(t) PROVE I!IInv'
    <3>1. iLanded' \subseteq Tables /\ UNCHANGED <<iTypes, made, figures, told, iJob>>
      BY <1>1, <2>3 DEF I!RemoveDataset, I!rows, I!IInv, I!TypeOK
    <3>. QED BY <1>1, <3>1, OnlyRequests DEF I!IInv, I!TypeOK
  <2>. QED BY <1>1, <2>1, <2>2, <2>3 DEF I!Next
<1>2. ASSUME I!IInv, UNCHANGED imports PROVE I!IInv'
  BY <1>2, OnlyRequests DEF imports, I!IInv, I!TypeOK
<1>. QED BY <1>1, <1>2

(* However imports and removals overlap, a table has one type and a type    *)
(* one figure, and every table asked for is modelled or named as failed     *)
(* (importer.ts, modeling.ts).                                              *)
THEOREM ImportsHold == EditingSpec => []ImportsAreWhole
<1>1. Empty => I!IInv
  BY ImportsInit DEF Empty
<1>2. I!IInv /\ [Folding \/ Building \/ Boarding \/ Removing \/ Importing]_everything => I!IInv'
  <2>1. [Folding \/ Building \/ Boarding \/ Removing \/ Importing]_everything => [I!Next]_imports
    BY DEF Folding, Building, Boarding, Removing, Importing, everything
  <2>. QED BY <2>1, ImportsStep
<1>3. I!IInv => ImportsAreWhole
  BY DEF I!IInv, ImportsAreWhole
<1>. QED BY <1>1, <1>2, <1>3, PTL DEF EditingSpec

---------------------------------------------------------------------------
(* The removals (Removal).                                                 *)
---------------------------------------------------------------------------

(* What people make while no removal is under way is read by the next; what *)
(* they make during one is counted as spoiled.                             *)
LEMMA MakingKeeps ==
  ASSUME R!IInv, NEW xs \in SUBSET (Datasets \cup Names), xs # {}, R!Making(xs),
         R!TypeOK', R!ViewsAreTheirTypes', R!NothingOnNothing',
         \A n \in DOMAIN rTypes' \ xs : n \in DOMAIN rTypes /\ rTypes'[n] = rTypes[n],
         \A t \in Datasets \ xs : sync'[t] = sync[t],
         \A t \in schedule' : sync'[t] = "here" \/ (t \in schedule /\ rSpoiled # {})
  PROVE  R!IInv'
<1>. USE DEF R!IInv
<1>1. rJob' = rJob /\ rSpoiled' = IF R!Busy THEN rSpoiled \cup xs ELSE rSpoiled
  BY DEF R!Making
<1>2. CASE R!Busy
  <2>1. rSpoiled' = rSpoiled \cup xs /\ rSpoiled' # {}
    BY <1>1, <1>2
  <2>2. R!TypesFirst'
    BY <1>1, <2>1 DEF R!TypesFirst, R!TypeNames
  <2>3. R!OnlyOurs'
    BY <1>1, <2>1 DEF R!OnlyOurs
  <2>. QED BY <2>1, <2>2, <2>3 DEF R!Alone, R!SchedulesHaveSyncs, R!ScheduleFirst, R!CardLast
<1>3. CASE ~R!Busy
  <2>1. rSpoiled' = rSpoiled /\ \A c \in Removers : rJob'[c].todo = {}
    BY <1>1, <1>3 DEF R!Busy
  <2>2. R!SchedulesHaveSyncs'
    BY <2>1 DEF R!SchedulesHaveSyncs
  <2>. QED BY <2>1, <2>2 DEF R!TypesFirst, R!OnlyOurs, R!Alone, R!ScheduleFirst, R!CardLast
<1>. QED BY <1>2, <1>3

LEMMA SyncAdded ==
  ASSUME R!IInv, NEW t \in Datasets, NEW w \in {"here", "elsewhere"}, R!AddSync(t, w)
  PROVE  R!IInv'
<1>1. /\ R!Making({t}) /\ sync[t] = "none" /\ sync' = [sync EXCEPT ![t] = w]
      /\ UNCHANGED <<rLanded, reads, rTypes, schedule, card>>
  BY DEF R!AddSync
<1>2. rJob' = rJob /\ rSpoiled' \subseteq rSpoiled \cup {t}
  BY <1>1 DEF R!Making
<1>3. R!TypeOK'
  BY <1>1, <1>2 DEF R!IInv, R!TypeOK, R!TypeNames
<1>4. R!ViewsAreTheirTypes' /\ R!NothingOnNothing'
  BY <1>1, <1>2 DEF R!IInv, R!ViewsAreTheirTypes, R!NothingOnNothing, R!TypeNames, R!Relations, R!Making
<1>5. \A u \in Datasets \ {t} : sync'[u] = sync[u]
  BY <1>1 DEF R!IInv, R!TypeOK
<1>6. \A u \in schedule' : sync'[u] = "here" \/ (u \in schedule /\ rSpoiled # {})
  BY <1>1, <1>5 DEF R!IInv, R!SchedulesHaveSyncs, R!TypeOK
<1>. QED BY <1>1, <1>3, <1>4, <1>5, <1>6, MakingKeeps

LEMMA ScheduleAdded ==
  ASSUME R!IInv, NEW t \in Datasets, R!AddSchedule(t)
  PROVE  R!IInv'
<1>1. /\ R!Making({t}) /\ sync[t] = "here" /\ schedule' = schedule \cup {t}
      /\ UNCHANGED <<rLanded, reads, rTypes, sync, card>>
  BY DEF R!AddSchedule
<1>2. rJob' = rJob /\ rSpoiled' \subseteq rSpoiled \cup {t}
  BY <1>1 DEF R!Making
<1>3. R!TypeOK'
  BY <1>1, <1>2 DEF R!IInv, R!TypeOK, R!TypeNames
<1>4. R!ViewsAreTheirTypes' /\ R!NothingOnNothing'
  BY <1>1, <1>2 DEF R!IInv, R!ViewsAreTheirTypes, R!NothingOnNothing, R!TypeNames, R!Relations, R!Making
<1>6. \A u \in schedule' : sync'[u] = "here" \/ (u \in schedule /\ rSpoiled # {})
  BY <1>1 DEF R!IInv, R!SchedulesHaveSyncs
<1>. QED BY <1>1, <1>3, <1>4, <1>6, MakingKeeps

LEMMA CopyOrCardAdded ==
  ASSUME R!IInv, NEW t \in Datasets, R!RunSync(t) \/ R!RegisterByHand(t)
  PROVE  R!IInv'
<1>1. /\ R!Making({t}) /\ rLanded \subseteq rLanded' /\ rLanded' \subseteq rLanded \cup {t}
      /\ card' \in {card, [card EXCEPT ![t] = "system"], [card EXCEPT ![t] = "person"]}
      /\ UNCHANGED <<reads, rTypes, sync, schedule>>
  BY DEF R!RunSync, R!RegisterByHand
<1>2. rJob' = rJob /\ rSpoiled' \subseteq rSpoiled \cup {t} /\ rSpoiled \subseteq rSpoiled'
  BY <1>1 DEF R!Making
<1>3. R!TypeOK'
  BY <1>1, <1>2 DEF R!IInv, R!TypeOK, R!TypeNames
<1>4. R!ViewsAreTheirTypes' /\ R!NothingOnNothing'
  BY <1>1, <1>2 DEF R!IInv, R!ViewsAreTheirTypes, R!NothingOnNothing, R!TypeNames, R!Relations
<1>6. \A u \in schedule' : sync'[u] = "here" \/ (u \in schedule /\ rSpoiled # {})
  BY <1>1 DEF R!IInv, R!SchedulesHaveSyncs
<1>. QED BY <1>1, <1>3, <1>4, <1>6, MakingKeeps

LEMMA TableModelled ==
  ASSUME R!IInv, NEW n \in Names, NEW t \in Datasets, R!ModelTable(n, t)
  PROVE  R!IInv'
<1>1. /\ R!Making({n}) /\ t \in rLanded /\ n \notin DOMAIN rTypes \cup DOMAIN reads
      /\ rTypes' = R!With(rTypes, n, t) /\ UNCHANGED <<rLanded, reads, sync, schedule, card>>
  BY DEF R!ModelTable, R!TypeNames
<1>2. rJob' = rJob /\ rSpoiled' \subseteq rSpoiled \cup {n} /\ rSpoiled \subseteq rSpoiled'
  BY <1>1 DEF R!Making
<1>3. /\ DOMAIN rTypes' = DOMAIN rTypes \cup {n} /\ rTypes'[n] = t
      /\ \A m \in DOMAIN rTypes' \ {n} : m \in DOMAIN rTypes /\ rTypes'[m] = rTypes[m]
  BY <1>1 DEF R!With
<1>4. R!TypeOK'
  BY <1>1, <1>2, <1>3 DEF R!IInv, R!TypeOK, R!TypeNames
<1>5. R!ViewsAreTheirTypes'
  BY <1>1, <1>3, ViewsAreNotTables DEF R!IInv, R!ViewsAreTheirTypes, R!TypeNames
<1>6. R!NothingOnNothing'
  BY <1>1, <1>2, <1>3 DEF R!IInv, R!NothingOnNothing, R!TypeNames, R!Relations
<1>7. \A u \in schedule' : sync'[u] = "here" \/ (u \in schedule /\ rSpoiled # {})
  BY <1>1 DEF R!IInv, R!SchedulesHaveSyncs
<1>. QED BY <1>1, <1>3, <1>4, <1>5, <1>6, <1>7, MakingKeeps

LEMMA TablesCombined ==
  ASSUME R!IInv, NEW n \in Names, NEW ns \in SUBSET R!TypeNames, NEW m \in BOOLEAN, R!Combine(n, ns, m)
  PROVE  R!IInv'
<1>1. /\ R!Making({n}) /\ n \notin DOMAIN rTypes \cup DOMAIN reads /\ R!RelationsOf(ns) \subseteq R!Relations
      /\ reads' = R!With(reads, n, R!RelationsOf(ns)) /\ rTypes' \in {rTypes, R!With(rTypes, n, n)}
      /\ UNCHANGED <<rLanded, sync, schedule, card>>
  BY DEF R!Combine, R!TypeNames
<1>2. rJob' = rJob /\ rSpoiled' \subseteq rSpoiled \cup {n} /\ rSpoiled \subseteq rSpoiled'
  BY <1>1 DEF R!Making
<1>3. /\ DOMAIN reads' = DOMAIN reads \cup {n} /\ reads'[n] = R!RelationsOf(ns)
      /\ \A v \in DOMAIN reads : reads'[v] = reads[v]
  BY <1>1 DEF R!With
<1>4. /\ DOMAIN rTypes \subseteq DOMAIN rTypes' /\ DOMAIN rTypes' \subseteq DOMAIN rTypes \cup {n}
      /\ n \in DOMAIN rTypes' => rTypes'[n] = n
      /\ \A y \in DOMAIN rTypes' \ {n} : y \in DOMAIN rTypes /\ rTypes'[y] = rTypes[y]
  BY <1>1 DEF R!With
<1>5. R!TypeOK'
  BY <1>1, <1>2, <1>3, <1>4 DEF R!IInv, R!TypeOK, R!TypeNames
<1>6. R!ViewsAreTheirTypes'
  BY <1>1, <1>3, <1>4 DEF R!IInv, R!ViewsAreTheirTypes, R!TypeNames
<1>7. R!NothingOnNothing'
  <2>1. R!Relations' = R!Relations \cup {n}
    BY <1>1, <1>3 DEF R!Relations
  <2>. QED BY <1>1, <1>2, <1>3, <1>4, <2>1 DEF R!IInv, R!NothingOnNothing, R!TypeNames
<1>8. \A u \in schedule' : sync'[u] = "here" \/ (u \in schedule /\ rSpoiled # {})
  BY <1>1 DEF R!IInv, R!SchedulesHaveSyncs
<1>. QED BY <1>1, <1>4, <1>5, <1>6, <1>7, <1>8, MakingKeeps

(* A removal that begins alone has read all there is; one that does not     *)
(* spoils everything.                                                      *)
LEMMA BeginKeeps ==
  ASSUME R!IInv, NEW c \in Removers, NEW todo, NEW of \in Datasets \cup Names, R!Begin(c, todo, of),
         [todo |-> todo, of |-> of, lost |-> FALSE] \in R!Job,
         \A t \in Datasets :
            /\ R!Do("table", t) \notin todo
            /\ R!Do("parts", t) \in todo => \A n \in R!TypeNames : rTypes[n] = t => R!Do("type", n) \in todo
            /\ R!Do("sync", t) \in todo => R!Do("schedule", t) \in todo
            /\ R!Do("card", t) \in todo => card[t] # "none" /\ R!Do("parts", t) \in todo
  PROVE  R!IInv'
<1>. DEFINE j == [todo |-> todo, of |-> of, lost |-> FALSE]
<1>1. /\ UNCHANGED <<rLanded, reads, rTypes, sync, schedule, card>> /\ rJob[c].todo = {}
      /\ rJob' = [rJob EXCEPT ![c] = j] /\ rSpoiled' = IF R!Busy THEN Datasets \cup Names ELSE rSpoiled
  BY DEF R!Begin, R!world
<1>2. j \in R!Job /\ j.todo = todo
  OBVIOUS
<1>. HIDE DEF j
<1>3. /\ rJob' \in [Removers -> R!Job] /\ rJob'[c].todo = todo
      /\ \A d \in Removers \ {c} : rJob'[d] = rJob[d]
  BY <1>1, <1>2 DEF R!IInv, R!TypeOK
<1>4. rSpoiled \subseteq rSpoiled' /\ rSpoiled' \subseteq Datasets \cup Names
  BY <1>1 DEF R!IInv, R!TypeOK
<1>5. R!TypeOK' /\ R!ViewsAreTheirTypes' /\ R!NothingOnNothing'
  <2>1. R!TypeOK'
    BY <1>1, <1>3, <1>4 DEF R!IInv, R!TypeOK, R!TypeNames
  <2>. QED BY <2>1, <1>1, <1>4 DEF R!IInv, R!ViewsAreTheirTypes, R!NothingOnNothing, R!TypeNames, R!Relations
<1>6. CASE R!Busy
  <2>1. rSpoiled' = Datasets \cup Names /\ rSpoiled' # {}
    BY <1>1, <1>6
  <2>2. R!TypesFirst'
    BY <1>1, <2>1 DEF R!IInv, R!TypesFirst, R!TypeNames, R!TypeOK
  <2>3. R!OnlyOurs'
    BY <2>1 DEF R!OnlyOurs
  <2>. QED BY <1>5, <2>1, <2>2, <2>3 DEF R!IInv, R!Alone, R!SchedulesHaveSyncs, R!ScheduleFirst, R!CardLast
<1>7. CASE ~R!Busy
  <2>1. rSpoiled' = rSpoiled /\ \A d \in Removers : d # c => rJob'[d].todo = {}
    BY <1>1, <1>3, <1>7 DEF R!Busy
  <2>2. R!TypesFirst'
    BY <1>1, <1>3, <2>1 DEF R!IInv, R!TypesFirst, R!TypeNames
  <2>3. R!OnlyOurs' /\ R!Alone'
    BY <1>3, <2>1 DEF R!OnlyOurs, R!Alone
  <2>4. R!SchedulesHaveSyncs'
    BY <1>1, <2>1 DEF R!IInv, R!SchedulesHaveSyncs
  <2>5. R!ScheduleFirst'
    BY <1>1, <1>3, <2>1 DEF R!IInv, R!ScheduleFirst, R!TypeOK
  <2>6. R!CardLast'
    BY <1>1, <1>3, <2>1 DEF R!CardLast
  <2>. QED BY <1>5, <2>2, <2>3, <2>4, <2>5, <2>6 DEF R!IInv
<1>. QED BY <1>6, <1>7

LEMMA RemovalAsked ==
  ASSUME R!IInv, NEW c \in Removers, R!AskTo(c)
  PROVE  R!IInv'
<1>1. ASSUME NEW t \in Datasets, R!RemoveSync(c, t) PROVE R!IInv'
  <2>. DEFINE todo == {R!Do("schedule", t), R!Do("sync", t)}
  <2>1. [todo |-> todo, of |-> t, lost |-> FALSE] \in R!Job
    BY DEF R!Do, R!Job
  <2>2. R!Begin(c, todo, t)
    BY <1>1 DEF R!RemoveSync
  <2>3. \A u \in Datasets :
            /\ R!Do("table", u) \notin todo
            /\ R!Do("parts", u) \notin todo
            /\ R!Do("card", u) \notin todo
            /\ R!Do("sync", u) \in todo => R!Do("schedule", u) \in todo
    BY DEF R!Do
  <2>. HIDE DEF todo
  <2>4. \A u \in Datasets :
            /\ R!Do("table", u) \notin todo
            /\ R!Do("parts", u) \in todo => \A n \in R!TypeNames : rTypes[n] = u => R!Do("type", n) \in todo
            /\ R!Do("sync", u) \in todo => R!Do("schedule", u) \in todo
            /\ R!Do("card", u) \in todo => card[u] # "none" /\ R!Do("parts", u) \in todo
    BY <2>3
  <2>. QED BY <2>1, <2>2, <2>4, BeginKeeps
<1>2. ASSUME NEW n \in Names, R!RemoveType(c, n) PROVE R!IInv'
  <2>. DEFINE todo == {R!Do("type", n)}
  <2>1. [todo |-> todo, of |-> n, lost |-> FALSE] \in R!Job
    BY DEF R!Do, R!Job
  <2>2. R!Begin(c, todo, n)
    BY <1>2 DEF R!RemoveType
  <2>3. \A u \in Datasets :
            /\ R!Do("table", u) \notin todo
            /\ R!Do("parts", u) \notin todo
            /\ R!Do("sync", u) \notin todo
            /\ R!Do("card", u) \notin todo
    BY DEF R!Do
  <2>. HIDE DEF todo
  <2>. QED BY <2>1, <2>2, <2>3, BeginKeeps
<1>3. ASSUME NEW t \in Datasets, NEW b \in BOOLEAN, R!RemoveDataset(c, t, b) PROVE R!IInv'
  <2>. DEFINE todo == {R!Do("parts", t), R!Do("card", t)} \cup R!Dependents(t)
  <2>1. [todo |-> todo, of |-> t, lost |-> FALSE] \in R!Job
    <3>1. DOMAIN rTypes \subseteq Names
      BY DEF R!IInv, R!TypeOK
    <3>. QED BY <3>1 DEF R!Do, R!Job, R!Dependents, R!Combined, R!TypeNames
  <2>2. R!Begin(c, todo, t) /\ card[t] # "none"
    BY <1>3 DEF R!RemoveDataset
  <2>3. \A u \in Datasets :
            /\ R!Do("table", u) \notin todo
            /\ R!Do("sync", u) \notin todo
            /\ R!Do("card", u) \in todo => u = t
            /\ R!Do("parts", u) \in todo => u = t
    BY DEF R!Do, R!Dependents, R!Combined
  <2>4. R!Do("parts", t) \in todo /\ \A n \in R!TypeNames : rTypes[n] = t => R!Do("type", n) \in todo
    BY DEF R!Dependents
  <2>. HIDE DEF todo
  <2>5. \A u \in Datasets :
            /\ R!Do("table", u) \notin todo
            /\ R!Do("parts", u) \in todo => \A n \in R!TypeNames : rTypes[n] = u => R!Do("type", n) \in todo
            /\ R!Do("sync", u) \in todo => R!Do("schedule", u) \in todo
            /\ R!Do("card", u) \in todo => card[u] # "none" /\ R!Do("parts", u) \in todo
    BY <2>2, <2>3, <2>4
  <2>. QED BY <2>1, <2>2, <2>5, BeginKeeps
<1>. QED BY <1>1, <1>2, <1>3 DEF R!AskTo

(* A removal that stops leaves the rows as they are.                       *)
LEMMA StopKeeps ==
  ASSUME R!IInv, NEW c \in Removers, rJob' = [rJob EXCEPT ![c] = R!Idle],
         UNCHANGED <<rLanded, reads, rTypes, sync, schedule, card, rSpoiled>>
  PROVE  R!IInv'
<1>. USE DEF R!IInv
<1>1. R!Idle \in R!Job /\ R!Idle.todo = {}
  BY DEF R!Idle, R!Job
<1>2. /\ rJob' \in [Removers -> R!Job] /\ rJob'[c].todo = {}
      /\ \A d \in Removers : d # c => rJob'[d] = rJob[d]
  BY <1>1 DEF R!TypeOK
<1>3. R!TypeOK' /\ R!ViewsAreTheirTypes' /\ R!NothingOnNothing' /\ R!SchedulesHaveSyncs'
  <2>1. R!TypeOK'
    BY <1>2 DEF R!TypeOK, R!TypeNames
  <2>. QED BY <2>1 DEF R!ViewsAreTheirTypes, R!NothingOnNothing, R!SchedulesHaveSyncs, R!TypeNames, R!Relations
<1>4. R!TypesFirst'
  BY <1>2 DEF R!TypesFirst, R!TypeNames
<1>5. R!OnlyOurs' /\ R!Alone'
  BY <1>2 DEF R!OnlyOurs, R!Alone
<1>6. R!ScheduleFirst' /\ R!CardLast'
  BY <1>2 DEF R!ScheduleFirst, R!CardLast
<1>. QED BY <1>3, <1>4, <1>5, <1>6

(* After a statement is done, the others are still to do.                  *)
LEMMA StatementDone ==
  ASSUME R!IInv, NEW c \in Removers, NEW s \in R!First(rJob[c].todo), NEW did \in BOOLEAN, R!Rest(c, s, did)
  PROVE  /\ rJob' \in [Removers -> R!Job] /\ rJob'[c].todo = rJob[c].todo \ {s} /\ s \in rJob[c].todo
         /\ \A d \in Removers : d # c => rJob'[d] = rJob[d]
         /\ \A d \in rJob[c].todo : R!Place(s.what) <= R!Place(d.what)
         /\ s = R!Do(s.what, s.on) /\ s.on \in Datasets \cup Names /\ rSpoiled' = rSpoiled
<1>1. rJob \in [Removers -> R!Job] /\ rJob[c] \in R!Job
  BY DEF R!IInv, R!TypeOK
<1>. DEFINE rest == rJob[c].todo \ {s}
            j == IF rest = {} THEN R!Idle ELSE [todo |-> rest, of |-> rJob[c].of, lost |-> rJob[c].lost \/ did]
<1>2. rJob' = [rJob EXCEPT ![c] = j] /\ rSpoiled' = rSpoiled
  BY Zenon DEF R!Rest
<1>3. s \in rJob[c].todo /\ \A d \in rJob[c].todo : R!Place(s.what) <= R!Place(d.what)
  BY DEF R!First
<1>4. j \in R!Job /\ j.todo = rJob[c].todo \ {s}
  <2>1. R!Idle \in R!Job /\ R!Idle.todo = {}
    BY DEF R!Idle, R!Job
  <2>2. rJob[c].lost \in BOOLEAN /\ rJob[c].of \in Datasets \cup Names \cup {None}
    BY <1>1 DEF R!Job
  <2>3. (rJob[c].lost \/ did) \in BOOLEAN
    OBVIOUS
  <2>. HIDE DEF rest
  <2>4. rest = {} => j = R!Idle
    OBVIOUS
  <2>5. rest # {} => j = [todo |-> rest, of |-> rJob[c].of, lost |-> rJob[c].lost \/ did]
    BY Zenon
  <2>6. rest \subseteq rJob[c].todo
    BY DEF rest
  <2>7. rest # {} => j \in R!Job /\ j.todo = rest
    BY <1>1, <2>2, <2>3, <2>5, <2>6 DEF R!Job
  <2>. QED BY <2>1, <2>4, <2>7 DEF rest
<1>. HIDE DEF j
<1>5. s = R!Do(s.what, s.on) /\ s.on \in Datasets \cup Names
  BY <1>1, <1>3 DEF R!Job, R!Do
<1>. QED BY <1>1, <1>2, <1>3, <1>4, <1>5

(* With nobody in the way, every other removal is done.                    *)
LEMMA OnlyOne ==
  ASSUME R!IInv, NEW c \in Removers, rJob[c].todo # {}, rSpoiled = {}
  PROVE  \A d \in Removers : d # c => rJob[d].todo = {}
BY DEF R!IInv, R!Alone

LEMMA PartsRead ==
  ASSUME R!IInv, NEW c \in Removers, NEW s \in R!First(rJob[c].todo), R!ReadParts(c, s)
  PROVE  R!IInv'
<1>. USE DEF R!IInv
<1>1. /\ rJob \in [Removers -> R!Job] /\ rJob[c] \in R!Job /\ s \in rJob[c].todo /\ s.what = "parts"
      /\ rJob' = [rJob EXCEPT ![c] = [rJob[c] EXCEPT !.todo = (rJob[c].todo \ {s}) \cup R!After(s.on)]]
      /\ UNCHANGED <<rLanded, reads, rTypes, sync, schedule, card, rSpoiled>>
  BY DEF R!TypeOK, R!First, R!ReadParts, R!world
<1>. DEFINE t == s.on
<1>2. s = R!Do("parts", t) /\ t \in Datasets \cup Names
  BY <1>1 DEF R!Job, R!Do
<1>3. /\ R!After(t) \subseteq {R!Do("schedule", t), R!Do("sync", t), R!Do("table", t)}
      /\ sync[t] = "here" => R!Do("schedule", t) \in R!After(t) /\ R!Do("sync", t) \in R!After(t)
      /\ R!Do("table", t) \in R!After(t) <=> R!Owns(t)
      /\ R!Do("sync", t) \in R!After(t) => R!Do("schedule", t) \in R!After(t)
  BY DEF R!After, R!Do
<1>. DEFINE todo == (rJob[c].todo \ {s}) \cup R!After(t)
<1>. HIDE DEF t
<1>4. todo \subseteq [what : {"parts", "type", "combined", "schedule", "sync", "table", "card"}, on : Datasets \cup Names]
  <2>1. R!After(t) \subseteq [what : {"parts", "type", "combined", "schedule", "sync", "table", "card"}, on : Datasets \cup Names]
    BY <1>2, <1>3 DEF R!Do
  <2>. QED BY <1>1, <2>1 DEF R!Job
<1>5. rJob' = [rJob EXCEPT ![c] = [rJob[c] EXCEPT !.todo = todo]]
  BY <1>1 DEF t
<1>6. \A u : /\ R!Do("type", u) \in rJob[c].todo => R!Do("type", u) \in todo
             /\ R!Do("card", u) \in rJob[c].todo <=> R!Do("card", u) \in todo
             /\ R!Do("table", u) \in todo => R!Do("table", u) \in rJob[c].todo \/ (u = t /\ R!Owns(t))
             /\ R!Do("table", u) \in rJob[c].todo => R!Do("table", u) \in todo
             /\ R!Do("parts", u) \in todo => R!Do("parts", u) \in rJob[c].todo
             /\ R!Do("parts", u) \in rJob[c].todo => R!Do("parts", u) \in todo \/ u = t
             /\ R!Do("schedule", u) \in rJob[c].todo => R!Do("schedule", u) \in todo
             /\ R!Do("sync", u) \in rJob[c].todo => R!Do("sync", u) \in todo
             /\ R!Do("sync", u) \in todo => R!Do("sync", u) \in rJob[c].todo \/ R!Do("schedule", u) \in todo
  BY <1>2, <1>3 DEF R!Do
<1>7. /\ R!Owns(t) => R!Do("table", t) \in todo
      /\ sync[t] = "here" => R!Do("sync", t) \in todo /\ R!Do("schedule", t) \in todo
  BY <1>3
<1>. HIDE DEF todo
<1>8. /\ rJob' \in [Removers -> R!Job] /\ rJob'[c].todo = todo
      /\ \A d \in Removers : d # c => rJob'[d] = rJob[d]
  <2>. DEFINE j == [rJob[c] EXCEPT !.todo = todo]
  <2>1. j \in R!Job /\ j.todo = todo
    BY <1>1, <1>4 DEF R!Job
  <2>2. rJob' = [rJob EXCEPT ![c] = j]
    BY <1>5
  <2>. HIDE DEF j
  <2>. QED BY <1>1, <2>1, <2>2
<1>9. R!TypeOK' /\ R!ViewsAreTheirTypes' /\ R!NothingOnNothing' /\ R!SchedulesHaveSyncs'
  <2>1. R!TypeOK'
    BY <1>1, <1>8 DEF R!TypeOK, R!TypeNames
  <2>. QED BY <1>1, <2>1 DEF R!ViewsAreTheirTypes, R!NothingOnNothing, R!SchedulesHaveSyncs, R!TypeNames, R!Relations
<1>10. R!TypesFirst'
  <2>1. ASSUME NEW u \in Datasets, R!Do("parts", u) \in todo \/ R!Do("table", u) \in todo, NEW n \in DOMAIN rTypes \ rSpoiled, rTypes[n] = u
        PROVE  R!Do("type", n) \in todo
    <3>1. R!Do("parts", u) \in rJob[c].todo \/ R!Do("table", u) \in rJob[c].todo
      BY <1>1, <1>2, <1>6, <2>1
    <3>. QED BY <1>6, <2>1, <3>1 DEF R!TypesFirst, R!TypeNames
  <2>. QED BY <1>1, <1>8, <2>1 DEF R!TypesFirst, R!TypeNames
<1>11. R!OnlyOurs'
  <2>1. ASSUME NEW u \in Datasets, R!Do("table", u) \in todo PROVE u \in rSpoiled \/ sync[u] # "elsewhere"
    BY <1>6, <2>1 DEF R!OnlyOurs, R!Owns
  <2>. QED BY <1>1, <1>8, <2>1 DEF R!OnlyOurs
<1>12. R!Alone'
  BY <1>1, <1>8 DEF R!Alone
<1>13. R!ScheduleFirst'
  <2>1. ASSUME rSpoiled = {}, NEW u \in schedule, R!Do("sync", u) \in todo PROVE R!Do("schedule", u) \in todo
    BY <1>6, <2>1 DEF R!ScheduleFirst
  <2>. QED BY <1>1, <1>8, <2>1 DEF R!ScheduleFirst
<1>14. R!CardLast'
  <2>1. ASSUME rSpoiled = {}, NEW u \in Datasets, R!Do("card", u) \in todo
        PROVE  /\ card[u] # "none"
               /\ R!Do("parts", u) \in todo
                  \/ /\ sync[u] = "here" => R!Do("sync", u) \in todo
                     /\ u \in schedule => R!Do("schedule", u) \in todo
                     /\ u \in rLanded => sync[u] = "elsewhere" \/ card[u] = "person" \/ R!Do("table", u) \in todo
    <3>1. R!Do("card", u) \in rJob[c].todo /\ card[u] # "none"
      BY <1>6, <2>1 DEF R!CardLast
    <3>2. CASE u = t
      <4>1. u \in schedule => sync[u] = "here"
        BY <2>1 DEF R!SchedulesHaveSyncs
      <4>2. u \in rLanded => sync[u] = "elsewhere" \/ card[u] = "person" \/ R!Owns(u)
        BY <3>1 DEF R!Owns, R!TypeOK
      <4>. QED BY <1>7, <3>1, <3>2, <4>1, <4>2
    <3>3. CASE u # t
      <4>1. R!Do("parts", u) \in rJob[c].todo
            \/ /\ sync[u] = "here" => R!Do("sync", u) \in rJob[c].todo
               /\ u \in schedule => R!Do("schedule", u) \in rJob[c].todo
               /\ u \in rLanded => sync[u] = "elsewhere" \/ card[u] = "person" \/ R!Do("table", u) \in rJob[c].todo
        BY <2>1, <3>1 DEF R!CardLast
      <4>. QED BY <1>6, <3>1, <3>3, <4>1
    <3>. QED BY <3>2, <3>3
  <2>2. rSpoiled = {} => \A d \in Removers : d # c => rJob'[d].todo = {}
    BY <1>1, <1>8, OnlyOne
  <2>. QED BY <1>1, <1>8, <2>1, <2>2 DEF R!CardLast
<1>. QED BY <1>9, <1>10, <1>11, <1>12, <1>13, <1>14

(* What every statement keeps, if it keeps the rows it should.             *)
LEMMA RestKeeps ==
  ASSUME R!IInv, NEW c \in Removers, NEW s \in R!First(rJob[c].todo), NEW did \in BOOLEAN, R!Rest(c, s, did),
         s.what # "parts", R!TypeOK', R!ViewsAreTheirTypes', R!NothingOnNothing',
         \A n \in DOMAIN rTypes' : n \in DOMAIN rTypes /\ rTypes'[n] = rTypes[n],
         s.what \in {"type", "combined"} => s.on \notin DOMAIN rTypes',
         \A t \in Datasets : sync'[t] = sync[t] \/ (s = R!Do("sync", t) /\ sync[t] = "here" /\ sync'[t] = "none"),
         \A t \in Datasets : card'[t] = card[t] \/ s = R!Do("card", t),
         schedule' \subseteq schedule, rLanded' \subseteq rLanded,
         s.what = "schedule" => s.on \notin schedule',
         s.what = "sync" /\ s.on \in Datasets => sync'[s.on] # "here",
         s.what = "table" => s.on \notin rLanded'
  PROVE  R!IInv'
<1>. USE DEF R!IInv
<1>1. /\ rJob' \in [Removers -> R!Job] /\ rJob'[c].todo = rJob[c].todo \ {s} /\ s \in rJob[c].todo
      /\ \A d \in Removers : d # c => rJob'[d] = rJob[d]
      /\ \A d \in rJob[c].todo : R!Place(s.what) <= R!Place(d.what)
      /\ s = R!Do(s.what, s.on) /\ rSpoiled' = rSpoiled
  BY StatementDone
<1>2. rSpoiled = {} => \A d \in Removers : d # c => rJob'[d].todo = {}
  BY <1>1, OnlyOne
<1>3. \A w, t : R!Do(w, t) \in rJob[c].todo => R!Do(w, t) \in rJob'[c].todo \/ (s.what = w /\ s.on = t)
  BY <1>1 DEF R!Do
<1>4. \A w, t : R!Do(w, t) \in rJob'[c].todo => R!Do(w, t) \in rJob[c].todo /\ R!Place(s.what) <= R!Place(w)
  BY <1>1 DEF R!Do
<1>5. R!TypesFirst'
  <2>1. ASSUME NEW d \in Removers, NEW t \in Datasets, NEW n \in DOMAIN rTypes' \ rSpoiled', rTypes'[n] = t,
               R!Do("parts", t) \in rJob'[d].todo \/ R!Do("table", t) \in rJob'[d].todo
        PROVE  R!Do("type", n) \in rJob'[d].todo
    <3>1. n \in DOMAIN rTypes \ rSpoiled /\ rTypes[n] = t
      BY <1>1, <2>1
    <3>2. R!Do("parts", t) \in rJob[d].todo \/ R!Do("table", t) \in rJob[d].todo
      BY <1>1, <2>1
    <3>3. R!Do("type", n) \in rJob[d].todo
      BY <3>1, <3>2 DEF R!TypesFirst, R!TypeNames
    <3>. QED BY <1>1, <1>3, <2>1, <3>3
  <2>. QED BY <2>1 DEF R!TypesFirst, R!TypeNames
<1>6. R!OnlyOurs'
  <2>1. ASSUME NEW d \in Removers, NEW t \in Datasets, R!Do("table", t) \in rJob'[d].todo
        PROVE  t \in rSpoiled' \/ sync'[t] # "elsewhere"
    <3>1. R!Do("table", t) \in rJob[d].todo
      BY <1>1, <2>1
    <3>. QED BY <1>1, <3>1 DEF R!OnlyOurs
  <2>. QED BY <2>1 DEF R!OnlyOurs
<1>7. R!Alone'
  BY <1>1, <1>2 DEF R!Alone
<1>8. R!SchedulesHaveSyncs'
  <2>1. ASSUME rSpoiled = {}, NEW t \in schedule' PROVE sync'[t] = "here"
    <3>1. t \in Datasets /\ t \in schedule /\ sync[t] = "here"
      BY <2>1 DEF R!SchedulesHaveSyncs, R!TypeOK
    <3>2. s # R!Do("sync", t)
      <4>1. SUFFICES ASSUME s = R!Do("sync", t) PROVE FALSE
        OBVIOUS
      <4>2. R!Do("schedule", t) \in rJob[c].todo /\ s.what = "sync"
        BY <1>1, <2>1, <3>1, <4>1 DEF R!ScheduleFirst, R!Do
      <4>3. R!Place("sync") <= R!Place("schedule")
        BY <1>1, <4>2 DEF R!Do
      <4>. QED BY <4>3 DEF R!Place
    <3>. QED BY <3>1, <3>2
  <2>. QED BY <1>1, <2>1 DEF R!SchedulesHaveSyncs
<1>9. R!ScheduleFirst'
  <2>1. ASSUME rSpoiled = {}, NEW t \in schedule', R!Do("sync", t) \in rJob'[c].todo PROVE R!Do("schedule", t) \in rJob'[c].todo
    <3>1. R!Do("schedule", t) \in rJob[c].todo
      BY <1>4, <2>1 DEF R!ScheduleFirst
    <3>. QED BY <1>3, <2>1, <3>1
  <2>. QED BY <1>1, <1>2, <2>1 DEF R!ScheduleFirst
<1>10. R!CardLast'
  <2>1. ASSUME rSpoiled = {}, NEW t \in Datasets, R!Do("card", t) \in rJob'[c].todo
        PROVE  /\ card'[t] # "none"
               /\ R!Do("parts", t) \in rJob'[c].todo
                  \/ /\ sync'[t] = "here" => R!Do("sync", t) \in rJob'[c].todo
                     /\ t \in schedule' => R!Do("schedule", t) \in rJob'[c].todo
                     /\ t \in rLanded' => sync'[t] = "elsewhere" \/ card'[t] = "person" \/ R!Do("table", t) \in rJob'[c].todo
    <3>1. R!Do("card", t) \in rJob[c].todo /\ s # R!Do("card", t) /\ card'[t] = card[t] /\ card[t] # "none"
      BY <1>1, <2>1 DEF R!CardLast
    <3>3. CASE R!Do("parts", t) \in rJob[c].todo
      BY <1>3, <3>1, <3>3
    <3>4. CASE R!Do("parts", t) \notin rJob[c].todo
      <4>1. /\ sync[t] = "here" => R!Do("sync", t) \in rJob[c].todo
            /\ t \in schedule => R!Do("schedule", t) \in rJob[c].todo
            /\ t \in rLanded => sync[t] = "elsewhere" \/ card[t] = "person" \/ R!Do("table", t) \in rJob[c].todo
        BY <2>1, <3>1, <3>4 DEF R!CardLast
      <4>2. sync'[t] = "here" => R!Do("sync", t) \in rJob'[c].todo
        BY <1>3, <4>1
      <4>3. t \in schedule' => R!Do("schedule", t) \in rJob'[c].todo
        BY <1>3, <4>1
      <4>4. t \in rLanded' => sync'[t] = "elsewhere" \/ card'[t] = "person" \/ R!Do("table", t) \in rJob'[c].todo
        <5>1. sync[t] = "elsewhere" => sync'[t] = "elsewhere"
          OBVIOUS
        <5>. QED BY <1>3, <3>1, <4>1, <5>1
      <4>. QED BY <3>1, <4>2, <4>3, <4>4
    <3>. QED BY <3>3, <3>4
  <2>. QED BY <1>1, <1>2, <2>1 DEF R!CardLast
<1>. QED BY <1>5, <1>6, <1>7, <1>8, <1>9, <1>10

(* A type goes with the view made for it, which nothing reads.             *)
LEMMA TypeDropped ==
  ASSUME R!IInv, NEW c \in Removers, NEW s \in R!First(rJob[c].todo), R!DropType(c, s)
  PROVE  R!IInv'
<1>. DEFINE n == s.on
<1>1. /\ R!Rest(c, s, n \in R!TypeNames) /\ ~R!IsRead(n) /\ s.what \in {"type", "combined"}
      /\ rTypes' = R!Without(rTypes, n) /\ reads' = IF n \in R!TypeNames THEN R!Without(reads, n) ELSE reads
      /\ UNCHANGED <<rLanded, sync, schedule, card>>
  BY DEF R!DropType
<1>2. (n \in R!TypeNames) \in BOOLEAN
  OBVIOUS
<1>. HIDE DEF n
<1>3. rJob' \in [Removers -> R!Job] /\ rSpoiled' = rSpoiled /\ n \in Datasets \cup Names
  BY <1>1, <1>2, StatementDone DEF n
<1>4. /\ DOMAIN rTypes' = DOMAIN rTypes \ {n} /\ \A m \in DOMAIN rTypes' : rTypes'[m] = rTypes[m]
      /\ DOMAIN reads' \subseteq DOMAIN reads /\ DOMAIN reads \subseteq DOMAIN reads' \cup {n}
      /\ \A v \in DOMAIN reads' : reads'[v] = reads[v]
      /\ n \in DOMAIN rTypes => n \notin DOMAIN reads'
      /\ n \notin DOMAIN rTypes => DOMAIN reads' = DOMAIN reads
  BY <1>1 DEF R!Without, R!TypeNames
<1>5. R!TypeOK'
  BY <1>1, <1>3, <1>4 DEF R!IInv, R!TypeOK, R!TypeNames
<1>6. R!ViewsAreTheirTypes'
  BY <1>4 DEF R!IInv, R!ViewsAreTheirTypes, R!TypeNames
<1>7. R!NothingOnNothing'
  <2>1. CASE DOMAIN reads' = DOMAIN reads
    <3>1. R!Relations' = R!Relations
      BY <1>1, <2>1 DEF R!Relations
    <3>. QED BY <1>3, <1>4, <2>1, <3>1 DEF R!IInv, R!NothingOnNothing, R!TypeNames
  <2>2. CASE DOMAIN reads' # DOMAIN reads
    <3>1. n \in DOMAIN rTypes /\ n \in DOMAIN reads /\ rTypes[n] = n
      BY <1>4, <2>2 DEF R!IInv, R!ViewsAreTheirTypes, R!TypeNames
    <3>2. \A v \in DOMAIN reads : n \notin reads[v]
      BY <1>1, <3>1 DEF R!IsRead, R!ViewsReading, R!TypeNames
    <3>3. \A m \in DOMAIN rTypes' : rTypes[m] # n
      <4>1. n \notin Datasets
        BY <3>1, ViewsAreNotTables DEF R!IInv, R!TypeOK
      <4>. QED BY <1>4, <4>1 DEF R!IInv, R!TypeOK, R!TypeNames
    <3>4. R!Relations \ {n} \subseteq R!Relations'
      BY <1>1, <1>4 DEF R!Relations
    <3>. QED BY <1>3, <1>4, <3>2, <3>3, <3>4 DEF R!IInv, R!NothingOnNothing, R!TypeNames
  <2>. QED BY <2>1, <2>2
<1>8. \A m \in DOMAIN rTypes' : m \in DOMAIN rTypes /\ rTypes'[m] = rTypes[m]
  BY <1>4
<1>9. s.on \notin DOMAIN rTypes' /\ s.what # "parts" /\ s.what # "schedule" /\ s.what # "sync" /\ s.what # "table"
  BY <1>1, <1>4 DEF n
<1>. QED BY <1>1, <1>2, <1>5, <1>6, <1>7, <1>8, <1>9, RestKeeps

LEMMA ScheduleDropped ==
  ASSUME R!IInv, NEW c \in Removers, NEW s \in R!First(rJob[c].todo), R!DropSchedule(c, s)
  PROVE  R!IInv'
<1>1. /\ R!Rest(c, s, TRUE) /\ s.what = "schedule" /\ schedule' = schedule \ {s.on}
      /\ UNCHANGED <<rLanded, reads, rTypes, sync, card>>
  BY DEF R!DropSchedule
<1>2. rJob' \in [Removers -> R!Job] /\ rSpoiled' = rSpoiled
  BY <1>1, StatementDone
<1>3. R!TypeOK' /\ R!ViewsAreTheirTypes' /\ R!NothingOnNothing'
  <2>1. R!TypeOK'
    BY <1>1, <1>2 DEF R!IInv, R!TypeOK, R!TypeNames
  <2>. QED BY <1>1, <1>2, <2>1 DEF R!IInv, R!ViewsAreTheirTypes, R!NothingOnNothing, R!TypeNames, R!Relations
<1>4. s.on \notin schedule' /\ schedule' \subseteq schedule
  BY <1>1
<1>. QED BY <1>1, <1>3, <1>4, RestKeeps

LEMMA SyncDropped ==
  ASSUME R!IInv, NEW c \in Removers, NEW s \in R!First(rJob[c].todo), R!DropSync(c, s)
  PROVE  R!IInv'
<1>1. CASE sync[s.on] = "here"
  <2>1. /\ R!Rest(c, s, TRUE) /\ s.what = "sync" /\ sync' = [sync EXCEPT ![s.on] = "none"]
        /\ UNCHANGED <<rLanded, reads, rTypes, schedule, card>>
    BY <1>1 DEF R!DropSync
  <2>2. rJob' \in [Removers -> R!Job] /\ rSpoiled' = rSpoiled /\ s = R!Do("sync", s.on)
    BY <2>1, StatementDone
  <2>3. R!TypeOK' /\ R!ViewsAreTheirTypes' /\ R!NothingOnNothing'
    <3>1. R!TypeOK'
      BY <2>1, <2>2 DEF R!IInv, R!TypeOK, R!TypeNames
    <3>. QED BY <2>1, <2>2, <3>1 DEF R!IInv, R!ViewsAreTheirTypes, R!NothingOnNothing, R!TypeNames, R!Relations
  <2>4. \A t \in Datasets : sync'[t] = sync[t] \/ (s = R!Do("sync", t) /\ sync[t] = "here" /\ sync'[t] = "none")
    BY <1>1, <2>1, <2>2 DEF R!IInv, R!TypeOK
  <2>5. s.on \in Datasets => sync'[s.on] # "here"
    BY <2>1 DEF R!IInv, R!TypeOK
  <2>. QED BY <2>1, <2>3, <2>4, <2>5, RestKeeps
<1>2. CASE sync[s.on] # "here"
  BY <1>2, StopKeeps DEF R!DropSync, R!Stops, R!world
<1>. QED BY <1>1, <1>2

(* A table goes when nothing reads it: the types on it have gone before.   *)
LEMMA TableDropped ==
  ASSUME R!IInv, NEW c \in Removers, NEW s \in R!First(rJob[c].todo), R!DropTable(c, s)
  PROVE  R!IInv'
<1>1. CASE R!ViewsReading(s.on) = {}
  <2>1. /\ R!Rest(c, s, TRUE) /\ s.what = "table" /\ rLanded' = rLanded \ {s.on}
        /\ UNCHANGED <<reads, rTypes, sync, schedule, card>>
    BY <1>1 DEF R!DropTable
  <2>2. /\ rJob' \in [Removers -> R!Job] /\ rSpoiled' = rSpoiled /\ s = R!Do("table", s.on)
        /\ s \in rJob[c].todo /\ s.on \in Datasets \cup Names
        /\ \A d \in rJob[c].todo : R!Place("table") <= R!Place(d.what)
    BY <2>1, StatementDone
  <2>3. R!TypeOK' /\ R!ViewsAreTheirTypes'
    <3>1. R!TypeOK'
      BY <2>1, <2>2 DEF R!IInv, R!TypeOK, R!TypeNames
    <3>. QED BY <2>1, <2>2, <3>1 DEF R!IInv, R!ViewsAreTheirTypes, R!TypeNames
  <2>4. \A v \in DOMAIN reads : s.on \notin reads[v]
    BY <1>1 DEF R!ViewsReading
  <2>5. \A n : R!Do("type", n) \notin rJob[c].todo
    BY <2>2 DEF R!Do, R!Place
  <2>6. \A n \in DOMAIN rTypes \ rSpoiled : s.on \in rLanded => rTypes[n] # s.on
    BY <2>2, <2>5 DEF R!IInv, R!TypesFirst, R!TypeNames, R!TypeOK
  <2>7. R!NothingOnNothing'
    <3>1. R!Relations \ {s.on} \subseteq R!Relations' /\ (s.on \notin rLanded => R!Relations' = R!Relations)
      BY <2>1 DEF R!Relations
    <3>. QED BY <2>1, <2>2, <2>4, <2>6, <3>1 DEF R!IInv, R!NothingOnNothing, R!TypeNames
  <2>8. s.on \notin rLanded' /\ rLanded' \subseteq rLanded
    BY <2>1
  <2>. QED BY <2>1, <2>3, <2>7, <2>8, RestKeeps
<1>2. CASE R!ViewsReading(s.on) # {}
  BY <1>2, StopKeeps DEF R!DropTable, R!Stops, R!world
<1>. QED BY <1>1, <1>2

LEMMA CardDropped ==
  ASSUME R!IInv, NEW c \in Removers, NEW s \in R!First(rJob[c].todo), R!DropCard(c, s)
  PROVE  R!IInv'
<1>1. CASE card[s.on] # "none"
  <2>1. /\ R!Rest(c, s, TRUE) /\ s.what = "card" /\ card' = [card EXCEPT ![s.on] = "none"]
        /\ UNCHANGED <<rLanded, reads, rTypes, sync, schedule>>
    BY <1>1 DEF R!DropCard
  <2>2. rJob' \in [Removers -> R!Job] /\ rSpoiled' = rSpoiled /\ s = R!Do("card", s.on)
    BY <2>1, StatementDone
  <2>3. R!TypeOK' /\ R!ViewsAreTheirTypes' /\ R!NothingOnNothing'
    <3>1. R!TypeOK'
      BY <2>1, <2>2 DEF R!IInv, R!TypeOK, R!TypeNames
    <3>. QED BY <2>1, <2>2, <3>1 DEF R!IInv, R!ViewsAreTheirTypes, R!NothingOnNothing, R!TypeNames, R!Relations
  <2>4. \A t \in Datasets : card'[t] = card[t] \/ s = R!Do("card", t)
    BY <2>1, <2>2 DEF R!IInv, R!TypeOK
  <2>. QED BY <2>1, <2>3, <2>4, RestKeeps
<1>2. CASE card[s.on] = "none"
  BY <1>2, StopKeeps DEF R!DropCard, R!Stops, R!world
<1>. QED BY <1>1, <1>2

(* Every step of a removal, or beside it, keeps what it rests on.          *)
LEMMA RemovalSteps == R!IInv /\ [R!Next]_(R!vars) => R!IInv'
<1>. SUFFICES ASSUME R!IInv, [R!Next]_(R!vars) PROVE R!IInv'
  OBVIOUS
<1>1. ASSUME R!Make PROVE R!IInv'
  BY <1>1, SyncAdded, ScheduleAdded, CopyOrCardAdded, TableModelled, TablesCombined DEF R!Make
<1>2. ASSUME NEW c \in Removers, R!AskTo(c) PROVE R!IInv'
  BY <1>2, RemovalAsked
<1>3. ASSUME NEW c \in Removers, R!Carry(c) PROVE R!IInv'
  <2>1. ASSUME R!Fails(c) PROVE R!IInv'
    BY <2>1, StopKeeps DEF R!Fails, R!world
  <2>2. ASSUME NEW s \in R!First(rJob[c].todo), R!ViewIsRead(c, s) PROVE R!IInv'
    BY <2>2, StopKeeps DEF R!ViewIsRead, R!Stops, R!world
  <2>. QED BY <1>3, <2>1, <2>2, PartsRead, TypeDropped, ScheduleDropped, SyncDropped, TableDropped, CardDropped DEF R!Carry
<1>4. CASE UNCHANGED R!vars
  <2>1. UNCHANGED <<rLanded, reads, rTypes, sync, schedule, card, rJob, rSpoiled>>
    BY <1>4 DEF R!vars, R!world
  <2>2. R!TypeOK' /\ R!ViewsAreTheirTypes' /\ R!TypesFirst' /\ R!OnlyOurs' /\ R!Alone'
    BY <2>1 DEF R!IInv, R!TypeOK, R!ViewsAreTheirTypes, R!TypesFirst, R!OnlyOurs, R!Alone, R!TypeNames
  <2>3. R!SchedulesHaveSyncs' /\ R!ScheduleFirst' /\ R!CardLast' /\ R!NothingOnNothing'
    BY <2>1 DEF R!IInv, R!SchedulesHaveSyncs, R!ScheduleFirst, R!CardLast, R!NothingOnNothing, R!TypeNames, R!Relations
  <2>. QED BY <2>2, <2>3 DEF R!IInv
<1>. QED BY <1>1, <1>2, <1>3, <1>4 DEF R!Next

LEMMA RemovalBegins == R!Init => R!IInv
<1>. SUFFICES ASSUME R!Init PROVE R!IInv
  OBVIOUS
<1>1. R!Idle \in R!Job /\ R!Idle.todo = {}
  BY DEF R!Idle, R!Job
<1>2. /\ rLanded = {} /\ reads = <<>> /\ rTypes = <<>> /\ schedule = {} /\ rSpoiled = {}
      /\ sync = [t \in Datasets |-> "none"] /\ card = [t \in Datasets |-> "none"]
      /\ rJob = [c \in Removers |-> R!Idle]
  BY DEF R!Init
<1>3. DOMAIN reads = {} /\ DOMAIN rTypes = {}
  BY <1>2
<1>4. \A c \in Removers : rJob[c].todo = {}
  BY <1>1, <1>2
<1>5. R!TypeOK
  BY <1>1, <1>2, <1>3 DEF R!TypeOK, R!TypeNames
<1>6. R!ViewsAreTheirTypes /\ R!NothingOnNothing /\ R!SchedulesHaveSyncs
  BY <1>2, <1>3 DEF R!ViewsAreTheirTypes, R!NothingOnNothing, R!SchedulesHaveSyncs, R!TypeNames
<1>7. R!TypesFirst /\ R!OnlyOurs /\ R!Alone /\ R!ScheduleFirst /\ R!CardLast
  BY <1>4 DEF R!TypesFirst, R!OnlyOurs, R!Alone, R!ScheduleFirst, R!CardLast
<1>. QED BY <1>5, <1>6, <1>7 DEF R!IInv

LEMMA RemovalInvariant == EditingSpec => []R!IInv
<1>1. Empty => R!IInv
  BY RemovalBegins DEF Empty
<1>2. R!IInv /\ [Folding \/ Building \/ Boarding \/ Removing \/ Importing]_everything => R!IInv'
  <2>. SUFFICES ASSUME R!IInv, [Folding \/ Building \/ Boarding \/ Removing \/ Importing]_everything PROVE R!IInv'
    OBVIOUS
  <2>1. CASE Removing
    BY <2>1, RemovalSteps DEF Removing
  <2>2. CASE ~Removing
    <3>1. UNCHANGED R!vars
      BY <2>2 DEF Folding, Building, Boarding, Importing, everything, removals, R!vars, R!world
    <3>. QED BY <3>1, RemovalSteps
  <2>. QED BY <2>1, <2>2
<1>. QED BY <1>1, <1>2, PTL DEF EditingSpec

(* At every statement of a removal, whatever is landed, modelled, combined *)
(* or removed meanwhile, what is left has what it stands on (removal.ts).  *)
THEOREM NothingHangs == EditingSpec => []NothingOnNothing
<1>1. R!IInv => NothingOnNothing
  BY DEF R!IInv, NothingOnNothing
<1>. QED BY <1>1, RemovalInvariant, PTL

(* Whoever removes a table's copy removes it of a sync that is here or of  *)
(* none, unless the sync was made while the removal was under way.         *)
LEMMA TheirsStays ==
  ASSUME R!IInv, [R!Next]_(R!vars), NEW t \in rLanded \ rLanded'
  PROVE  t \in rSpoiled \/ sync[t] # "elsewhere"
<1>0. PICK c \in Removers : \E s \in R!First(rJob[c].todo) : R!DropTable(c, s) /\ t = s.on
  <2>1. R!Next
    BY DEF R!vars, R!world
  <2>2. ~R!Make
    BY DEF R!Make, R!AddSchedule, R!RunSync, R!RegisterByHand, R!AddSync, R!ModelTable, R!Combine
  <2>3. \A d \in Removers : ~R!AskTo(d)
    BY DEF R!AskTo, R!RemoveSync, R!RemoveDataset, R!RemoveType, R!Begin, R!world
  <2>4. PICK d \in Removers : R!Carry(d)
    BY <2>1, <2>2, <2>3 DEF R!Next
  <2>5. ~R!Fails(d)
    BY DEF R!Fails, R!world
  <2>6. PICK u \in R!First(rJob[d].todo) : \/ R!ReadParts(d, u) \/ R!DropType(d, u) \/ R!ViewIsRead(d, u)
                                          \/ R!DropSchedule(d, u) \/ R!DropSync(d, u) \/ R!DropTable(d, u) \/ R!DropCard(d, u)
    BY <2>4, <2>5 DEF R!Carry
  <2>7. R!DropTable(d, u)
    BY <2>6 DEF R!ReadParts, R!DropType, R!ViewIsRead, R!DropSchedule, R!DropSync, R!DropCard, R!Stops, R!world
  <2>8. t = u.on
    BY <2>7 DEF R!DropTable, R!Stops, R!world
  <2>. QED BY <2>7, <2>8
<1>1. PICK s \in R!First(rJob[c].todo) : R!DropTable(c, s) /\ t = s.on
  BY <1>0
<1>2. rJob[c] \in R!Job /\ s \in rJob[c].todo /\ s.what = "table" /\ t \in Datasets
  BY <1>1 DEF R!IInv, R!TypeOK, R!First, R!DropTable
<1>3. s = R!Do("table", t)
  BY <1>1, <1>2 DEF R!Job, R!Do
<1>. QED BY <1>2, <1>3 DEF R!IInv, R!OnlyOurs

(* When the dataset goes, all that could bring it back has gone.           *)
LEMMA CardGoesLast ==
  ASSUME R!IInv, [R!Next]_(R!vars), NEW t \in Datasets, card[t] # "none", card'[t] = "none", rSpoiled = {}
  PROVE  sync[t] # "here" /\ t \notin schedule /\ (t \in rLanded => sync[t] = "elsewhere" \/ card[t] = "person")
<1>0. PICK c \in Removers : \E s \in R!First(rJob[c].todo) : R!DropCard(c, s) /\ t = s.on
  <2>1. R!Next
    BY DEF R!vars, R!world
  <2>2. ~R!Make
    BY DEF R!Make, R!AddSchedule, R!RunSync, R!RegisterByHand, R!AddSync, R!ModelTable, R!Combine, R!IInv, R!TypeOK
  <2>3. \A d \in Removers : ~R!AskTo(d)
    BY DEF R!AskTo, R!RemoveSync, R!RemoveDataset, R!RemoveType, R!Begin, R!world
  <2>4. PICK d \in Removers : R!Carry(d)
    BY <2>1, <2>2, <2>3 DEF R!Next
  <2>5. ~R!Fails(d)
    BY DEF R!Fails, R!world
  <2>6. PICK u \in R!First(rJob[d].todo) : \/ R!ReadParts(d, u) \/ R!DropType(d, u) \/ R!ViewIsRead(d, u)
                                          \/ R!DropSchedule(d, u) \/ R!DropSync(d, u) \/ R!DropTable(d, u) \/ R!DropCard(d, u)
    BY <2>4, <2>5 DEF R!Carry
  <2>7. R!DropCard(d, u)
    BY <2>6 DEF R!ReadParts, R!DropType, R!ViewIsRead, R!DropSchedule, R!DropSync, R!DropTable, R!Stops, R!world
  <2>8. t = u.on
    BY <2>7 DEF R!DropCard, R!Stops, R!world, R!IInv, R!TypeOK
  <2>. QED BY <2>7, <2>8
<1>1. PICK s \in R!First(rJob[c].todo) : R!DropCard(c, s) /\ t = s.on
  BY <1>0
<1>2. /\ rJob[c] \in R!Job /\ s \in rJob[c].todo /\ s.what = "card"
      /\ \A d \in rJob[c].todo : R!Place("card") <= R!Place(d.what)
  BY <1>1 DEF R!IInv, R!TypeOK, R!First, R!DropCard
<1>3. R!Do("card", t) \in rJob[c].todo
  BY <1>1, <1>2 DEF R!Job, R!Do
<1>4. \A w \in {"parts", "schedule", "sync", "table"} : R!Do(w, t) \notin rJob[c].todo
  BY <1>2 DEF R!Do, R!Place
<1>. QED BY <1>3, <1>4 DEF R!IInv, R!CardLast

(* A removal leaves the tables another space lands, and what it removed    *)
(* does not come back with the next sync (removal.ts).                     *)
THEOREM RemovalHolds == EditingSpec => RemovalIsExact
<1>1. R!IInv /\ [Folding \/ Building \/ Boarding \/ Removing \/ Importing]_everything
      => /\ [\A t \in rLanded \ rLanded' : t \in rSpoiled \/ sync[t] # "elsewhere"]_(R!vars)
         /\ [\A t \in Datasets : card[t] # "none" /\ card'[t] = "none" /\ rSpoiled = {} =>
               sync[t] # "here" /\ t \notin schedule /\ (t \in rLanded => sync[t] = "elsewhere" \/ card[t] = "person")]_(R!vars)
  <2>. SUFFICES ASSUME R!IInv, [Folding \/ Building \/ Boarding \/ Removing \/ Importing]_everything
       PROVE  \/ UNCHANGED R!vars
              \/ /\ \A t \in rLanded \ rLanded' : t \in rSpoiled \/ sync[t] # "elsewhere"
                 /\ \A t \in Datasets : card[t] # "none" /\ card'[t] = "none" /\ rSpoiled = {} =>
                       sync[t] # "here" /\ t \notin schedule /\ (t \in rLanded => sync[t] = "elsewhere" \/ card[t] = "person")
    BY Zenon
  <2>1. CASE Removing
    BY <2>1, TheirsStays, CardGoesLast DEF Removing
  <2>2. CASE ~Removing
    BY <2>2 DEF Folding, Building, Boarding, Importing, everything, removals, R!vars, R!world
  <2>. QED BY <2>1, <2>2
<1>2. EditingSpec
      => /\ [][\A t \in rLanded \ rLanded' : t \in rSpoiled \/ sync[t] # "elsewhere"]_(R!vars)
         /\ [][\A t \in Datasets : card[t] # "none" /\ card'[t] = "none" /\ rSpoiled = {} =>
                sync[t] # "here" /\ t \notin schedule /\ (t \in rLanded => sync[t] = "elsewhere" \/ card[t] = "person")]_(R!vars)
  BY <1>1, RemovalInvariant, PTL DEF EditingSpec
<1>. QED BY <1>2 DEF RemovalIsExact, R!OthersKeepTheirs, R!DeletedIsNotBack

---------------------------------------------------------------------------
(* The builder (Builder).                                                  *)
---------------------------------------------------------------------------

(* An entry is added: of other names nothing changes, nor of its own what  *)
(* stands, if it is a deletion's.                                          *)
LEMMA EntryAdded ==
  ASSUME journal \in Seq(B!Entries), NEW e \in B!Entries, journal' = Append(journal, e)
  PROVE  /\ journal' \in Seq(B!Entries) /\ DOMAIN journal \subseteq DOMAIN journal'
         /\ \A k \in DOMAIN journal : journal'[k] = journal[k]
         /\ \A k \in DOMAIN journal' : k \in DOMAIN journal \/ journal'[k] = e
         /\ \A n : n # e.name \/ e.op = "delete" => (B!Bare(n)' <=> B!Bare(n)) /\ (B!Made(n)' <=> B!Made(n))
         /\ \A n : B!Made(n) => B!Made(n)'
         /\ e.op = "create" /\ e.active => B!Made(e.name)'
<1>. DEFINE n0 == Len(journal)
<1>1. /\ n0 \in Nat /\ DOMAIN journal = 1..n0 /\ journal' \in Seq(B!Entries) /\ DOMAIN journal' = 1..(n0 + 1)
      /\ \A k \in 1..n0 : journal'[k] = journal[k] /\ journal[k] \in B!Entries
      /\ journal'[n0 + 1] = e
  BY AppendProperties, LenProperties, ElementOfSeq
<1>2. \A k \in DOMAIN journal' : k \in DOMAIN journal \/ (k = n0 + 1 /\ journal'[k] = e)
  BY <1>1
<1>3. DOMAIN journal \subseteq DOMAIN journal' /\ n0 + 1 \in DOMAIN journal'
  BY <1>1
<1>. HIDE DEF n0
<1>4. \A n : B!Standing(n) \subseteq B!Standing(n)' /\ \A k \in B!Standing(n) : journal'[k] = journal[k]
  BY <1>1, <1>3 DEF B!Standing
<1>5. \A n : \A k \in B!Standing(n)' : k \in B!Standing(n) \/ (e.name = n /\ e.active /\ journal'[k] = e)
  BY <1>1, <1>2 DEF B!Standing
<1>6. ASSUME NEW n, n # e.name \/ e.op = "delete" PROVE (B!Bare(n)' <=> B!Bare(n)) /\ (B!Made(n)' <=> B!Made(n))
  BY <1>4, <1>5, <1>6 DEF B!Bare, B!Made
<1>7. \A n : B!Made(n) => B!Made(n)'
  BY <1>4 DEF B!Made
<1>8. e.op = "create" /\ e.active => B!Made(e.name)'
  BY <1>1, <1>3 DEF B!Made, B!Standing
<1>. QED BY <1>1, <1>2, <1>3, <1>6, <1>7, <1>8

(* Entries are withdrawn: what is of other names still stands.             *)
LEMMA EntriesWithdrawn ==
  ASSUME journal \in Seq(B!Entries), NEW ns, journal' = B!Retired(ns)
  PROVE  /\ journal' \in Seq(B!Entries) /\ DOMAIN journal' = DOMAIN journal
         /\ \A k \in DOMAIN journal : journal'[k].name = journal[k].name /\ journal'[k].op = journal[k].op
         /\ \A n : n \notin ns => (B!Bare(n)' <=> B!Bare(n)) /\ (B!Made(n)' <=> B!Made(n))
         /\ \A n \in ns : B!Bare(n)'
<1>1. /\ Len(journal) \in Nat /\ DOMAIN journal = 1..Len(journal)
      /\ \A k \in 1..Len(journal) : journal[k] \in B!Entries
  BY LenProperties, ElementOfSeq
<1>2. DOMAIN journal' = DOMAIN journal
  BY DEF B!Retired
<1>3. \A k \in DOMAIN journal :
         /\ journal[k].name \notin ns => journal'[k] = journal[k]
         /\ journal[k].name \in ns => journal'[k] = [journal[k] EXCEPT !.active = FALSE]
  BY DEF B!Retired
<1>4. \A k \in DOMAIN journal :
         /\ journal'[k] \in B!Entries /\ journal'[k].name = journal[k].name /\ journal'[k].op = journal[k].op
         /\ journal[k].name \in ns => ~journal'[k].active
         /\ journal[k].name \notin ns => journal'[k] = journal[k]
  BY <1>1, <1>3 DEF B!Entries
<1>5. journal' \in Seq(B!Entries)
  <2>1. \A k \in 1..Len(journal) : journal'[k] \in B!Entries
    BY <1>1, <1>4
  <2>2. journal' = [k \in 1..Len(journal) |-> journal'[k]]
    BY <1>1 DEF B!Retired
  <2>3. journal' \in [1..Len(journal) -> B!Entries]
    BY <2>1, <2>2
  <2>. QED BY <1>1, <2>3, SeqDef
<1>6. ASSUME NEW n, n \notin ns PROVE B!Standing(n)' = B!Standing(n) /\ \A k \in B!Standing(n) : journal'[k] = journal[k]
  BY <1>2, <1>4, <1>6 DEF B!Standing
<1>7. ASSUME NEW n, n \in ns PROVE B!Standing(n)' = {}
  BY <1>2, <1>4, <1>7 DEF B!Standing
<1>8. ASSUME NEW n, n \notin ns PROVE (B!Bare(n)' <=> B!Bare(n)) /\ (B!Made(n)' <=> B!Made(n))
  BY <1>6, <1>8 DEF B!Bare, B!Made
<1>9. ASSUME NEW n \in ns PROVE B!Bare(n)'
  BY <1>7, <1>9 DEF B!Bare
<1>. QED BY <1>2, <1>4, <1>5, <1>8, <1>9
(* The rows of a name, and what stands of its entries, are as they were.   *)
RowKept(n) == /\ n \in DOMAIN type' <=> n \in DOMAIN type
              /\ n \in DOMAIN type => type'[n] = type[n]
              /\ n \in DOMAIN item' <=> n \in DOMAIN item
              /\ n \in DOMAIN item => item'[n] = item[n]
EntriesKept(n) == (B!Bare(n)' <=> B!Bare(n)) /\ (B!Made(n)' <=> B!Made(n))

LEMMA IdleIsARequest == B!Idle \in B!Job /\ B!Idle.at = "idle" /\ B!Idle.names = {}
BY DEF B!Idle, B!Job, B!States

(* Names that are not spoiled are one request's at most.                    *)
LEMMA Alone ==
  ASSUME B!IInv, NEW c \in Clients, NEW d \in Clients, c # d, NEW n \in bJob[c].names \ bSpoiled
  PROVE  n \notin bJob[d].names
BY DEF B!IInv, B!Apart

LEMMA NamesAreNames ==
  ASSUME B!IInv, NEW c \in Clients
  PROVE  /\ bJob[c] \in B!Job /\ bJob[c].names \subseteq Types \cup Items
         /\ DOMAIN type \subseteq Types /\ DOMAIN item \subseteq Items
         /\ B!Shape(bJob[c]) /\ B!Relies(bJob[c])
BY DEF B!IInv, B!TypeOK, B!Job

(* What a request knows of its own names.                                   *)
LEMMA OwnNames ==
  ASSUME B!IInv, NEW c \in Clients, NEW n \in bJob[c].names \ bSpoiled
  PROVE  /\ bJob[c].at \notin B!Unpublished /\ n \notin behind => B!Registered(n)
         /\ n \in DOMAIN type /\ ~(bJob[c].at = "align" /\ bJob[c].name = n) => B!Titled(n)
         /\ ~B!Unlogged(bJob[c], n) => B!Explained(n)
<1>1. \A d \in Clients : d # c => n \notin bJob[d].names /\ B!Shape(bJob[d])
  BY Alone, NamesAreNames
<1>2. \A d \in Clients : d # c => ~(bJob[d].at = "align" /\ bJob[d].name = n) /\ ~B!Unlogged(bJob[d], n)
  BY <1>1 DEF B!Shape, B!Unlogged
<1>3. n \in Types \cup Items
  BY NamesAreNames
<1>4. bJob[c].at \notin B!Unpublished => B!Published(n)
  BY <1>1 DEF B!Published
<1>. QED BY <1>2, <1>3, <1>4 DEF B!IInv, B!RegistryFollows, B!TitlesFollow, B!JournalFollows

(* A request goes on, or ends, and changes rows of its own names only.      *)
LEMMA RowsKeep ==
  ASSUME B!IInv, NEW c \in Clients, NEW j \in B!Job,
         bJob' = [bJob EXCEPT ![c] = j], bSpoiled \subseteq bSpoiled',
         j.names = bJob[c].names \/ j = B!Idle,
         B!TypeOK', B!Shape(j)', B!Relies(j)', B!Stands',
         \A n \in (Types \cup Items) \ bJob[c].names : RowKept(n) /\ EntriesKept(n),
         \A i \in DOMAIN item' : (i \in DOMAIN item /\ item'[i] = item[i]) \/ item'[i] \subseteq bJob[c].names,
         \A k \in DOMAIN journal : k \in DOMAIN journal' /\ journal'[k].name = journal[k].name /\ journal'[k].op = journal[k].op,
         built' = built \/ bJob[c].names = Types \cup Items,
         \A n \in bJob[c].names \ bSpoiled' :
            /\ n \in DOMAIN type' /\ ~(j.at = "align" /\ j.name = n) => B!Titled(n)'
            /\ ~B!Unlogged(j, n) => B!Explained(n)'
  PROVE  B!LoadedOK' /\ B!RegistryFollows' /\ B!Carries' => B!IInv'
<1>. DEFINE N == bJob[c].names
<1>1. bJob \in [Clients -> B!Job] /\ bJob'[c] = j /\ (\A d \in Clients : d # c => bJob'[d] = bJob[d])
  BY DEF B!IInv, B!TypeOK
<1>2. \A d \in Clients : d # c => B!Shape(bJob[d]) /\ B!Relies(bJob[d]) /\ (N \cap bJob[d].names) \subseteq bSpoiled
  BY DEF B!IInv, B!Apart
<1>3. /\ bJob[c] \in B!Job /\ N \subseteq Types \cup Items /\ B!Shape(bJob[c])
      /\ DOMAIN type \subseteq Types /\ DOMAIN item \subseteq Items
      /\ DOMAIN type' \subseteq Types /\ DOMAIN item' \subseteq Items
  BY DEF B!IInv, B!TypeOK, B!Job
<1>4. j.names \subseteq N /\ B!Idle.at = "idle" /\ B!Idle.names = {}
  BY IdleIsARequest
<1>5. ASSUME NEW d \in Clients, d # c PROVE B!Shape(bJob[d])'
  <2>1. B!Shape(bJob[d]) /\ bJob'[d] = bJob[d]
    BY <1>1, <1>2, <1>5
  <2>. QED BY <2>1 DEF B!Shape
<1>6. ASSUME NEW d \in Clients, d # c PROVE B!Relies(bJob[d])'
  <2>. DEFINE n == bJob[d].name
  <2>1. /\ bJob'[d] = bJob[d] /\ bJob[d] \in B!Job /\ B!Shape(bJob[d]) /\ B!Relies(bJob[d])
        /\ (N \cap bJob[d].names) \subseteq bSpoiled /\ bJob[d].names \subseteq Types \cup Items
    BY <1>1, <1>2, <1>6 DEF B!Job
  <2>2. ASSUME NEW m \in bJob[d].names \ bSpoiled PROVE m \in Types \cup Items /\ m \notin N /\ RowKept(m) /\ EntriesKept(m)
    BY <2>1, <2>2
  <2>3. ASSUME NEW m \in bJob[d].names \ bSpoiled PROVE B!DependentsOf(m)' \subseteq B!DependentsOf(m)
    BY <2>2, <2>3 DEF B!DependentsOf, B!On
  <2>4. ASSUME n \in bJob[d].names \ bSpoiled, bJob[d].at # "insert"
        PROVE  /\ bJob[d].at = "property" => n \in DOMAIN type' /\ type'[n].title = bJob[d].title
               /\ bJob[d].at = "align" /\ n \in DOMAIN type' => type'[n].title = bJob[d].title
               /\ bJob[d].at = "created" \/ (bJob[d].at \in {"write", "align", "updated"} /\ bJob[d].entry = 0) => B!Exists(n)'
               /\ bJob[d].at \in {"publishFirst", "trial"} => n \in DOMAIN item' /\ B!Bare(n)'
               /\ bJob[d].at = "withdraw" => ~B!Exists(n)'
               /\ bJob[d].at = "delete" => B!DependentsOf(n)' = {}
               /\ bJob[d].at = "deep" => B!DependentsOf(n)' \subseteq bJob[d].ends
    <3>1. RowKept(n) /\ EntriesKept(n) /\ B!DependentsOf(n)' \subseteq B!DependentsOf(n)
      BY <2>2, <2>3, <2>4
    <3>2. B!Exists(n)' <=> B!Exists(n)
      BY <2>1, <3>1 DEF RowKept, B!Exists
    <3>. QED BY <2>1, <2>4, <3>1, <3>2 DEF B!Relies, RowKept, EntriesKept
  <2>5. bJob[d].at = "insert" /\ n \notin bSpoiled => built'
    <3>1. bJob[d].at = "insert" => n \in bJob[d].names
      BY <2>1 DEF B!Shape
    <3>. QED BY <2>1, <2>2, <3>1 DEF B!Relies
  <2>6. bJob[d].at \notin {"idle", "plan", "reload"} => n \in bJob[d].names
    BY <2>1 DEF B!Shape
  <2>7. bJob[d].at = "insertItem" => bJob[d].ends \ bSpoiled \subseteq DOMAIN type'
    <3>1. SUFFICES ASSUME bJob[d].at = "insertItem", NEW t \in bJob[d].ends \ bSpoiled PROVE t \in DOMAIN type'
      OBVIOUS
    <3>2. t \in bJob[d].names \ bSpoiled /\ t \in DOMAIN type
      BY <2>1, <3>1 DEF B!Shape, B!Relies
    <3>. QED BY <2>2, <3>2 DEF RowKept
  <2>8. bJob[d].at \in B!Unpublished => \A i \in (bJob[d].names \cap DOMAIN item') \ bSpoiled : item'[i] \subseteq bJob[d].names
    <3>1. SUFFICES ASSUME bJob[d].at \in B!Unpublished, NEW i \in (bJob[d].names \cap DOMAIN item') \ bSpoiled
                   PROVE item'[i] \subseteq bJob[d].names
      OBVIOUS
    <3>2. RowKept(i)
      BY <2>2
    <3>. QED BY <2>1, <3>1, <3>2 DEF B!Relies, RowKept
  <2>9. bJob[d].whole /\ bJob[d].at # "reload" =>
           DOMAIN type' \ bSpoiled \subseteq bJob[d].types \cup (IF bJob[d].at = "deep" THEN {n} ELSE {})
    <3>1. SUFFICES ASSUME bJob[d].whole, bJob[d].at # "reload", NEW t \in DOMAIN type' \ bSpoiled
                   PROVE t \in bJob[d].types \cup (IF bJob[d].at = "deep" THEN {n} ELSE {})
      OBVIOUS
    <3>2. t \in bJob[d].names
      BY <1>3, <2>1, <3>1 DEF B!Shape
    <3>3. t \in DOMAIN type
      BY <2>2, <3>2 DEF RowKept
    <3>. QED BY <2>1, <3>1, <3>3 DEF B!Relies
  <2>. HIDE DEF n
  <2>10. /\ bJob[d].at \in {"property", "align", "created", "write", "updated", "publishFirst", "trial", "withdraw", "delete", "deep"}
               => bJob[d].at \notin {"idle", "plan", "reload", "insert"}
    OBVIOUS
  <2>. QED BY <2>1, <2>4, <2>5, <2>6, <2>7, <2>8, <2>9, <2>10 DEF B!Relies, n
<1>7. \A d \in Clients : B!Shape(bJob[d])' /\ B!Relies(bJob[d])'
  <2>1. B!Shape(bJob[c])' /\ B!Relies(bJob[c])'
    BY <1>1 DEF B!Shape, B!Relies
  <2>. QED BY <1>5, <1>6, <2>1
<1>8. B!Apart'
  BY <1>1, <1>2, <1>4 DEF B!Apart, B!IInv
<1>9. B!TitlesFollow'
  <2>1. SUFFICES ASSUME NEW t \in DOMAIN type' \ bSpoiled', \A d \in Clients : ~(bJob'[d].at = "align" /\ bJob'[d].name = t)
                 PROVE B!Titled(t)'
    BY DEF B!TitlesFollow
  <2>2. CASE t \in N
    BY <1>1, <2>1, <2>2
  <2>3. CASE t \notin N
    <3>1. RowKept(t)
      BY <1>3, <2>3
    <3>2. \A d \in Clients : ~(bJob[d].at = "align" /\ bJob[d].name = t)
      BY <1>1, <1>3, <2>1, <2>3 DEF B!Shape
    <3>3. B!Titled(t)
      BY <2>1, <3>1, <3>2 DEF B!IInv, B!TitlesFollow, RowKept
    <3>. QED BY <2>1, <3>1, <3>3 DEF B!Titled, RowKept
  <2>. QED BY <2>2, <2>3
<1>10. B!JournalFollows'
  <2>1. SUFFICES ASSUME NEW n \in (Types \cup Items) \ bSpoiled', \A d \in Clients : ~B!Unlogged(bJob'[d], n)
                 PROVE B!Explained(n)'
    BY DEF B!JournalFollows, B!Unlogged
  <2>2. CASE n \in N
    BY <1>1, <2>1, <2>2
  <2>3. CASE n \notin N
    <3>1. RowKept(n) /\ EntriesKept(n)
      BY <2>3
    <3>2. \A d \in Clients : ~B!Unlogged(bJob[d], n)
      BY <1>1, <1>3, <2>1, <2>3 DEF B!Shape, B!Unlogged
    <3>3. B!Explained(n)
      BY <2>1, <3>2 DEF B!IInv, B!JournalFollows
    <3>. QED BY <3>1, <3>3 DEF B!Explained, B!Exists, RowKept, EntriesKept
  <2>. QED BY <2>2, <2>3
<1>. QED BY <1>7, <1>8, <1>9, <1>10 DEF B!IInv

(* It has nothing loaded: the registry is as it was, and agrees with what   *)
(* was published.                                                           *)
LEMMA StepKeeps ==
  ASSUME B!IInv, NEW c \in Clients, NEW j \in B!Job,
         bJob' = [bJob EXCEPT ![c] = j], bSpoiled \subseteq bSpoiled', UNCHANGED <<known, loaded, behind>>,
         j.names = bJob[c].names \/ j = B!Idle, bJob[c].at \notin B!Publishing,
         B!TypeOK', B!Shape(j)', B!Relies(j)', B!Stands',
         \A n \in (Types \cup Items) \ bJob[c].names : RowKept(n) /\ EntriesKept(n),
         \A i \in DOMAIN item' : (i \in DOMAIN item /\ item'[i] = item[i]) \/ item'[i] \subseteq bJob[c].names,
         \A k \in DOMAIN journal : k \in DOMAIN journal' /\ journal'[k].name = journal[k].name /\ journal'[k].op = journal[k].op,
         built' = built \/ bJob[c].names = Types \cup Items,
         \A n \in bJob[c].names \ bSpoiled' :
            /\ j.at \notin B!Unpublished /\ n \notin behind => B!Registered(n)'
            /\ n \in DOMAIN type' /\ ~(j.at = "align" /\ j.name = n) => B!Titled(n)'
            /\ ~B!Unlogged(j, n) => B!Explained(n)'
  PROVE  B!IInv'
<1>. DEFINE N == bJob[c].names
<1>1. bJob \in [Clients -> B!Job] /\ bJob'[c] = j /\ (\A d \in Clients : d # c => bJob'[d] = bJob[d])
  BY DEF B!IInv, B!TypeOK
<1>2. /\ N \subseteq Types \cup Items /\ j.names \subseteq N /\ B!Idle.at = "idle" /\ B!Idle.names = {}
      /\ \A d \in Clients : bJob[d].names \subseteq Types \cup Items
  BY IdleIsARequest, NamesAreNames
<1>3. B!LoadedOK'
  BY DEF B!IInv, B!LoadedOK, B!TypeRow
<1>4. B!RegistryFollows'
  <2>1. SUFFICES ASSUME NEW n \in (Types \cup Items) \ (bSpoiled' \cup behind), B!Published(n)' PROVE B!Registered(n)'
    BY DEF B!RegistryFollows
  <2>2. CASE n \in N
    <3>1. j = B!Idle \/ n \in j.names
      BY <2>2
    <3>2. j.at \notin B!Unpublished
      BY <1>1, <1>2, <2>1, <3>1 DEF B!Published, B!Unpublished
    <3>. QED BY <2>1, <2>2, <3>2
  <2>3. CASE n \notin N
    <3>1. B!Published(n)
      BY <1>1, <2>1, <2>3 DEF B!Published
    <3>2. B!Registered(n) /\ RowKept(n)
      BY <2>1, <2>3, <3>1 DEF B!IInv, B!RegistryFollows
    <3>. QED BY <2>1, <3>2 DEF B!Registered, B!Same, B!SameType, B!SameItem, RowKept
  <2>. QED BY <2>2, <2>3
<1>5. B!Carries'
  <2>1. SUFFICES ASSUME NEW d \in Clients, loaded[d] # None
                 PROVE  /\ bJob'[d].at \in B!Publishing
                        /\ \A n \in bJob'[d].names \ bSpoiled' :
                              B!SameType(loaded[d], n)' /\ (loaded[d].item # None => B!SameItem(loaded[d], n)')
    BY DEF B!Carries, B!SameType, B!SameItem
  <2>2. d # c /\ bJob[d].at \in B!Publishing /\ bJob'[d] = bJob[d]
    BY <1>1, <2>1 DEF B!IInv, B!Carries
  <2>3. ASSUME NEW n \in bJob[d].names \ bSpoiled'
        PROVE  B!SameType(loaded[d], n)' /\ (loaded[d].item # None => B!SameItem(loaded[d], n)')
    <3>1. n \notin N /\ n \in Types \cup Items
      BY <1>2, <2>2, <2>3, Alone
    <3>2. B!SameType(loaded[d], n) /\ (loaded[d].item # None => B!SameItem(loaded[d], n))
      BY <2>1, <2>3 DEF B!IInv, B!Carries
    <3>3. RowKept(n)
      BY <3>1
    <3>. QED BY <3>2, <3>3 DEF RowKept, B!SameType, B!SameItem
  <2>. QED BY <2>2, <2>3
<1>. QED BY <1>3, <1>4, <1>5, RowsKeep

(* A request begins: what it shares with another is spoiled, and of its    *)
(* other names nobody else changes anything.                               *)
LEMMA Fresh ==
  ASSUME B!IInv, NEW c \in Clients, NEW j \in B!Job, B!Begin(c, j), NEW n \in j.names \ bSpoiled'
  PROVE  /\ B!Registered(n)
         /\ \A i \in DOMAIN item \ bSpoiled' : n \in item[i] => B!Registered(i)
<1>0. bSpoiled' = bSpoiled \cup (UNION {j.names \cap bJob[d].names : d \in Clients \ {c}}) \cup (behind \cap B!Near(j.names))
  BY DEF B!Begin
<1>1. /\ \A d \in Clients \ {c} : j.names \cap bJob[d].names \subseteq bSpoiled'
      /\ behind \cap B!Near(j.names) \subseteq bSpoiled'
  BY <1>0
<1>2. bSpoiled \subseteq bSpoiled' /\ bJob[c] = B!Idle /\ n \in Types \cup Items /\ n \notin behind
  BY <1>1 DEF B!Begin, B!Job, B!Near
<1>3. \A d \in Clients : n \notin bJob[d].names
  BY <1>1, <1>2, IdleIsARequest
<1>4. B!Registered(n)
  BY <1>2, <1>3 DEF B!Published, B!IInv, B!RegistryFollows
<1>5. ASSUME NEW i \in DOMAIN item \ bSpoiled', n \in item[i] PROVE B!Registered(i)
  <2>1. i \in Items /\ i \notin bSpoiled
    BY <1>2, <1>5 DEF B!IInv, B!TypeOK
  <2>. i \notin behind
    BY <1>1, <1>5 DEF B!Near
  <2>2. \A d \in Clients : i \in bJob[d].names => bJob[d].at \notin B!Unpublished
    BY <1>3, <1>5, <2>1 DEF B!IInv, B!Relies
  <2>. QED BY <2>1, <2>2 DEF B!Published, B!IInv, B!RegistryFollows
<1>. QED BY <1>4, <1>5

LEMMA RequestKeeps ==
  ASSUME B!IInv, NEW c \in Clients, NEW j \in B!Job, B!Begin(c, j), B!Shape(j), B!Relies(j)',
         j.at \in {"insert", "insertItem", "write", "delete", "deep", "plan", "reload"}
  PROVE  B!IInv'
<1>1. /\ UNCHANGED <<built, type, item, known, journal, loaded, behind>> /\ bSpoiled \subseteq bSpoiled'
      /\ bJob \in [Clients -> B!Job] /\ bJob[c] = B!Idle /\ bJob'[c] = j
      /\ bJob' = [bJob EXCEPT ![c] = j] /\ \A d \in Clients : d # c => bJob'[d] = bJob[d]
      /\ \A d \in Clients \ {c} : j.names \cap bJob[d].names \subseteq bSpoiled'
  BY DEF B!Begin, B!IInv, B!TypeOK
<1>2. B!TypeOK'
  <2>1. bSpoiled' \subseteq Types \cup Items
    <3>1. bSpoiled \subseteq Types \cup Items /\ j.names \subseteq Types \cup Items /\ behind \subseteq Types \cup Items
      BY DEF B!IInv, B!TypeOK, B!LoadedOK, B!Job
    <3>2. bSpoiled' = bSpoiled \cup (UNION {j.names \cap bJob[d].names : d \in Clients \ {c}}) \cup (behind \cap B!Near(j.names))
      BY DEF B!Begin
    <3>. QED BY <3>1, <3>2
  <2>. QED BY <1>1, <2>1 DEF B!IInv, B!TypeOK, B!TypeRow, B!Entries
<1>3. ASSUME NEW d \in Clients PROVE B!Shape(bJob[d])' /\ B!Relies(bJob[d])'
  <2>1. CASE d = c
    BY <1>1, <2>1 DEF B!Shape, B!Relies
  <2>2. CASE d # c
    <3>1. bJob'[d] = bJob[d] /\ B!Shape(bJob[d]) /\ B!Relies(bJob[d])
      BY <1>1, <2>2 DEF B!IInv
    <3>2. B!Shape(bJob[d])'
      BY <1>1, <3>1 DEF B!Shape
    <3>3. B!Relies(bJob[d])'
      BY <1>1, <3>1 DEF B!Relies, B!DependentsOf, B!On, B!Exists, B!Bare, B!Standing
    <3>. QED BY <3>2, <3>3
  <2>. QED BY <2>1, <2>2
<1>4. B!Apart'
  BY <1>1 DEF B!IInv, B!Apart
<1>5. B!RegistryFollows'
  <2>1. SUFFICES ASSUME NEW n \in (Types \cup Items) \ (bSpoiled' \cup behind), B!Published(n)' PROVE B!Registered(n)'
    BY <1>1 DEF B!RegistryFollows
  <2>2. B!Published(n)
    BY <1>1, <2>1, IdleIsARequest DEF B!Published
  <2>3. B!Registered(n)
    BY <1>1, <2>1, <2>2 DEF B!IInv, B!RegistryFollows
  <2>. QED BY <1>1, <2>3 DEF B!Registered, B!Same, B!SameType, B!SameItem
<1>6. B!TitlesFollow'
  BY <1>1, IdleIsARequest DEF B!IInv, B!TitlesFollow, B!Titled
<1>7. B!Stands'
  BY <1>1 DEF B!IInv, B!Stands
<1>8. B!JournalFollows'
  <2>1. SUFFICES ASSUME NEW n \in (Types \cup Items) \ bSpoiled', \A d \in Clients : ~B!Unlogged(bJob'[d], n)
                 PROVE B!Explained(n)'
    BY DEF B!JournalFollows, B!Unlogged
  <2>2. \A d \in Clients : ~B!Unlogged(bJob[d], n)
    BY <1>1, <2>1, IdleIsARequest DEF B!Unlogged
  <2>3. B!Explained(n)
    BY <1>1, <2>1, <2>2 DEF B!IInv, B!JournalFollows
  <2>. QED BY <1>1, <2>3 DEF B!Explained, B!Exists, B!Made, B!Bare, B!Standing
<1>9. B!Carries' /\ B!LoadedOK'
  <2>1. B!LoadedOK'
    BY <1>1 DEF B!IInv, B!LoadedOK, B!TypeRow
  <2>2. \A d \in Clients : loaded[d] # None => d # c /\ bJob'[d] = bJob[d]
    BY <1>1, IdleIsARequest DEF B!IInv, B!Carries, B!Publishing
  <2>. QED BY <1>1, <2>1, <2>2 DEF B!IInv, B!Carries, B!SameType, B!SameItem
<1>. QED BY <1>2, <1>3, <1>4, <1>5, <1>6, <1>7, <1>8, <1>9 DEF B!IInv

(* One that fails leaves its names half-way: nothing is said of them now.  *)
LEMMA FailureKeeps ==
  ASSUME B!IInv, NEW c \in Clients, B!Fail(c)
  PROVE  B!IInv'
<1>. DEFINE N == bJob[c].names
<1>1. /\ UNCHANGED <<built, type, item, known, journal, behind>> /\ bSpoiled' = bSpoiled \cup N
      /\ bJob \in [Clients -> B!Job] /\ bJob' = [bJob EXCEPT ![c] = B!Idle]
      /\ bJob'[c] = B!Idle /\ \A d \in Clients : d # c => bJob'[d] = bJob[d]
  BY DEF B!Fail, B!Ended, B!IInv, B!TypeOK
<1>2. N \subseteq Types \cup Items /\ DOMAIN type \subseteq Types /\ B!Shape(bJob[c])
  BY NamesAreNames
<1>3. B!TypeOK'
  BY <1>1, <1>2, IdleIsARequest DEF B!IInv, B!TypeOK, B!TypeRow, B!Entries
<1>4. ASSUME NEW d \in Clients PROVE B!Shape(bJob[d])' /\ B!Relies(bJob[d])'
  <2>1. CASE d = c
    BY <1>1, <2>1 DEF B!Shape, B!Relies, B!Idle, B!Unpublished
  <2>2. CASE d # c
    <3>1. bJob'[d] = bJob[d] /\ B!Shape(bJob[d]) /\ B!Relies(bJob[d])
      BY <1>1, <2>2 DEF B!IInv
    <3>2. B!Shape(bJob[d])'
      BY <1>1, <3>1 DEF B!Shape
    <3>3. B!Relies(bJob[d])'
      BY <1>1, <3>1 DEF B!Relies, B!DependentsOf, B!On, B!Exists, B!Bare, B!Standing
    <3>. QED BY <3>2, <3>3
  <2>. QED BY <2>1, <2>2
<1>5. B!Apart'
  BY <1>1, IdleIsARequest DEF B!IInv, B!Apart
<1>6. B!RegistryFollows'
  <2>1. SUFFICES ASSUME NEW n \in (Types \cup Items) \ (bSpoiled' \cup behind), B!Published(n)' PROVE B!Registered(n)'
    BY <1>1 DEF B!RegistryFollows
  <2>2. B!Published(n)
    BY <1>1, <2>1 DEF B!Published
  <2>3. B!Registered(n)
    BY <1>1, <2>1, <2>2 DEF B!IInv, B!RegistryFollows
  <2>. QED BY <1>1, <2>3 DEF B!Registered, B!Same, B!SameType, B!SameItem
<1>7. B!TitlesFollow'
  <2>1. SUFFICES ASSUME NEW t \in DOMAIN type \ bSpoiled', \A d \in Clients : ~(bJob'[d].at = "align" /\ bJob'[d].name = t)
                 PROVE B!Titled(t)
    BY <1>1 DEF B!TitlesFollow, B!Titled
  <2>2. \A d \in Clients : ~(bJob[d].at = "align" /\ bJob[d].name = t)
    BY <1>1, <1>2, <2>1 DEF B!Shape
  <2>. QED BY <1>1, <2>1, <2>2 DEF B!IInv, B!TitlesFollow
<1>8. B!Stands'
  BY <1>1 DEF B!IInv, B!Stands
<1>9. B!JournalFollows'
  <2>1. SUFFICES ASSUME NEW n \in (Types \cup Items) \ bSpoiled', \A d \in Clients : ~B!Unlogged(bJob'[d], n)
                 PROVE B!Explained(n)'
    BY DEF B!JournalFollows, B!Unlogged
  <2>2. \A d \in Clients : ~B!Unlogged(bJob[d], n)
    BY <1>1, <1>2, <2>1 DEF B!Unlogged, B!Shape
  <2>3. B!Explained(n)
    BY <1>1, <2>1, <2>2 DEF B!IInv, B!JournalFollows
  <2>. QED BY <1>1, <2>3 DEF B!Explained, B!Exists, B!Made, B!Bare, B!Standing
<1>10. B!Carries' /\ B!LoadedOK'
  <2>1. /\ loaded' = [loaded EXCEPT ![c] = None] /\ behind' = behind /\ loaded = [d \in Clients |-> loaded[d]]
    BY DEF B!Fail, B!IInv, B!LoadedOK
  <2>2. /\ loaded' = [d \in Clients |-> loaded'[d]] /\ \A d \in Clients : loaded'[d] # None => d # c /\ loaded'[d] = loaded[d]
    BY <2>1
  <2>3. B!LoadedOK'
    BY <1>1, <2>1, <2>2 DEF B!IInv, B!LoadedOK, B!TypeRow
  <2>. QED BY <1>1, <2>2, <2>3 DEF B!IInv, B!Carries, B!SameType, B!SameItem
<1>. QED BY <1>3, <1>4, <1>5, <1>6, <1>7, <1>8, <1>9, <1>10 DEF B!IInv

(* The dataset lands again.                                                 *)
LEMMA LandingKeeps ==
  ASSUME B!IInv, B!Land
  PROVE  B!IInv'
<1>1. UNCHANGED <<type, item, known, journal, bJob, bSpoiled, loaded, behind>> /\ built' = TRUE
  BY DEF B!Land
<1>2. B!TypeOK'
  BY <1>1 DEF B!IInv, B!TypeOK, B!TypeRow, B!Entries
<1>3. ASSUME NEW d \in Clients PROVE B!Shape(bJob[d])' /\ B!Relies(bJob[d])'
  BY <1>1 DEF B!IInv, B!Shape, B!Relies, B!DependentsOf, B!On, B!Exists, B!Bare, B!Standing
<1>4. B!Apart' /\ B!TitlesFollow' /\ B!Stands'
  BY <1>1 DEF B!IInv, B!Apart, B!TitlesFollow, B!Titled, B!Stands
<1>5. B!RegistryFollows'
  BY <1>1 DEF B!IInv, B!RegistryFollows, B!Registered, B!Same, B!SameType, B!SameItem, B!Published
<1>6. B!JournalFollows'
  BY <1>1 DEF B!IInv, B!JournalFollows, B!Unlogged, B!Explained, B!Exists, B!Made, B!Bare, B!Standing
<1>7. B!Carries' /\ B!LoadedOK'
  BY <1>1 DEF B!IInv, B!Carries, B!SameType, B!SameItem, B!LoadedOK, B!TypeRow
<1>. QED BY <1>2, <1>3, <1>4, <1>5, <1>6, <1>7 DEF B!IInv

(* What a request relies on when it has only begun.                         *)
LEMMA DeleteAsked ==
  ASSUME B!IInv, NEW c \in Clients, NEW n \in Types \cup Items, B!Delete(c, n)
  PROVE  B!IInv'
<1>. DEFINE j == [B!Idle EXCEPT !.at = "delete", !.name = n, !.names = {n}]
<1>1. j \in B!Job
  BY IdleIsARequest DEF B!Job, B!States
<1>2. B!Begin(c, j) /\ (n \in Types => B!Dependents(n) = {})
  BY DEF B!Delete
<1>3. B!Shape(j)
  BY DEF B!Shape, B!Idle
<1>4. n \notin bSpoiled' => B!DependentsOf(n)' = {}
  <2>1. SUFFICES ASSUME n \notin bSpoiled', NEW i \in DOMAIN item \ bSpoiled', n \in item[i] PROVE FALSE
    BY <1>2 DEF B!DependentsOf, B!On, B!Begin
  <2>2. n \in Types
    BY <2>1 DEF B!IInv, B!TypeOK, B!Begin
  <2>3. n \in j.names \ bSpoiled'
    BY <2>1 DEF B!Idle
  <2>. HIDE DEF j
  <2>4. B!Registered(i)
    BY <1>1, <1>2, <2>1, <2>3, Fresh
  <2>. QED BY <1>2, <2>1, <2>2, <2>4 DEF B!Registered, B!Same, B!SameType, B!SameItem, B!Dependents, B!On
<1>5. B!Relies(j)'
  BY <1>4 DEF B!Relies, B!Idle, B!Unpublished
<1>6. j.at = "delete"
  BY DEF B!Idle
<1>. HIDE DEF j
<1>. QED BY <1>1, <1>2, <1>3, <1>5, <1>6, RequestKeeps

LEMMA CreateTypeAsked ==
  ASSUME B!IInv, NEW c \in Clients, NEW t \in Types, NEW cols \in SUBSET Cols, NEW title \in Cols,
         B!CreateType(c, t, cols, title)
  PROVE  B!IInv'
<1>. DEFINE j == [B!Idle EXCEPT !.at = "insert", !.name = t, !.names = {t}, !.title = title, !.props = cols \cup {Key}]
<1>1. j \in B!Job
  BY IdleIsARequest, NamesSayWhatTheyAre DEF B!Job, B!States
<1>2. B!Begin(c, j) /\ built
  BY DEF B!CreateType
<1>3. B!Shape(j)
  BY DEF B!Shape, B!Idle
<1>4. built'
  BY <1>2 DEF B!Begin
<1>5. B!Relies(j)'
  BY <1>4 DEF B!Relies, B!Idle, B!Unpublished
<1>6. j.at = "insert"
  BY DEF B!Idle
<1>. HIDE DEF j
<1>. QED BY <1>1, <1>2, <1>3, <1>5, <1>6, RequestKeeps

LEMMA CreateItemAsked ==
  ASSUME B!IInv, NEW c \in Clients, NEW i \in Items, NEW ends \in SUBSET Types, B!CreateItem(c, i, ends)
  PROVE  B!IInv'
<1>. DEFINE j == [B!Idle EXCEPT !.at = "insertItem", !.name = i, !.names = {i} \cup ends, !.ends = ends]
<1>1. j \in B!Job /\ j.at = "insertItem" /\ j.name = i /\ j.names = {i} \cup ends /\ j.ends = ends /\ ~j.whole
  BY IdleIsARequest DEF B!Job, B!States, B!Idle
<1>2. B!Begin(c, j) /\ ends \subseteq DOMAIN known.type
  BY DEF B!CreateItem
<1>. HIDE DEF j
<1>3. B!Shape(j)
  BY <1>1, NamesSayWhatTheyAre DEF B!Shape
<1>4. ends \ bSpoiled' \subseteq DOMAIN type
  <2>1. SUFFICES ASSUME NEW t \in ends \ bSpoiled' PROVE t \in DOMAIN type
    OBVIOUS
  <2>2. B!Registered(t)
    BY <1>1, <1>2, <2>1, Fresh
  <2>. QED BY <1>2, <2>1, <2>2 DEF B!Registered, B!Same, B!SameType, B!SameItem
<1>5. type' = type /\ bSpoiled' = bSpoiled' /\ UNCHANGED item
  BY <1>2 DEF B!Begin
<1>6. B!Relies(j)'
  BY <1>1, <1>4, <1>5 DEF B!Relies, B!Unpublished
<1>. QED BY <1>1, <1>2, <1>3, <1>6, RequestKeeps

LEMMA EditTitleAsked ==
  ASSUME B!IInv, NEW c \in Clients, NEW t \in Types, NEW title \in Cols \cup {None}, B!EditTitle(c, t, title)
  PROVE  B!IInv'
<1>. PICK j : j = [B!Idle EXCEPT !.at = "write", !.name = t, !.names = {t}, !.title = title, !.was = type[t].title]
  OBVIOUS
<1>0. t \in DOMAIN type /\ type[t].title \in Cols \cup {None}
  BY DEF B!EditTitle, B!IInv, B!TypeOK, B!TypeRow
<1>1. j \in B!Job /\ j.at = "write" /\ j.name = t /\ j.names = {t} /\ j.ends = {} /\ ~j.whole /\ j.entry = 0
  BY <1>0, IdleIsARequest DEF B!Job, B!States, B!Idle
<1>2. B!Begin(c, j)
  BY DEF B!EditTitle
<1>3. B!Shape(j)
  BY <1>1 DEF B!Shape
<1>4. B!Exists(t)'
  BY <1>0, <1>2 DEF B!Begin, B!Exists
<1>5. B!Relies(j)'
  BY <1>1, <1>4 DEF B!Relies, B!Unpublished
<1>. QED BY <1>1, <1>2, <1>3, <1>5, RequestKeeps

LEMMA UndoAsked ==
  ASSUME B!IInv, NEW c \in Clients, NEW k \in DOMAIN journal, B!Undo(c, k)
  PROVE  B!IInv'
<1>. PICK e : e = journal[k]
  OBVIOUS
<1>. PICK j : j = [B!Idle EXCEPT !.at = "write", !.name = e.name, !.names = {e.name}, !.title = e.was, !.entry = k]
  OBVIOUS
<1>1. k \in Nat \ {0} /\ e \in B!Entries /\ (e.op = "update" => e.name \in Types)
  BY LenProperties, ElementOfSeq DEF B!IInv, B!TypeOK
<1>2. CASE e.op = "update" /\ B!Begin(c, j)
  <2>1. j \in B!Job /\ j.at = "write" /\ j.name = e.name /\ j.names = {e.name} /\ j.ends = {} /\ ~j.whole /\ j.entry = k
    BY <1>1, IdleIsARequest DEF B!Job, B!States, B!Idle, B!Entries
  <2>2. B!Begin(c, j)
    BY <1>2
  <2>3. B!Shape(j)
    BY <1>1, <1>2, <2>1 DEF B!Shape
  <2>4. B!Relies(j)'
    BY <1>1, <2>1 DEF B!Relies, B!Unpublished
  <2>. QED BY <2>1, <2>2, <2>3, <2>4, RequestKeeps
<1>3. CASE B!Delete(c, e.name)
  <2>1. e.name \in Types \cup Items
    BY <1>1 DEF B!Entries
  <2>. QED BY <1>3, <2>1, DeleteAsked
<1>. QED BY <1>2, <1>3 DEF B!Undo

LEMMA RemoveTypeAsked ==
  ASSUME B!IInv, NEW c \in Clients, NEW t \in Types, B!RemoveType(c, t)
  PROVE  B!IInv'
<1>. PICK on : on = B!On(t, known.item)
  OBVIOUS
<1>. PICK j : j = [B!Idle EXCEPT !.at = "deep", !.name = t, !.names = {t} \cup on, !.ends = on]
  OBVIOUS
<1>0. on \subseteq Items
  BY DEF B!On, B!IInv, B!TypeOK
<1>1. j \in B!Job /\ j.at = "deep" /\ j.name = t /\ j.names = {t} \cup on /\ j.ends = on /\ ~j.whole
  BY <1>0, IdleIsARequest DEF B!Job, B!States, B!Idle
<1>2. B!Begin(c, j)
  BY DEF B!RemoveType
<1>3. t \notin Items
  BY NamesSayWhatTheyAre
<1>4. B!Shape(j)
  BY <1>0, <1>1, <1>3 DEF B!Shape
<1>5. t \notin bSpoiled' => B!DependentsOf(t)' \subseteq on
  <2>1. SUFFICES ASSUME t \notin bSpoiled', NEW i \in DOMAIN item \ bSpoiled', t \in item[i] PROVE i \in on
    BY <1>2 DEF B!DependentsOf, B!On, B!Begin
  <2>2. B!Registered(i)
    BY <1>1, <1>2, <2>1, Fresh
  <2>. QED BY <2>1, <2>2 DEF B!Registered, B!Same, B!SameType, B!SameItem, B!On
<1>6. B!Relies(j)'
  BY <1>1, <1>5 DEF B!Relies, B!Unpublished
<1>. QED BY <1>1, <1>2, <1>4, <1>6, RequestKeeps

LEMMA RemoveDatasetAsked ==
  ASSUME B!IInv, NEW c \in Clients, B!RemoveDataset(c)
  PROVE  B!IInv'
<1>. PICK j : j = [B!Idle EXCEPT !.at = "plan", !.names = Types \cup Items, !.types = DOMAIN known.type, !.whole = TRUE]
  OBVIOUS
<1>1. j \in B!Job /\ j.at = "plan" /\ j.names = Types \cup Items /\ j.types = DOMAIN known.type /\ j.whole
  BY IdleIsARequest DEF B!Job, B!States, B!Idle, B!IInv, B!TypeOK
<1>2. B!Begin(c, j)
  BY DEF B!RemoveDataset
<1>3. B!Shape(j)
  BY <1>1 DEF B!Shape
<1>4. DOMAIN type' \ bSpoiled' \subseteq j.types
  <2>1. SUFFICES ASSUME NEW t \in DOMAIN type \ bSpoiled' PROVE t \in DOMAIN known.type
    BY <1>1, <1>2 DEF B!Begin
  <2>2. t \in j.names
    BY <1>1, <2>1 DEF B!IInv, B!TypeOK
  <2>3. B!Registered(t)
    BY <1>1, <1>2, <2>1, <2>2, Fresh
  <2>. QED BY <2>1, <2>3 DEF B!Registered, B!Same, B!SameType, B!SameItem
<1>5. B!Relies(j)'
  BY <1>1, <1>4 DEF B!Relies, B!Unpublished
<1>. QED BY <1>1, <1>2, <1>3, <1>5, RequestKeeps

LEMMA ReloadAsked ==
  ASSUME B!IInv, NEW c \in Clients, B!Reload(c)
  PROVE  B!IInv'
<1>. PICK j : j = [B!Idle EXCEPT !.at = "reload"]
  OBVIOUS
<1>1. j \in B!Job /\ j.at = "reload" /\ j.names = {} /\ j.ends = {} /\ ~j.whole
  BY IdleIsARequest DEF B!Job, B!States, B!Idle
<1>2. B!Begin(c, j)
  BY DEF B!Reload
<1>3. B!Shape(j) /\ B!Relies(j)'
  BY <1>1 DEF B!Shape, B!Relies, B!Unpublished
<1>. QED BY <1>1, <1>2, <1>3, RequestKeeps

LEMMA RequestAsked ==
  ASSUME B!IInv, NEW c \in Clients, B!Ask(c)
  PROVE  B!IInv'
<1>1. CASE \E t \in Types, cols \in SUBSET Cols, title \in Cols : B!CreateType(c, t, cols, title)
  BY <1>1, CreateTypeAsked
<1>2. CASE \E i \in Items \ Metrics, ends \in (SUBSET Types) \ {{}} : B!CreateItem(c, i, ends)
  BY <1>2, CreateItemAsked
<1>3. CASE \E i \in Items, t \in Types : B!CreateMetric(c, i, t)
  BY <1>3, CreateItemAsked DEF B!CreateMetric
<1>4. CASE \E t \in Types, title \in Cols \cup {None} : B!EditTitle(c, t, title)
  BY <1>4, EditTitleAsked
<1>5. CASE \E n \in Types \cup Items : B!Delete(c, n)
  BY <1>5, DeleteAsked
<1>6. CASE \E k \in DOMAIN journal : B!Undo(c, k)
  BY <1>6, UndoAsked
<1>7. CASE \E t \in Types : B!RemoveType(c, t)
  BY <1>7, RemoveTypeAsked
<1>8. CASE B!RemoveDataset(c)
  BY <1>8, RemoveDatasetAsked
<1>9. CASE B!Reload(c)
  BY <1>9, ReloadAsked
<1>. QED BY <1>1, <1>2, <1>3, <1>4, <1>5, <1>6, <1>7, <1>8, <1>9 DEF B!Ask

(* The next statement of a request, or its end.                             *)
LEMMA GoesOn ==
  ASSUME B!IInv, NEW c \in Clients, NEW at \in B!States, B!To(c, at)
  PROVE  \E j \in B!Job :
            /\ bJob' = [bJob EXCEPT ![c] = j] /\ bJob' \in [Clients -> B!Job]
            /\ j.at = at /\ j.name = bJob[c].name /\ j.names = bJob[c].names /\ j.title = bJob[c].title
            /\ j.props = bJob[c].props /\ j.ends = bJob[c].ends /\ j.was = bJob[c].was /\ j.entry = bJob[c].entry
            /\ j.types = bJob[c].types /\ (j.whole <=> bJob[c].whole)
<1>1. bJob \in [Clients -> B!Job] /\ bJob[c] \in B!Job
  BY DEF B!IInv, B!TypeOK
<1>. PICK j : j = [bJob[c] EXCEPT !.at = at]
  OBVIOUS
<1>2. /\ j \in B!Job /\ j.at = at /\ j.name = bJob[c].name /\ j.names = bJob[c].names /\ j.title = bJob[c].title
      /\ j.props = bJob[c].props /\ j.ends = bJob[c].ends /\ j.was = bJob[c].was /\ j.entry = bJob[c].entry
      /\ j.types = bJob[c].types
  BY <1>1 DEF B!Job
<1>3. j.whole <=> bJob[c].whole
  BY <1>1, Zenon DEF B!Job
<1>4. bJob' = [bJob EXCEPT ![c] = j]
  BY DEF B!To
<1>. QED BY <1>1, <1>2, <1>3, <1>4

LEMMA RequestEnds ==
  ASSUME B!IInv, NEW c \in Clients, B!Ended(c)
  PROVE  bJob' = [bJob EXCEPT ![c] = B!Idle] /\ bJob' \in [Clients -> B!Job] /\ B!Shape(B!Idle)' /\ B!Relies(B!Idle)'
<1>1. bJob' = [bJob EXCEPT ![c] = B!Idle] /\ bJob' \in [Clients -> B!Job]
  BY IdleIsARequest DEF B!Ended, B!IInv, B!TypeOK
<1>2. B!Shape(B!Idle)' /\ B!Relies(B!Idle)'
  BY DEF B!Shape, B!Relies, B!Idle, B!Unpublished
<1>. QED BY <1>1, <1>2

LEMMA EntriesSame ==
  ASSUME journal' = journal
  PROVE  \A n : EntriesKept(n)
BY DEF EntriesKept, B!Bare, B!Made, B!Standing

LEMMA InsertKeeps ==
  ASSUME B!IInv, NEW c \in Clients, B!Insert(c)
  PROVE  B!IInv'
<1>. PICK t : t = bJob[c].name
  OBVIOUS
<1>0. t \notin bSpoiled => built
  BY NamesAreNames DEF B!Insert, B!Relies
<1>1. /\ bJob[c].at = "insert" /\ t \notin DOMAIN type /\ bJob[c].names = {t} /\ t \in Types /\ t \notin Items
      /\ bJob[c].title \in Cols \cup {None} /\ ~bJob[c].whole
  BY NamesAreNames, NamesSayWhatTheyAre DEF B!Insert, B!Shape, B!Job
<1>2. PICK j \in B!Job :
            /\ bJob' = [bJob EXCEPT ![c] = j] /\ bJob' \in [Clients -> B!Job]
            /\ j.at = "property" /\ j.name = t /\ j.names = {t} /\ j.title = bJob[c].title
            /\ (j.whole <=> bJob[c].whole)
  BY <1>1, GoesOn DEF B!Insert, B!States
<1>3. /\ UNCHANGED <<built, item, known, journal, bSpoiled, loaded, behind>>
      /\ DOMAIN type' = DOMAIN type \cup {t} /\ (\A n \in DOMAIN type : type'[n] = type[n])
      /\ type'[t] = [title |-> j.title, props |-> {}, flags |-> {}]
  BY <1>1, <1>2 DEF B!Insert, B!Put
<1>4. B!TypeOK'
  BY <1>1, <1>2, <1>3 DEF B!IInv, B!TypeOK, B!TypeRow
<1>5. B!Shape(j)'
  BY <1>1, <1>2 DEF B!Shape
<1>6. B!Relies(j)'
  BY <1>1, <1>2, <1>3 DEF B!Relies, B!Unpublished, B!IInv, B!TypeOK
<1>7. B!Stands'
  BY <1>0, <1>1, <1>3 DEF B!IInv, B!Stands
<1>8. \A n : EntriesKept(n)
  BY <1>3, EntriesSame
<1>9. \A n : n # t => RowKept(n)
  BY <1>3 DEF RowKept
<1>10. B!Titled(t)' /\ B!Unlogged(j, t) /\ j.at \in B!Unpublished
  BY <1>2, <1>3 DEF B!Titled, B!Unlogged, B!Unpublished
<1>. QED BY <1>1, <1>2, <1>3, <1>4, <1>5, <1>6, <1>7, <1>8, <1>9, <1>10, StepKeeps DEF B!Publishing

LEMMA InsertPropertyKeeps ==
  ASSUME B!IInv, NEW c \in Clients, B!InsertProperty(c)
  PROVE  B!IInv'
<1>. PICK o \in B!Job : o = bJob[c]
  BY NamesAreNames
<1>. DEFINE t == o.name
<1>1. /\ o.at = "property" /\ t \in DOMAIN type /\ t \in o.names /\ o.names \subseteq Types \cup Items
      /\ B!Shape(o) /\ B!Relies(o) /\ o.title \in Cols \cup {None} /\ ~o.whole /\ type[t] \in B!TypeRow
  BY NamesAreNames DEF B!InsertProperty, B!Shape, B!Job, B!IInv, B!TypeOK
<1>2. PICK col \in o.props \ type[t].props :
         /\ type' = [type EXCEPT ![t].props = @ \cup {col}, ![t].flags = @ \cup ({col} \cap {o.title})]
         /\ bJob' = [bJob EXCEPT ![c].props = @ \ {col}, ![c].at = IF o.props = {col} THEN "created" ELSE "property"]
  BY DEF B!InsertProperty
<1>. PICK j : j = [o EXCEPT !.props = @ \ {col}, !.at = IF o.props = {col} THEN "created" ELSE "property"]
  OBVIOUS
<1>3. /\ j \in B!Job /\ j.at \in {"created", "property"} /\ j.name = t /\ j.names = o.names /\ j.title = o.title
      /\ bJob \in [Clients -> B!Job] /\ bJob' = [bJob EXCEPT ![c] = j] /\ bJob' \in [Clients -> B!Job]
  BY <1>2 DEF B!IInv, B!TypeOK, B!Job, B!States
<1>4. ~j.whole
  BY <1>1, Zenon DEF B!Job
<1>5. /\ UNCHANGED <<built, item, known, journal, bSpoiled, loaded, behind>>
      /\ DOMAIN type' = DOMAIN type /\ (\A n \in DOMAIN type \ {t} : type'[n] = type[n])
      /\ type'[t].title = type[t].title /\ type'[t].props = type[t].props \cup {col}
      /\ type'[t].flags = type[t].flags \cup ({col} \cap {o.title}) /\ type'[t] \in B!TypeRow
  BY <1>1, <1>2 DEF B!InsertProperty, B!TypeRow, B!Job
<1>6. B!TypeOK'
  BY <1>1, <1>3, <1>5 DEF B!IInv, B!TypeOK, B!TypeRow
<1>7. B!Shape(j)'
  BY <1>1, <1>3, <1>4 DEF B!Shape
<1>8. t \notin bSpoiled => type[t].title = o.title
  BY <1>1 DEF B!Relies
<1>. HIDE DEF t
<1>9. B!Exists(t)'
  BY <1>1, <1>5 DEF B!Exists
<1>10. B!Relies(j)'
  BY <1>1, <1>3, <1>4, <1>5, <1>8, <1>9 DEF B!Relies, B!Unpublished
<1>11. B!Stands'
  BY <1>5 DEF B!IInv, B!Stands
<1>12. (\A n : EntriesKept(n)) /\ (\A n : n # t => RowKept(n))
  BY <1>5, EntriesSame DEF RowKept
<1>13. t \notin bSpoiled => B!Titled(t)'
  <2>1. t \notin bSpoiled => B!Titled(t)
    BY <1>1, OwnNames
  <2>. QED BY <1>5, <1>8, <2>1 DEF B!Titled
<1>14. ASSUME NEW n \in o.names \ bSpoiled
       PROVE  /\ j.at \notin B!Unpublished /\ n \notin behind => B!Registered(n)'
              /\ n \in DOMAIN type' /\ ~(j.at = "align" /\ j.name = n) => B!Titled(n)'
              /\ ~B!Unlogged(j, n) => B!Explained(n)'
  <2>1. j.at \in B!Unpublished /\ (n = t <=> B!Unlogged(j, n)) /\ (n = t <=> B!Unlogged(o, n))
    BY <1>1, <1>3 DEF B!Unpublished, B!Unlogged, t
  <2>2. n # t => B!Explained(n) /\ (n \in DOMAIN type => B!Titled(n))
    BY <1>1, <2>1, OwnNames DEF t
  <2>. QED BY <1>5, <1>12, <1>13, <2>1, <2>2 DEF B!Explained, B!Exists, B!Titled, EntriesKept, RowKept
<1>. QED BY <1>1, <1>3, <1>5, <1>6, <1>7, <1>10, <1>11, <1>12, <1>14, StepKeeps DEF B!Publishing

LEMMA InsertItemKeeps ==
  ASSUME B!IInv, NEW c \in Clients, B!InsertItem(c)
  PROVE  B!IInv'
<1>. PICK o \in B!Job : o = bJob[c]
  BY NamesAreNames
<1>. PICK i : i = o.name
  OBVIOUS
<1>1. /\ o.at = "insertItem" /\ i \notin DOMAIN item /\ i \in Items /\ i \notin Types /\ i \in o.names
      /\ o.names \cap Items = {i} /\ o.ends \subseteq o.names \cap Types /\ o.names \subseteq Types \cup Items
      /\ o.ends \ bSpoiled \subseteq DOMAIN type /\ ~o.whole
  BY NamesAreNames, NamesSayWhatTheyAre DEF B!InsertItem, B!Shape, B!Relies
<1>2. PICK j \in B!Job :
            /\ bJob' = [bJob EXCEPT ![c] = j] /\ bJob' \in [Clients -> B!Job]
            /\ j.at \in {"publishFirst", "created"} /\ j.name = i /\ j.names = o.names /\ (j.whole <=> o.whole)
  <2>1. \E at \in {"publishFirst", "created"} : B!To(c, at)
    BY DEF B!InsertItem
  <2>. QED BY <2>1, GoesOn DEF B!States
<1>3. /\ UNCHANGED <<built, type, known, journal, bSpoiled, loaded, behind>>
      /\ DOMAIN item' = DOMAIN item \cup {i} /\ (\A n \in DOMAIN item : item'[n] = item[n]) /\ item'[i] = o.ends
  BY <1>1 DEF B!InsertItem, B!Put
<1>4. B!TypeOK'
  BY <1>1, <1>2, <1>3 DEF B!IInv, B!TypeOK, B!TypeRow
<1>5. B!Shape(j)'
  BY <1>1, <1>2 DEF B!Shape
<1>6. i \notin bSpoiled => B!Bare(i)
  <2>1. ~B!Exists(i) /\ ~B!Unlogged(o, i)
    BY <1>1 DEF B!Exists, B!Unlogged, B!IInv, B!TypeOK
  <2>. QED BY <1>1, <2>1, OwnNames DEF B!Explained
<1>7. (\A n : EntriesKept(n)) /\ (\A n : n # i => RowKept(n)) /\ B!Exists(i)'
  BY <1>3, EntriesSame DEF RowKept, B!Exists
<1>8. B!Relies(j)'
  <2>1. \A n \in (j.names \cap DOMAIN item') \ bSpoiled' : item'[n] \subseteq j.names
    BY <1>1, <1>2, <1>3, <1>4 DEF B!TypeOK
  <2>2. i \notin bSpoiled => B!Bare(i)'
    BY <1>6, <1>7 DEF EntriesKept
  <2>. QED BY <1>1, <1>2, <1>3, <1>7, <2>1, <2>2 DEF B!Relies, B!Unpublished
<1>9. B!Stands'
  BY <1>1, <1>3 DEF B!IInv, B!Stands
<1>10. ASSUME NEW n \in o.names \ bSpoiled
       PROVE  /\ j.at \notin B!Unpublished /\ n \notin behind => B!Registered(n)'
              /\ n \in DOMAIN type' /\ ~(j.at = "align" /\ j.name = n) => B!Titled(n)'
              /\ ~B!Unlogged(j, n) => B!Explained(n)'
  <2>1. j.at \in B!Unpublished /\ (n = i <=> B!Unlogged(j, n)) /\ ~B!Unlogged(o, n)
    BY <1>1, <1>2 DEF B!Unpublished, B!Unlogged
  <2>2. B!Explained(n) /\ (n \in DOMAIN type => B!Titled(n))
    BY <1>1, <2>1, OwnNames
  <2>. QED BY <1>3, <1>7, <2>1, <2>2 DEF B!Explained, B!Exists, B!Titled, EntriesKept, RowKept
<1>. QED BY <1>1, <1>2, <1>3, <1>4, <1>5, <1>7, <1>8, <1>9, <1>10, StepKeeps DEF B!Publishing

LEMMA WriteTitleKeeps ==
  ASSUME B!IInv, NEW c \in Clients, B!WriteTitle(c)
  PROVE  B!IInv'
<1>. PICK o \in B!Job : o = bJob[c]
  BY NamesAreNames
<1>. PICK t : t = o.name
  OBVIOUS
<1>1. /\ o.at = "write" /\ o.names = {t} /\ t \in Types /\ t \notin Items /\ o.title \in Cols \cup {None} /\ ~o.whole
      /\ B!Shape(o) /\ B!Relies(o) /\ DOMAIN type \subseteq Types /\ DOMAIN item \subseteq Items
  BY NamesAreNames, NamesSayWhatTheyAre DEF B!WriteTitle, B!Shape, B!Job
<1>2. PICK j \in B!Job :
            /\ bJob' = [bJob EXCEPT ![c] = j] /\ bJob' \in [Clients -> B!Job]
            /\ j.at = "align" /\ j.name = t /\ j.names = {t} /\ j.title = o.title /\ j.entry = o.entry /\ (j.whole <=> o.whole)
  BY <1>1, GoesOn DEF B!WriteTitle, B!States
<1>3. /\ UNCHANGED <<built, item, known, journal, bSpoiled, loaded, behind>> /\ DOMAIN type' = DOMAIN type
      /\ \A n \in DOMAIN type \ {t} : type'[n] = type[n]
      /\ t \in DOMAIN type => type'[t] = [type[t] EXCEPT !.title = o.title]
  BY DEF B!WriteTitle, B!Write
<1>4. t \in DOMAIN type => type[t] \in B!TypeRow /\ type'[t] \in B!TypeRow /\ type'[t].title = o.title
  BY <1>1, <1>3 DEF B!IInv, B!TypeOK, B!TypeRow
<1>5. B!TypeOK'
  BY <1>2, <1>3, <1>4 DEF B!IInv, B!TypeOK, B!TypeRow
<1>6. B!Shape(j)'
  BY <1>1, <1>2, <1>3 DEF B!Shape
<1>7. (\A n : EntriesKept(n)) /\ (\A n : n # t => RowKept(n)) /\ (\A n : B!Exists(n)' <=> B!Exists(n))
  BY <1>3, EntriesSame DEF RowKept, B!Exists
<1>8. B!Relies(j)'
  <2>1. j.names \cap DOMAIN item' = {}
    BY <1>1, <1>2, <1>3
  <2>2. j.entry = 0 /\ t \notin bSpoiled => B!Exists(t)'
    BY <1>1, <1>2, <1>7 DEF B!Relies
  <2>. QED BY <1>1, <1>2, <1>3, <1>4, <2>1, <2>2 DEF B!Relies, B!Unpublished
<1>9. B!Stands'
  BY <1>3 DEF B!IInv, B!Stands
<1>10. j.at \in B!Unpublished /\ (t \notin bSpoiled => B!Explained(t)')
  <2>1. t \notin bSpoiled => B!Explained(t)
    BY <1>1, OwnNames DEF B!Unlogged
  <2>. QED BY <1>2, <1>7, <2>1 DEF B!Unpublished, B!Explained, EntriesKept
<1>. QED BY <1>1, <1>2, <1>3, <1>5, <1>6, <1>7, <1>8, <1>9, <1>10, StepKeeps DEF B!Publishing

LEMMA AlignTitleKeeps ==
  ASSUME B!IInv, NEW c \in Clients, B!AlignTitle(c)
  PROVE  B!IInv'
<1>. PICK o \in B!Job : o = bJob[c]
  BY NamesAreNames
<1>. PICK t : t = o.name
  OBVIOUS
<1>1. /\ o.at = "align" /\ t \in o.names /\ t \in Types /\ o.title \in Cols \cup {None} /\ ~o.whole
      /\ B!Shape(o) /\ B!Relies(o) /\ DOMAIN type \subseteq Types /\ o.names \subseteq Types \cup Items
  BY NamesAreNames DEF B!AlignTitle, B!Shape, B!Job
<1>2. PICK j \in B!Job :
            /\ bJob' = [bJob EXCEPT ![c] = j] /\ bJob' \in [Clients -> B!Job]
            /\ j.at \in {"updated", "undone"} /\ (j.at = "updated" <=> j.entry = 0)
            /\ j.name = t /\ j.names = o.names /\ j.entry = o.entry /\ (j.whole <=> o.whole)
  <2>1. \E at \in {"updated", "undone"} : B!To(c, at) /\ (at = "updated" <=> o.entry = 0)
    BY DEF B!AlignTitle
  <2>. QED BY <2>1, GoesOn DEF B!States
<1>3. /\ UNCHANGED <<built, item, known, journal, bSpoiled, loaded, behind>> /\ DOMAIN type' = DOMAIN type
      /\ \A n \in DOMAIN type \ {t} : type'[n] = type[n]
      /\ t \in DOMAIN type => type'[t] = [type[t] EXCEPT !.flags = {o.title} \cap type[t].props]
  BY DEF B!AlignTitle, B!Align
<1>4. t \in DOMAIN type => /\ type[t] \in B!TypeRow /\ type'[t] \in B!TypeRow /\ type'[t].title = type[t].title
                           /\ type'[t].props = type[t].props /\ type'[t].flags = {o.title} \cap type[t].props
  BY <1>1, <1>3 DEF B!IInv, B!TypeOK, B!TypeRow
<1>5. B!TypeOK'
  BY <1>2, <1>3, <1>4 DEF B!IInv, B!TypeOK, B!TypeRow
<1>6. B!Shape(j)'
  BY <1>1, <1>2, <1>3 DEF B!Shape
<1>7. (\A n : EntriesKept(n)) /\ (\A n : n # t => RowKept(n)) /\ (\A n : B!Exists(n)' <=> B!Exists(n))
  BY <1>3, EntriesSame DEF RowKept, B!Exists
<1>8. B!Relies(j)'
  <2>1. j.entry = 0 /\ t \notin bSpoiled => B!Exists(t)'
    BY <1>1, <1>2, <1>7 DEF B!Relies
  <2>2. \A n \in (j.names \cap DOMAIN item') \ bSpoiled' : item'[n] \subseteq j.names
    BY <1>1, <1>2, <1>3 DEF B!Relies, B!Unpublished
  <2>. QED BY <1>1, <1>2, <1>3, <2>1, <2>2 DEF B!Relies, B!Unpublished
<1>9. B!Stands'
  BY <1>3 DEF B!IInv, B!Stands
<1>10. t \in DOMAIN type \ bSpoiled => B!Titled(t)'
  BY <1>1, <1>4 DEF B!Relies, B!Titled
<1>11. ASSUME NEW n \in o.names \ bSpoiled
       PROVE  /\ j.at \notin B!Unpublished /\ n \notin behind => B!Registered(n)'
              /\ n \in DOMAIN type' /\ ~(j.at = "align" /\ j.name = n) => B!Titled(n)'
              /\ ~B!Unlogged(j, n) => B!Explained(n)'
  <2>1. j.at \in B!Unpublished /\ ~B!Unlogged(o, n)
    BY <1>1, <1>2 DEF B!Unpublished, B!Unlogged
  <2>2. B!Explained(n) /\ (n \in DOMAIN type /\ n # t => B!Titled(n))
    BY <1>1, <2>1, OwnNames
  <2>. QED BY <1>3, <1>7, <1>10, <2>1, <2>2 DEF B!Explained, B!Titled, EntriesKept, RowKept
<1>. QED BY <1>1, <1>2, <1>3, <1>5, <1>6, <1>7, <1>8, <1>9, <1>11, StepKeeps DEF B!Publishing

(* An entry of a creation, an edit or an undo, ...                          *)
LEMMA EntryRecorded ==
  ASSUME B!IInv, NEW c \in Clients, bJob[c].at \in {"created", "updated", "undone", "withdraw"}, B!Record(c)
  PROVE  B!IInv'
<1>. PICK o \in B!Job : o = bJob[c]
  BY NamesAreNames
<1>. PICK n : n = o.name
  OBVIOUS
<1>1. /\ o.at \in {"created", "updated", "undone", "withdraw"} /\ n \in o.names /\ o.names \subseteq Types \cup Items
      /\ n \in Types \cup Items /\ o.was \in Cols \cup {None} /\ ~o.whole
      /\ B!Shape(o) /\ B!Relies(o) /\ journal \in Seq(B!Entries)
  BY NamesAreNames DEF B!Shape, B!Job, B!IInv, B!TypeOK
<1>2. PICK at \in {"publish", "deleted"} :
         /\ B!To(c, at) /\ (at = "deleted" <=> o.at = "withdraw")
         /\ \/ o.at = "created" /\ journal' = Append(journal, B!Entry(n, "create", None))
            \/ o.at = "updated" /\ journal' = Append(journal, B!Entry(n, "update", o.was))
            \/ o.at = "undone" /\ journal' = [journal EXCEPT ![o.entry].active = FALSE]
            \/ o.at = "withdraw" /\ journal' = B!Retired({n})
  BY <1>1 DEF B!Record, B!Log
<1>3. PICK j \in B!Job :
            /\ bJob' = [bJob EXCEPT ![c] = j] /\ bJob' \in [Clients -> B!Job]
            /\ j.at = at /\ j.name = n /\ j.names = o.names /\ j.ends = o.ends /\ (j.whole <=> o.whole)
  BY <1>2, GoesOn DEF B!States
<1>4. UNCHANGED <<built, type, item, known, bSpoiled, loaded, behind>>
  BY DEF B!Record
<1>5. /\ journal' \in Seq(B!Entries)
      /\ \A k \in DOMAIN journal : k \in DOMAIN journal' /\ journal'[k].name = journal[k].name /\ journal'[k].op = journal[k].op
      /\ \A k \in DOMAIN journal' \ DOMAIN journal : journal'[k].op = "update" => journal'[k].name \in Types
      /\ \A m : m # n => EntriesKept(m)
      /\ n \notin bSpoiled => B!Explained(n)'
  <2>1. CASE o.at = "created"
    <3>. PICK e : e = B!Entry(n, "create", None)
      OBVIOUS
    <3>1. /\ e \in B!Entries /\ journal' = Append(journal, e) /\ e.name = n /\ e.op = "create" /\ e.active
      BY <1>1, <1>2, <2>1 DEF B!Entry, B!Entries
    <3>2. n \notin bSpoiled => B!Exists(n)
      BY <1>1, <2>1 DEF B!Relies
    <3>. QED BY <1>1, <1>4, <3>1, <3>2, EntryAdded DEF B!Explained, B!Exists, EntriesKept
  <2>2. CASE o.at = "updated"
    <3>. PICK e : e = B!Entry(n, "update", o.was)
      OBVIOUS
    <3>1. /\ e \in B!Entries /\ journal' = Append(journal, e) /\ e.name = n /\ e.op = "update" /\ n \in Types
      BY <1>1, <1>2, <2>2 DEF B!Entry, B!Entries, B!Shape
    <3>2. n \notin bSpoiled => B!Exists(n) /\ B!Made(n)
      <4>1. n \notin bSpoiled => B!Exists(n)
        BY <1>1, <2>2 DEF B!Relies, B!Shape
      <4>. QED BY <1>1, <2>2, <4>1, OwnNames DEF B!Explained, B!Unlogged
    <3>. QED BY <1>1, <1>4, <3>1, <3>2, EntryAdded DEF B!Explained, B!Exists, EntriesKept
  <2>3. CASE o.at = "undone"
    <3>. PICK k : k = o.entry
      OBVIOUS
    <3>1. /\ k \in DOMAIN journal /\ journal[k].name = n /\ journal[k].op = "update"
          /\ journal' = [journal EXCEPT ![k].active = FALSE]
      BY <1>1, <1>2, <2>3 DEF B!Shape
    <3>2. /\ Len(journal) \in Nat /\ DOMAIN journal = 1..Len(journal) /\ \A m \in 1..Len(journal) : journal[m] \in B!Entries
      BY <1>1, LenProperties, ElementOfSeq
    <3>3. /\ DOMAIN journal' = DOMAIN journal
          /\ \A m \in DOMAIN journal \ {k} : journal'[m] = journal[m]
          /\ journal'[k] = [journal[k] EXCEPT !.active = FALSE]
      BY <3>1
    <3>4. journal'[k] \in B!Entries /\ journal'[k].name = n /\ journal'[k].op = "update" /\ ~journal'[k].active
      <4>1. journal[k] \in B!Entries
        BY <3>1, <3>2
      <4>2. \A e \in B!Entries : LET f == [e EXCEPT !.active = FALSE] IN
                f \in B!Entries /\ f.name = e.name /\ f.op = e.op /\ ~f.active
        BY DEF B!Entries
      <4>. QED BY <3>1, <3>3, <4>1, <4>2
    <3>5. journal' \in Seq(B!Entries)
      <4>1. journal' \in [1..Len(journal) -> B!Entries]
        BY <3>1, <3>2, <3>3, <3>4
      <4>. QED BY <3>2, <4>1, SeqDef
    <3>6. \A m : B!Standing(m)' \subseteq B!Standing(m) /\ (m # n => B!Standing(m)' = B!Standing(m))
      BY <3>1, <3>3, <3>4 DEF B!Standing
    <3>7. \A m : \A i \in B!Standing(m) : (i \in B!Standing(m)' \/ i = k) /\ (i \in DOMAIN journal)
      BY <3>1, <3>3, <3>4 DEF B!Standing
    <3>8. \A i \in DOMAIN journal : journal'[i].name = journal[i].name /\ journal'[i].op = journal[i].op
      BY <3>1, <3>3, <3>4
    <3>9. \A m : m # n => EntriesKept(m)
      BY <3>3, <3>6, <3>7, <3>8 DEF EntriesKept, B!Bare, B!Made
    <3>10. n \notin bSpoiled => B!Explained(n)
      BY <1>1, <2>3, OwnNames DEF B!Unlogged
    <3>11. (B!Bare(n) => B!Bare(n)') /\ (B!Made(n) => B!Made(n)')
      BY <3>1, <3>6, <3>7, <3>8 DEF B!Bare, B!Made
    <3>12. n \notin bSpoiled => B!Explained(n)'
      BY <1>4, <3>10, <3>11 DEF B!Explained, B!Exists
    <3>. QED BY <3>3, <3>5, <3>8, <3>9, <3>12
  <2>4. CASE o.at = "withdraw"
    <3>1. /\ journal' \in Seq(B!Entries) /\ DOMAIN journal' = DOMAIN journal
          /\ \A k \in DOMAIN journal : journal'[k].name = journal[k].name /\ journal'[k].op = journal[k].op
          /\ \A m : m \notin {n} => (B!Bare(m)' <=> B!Bare(m)) /\ (B!Made(m)' <=> B!Made(m))
          /\ \A m \in {n} : B!Bare(m)'
      BY <1>1, <1>2, <2>4, EntriesWithdrawn
    <3>2. n \notin bSpoiled => ~B!Exists(n)
      BY <1>1, <2>4 DEF B!Relies
    <3>. QED BY <1>4, <3>1, <3>2 DEF B!Explained, B!Exists, EntriesKept
  <2>. QED BY <1>1, <2>1, <2>2, <2>3, <2>4
<1>6. B!TypeOK'
  <2>1. \A k \in DOMAIN journal' : journal'[k].op = "update" => journal'[k].name \in Types
    BY <1>5 DEF B!IInv, B!TypeOK
  <2>. QED BY <1>3, <1>4, <1>5, <2>1 DEF B!IInv, B!TypeOK, B!TypeRow
<1>7. B!Shape(j)'
  BY <1>1, <1>2, <1>3 DEF B!Shape
<1>8. B!Relies(j)'
  BY <1>1, <1>2, <1>3, <1>4 DEF B!Relies, B!Unpublished
<1>9. B!Stands'
  BY <1>4 DEF B!IInv, B!Stands
<1>10. \A m : RowKept(m)
  BY <1>4 DEF RowKept
<1>11. ASSUME NEW m \in o.names \ bSpoiled
       PROVE  /\ j.at \notin B!Unpublished /\ m \notin behind => B!Registered(m)'
              /\ m \in DOMAIN type' /\ ~(j.at = "align" /\ j.name = m) => B!Titled(m)'
              /\ ~B!Unlogged(j, m) => B!Explained(m)'
  <2>1. j.at \in B!Unpublished /\ o.at # "align" /\ (m # n => ~B!Unlogged(o, m))
    BY <1>1, <1>2, <1>3 DEF B!Unpublished, B!Unlogged
  <2>2. (m \in DOMAIN type => B!Titled(m)) /\ (m # n => B!Explained(m))
    BY <1>1, <2>1, OwnNames
  <2>3. m \in DOMAIN type' => B!Titled(m)'
    BY <1>4, <2>2 DEF B!Titled
  <2>4. B!Explained(m)'
    BY <1>4, <1>5, <2>2 DEF B!Explained, B!Exists, EntriesKept
  <2>. QED BY <2>1, <2>3, <2>4
<1>. QED BY <1>1, <1>3, <1>4, <1>5, <1>6, <1>7, <1>8, <1>9, <1>10, <1>11, StepKeeps DEF B!Publishing

(* ... and of a deletion.                                                   *)
LEMMA DeletionRecorded ==
  ASSUME B!IInv, NEW c \in Clients, bJob[c].at = "deleted", B!Record(c)
  PROVE  B!IInv'
<1>. PICK o \in B!Job : o = bJob[c]
  BY NamesAreNames
<1>1. /\ o.at = "deleted" /\ o.name \in o.names /\ o.names \subseteq Types \cup Items
      /\ o.ends \subseteq o.names \cap Items /\ B!Shape(o) /\ B!Relies(o) /\ journal \in Seq(B!Entries)
      /\ (o.whole => o.names = Types \cup Items) /\ bJob \in [Clients -> B!Job]
  BY NamesAreNames DEF B!Shape, B!Job, B!IInv, B!TypeOK
<1>2. \E n \in Types \cup Items, j \in B!Job :
         /\ journal' = Append(journal, B!Entry(n, "delete", None))
         /\ bJob' = [bJob EXCEPT ![c] = j] /\ bJob' \in [Clients -> B!Job]
         /\ j.at \in {"publish", "deleted"} /\ j.name = o.name /\ j.names = o.names /\ j.ends \subseteq o.ends
         /\ j.types = o.types /\ (j.whole <=> o.whole)
  <2>1. CASE o.ends = {} /\ B!Log(o.name, "delete", None) /\ B!To(c, "publish")
    <3>1. \E j \in B!Job :
            /\ bJob' = [bJob EXCEPT ![c] = j] /\ bJob' \in [Clients -> B!Job]
            /\ j.at = "publish" /\ j.name = o.name /\ j.names = o.names /\ j.ends = o.ends
            /\ j.types = o.types /\ (j.whole <=> o.whole)
      BY <2>1, GoesOn DEF B!States
    <3>. QED BY <1>1, <2>1, <3>1 DEF B!Log
  <2>2. CASE \E i \in o.ends : B!Log(i, "delete", None) /\ bJob' = [bJob EXCEPT ![c].ends = @ \ {i}]
    <3>1. PICK i \in o.ends : B!Log(i, "delete", None) /\ bJob' = [bJob EXCEPT ![c].ends = @ \ {i}]
      BY <2>2
    <3>. PICK j : j = [o EXCEPT !.ends = @ \ {i}]
      OBVIOUS
    <3>2. /\ j \in B!Job /\ j.at = "deleted" /\ j.name = o.name /\ j.names = o.names /\ j.ends \subseteq o.ends
          /\ j.types = o.types /\ bJob' = [bJob EXCEPT ![c] = j] /\ bJob' \in [Clients -> B!Job]
      BY <1>1, <3>1 DEF B!Job
    <3>3. j.whole <=> o.whole
      BY Zenon DEF B!Job
    <3>. QED BY <1>1, <3>1, <3>2, <3>3 DEF B!Log
  <2>. QED BY <1>1, <2>1, <2>2 DEF B!Record
<1>3. PICK n \in Types \cup Items : \E j \in B!Job :
         /\ journal' = Append(journal, B!Entry(n, "delete", None))
         /\ bJob' = [bJob EXCEPT ![c] = j] /\ bJob' \in [Clients -> B!Job]
         /\ j.at \in {"publish", "deleted"} /\ j.name = o.name /\ j.names = o.names /\ j.ends \subseteq o.ends
         /\ j.types = o.types /\ (j.whole <=> o.whole)
  BY <1>2
<1>4. PICK j \in B!Job :
         /\ journal' = Append(journal, B!Entry(n, "delete", None))
         /\ bJob' = [bJob EXCEPT ![c] = j] /\ bJob' \in [Clients -> B!Job]
         /\ j.at \in {"publish", "deleted"} /\ j.name = o.name /\ j.names = o.names /\ j.ends \subseteq o.ends
         /\ j.types = o.types /\ (j.whole <=> o.whole)
  BY <1>3
<1>5. UNCHANGED <<built, type, item, known, bSpoiled, loaded, behind>>
  BY DEF B!Record
<1>. PICK e : e = B!Entry(n, "delete", None)
  OBVIOUS
<1>6. e \in B!Entries /\ journal' = Append(journal, e) /\ e.op = "delete"
  BY <1>4 DEF B!Entry, B!Entries
<1>7. /\ journal' \in Seq(B!Entries) /\ (\A m : EntriesKept(m))
      /\ \A k \in DOMAIN journal : k \in DOMAIN journal' /\ journal'[k] = journal[k]
      /\ \A k \in DOMAIN journal' : k \in DOMAIN journal \/ journal'[k] = e
  BY <1>1, <1>6, EntryAdded DEF EntriesKept
<1>8. B!TypeOK'
  <2>1. \A k \in DOMAIN journal' : journal'[k].op = "update" => journal'[k].name \in Types
    BY <1>6, <1>7 DEF B!IInv, B!TypeOK
  <2>. QED BY <1>4, <1>5, <1>7, <2>1 DEF B!IInv, B!TypeOK, B!TypeRow
<1>9. B!Shape(j)'
  BY <1>1, <1>4 DEF B!Shape
<1>10. B!Relies(j)'
  BY <1>1, <1>4, <1>5 DEF B!Relies, B!Unpublished
<1>11. B!Stands'
  BY <1>5 DEF B!IInv, B!Stands
<1>12. \A m : RowKept(m)
  BY <1>5 DEF RowKept
<1>13. ASSUME NEW m \in o.names \ bSpoiled
       PROVE  /\ j.at \notin B!Unpublished /\ m \notin behind => B!Registered(m)'
              /\ m \in DOMAIN type' /\ ~(j.at = "align" /\ j.name = m) => B!Titled(m)'
              /\ ~B!Unlogged(j, m) => B!Explained(m)'
  <2>1. j.at \in B!Unpublished /\ o.at # "align" /\ ~B!Unlogged(o, m)
    BY <1>1, <1>4 DEF B!Unpublished, B!Unlogged
  <2>2. (m \in DOMAIN type => B!Titled(m)) /\ B!Explained(m)
    BY <1>1, <2>1, OwnNames
  <2>3. m \in DOMAIN type' => B!Titled(m)'
    BY <1>5, <2>2 DEF B!Titled
  <2>4. B!Explained(m)'
    BY <1>5, <1>7, <2>2 DEF B!Explained, B!Exists, EntriesKept
  <2>. QED BY <2>1, <2>3, <2>4
<1>. QED BY <1>1, <1>4, <1>5, <1>7, <1>8, <1>9, <1>10, <1>11, <1>12, <1>13, StepKeeps DEF B!Publishing

(* The rows are read for the registry.                                      *)
LEMMA LoadKeeps ==
  ASSUME B!IInv, NEW c \in Clients, B!LoadTypes(c) \/ B!LoadItems(c)
  PROVE  B!IInv'
<1>1. /\ UNCHANGED <<built, type, item, known, journal, bJob, bSpoiled, behind>> /\ bJob[c].at \in B!Publishing
      /\ loaded = [d \in Clients |-> loaded[d]]
  BY DEF B!LoadTypes, B!LoadItems, B!IInv, B!Carries, B!LoadedOK
<1>2. PICK types, items :
         /\ loaded' = [loaded EXCEPT ![c] = [type |-> types, item |-> items]]
         /\ \/ types = type /\ items = None
            \/ loaded[c] # None /\ types = loaded[c].type /\ items = item
  BY DEF B!LoadTypes, B!LoadItems
<1>. PICK l : l = [type |-> types, item |-> items]
  OBVIOUS
<1>3. /\ loaded' = [d \in Clients |-> loaded'[d]] /\ loaded'[c] = l /\ \A d \in Clients \ {c} : loaded'[d] = loaded[d]
      /\ l.type = types /\ l.item = items
  BY <1>1, <1>2
<1>4. /\ DOMAIN types \subseteq Types /\ (\A t \in DOMAIN types : types[t] \in B!TypeRow)
      /\ items # None => DOMAIN items \subseteq Items
  BY <1>2 DEF B!IInv, B!TypeOK, B!LoadedOK
<1>5. B!LoadedOK'
  BY <1>1, <1>3, <1>4 DEF B!IInv, B!LoadedOK, B!TypeRow
<1>6. ASSUME NEW n \in bJob[c].names \ bSpoiled
      PROVE  B!SameType(l, n) /\ (items # None => B!SameItem(l, n))
  BY <1>2, <1>3, <1>6 DEF B!IInv, B!Carries, B!SameType, B!SameItem
<1>7. B!Carries'
  BY <1>1, <1>3, <1>6 DEF B!IInv, B!Carries, B!SameType, B!SameItem
<1>8. B!TypeOK' /\ B!Apart' /\ B!TitlesFollow' /\ B!Stands'
  BY <1>1 DEF B!IInv, B!TypeOK, B!TypeRow, B!Entries, B!Apart, B!TitlesFollow, B!Titled, B!Stands
<1>9. \A d \in Clients : B!Shape(bJob[d])' /\ B!Relies(bJob[d])'
  BY <1>1 DEF B!IInv, B!Shape, B!Relies, B!DependentsOf, B!On, B!Exists, B!Bare, B!Standing
<1>10. B!RegistryFollows' /\ B!JournalFollows'
  BY <1>1 DEF B!IInv, B!RegistryFollows, B!Registered, B!Same, B!SameType, B!SameItem, B!Published, B!JournalFollows,
              B!Unlogged, B!Explained, B!Exists, B!Made, B!Bare, B!Standing
<1>. QED BY <1>5, <1>7, <1>8, <1>9, <1>10 DEF B!IInv

(* Of its own names it installs what the rows say; of the others, what is   *)
(* out of step then is behind or has still to be published.                 *)
LEMMA InstallKeeps ==
  ASSUME B!IInv, NEW c \in Clients, B!Install(c)
  PROVE  B!IInv'
<1>. PICK o \in B!Job : o = bJob[c]
  BY NamesAreNames
<1>1. /\ o.at \in {"publishFirst", "publish", "reload"} /\ o.names \subseteq Types \cup Items
      /\ B!Shape(o) /\ B!Relies(o) /\ DOMAIN type \subseteq Types /\ DOMAIN item \subseteq Items
  BY NamesAreNames DEF B!Install
<1>2. PICK j \in B!Job :
         /\ bJob' = [bJob EXCEPT ![c] = j] /\ bJob' \in [Clients -> B!Job]
         /\ j = B!Idle \/ (/\ j.name = o.name /\ j.names = o.names /\ j.ends = o.ends /\ j.types = o.types
                           /\ (j.whole <=> o.whole)
                           /\ (j.at = "trial" /\ o.at = "publishFirst") \/ (j.at = "plan" /\ o.at = "publish" /\ o.whole))
         /\ o.at = "publishFirst" => j.at = "trial"
         /\ j = B!Idle => B!Shape(j)' /\ B!Relies(j)'
  <2>1. CASE o.at = "publishFirst" /\ B!To(c, "trial")
    <3>1. PICK j \in B!Job :
            /\ bJob' = [bJob EXCEPT ![c] = j] /\ bJob' \in [Clients -> B!Job]
            /\ j.at = "trial" /\ j.name = o.name /\ j.names = o.names /\ j.ends = o.ends
            /\ j.types = o.types /\ (j.whole <=> o.whole)
      BY <2>1, GoesOn DEF B!States
    <3>2. j # B!Idle
      BY <3>1, IdleIsARequest
    <3>. QED BY <2>1, <3>1, <3>2
  <2>2. CASE o.at = "publish" /\ o.whole /\ B!To(c, "plan")
    <3>1. PICK j \in B!Job :
            /\ bJob' = [bJob EXCEPT ![c] = j] /\ bJob' \in [Clients -> B!Job]
            /\ j.at = "plan" /\ j.name = o.name /\ j.names = o.names /\ j.ends = o.ends
            /\ j.types = o.types /\ (j.whole <=> o.whole)
      BY <2>2, GoesOn DEF B!States
    <3>2. j # B!Idle
      BY <3>1, IdleIsARequest
    <3>. QED BY <2>2, <3>1, <3>2
  <2>3. CASE o.at \in {"publish", "reload"} /\ B!Ended(c)
    BY <2>3, IdleIsARequest, RequestEnds
  <2>. QED BY <1>1, <2>1, <2>2, <2>3 DEF B!Install
<1>3. /\ UNCHANGED <<built, type, item, journal, bSpoiled>> /\ known' = loaded[c] /\ loaded[c] # None /\ loaded[c].item # None
      /\ loaded' = [loaded EXCEPT ![c] = None] /\ loaded = [d \in Clients |-> loaded[d]]
      /\ behind' = {n \in (Types \cup Items) \ o.names :
            ~B!Same(loaded[c], n) /\ \A d \in Clients : n \in bJob[d].names => bJob[d].at \notin B!Unpublished}
  BY DEF B!Install, B!IInv, B!LoadedOK
<1>4. \A n : RowKept(n) /\ EntriesKept(n)
  BY <1>3, EntriesSame DEF RowKept
<1>5. B!TypeOK'
  <2>1. /\ DOMAIN known'.type \subseteq Types /\ \A t \in DOMAIN known'.type : known'.type[t] \in B!TypeRow
        /\ DOMAIN known'.item \subseteq Items
    BY <1>3 DEF B!IInv, B!LoadedOK
  <2>. QED BY <1>2, <1>3, <2>1 DEF B!IInv, B!TypeOK, B!TypeRow
<1>6. B!Shape(j)'
  <2>1. CASE j = B!Idle
    BY <1>2, <2>1
  <2>2. CASE j # B!Idle
    BY <1>1, <1>2, <2>2 DEF B!Shape
  <2>. QED BY <2>1, <2>2
<1>7. B!Relies(j)'
  <2>1. CASE j = B!Idle
    BY <1>2, <2>1
  <2>2. CASE j.at = "trial" /\ j # B!Idle
    <3>1. ~o.whole /\ o.at = "publishFirst"
      BY <1>1, <1>2, <2>2 DEF B!Shape
    <3>. QED BY <1>1, <1>2, <1>3, <1>4, <2>2, <3>1 DEF B!Relies, B!Unpublished, EntriesKept
  <2>3. CASE j.at = "plan" /\ j # B!Idle
    BY <1>1, <1>2, <1>3, <2>3 DEF B!Relies, B!Unpublished
  <2>. QED BY <1>2, <2>1, <2>2, <2>3
<1>8. B!Stands'
  BY <1>3 DEF B!IInv, B!Stands
<1>9. ASSUME NEW m \in o.names \ bSpoiled
       PROVE  /\ m \in DOMAIN type' /\ ~(j.at = "align" /\ j.name = m) => B!Titled(m)'
              /\ ~B!Unlogged(j, m) => B!Explained(m)'
  <2>1. o.at # "align" /\ (B!Unlogged(o, m) => B!Unlogged(j, m))
    BY <1>1, <1>2, IdleIsARequest DEF B!Unlogged
  <2>2. (m \in DOMAIN type => B!Titled(m)) /\ (~B!Unlogged(o, m) => B!Explained(m))
    BY <1>1, <2>1, OwnNames
  <2>3. m \in DOMAIN type' => B!Titled(m)'
    BY <1>3, <2>2 DEF B!Titled
  <2>4. ~B!Unlogged(o, m) => B!Explained(m)'
    BY <1>3, <1>4, <2>2 DEF B!Explained, B!Exists, EntriesKept
  <2>. QED BY <2>1, <2>3, <2>4
<1>10. bJob \in [Clients -> B!Job] /\ bJob'[c] = j /\ (\A d \in Clients : d # c => bJob'[d] = bJob[d])
  BY <1>2 DEF B!IInv, B!TypeOK
<1>11. B!RegistryFollows'
  <2>1. SUFFICES ASSUME NEW n \in (Types \cup Items) \ (bSpoiled \cup behind'), B!Published(n)' PROVE B!Same(loaded[c], n)
    BY <1>3 DEF B!RegistryFollows, B!Registered, B!Same, B!SameType, B!SameItem
  <2>2. CASE n \in o.names
    BY <1>3, <2>1, <2>2 DEF B!IInv, B!Carries, B!Same
  <2>3. CASE n \notin o.names
    BY <1>3, <1>10, <2>1, <2>3 DEF B!Published
  <2>. QED BY <2>2, <2>3
<1>12. B!Carries' /\ B!LoadedOK'
  <2>1. /\ loaded' = [d \in Clients |-> loaded'[d]] /\ \A d \in Clients : loaded'[d] # None => d # c /\ loaded'[d] = loaded[d]
        /\ behind' \subseteq Types \cup Items
    BY <1>3
  <2>2. B!LoadedOK'
    BY <1>3, <2>1 DEF B!IInv, B!LoadedOK, B!TypeRow
  <2>. QED BY <1>3, <1>10, <2>1, <2>2 DEF B!IInv, B!Carries, B!SameType, B!SameItem
<1>. QED BY <1>1, <1>2, <1>3, <1>4, <1>5, <1>6, <1>7, <1>8, <1>9, <1>11, <1>12, RowsKeep

LEMMA TrialKeeps ==
  ASSUME B!IInv, NEW c \in Clients, B!Trial(c)
  PROVE  B!IInv'
<1>. PICK o \in B!Job : o = bJob[c]
  BY NamesAreNames
<1>. PICK n : n = o.name
  OBVIOUS
<1>1. /\ o.at = "trial" /\ n \in o.names /\ n \in Items /\ n \notin Types /\ o.names \subseteq Types \cup Items
      /\ o.names \cap Items = {n} /\ ~o.whole /\ B!Shape(o) /\ B!Relies(o) /\ journal \in Seq(B!Entries)
      /\ DOMAIN type \subseteq Types /\ DOMAIN item \subseteq Items
      /\ n \notin bSpoiled => n \in DOMAIN item /\ B!Bare(n)
  BY NamesAreNames, NamesSayWhatTheyAre DEF B!Trial, B!Shape, B!Relies, B!IInv, B!TypeOK
<1>2. UNCHANGED <<built, type, known, bSpoiled, loaded, behind>>
  BY DEF B!Trial
<1>3. ASSUME NEW m \in o.names \ bSpoiled
      PROVE  (m \notin behind => B!Registered(m)) /\ (m \in DOMAIN type => B!Titled(m)) /\ (m # n => B!Explained(m))
  BY <1>1, <1>3, OwnNames DEF B!Unpublished, B!Unlogged
<1>4. CASE B!Log(n, "create", None) /\ B!Ended(c) /\ UNCHANGED item
  <2>. PICK e : e = B!Entry(n, "create", None)
    OBVIOUS
  <2>. PICK j : j = B!Idle
    OBVIOUS
  <2>1. e \in B!Entries /\ journal' = Append(journal, e) /\ e.name = n /\ e.op = "create" /\ e.active
    BY <1>1, <1>4 DEF B!Entry, B!Entries, B!Log
  <2>2. /\ journal' \in Seq(B!Entries) /\ (\A m : m # n => EntriesKept(m)) /\ B!Made(n)'
        /\ \A k \in DOMAIN journal : k \in DOMAIN journal' /\ journal'[k] = journal[k]
        /\ \A k \in DOMAIN journal' : k \in DOMAIN journal \/ journal'[k] = e
    BY <1>1, <2>1, EntryAdded DEF EntriesKept
  <2>3. /\ j \in B!Job /\ bJob' = [bJob EXCEPT ![c] = j] /\ bJob' \in [Clients -> B!Job]
        /\ B!Shape(j)' /\ B!Relies(j)' /\ j.at = "idle"
    BY <1>4, RequestEnds, IdleIsARequest
  <2>4. B!TypeOK'
    <3>1. \A k \in DOMAIN journal' : journal'[k].op = "update" => journal'[k].name \in Types
      BY <2>1, <2>2 DEF B!IInv, B!TypeOK
    <3>. QED BY <1>2, <1>4, <2>2, <2>3, <3>1 DEF B!IInv, B!TypeOK, B!TypeRow
  <2>5. B!Stands' /\ \A m : RowKept(m)
    BY <1>2, <1>4 DEF B!IInv, B!Stands, RowKept
  <2>6. ASSUME NEW m \in o.names \ bSpoiled
        PROVE  (m \notin behind => B!Registered(m)') /\ (m \in DOMAIN type' => B!Titled(m)') /\ B!Explained(m)'
    <3>1. (m \notin behind => B!Registered(m)') /\ (m \in DOMAIN type' => B!Titled(m)')
      BY <1>2, <1>3, <1>4 DEF B!Registered, B!Same, B!SameType, B!SameItem, B!Titled
    <3>2. m # n => B!Explained(m)'
      BY <1>2, <1>3, <1>4, <2>2 DEF B!Explained, B!Exists, EntriesKept
    <3>3. m = n => B!Explained(m)'
      BY <1>1, <1>4, <2>2 DEF B!Explained, B!Exists
    <3>. QED BY <3>1, <3>2, <3>3
  <2>. QED BY <1>1, <1>2, <1>4, <2>2, <2>3, <2>4, <2>5, <2>6, StepKeeps DEF B!Publishing
<1>5. CASE item' = B!Without(item, {n}) /\ B!To(c, "publish") /\ UNCHANGED journal
  <2>1. PICK j \in B!Job :
            /\ bJob' = [bJob EXCEPT ![c] = j] /\ bJob' \in [Clients -> B!Job]
            /\ j.at = "publish" /\ j.name = n /\ j.names = o.names /\ (j.whole <=> o.whole)
    BY <1>5, GoesOn DEF B!States
  <2>2. DOMAIN item' = DOMAIN item \ {n} /\ \A i \in DOMAIN item' : item'[i] = item[i]
    BY <1>5 DEF B!Without
  <2>3. B!TypeOK'
    BY <1>2, <1>5, <2>1, <2>2 DEF B!IInv, B!TypeOK, B!TypeRow
  <2>4. B!Shape(j)'
    BY <1>1, <2>1 DEF B!Shape
  <2>5. B!Relies(j)'
    <3>1. j.names \cap DOMAIN item' = {}
      BY <1>1, <2>1, <2>2
    <3>. QED BY <1>1, <2>1, <3>1 DEF B!Relies
  <2>6. B!Stands' /\ (\A m : EntriesKept(m)) /\ (\A m : m # n => RowKept(m))
    BY <1>2, <1>5, <2>2, EntriesSame DEF B!IInv, B!Stands, RowKept
  <2>7. ASSUME NEW m \in o.names \ bSpoiled
        PROVE  (m \in DOMAIN type' => B!Titled(m)') /\ B!Explained(m)'
    <3>1. m \in DOMAIN type' => B!Titled(m)'
      BY <1>2, <1>3 DEF B!Titled
    <3>2. m # n => B!Explained(m)'
      BY <1>2, <1>3, <2>2, <2>6 DEF B!Explained, B!Exists, EntriesKept
    <3>3. m = n => B!Explained(m)'
      BY <1>1, <1>2, <2>2, <2>6 DEF B!Explained, B!Exists, EntriesKept
    <3>. QED BY <3>1, <3>2, <3>3
  <2>8. j.at \in B!Unpublished
    BY <2>1 DEF B!Unpublished
  <2>. QED BY <1>1, <1>2, <1>5, <2>1, <2>2, <2>3, <2>4, <2>5, <2>6, <2>7, <2>8, StepKeeps DEF B!Publishing
<1>. QED BY <1>4, <1>5 DEF B!Trial

LEMMA DeleteRowKeeps ==
  ASSUME B!IInv, NEW c \in Clients, B!DeleteRow(c)
  PROVE  B!IInv'
<1>. PICK o \in B!Job : o = bJob[c]
  BY NamesAreNames
<1>. PICK n : n = o.name
  OBVIOUS
<1>1. /\ o.at = "delete" /\ o.names = {n} /\ n \in Types \cup Items /\ ~o.whole /\ B!Shape(o) /\ B!Relies(o)
      /\ DOMAIN type \subseteq Types /\ DOMAIN item \subseteq Items
      /\ n \notin bSpoiled => B!DependentsOf(n) = {}
  BY NamesAreNames DEF B!DeleteRow, B!Shape, B!Relies
<1>2. /\ UNCHANGED <<built, known, journal, bSpoiled, loaded, behind>>
      /\ DOMAIN type' = DOMAIN type \ {n} /\ (\A t \in DOMAIN type' : type'[t] = type[t])
      /\ DOMAIN item' = DOMAIN item \ {n} /\ (\A i \in DOMAIN item' : item'[i] = item[i])
  BY DEF B!DeleteRow, B!Without
<1>3. (\A m : EntriesKept(m)) /\ (\A m : m # n => RowKept(m)) /\ ~B!Exists(n)'
  BY <1>2, EntriesSame DEF RowKept, B!Exists
<1>4. B!Stands'
  BY <1>1, <1>2 DEF B!IInv, B!Stands, B!DependentsOf, B!On
<1>5. CASE B!Exists(n) /\ B!To(c, "withdraw")
  <2>1. PICK j \in B!Job :
            /\ bJob' = [bJob EXCEPT ![c] = j] /\ bJob' \in [Clients -> B!Job]
            /\ j.at = "withdraw" /\ j.name = n /\ j.names = {n} /\ j.ends = o.ends /\ (j.whole <=> o.whole)
    BY <1>1, <1>5, GoesOn DEF B!States
  <2>2. B!TypeOK'
    BY <1>2, <2>1 DEF B!IInv, B!TypeOK, B!TypeRow
  <2>3. B!Shape(j)'
    BY <1>1, <2>1 DEF B!Shape
  <2>4. B!Relies(j)'
    <3>1. j.names \cap DOMAIN item' = {}
      BY <1>2, <2>1
    <3>. QED BY <1>1, <1>3, <2>1, <3>1 DEF B!Relies
  <2>5. j.at \in B!Unpublished /\ B!Unlogged(j, n) /\ n \notin DOMAIN type'
    BY <1>2, <2>1 DEF B!Unpublished, B!Unlogged
  <2>. QED BY <1>1, <1>2, <1>3, <1>4, <2>1, <2>2, <2>3, <2>4, <2>5, StepKeeps DEF B!Publishing
<1>6. CASE ~B!Exists(n) /\ B!Ended(c)
  <2>. PICK j : j = B!Idle
    OBVIOUS
  <2>1. /\ j \in B!Job /\ bJob' = [bJob EXCEPT ![c] = j] /\ bJob' \in [Clients -> B!Job]
        /\ B!Shape(j)' /\ B!Relies(j)' /\ j.at = "idle"
    BY <1>6, RequestEnds, IdleIsARequest
  <2>2. B!TypeOK'
    BY <1>2, <2>1 DEF B!IInv, B!TypeOK, B!TypeRow
  <2>3. n \notin bSpoiled => (n \notin behind => B!Registered(n)') /\ B!Explained(n)'
    <3>1. n \notin bSpoiled => (n \notin behind => B!Registered(n)) /\ B!Explained(n)
      BY <1>1, OwnNames DEF B!Unpublished, B!Unlogged
    <3>2. n \notin bSpoiled \cup behind => B!Registered(n)'
      BY <1>2, <1>6, <3>1 DEF B!Registered, B!Same, B!SameType, B!SameItem, B!Exists
    <3>3. n \notin bSpoiled => B!Explained(n)'
      BY <1>3, <1>6, <3>1 DEF B!Explained, EntriesKept
    <3>. QED BY <3>2, <3>3
  <2>4. n \notin DOMAIN type'
    BY <1>2
  <2>. QED BY <1>1, <1>2, <1>3, <1>4, <2>1, <2>2, <2>3, <2>4, StepKeeps DEF B!Publishing
<1>. QED BY <1>5, <1>6 DEF B!DeleteRow

LEMMA DeleteDeepKeeps ==
  ASSUME B!IInv, NEW c \in Clients, B!DeleteDeep(c)
  PROVE  B!IInv'
<1>. PICK o \in B!Job : o = bJob[c]
  BY NamesAreNames
<1>. PICK n : n = o.name
  OBVIOUS
<1>1. /\ o.at = "deep" /\ n \in o.names /\ n \in Types /\ n \notin Items /\ o.names \subseteq Types \cup Items
      /\ o.ends \subseteq o.names \cap Items /\ B!Shape(o) /\ B!Relies(o) /\ journal \in Seq(B!Entries)
      /\ DOMAIN type \subseteq Types /\ DOMAIN item \subseteq Items
      /\ n \notin bSpoiled => B!DependentsOf(n) \subseteq o.ends
      /\ ~o.whole => o.names \cap Items = o.ends
      /\ o.whole => o.names = Types \cup Items
  BY NamesAreNames, NamesSayWhatTheyAre DEF B!DeleteDeep, B!Shape, B!Relies, B!IInv, B!TypeOK
<1>2. UNCHANGED <<built, known, bSpoiled, loaded, behind>>
  BY DEF B!DeleteDeep
<1>3. ASSUME NEW m \in o.names \ bSpoiled
      PROVE  (m \notin behind => B!Registered(m)) /\ (m \in DOMAIN type => B!Titled(m)) /\ B!Explained(m)
  BY <1>1, <1>3, OwnNames DEF B!Unpublished, B!Unlogged
<1>4. CASE /\ type' = B!Without(type, {n}) /\ item' = B!Without(item, o.ends)
           /\ journal' = B!Retired({n} \cup o.ends) /\ B!To(c, "deleted")
  <2>1. PICK j \in B!Job :
            /\ bJob' = [bJob EXCEPT ![c] = j] /\ bJob' \in [Clients -> B!Job]
            /\ j.at = "deleted" /\ j.name = n /\ j.names = o.names /\ j.ends = o.ends /\ j.types = o.types
            /\ (j.whole <=> o.whole)
    BY <1>4, GoesOn DEF B!States
  <2>2. /\ DOMAIN type' = DOMAIN type \ {n} /\ (\A t \in DOMAIN type' : type'[t] = type[t])
        /\ DOMAIN item' = DOMAIN item \ o.ends /\ (\A i \in DOMAIN item' : item'[i] = item[i])
    BY <1>4 DEF B!Without
  <2>3. /\ journal' \in Seq(B!Entries) /\ DOMAIN journal' = DOMAIN journal
        /\ \A k \in DOMAIN journal : journal'[k].name = journal[k].name /\ journal'[k].op = journal[k].op
        /\ \A m : m \notin {n} \cup o.ends => EntriesKept(m)
        /\ \A m \in {n} \cup o.ends : B!Bare(m)'
    BY <1>1, <1>4, EntriesWithdrawn DEF EntriesKept
  <2>4. B!TypeOK'
    BY <1>2, <2>1, <2>2, <2>3 DEF B!IInv, B!TypeOK, B!TypeRow
  <2>5. B!Shape(j)'
    BY <1>1, <2>1 DEF B!Shape
  <2>6. B!Relies(j)'
    <3>1. \A i \in (j.names \cap DOMAIN item') \ bSpoiled' : item'[i] \subseteq j.names
      BY <1>1, <2>1, <2>2, <2>4 DEF B!TypeOK
    <3>2. j.whole => DOMAIN type' \ bSpoiled' \subseteq j.types
      BY <1>1, <1>2, <2>1, <2>2 DEF B!Relies
    <3>. QED BY <2>1, <3>1, <3>2 DEF B!Relies
  <2>7. B!Stands'
    <3>1. ASSUME NEW i \in DOMAIN item' \ bSpoiled, NEW t \in item'[i] \ bSpoiled PROVE t \in DOMAIN type'
      <4>1. t \in DOMAIN type /\ i \notin o.ends /\ t \in item[i] /\ i \in DOMAIN item
        BY <2>2, <3>1 DEF B!IInv, B!Stands
      <4>2. t # n
        BY <1>1, <3>1, <4>1 DEF B!DependentsOf, B!On
      <4>. QED BY <2>2, <4>1, <4>2
    <3>. QED BY <1>2, <2>2, <3>1 DEF B!IInv, B!Stands
  <2>8. \A m \in (Types \cup Items) \ ({n} \cup o.ends) : RowKept(m)
    BY <2>2 DEF RowKept
  <2>9. ASSUME NEW m \in o.names \ bSpoiled
        PROVE  (m \in DOMAIN type' => B!Titled(m)') /\ B!Explained(m)'
    <3>1. m \in DOMAIN type' => B!Titled(m)'
      BY <1>3, <2>2 DEF B!Titled
    <3>2. CASE m \in {n} \cup o.ends
      <4>1. ~B!Exists(m)'
        BY <1>1, <2>2, <3>2, NamesSayWhatTheyAre DEF B!Exists
      <4>. QED BY <2>3, <3>1, <3>2, <4>1 DEF B!Explained
    <3>3. CASE m \notin {n} \cup o.ends
      BY <1>3, <2>2, <2>3, <3>1, <3>3 DEF B!Explained, B!Exists, EntriesKept
    <3>. QED BY <3>2, <3>3
  <2>10. j.at \in B!Unpublished
    BY <2>1 DEF B!Unpublished
  <2>. QED BY <1>1, <1>2, <2>1, <2>2, <2>3, <2>4, <2>5, <2>6, <2>7, <2>8, <2>9, <2>10, StepKeeps DEF B!Publishing
<1>5. CASE B!Ended(c) /\ UNCHANGED <<type, item, journal>>
  <2>. PICK j : j = B!Idle
    OBVIOUS
  <2>1. /\ j \in B!Job /\ bJob' = [bJob EXCEPT ![c] = j] /\ bJob' \in [Clients -> B!Job]
        /\ B!Shape(j)' /\ B!Relies(j)' /\ j.at = "idle"
    BY <1>5, RequestEnds, IdleIsARequest
  <2>2. B!TypeOK' /\ B!Stands'
    BY <1>2, <1>5, <2>1 DEF B!IInv, B!TypeOK, B!TypeRow, B!Stands
  <2>3. (\A m : EntriesKept(m)) /\ (\A m : RowKept(m))
    BY <1>5, EntriesSame DEF RowKept
  <2>4. ASSUME NEW m \in o.names \ bSpoiled
        PROVE  (m \notin behind => B!Registered(m)') /\ (m \in DOMAIN type' => B!Titled(m)') /\ B!Explained(m)'
    BY <1>2, <1>3, <1>5, <2>3 DEF B!Registered, B!Same, B!SameType, B!SameItem, B!Titled, B!Explained, B!Exists, EntriesKept
  <2>. QED BY <1>1, <1>2, <1>5, <2>1, <2>2, <2>3, <2>4, StepKeeps DEF B!Publishing
<1>. QED BY <1>4, <1>5 DEF B!DeleteDeep

LEMMA PlanKeeps ==
  ASSUME B!IInv, NEW c \in Clients, B!PlanNext(c)
  PROVE  B!IInv'
<1>. PICK o \in B!Job : o = bJob[c]
  BY NamesAreNames
<1>1. /\ o.at = "plan" /\ o.whole /\ o.names = Types \cup Items /\ o.types \subseteq Types /\ B!Shape(o) /\ B!Relies(o)
      /\ DOMAIN type \subseteq Types /\ DOMAIN item \subseteq Items
      /\ DOMAIN type \ bSpoiled \subseteq o.types
  BY NamesAreNames DEF B!PlanNext, B!Shape, B!Relies, B!Job
<1>2. PICK t \in o.types :
          bJob' = [bJob EXCEPT ![c].types = @ \ {t}, ![c].name = t, ![c].ends = B!On(t, known.item),
                               ![c].at = IF t \in DOMAIN known.type THEN "deep" ELSE "plan"]
  BY DEF B!PlanNext
<1>3. UNCHANGED <<built, type, item, known, journal, loaded, behind>> /\ bSpoiled' = bSpoiled \cup behind
  BY DEF B!PlanNext
<1>. PICK on : on = B!On(t, known.item)
  OBVIOUS
<1>4. on \subseteq Items
  BY DEF B!On, B!IInv, B!TypeOK
<1>. PICK j : j = [o EXCEPT !.types = @ \ {t}, !.name = t, !.ends = on, !.at = IF t \in DOMAIN known.type THEN "deep" ELSE "plan"]
  OBVIOUS
<1>5. /\ j \in B!Job /\ bJob' = [bJob EXCEPT ![c] = j] /\ bJob' \in [Clients -> B!Job]
      /\ j.name = t /\ j.names = o.names /\ j.ends = on /\ j.types = o.types \ {t}
      /\ j.at = IF t \in DOMAIN known.type THEN "deep" ELSE "plan"
  BY <1>1, <1>2, <1>4 DEF B!IInv, B!TypeOK, B!Job, B!States
<1>6. j.whole
  BY <1>1, Zenon DEF B!Job
<1>7. ASSUME NEW m \in o.names \ bSpoiled
      PROVE  (m \notin behind => B!Registered(m)) /\ (m \in DOMAIN type => B!Titled(m)) /\ B!Explained(m)
  BY <1>1, <1>7, OwnNames DEF B!Unpublished, B!Unlogged
<1>8. B!TypeOK' /\ B!Stands'
  BY <1>3, <1>5 DEF B!IInv, B!TypeOK, B!LoadedOK, B!TypeRow, B!Entries, B!Stands
<1>9. B!Shape(j)'
  BY <1>1, <1>4, <1>5, <1>6 DEF B!Shape
<1>10. B!DependentsOf(t)' \subseteq on
  <2>1. SUFFICES ASSUME NEW i \in DOMAIN item \ bSpoiled', t \in item[i] PROVE i \in on
    BY <1>3 DEF B!DependentsOf, B!On
  <2>2. B!Registered(i)
    BY <1>1, <1>3, <1>7, <2>1
  <2>. QED BY <2>1, <2>2 DEF B!Registered, B!Same, B!SameType, B!SameItem, B!On
<1>11. t \notin bSpoiled' /\ t \notin DOMAIN known.type => t \notin DOMAIN type
  BY <1>1, <1>3, <1>7 DEF B!Registered, B!Same, B!SameType, B!SameItem
<1>12. B!Relies(j)'
  BY <1>1, <1>3, <1>5, <1>6, <1>10, <1>11 DEF B!Relies, B!Unpublished
<1>13. (\A m : EntriesKept(m)) /\ (\A m : RowKept(m))
  BY <1>3, EntriesSame DEF RowKept
<1>14. ASSUME NEW m \in o.names \ bSpoiled'
       PROVE  (m \notin behind => B!Registered(m)') /\ (m \in DOMAIN type' => B!Titled(m)') /\ B!Explained(m)'
  BY <1>3, <1>7, <1>13 DEF B!Registered, B!Same, B!SameType, B!SameItem, B!Titled, B!Explained, B!Exists, EntriesKept
<1>15. bSpoiled \subseteq bSpoiled' /\ bJob[c].at \notin B!Publishing
  BY <1>1, <1>3 DEF B!Publishing
<1>16. /\ UNCHANGED <<known, loaded, behind, built>> /\ j.names = bJob[c].names
       /\ \A i \in DOMAIN item' : i \in DOMAIN item /\ item'[i] = item[i]
       /\ \A k \in DOMAIN journal : k \in DOMAIN journal' /\ journal'[k] = journal[k]
  BY <1>3, <1>5
<1>. QED BY <1>5, <1>8, <1>9, <1>12, <1>13, <1>14, <1>15, <1>16, StepKeeps

LEMMA DropKeeps ==
  ASSUME B!IInv, NEW c \in Clients, B!DropTable(c)
  PROVE  B!IInv'
<1>. PICK o \in B!Job : o = bJob[c]
  BY NamesAreNames
<1>1. /\ o.at = "plan" /\ o.types = {} /\ o.whole /\ o.names = Types \cup Items /\ B!Shape(o) /\ B!Relies(o)
      /\ DOMAIN type \subseteq bSpoiled
  BY NamesAreNames DEF B!DropTable, B!Shape, B!Relies
<1>2. UNCHANGED <<type, item, known, journal, bSpoiled, loaded, behind>> /\ built' = FALSE
  BY DEF B!DropTable
<1>3. PICK j \in B!Job :
         /\ bJob' = [bJob EXCEPT ![c] = j] /\ bJob' \in [Clients -> B!Job]
         /\ j.at = "reload" /\ j.name = o.name /\ j.names = o.names /\ (j.whole <=> o.whole)
  BY GoesOn DEF B!DropTable, B!States
<1>4. B!TypeOK' /\ B!Stands'
  BY <1>1, <1>2, <1>3 DEF B!IInv, B!TypeOK, B!TypeRow, B!Stands
<1>5. B!Shape(j)' /\ B!Relies(j)'
  BY <1>1, <1>3 DEF B!Shape, B!Relies, B!Unpublished
<1>6. (\A m : EntriesKept(m)) /\ (\A m : RowKept(m))
  BY <1>2, EntriesSame DEF RowKept
<1>7. ASSUME NEW m \in o.names \ bSpoiled
      PROVE  (m \notin behind => B!Registered(m)') /\ (m \in DOMAIN type' => B!Titled(m)') /\ B!Explained(m)'
  <2>1. (m \notin behind => B!Registered(m)) /\ (m \in DOMAIN type => B!Titled(m)) /\ B!Explained(m)
    BY <1>1, <1>7, OwnNames DEF B!Unpublished, B!Unlogged
  <2>. QED BY <1>2, <1>6, <2>1 DEF B!Registered, B!Same, B!SameType, B!SameItem, B!Titled, B!Explained, B!Exists, EntriesKept
<1>. QED BY <1>1, <1>2, <1>3, <1>4, <1>5, <1>6, <1>7, StepKeeps DEF B!Publishing

LEMMA BuilderInit == B!Init => B!IInv
<1>. SUFFICES ASSUME B!Init PROVE B!IInv
  OBVIOUS
<1>1. /\ built = TRUE /\ bSpoiled = {} /\ behind = {} /\ loaded = [c \in Clients |-> None] /\ journal = <<>> /\ DOMAIN type = {} /\ DOMAIN item = {}
      /\ DOMAIN known.type = {} /\ DOMAIN known.item = {} /\ DOMAIN journal = {} /\ journal \in Seq(B!Entries)
      /\ bJob = [c \in Clients |-> B!Idle]
  BY EmptySeq DEF B!Init
<1>2. bJob \in [Clients -> B!Job] /\ \A c \in Clients : bJob[c] = B!Idle
  BY <1>1, IdleIsARequest
<1>3. B!TypeOK
  BY <1>1, <1>2 DEF B!TypeOK
<1>4. B!Shape(B!Idle) /\ B!Relies(B!Idle)
  BY DEF B!Shape, B!Relies, B!Idle, B!Unpublished
<1>5. B!Apart /\ B!TitlesFollow /\ B!Stands
  BY <1>1, <1>2, IdleIsARequest DEF B!Apart, B!TitlesFollow, B!Stands
<1>6. B!RegistryFollows /\ B!JournalFollows
  BY <1>1 DEF B!RegistryFollows, B!Registered, B!Same, B!SameType, B!SameItem, B!JournalFollows, B!Explained, B!Exists, B!Bare, B!Standing
<1>7. B!Carries /\ B!LoadedOK
  BY <1>1 DEF B!Carries, B!LoadedOK
<1>. QED BY <1>2, <1>3, <1>4, <1>5, <1>6, <1>7 DEF B!IInv

LEMMA BuilderStep == B!IInv /\ [B!Next]_ontology => B!IInv'
<1>. SUFFICES ASSUME B!IInv, [B!Next]_ontology PROVE B!IInv'
  OBVIOUS
<1>1. ASSUME NEW c \in Clients, B!Statement(c) PROVE B!IInv'
  <2>1. CASE B!Insert(c)
    BY <2>1, InsertKeeps
  <2>2. CASE B!InsertProperty(c)
    BY <2>2, InsertPropertyKeeps
  <2>3. CASE B!InsertItem(c)
    BY <2>3, InsertItemKeeps
  <2>4. CASE B!WriteTitle(c)
    BY <2>4, WriteTitleKeeps
  <2>5. CASE B!AlignTitle(c)
    BY <2>5, AlignTitleKeeps
  <2>6. CASE B!Record(c)
    <3>1. bJob[c].at \in {"created", "updated", "undone", "withdraw"} \/ bJob[c].at = "deleted"
      BY <2>6 DEF B!Record
    <3>. QED BY <2>6, <3>1, EntryRecorded, DeletionRecorded
  <2>7. CASE B!LoadTypes(c) \/ B!LoadItems(c)
    BY <2>7, LoadKeeps
  <2>13. CASE B!Install(c)
    BY <2>13, InstallKeeps
  <2>8. CASE B!Trial(c)
    BY <2>8, TrialKeeps
  <2>9. CASE B!DeleteRow(c)
    BY <2>9, DeleteRowKeeps
  <2>10. CASE B!DeleteDeep(c)
    BY <2>10, DeleteDeepKeeps
  <2>11. CASE B!PlanNext(c)
    BY <2>11, PlanKeeps
  <2>12. CASE B!DropTable(c)
    BY <2>12, DropKeeps
  <2>. QED BY <1>1, <2>1, <2>2, <2>3, <2>4, <2>5, <2>6, <2>7, <2>8, <2>9, <2>10, <2>11, <2>12, <2>13 DEF B!Statement
<1>2. CASE UNCHANGED ontology
  <2>1. UNCHANGED <<built, type, item, known, journal, bJob, bSpoiled, loaded, behind>>
    BY <1>2 DEF ontology
  <2>2. B!TypeOK' /\ B!Apart' /\ B!TitlesFollow' /\ B!Stands'
    BY <2>1 DEF B!IInv, B!TypeOK, B!TypeRow, B!Entries, B!Apart, B!TitlesFollow, B!Titled, B!Stands
  <2>3. \A d \in Clients : B!Shape(bJob[d])' /\ B!Relies(bJob[d])'
    BY <2>1 DEF B!IInv, B!Shape, B!Relies, B!DependentsOf, B!On, B!Exists, B!Bare, B!Standing
  <2>4. B!RegistryFollows' /\ B!JournalFollows'
    BY <2>1 DEF B!IInv, B!RegistryFollows, B!Registered, B!Same, B!SameType, B!SameItem, B!Published, B!JournalFollows, B!Unlogged, B!Explained,
                B!Exists, B!Made, B!Bare, B!Standing
  <2>5. B!Carries' /\ B!LoadedOK'
    BY <2>1 DEF B!IInv, B!Carries, B!SameType, B!SameItem, B!LoadedOK, B!TypeRow
  <2>. QED BY <2>2, <2>3, <2>4, <2>5 DEF B!IInv
<1>3. ASSUME NEW c \in Clients, B!Ask(c) PROVE B!IInv'
  BY <1>3, RequestAsked
<1>4. ASSUME NEW c \in Clients, B!Fail(c) PROVE B!IInv'
  BY <1>4, FailureKeeps
<1>. QED BY <1>1, <1>2, <1>3, <1>4, LandingKeeps DEF B!Next

LEMMA BuilderShows == B!IInv => OntologyHangsTogether
<1>. SUFFICES ASSUME B!IInv PROVE OntologyHangsTogether
  OBVIOUS
<1>1. ASSUME NEW n, B!AtRest(n)
      PROVE  n \notin bSpoiled /\ \A c \in Clients : n \notin bJob[c].names /\ B!Shape(bJob[c])
  BY <1>1 DEF B!AtRest, B!Busy, B!IInv
<1>2. ASSUME NEW t \in DOMAIN type, B!AtRest(t) PROVE type[t].flags = {type[t].title} \cap type[t].props
  <2>1. \A c \in Clients : ~(bJob[c].at = "align" /\ bJob[c].name = t)
    BY <1>1, <1>2 DEF B!Shape
  <2>. QED BY <1>1, <1>2, <2>1 DEF B!IInv, B!TitlesFollow, B!Titled
<1>3. B!NothingDangles
  BY <1>1 DEF B!IInv, B!Stands, B!NothingDangles, B!AtRest
<1>4. ASSUME NEW n \in Types \cup Items, B!AtRest(n)
      PROVE  /\ B!Exists(n) <=> \E k \in DOMAIN journal : journal[k].name = n /\ journal[k].op = "create" /\ journal[k].active
             /\ \A k \in DOMAIN journal : journal[k].name = n /\ journal[k].active /\ ~B!Exists(n) => journal[k].op = "delete"
  <2>1. \A c \in Clients : ~B!Unlogged(bJob[c], n)
    BY <1>1, <1>4 DEF B!Shape, B!Unlogged
  <2>2. B!Explained(n)
    BY <1>1, <1>4, <2>1 DEF B!IInv, B!JournalFollows
  <2>. QED BY <2>2 DEF B!Explained, B!Made, B!Bare, B!Standing
<1>. QED BY <1>2, <1>3, <1>4 DEF OntologyHangsTogether, B!TitleAgrees, B!JournalExplains

(* However requests overlap, are undone or fail: what is at rest has its    *)
(* title flagged, refers to types that are there, and stands exactly when   *)
(* the journal says that it was made and not taken back (builder.ts).       *)
THEOREM OntologyHolds == EditingSpec => []OntologyHangsTogether
<1>1. Empty => B!IInv
  BY BuilderInit DEF Empty
<1>2. B!IInv /\ [Folding \/ Building \/ Boarding \/ Removing \/ Importing]_everything => B!IInv'
  <2>1. SUFFICES ASSUME B!IInv, [Folding \/ Building \/ Boarding \/ Removing \/ Importing]_everything PROVE B!IInv'
    OBVIOUS
  <2>2. [B!Next]_ontology
    BY <2>1 DEF Folding, Building, Boarding, Removing, Importing, everything
  <2>. QED BY <2>1, <2>2, BuilderStep
<1>. QED BY <1>1, <1>2, BuilderShows, PTL DEF EditingSpec

=============================================================================
