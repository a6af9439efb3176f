----------------------------- MODULE Workspace -----------------------------
(* A project, its folders, the connections in them, their stored passwords, *)
(* their syncs and schedules: spaces.ts, vault.ts, the sync definitions of  *)
(* connections.ts and the removal of a connection (removal.ts).             *)
EXTENDS Naturals, FiniteSets

CONSTANTS Clients,      \* requests under way at once
          Folders,      \* folders there may be
          Home,         \* one of them, the folder seeding makes, /Connections
          MaxConn, MaxRef, MaxSync, MaxRequests,   \* bounds
          Root, Absent  \* no folder; no such row

VARIABLES project,      \* whether the project's row exists
          folders,      \* the parent of each folder, or Absent
          conns,        \* the connection resources, by id
          creds,        \* platform.credential
          syncs,        \* the connection of each sync, or 0
          schedules,    \* the syncs a schedule names
          nextConn, nextRef, nextSync,
          job,          \* what each request has reached
          seed,         \* what the seeding at boot has reached
          missed,       \* passwords of connections a deletion under way did not see
          lost,         \* references that were dangling when they were written
          declined,     \* the built-in connection was deleted, its folder was not
          asked

vars == <<project, folders, conns, creds, syncs, schedules, nextConn, nextRef, nextSync,
          job, seed, missed, lost, declined, asked>>
rows == <<project, folders, conns, creds, syncs, schedules, nextConn, nextRef, nextSync>>
ghosts == <<missed, lost, declined>>

ASSUME HomeIsAFolder == Home \in Folders
ASSUME MarkersAreNoFolders == Root \notin Folders /\ Absent \notin Folders /\ Absent /= Root
ASSUME BoundsAreNaturals == MaxConn \in Nat /\ MaxRef \in Nat /\ MaxSync \in Nat /\ MaxRequests \in Nat

ConnIds == 1..MaxConn
Refs == 1..MaxRef
SyncIds == 1..MaxSync
Conn == [folder: Folders \cup {Root}, ref: 0..MaxRef]
ASSUME AbsentIsNoConnection == Absent \notin Conn
Phases == {"idle", "test", "undo", "deleteFolder", "deleteProject", "syncs", "dropSchedule",
           "dropSync", "dropConn", "forget", "define"}
Job == [pc: Phases, folder: Folders \cup {Root}, ref: 0..MaxRef, own: BOOLEAN, refs: SUBSET Refs,
        conn: 0..MaxConn, sync: 0..MaxSync]
Idle == [pc |-> "idle", folder |-> Root, ref |-> 0, own |-> FALSE, refs |-> {}, conn |-> 0, sync |-> 0]

Row(f, ref) == [folder |-> f, ref |-> ref]
Is(k) == k \in ConnIds /\ conns[k] /= Absent
FolderIs(f) == f = Root \/ (f \in Folders /\ folders[f] /= Absent)
(* The folder and everything under it: the recursive query collects the    *)
(* least set that has the folder and, with a folder, its children.         *)
ClosedUnder(parent, tree) == \A g \in Folders : parent[g] \in tree => g \in tree
TreeIn(parent, f) ==
    {g \in Folders : \A tree \in SUBSET Folders : f \in tree /\ ClosedUnder(parent, tree) => g \in tree}
TreeOf(f) == TreeIn(folders, f)
RefsHeld(in) == {conns[k].ref : k \in {j \in ConnIds : Is(j) /\ conns[j].folder \in in}} \ {0}
HeldUnder_Direct(f) == RefsHeld({f})
HeldUnder(f) == RefsHeld(TreeOf(f))
SyncsOf(k) == {s \in SyncIds : syncs[s] = k}

Init ==
    /\ project = TRUE /\ folders = [f \in Folders |-> IF f = Home THEN Root ELSE Absent]
    /\ conns = [k \in ConnIds |-> Absent] /\ creds = {}
    /\ syncs = [s \in SyncIds |-> 0] /\ schedules = {}
    /\ nextConn = 1 /\ nextRef = 1 /\ nextSync = 1
    /\ job = [c \in Clients |-> Idle] /\ seed = "idle"
    /\ missed = {} /\ lost = {} /\ declined = FALSE /\ asked = 0

Goes(c, j) == job' = [job EXCEPT ![c] = j]
Ends(c) == Goes(c, Idle)
Asks(c, j) == job[c].pc = "idle" /\ asked < MaxRequests /\ asked' = asked + 1 /\ Goes(c, j)

---------------------------------------------------------------------------
(* Making things.                                                          *)

(* createProject; the seeding makes the project again when it is gone.     *)
CreateProject(c) ==
    /\ ~project /\ Asks(c, Idle) /\ project' = TRUE
    /\ UNCHANGED <<folders, conns, creds, syncs, schedules, nextConn, nextRef, nextSync, seed, ghosts>>

CreateFolder(c, f, parent) ==
    /\ project /\ ~FolderIs(f) /\ FolderIs(parent) /\ Asks(c, Idle)
    /\ folders' = [folders EXCEPT ![f] = parent]
    /\ UNCHANGED <<project, conns, creds, syncs, schedules, nextConn, nextRef, nextSync, seed, ghosts>>

(* The password typed into the form is stored first.                       *)
AskConnect(c, f) ==
    /\ nextRef \in Refs
    /\ Asks(c, [Idle EXCEPT !.pc = "test", !.folder = f, !.ref = nextRef, !.own = TRUE])
    /\ creds' = creds \cup {nextRef} /\ nextRef' = nextRef + 1
    /\ UNCHANGED <<project, folders, conns, syncs, schedules, nextConn, nextSync, seed, ghosts>>

(* A request may name a reference of this space instead.                   *)
AskConnectBy(c, f, ref) ==
    /\ ref \in creds /\ Asks(c, [Idle EXCEPT !.pc = "test", !.folder = f, !.ref = ref])
    /\ UNCHANGED <<rows, seed, ghosts>>

(* The deletions that have read which passwords go, and not yet deleted.   *)
Covering(c, f) == \E d \in Clients \ {c} :
    \/ job[d].pc = "deleteProject"
    \/ job[d].pc = "deleteFolder" /\ f \in TreeOf(job[d].folder)

(* createConnection: whatever the test says, the row is written with it; a *)
(* name that is taken, or a project or folder that is gone, is an error.   *)
CreateConnection(c, taken) ==
    LET j == job[c]
        fits == project /\ FolderIs(j.folder) /\ ~taken /\ nextConn \in ConnIds
    IN /\ j.pc = "test"
       /\ IF fits
          THEN /\ conns' = [conns EXCEPT ![nextConn] = Row(j.folder, j.ref)]
               /\ nextConn' = nextConn + 1
               /\ missed' = IF Covering(c, j.folder) THEN missed \cup {j.ref} ELSE missed
               /\ lost' = IF j.ref \in creds THEN lost ELSE lost \cup {j.ref}
               /\ Ends(c)
          ELSE /\ Goes(c, IF j.own THEN [j EXCEPT !.pc = "undo"] ELSE Idle)
               /\ UNCHANGED <<conns, nextConn, missed, lost>>
       /\ UNCHANGED <<project, folders, creds, syncs, schedules, nextRef, nextSync, seed, declined, asked>>

DeleteCredential(c) ==
    /\ job[c].pc = "undo"
    /\ creds' = creds \ {job[c].ref} /\ Ends(c)
    /\ lost' = lost \cup {job[c].ref}
    /\ UNCHANGED <<project, folders, conns, syncs, schedules, nextConn, nextRef, nextSync, seed, missed, declined, asked>>

(* createSync reads the connection, asks its source, then inserts.         *)
AskSync(c, k) ==
    /\ Is(k) /\ Asks(c, [Idle EXCEPT !.pc = "define", !.conn = k])
    /\ UNCHANGED <<rows, seed, ghosts>>

CreateSync(c) ==
    /\ job[c].pc = "define" /\ nextSync \in SyncIds
    /\ IF Is(job[c].conn)
       THEN syncs' = [syncs EXCEPT ![nextSync] = job[c].conn] /\ nextSync' = nextSync + 1
       ELSE UNCHANGED <<syncs, nextSync>>
    /\ Ends(c)
    /\ UNCHANGED <<project, folders, conns, creds, schedules, nextConn, nextRef, seed, ghosts, asked>>

(* A schedule for a sync; its two statements are in Schedules.             *)
SetSchedule(c, s) ==
    /\ syncs[s] /= 0 /\ s \notin schedules /\ Asks(c, Idle)
    /\ schedules' = schedules \cup {s}
    /\ UNCHANGED <<project, folders, conns, creds, syncs, nextConn, nextRef, nextSync, seed, ghosts>>

---------------------------------------------------------------------------
(* Removing them: the passwords that will go are read first.               *)

AskDeleteFolder(c, f) ==
    /\ Asks(c, [Idle EXCEPT !.pc = "deleteFolder", !.folder = f, !.refs = HeldUnder(f)])
    /\ UNCHANGED <<rows, seed, ghosts>>

AskDeleteProject(c) ==
    /\ Asks(c, [Idle EXCEPT !.pc = "deleteProject", !.refs = RefsHeld(Folders \cup {Root})])
    /\ UNCHANGED <<rows, seed, ghosts>>

(* What the foreign keys take with the folders: folders, connections, and  *)
(* the syncs of those - but a schedule names its sync by a text.           *)
Cascade(gone) ==
    LET dead == {k \in ConnIds : Is(k) /\ conns[k].folder \in gone}
    IN /\ folders' = [f \in Folders |-> IF f \in gone THEN Absent ELSE folders[f]]
       /\ conns' = [k \in ConnIds |-> IF k \in dead THEN Absent ELSE conns[k]]
       /\ syncs' = [s \in SyncIds |-> IF syncs[s] \in dead THEN 0 ELSE syncs[s]]

DeleteFolder(c) ==
    LET j == job[c]
        there == FolderIs(j.folder)
    IN /\ j.pc = "deleteFolder"
       /\ IF there THEN Cascade(TreeOf(j.folder)) ELSE UNCHANGED <<folders, conns, syncs>>
       /\ Goes(c, IF there THEN [j EXCEPT !.pc = "forget"] ELSE Idle)
       /\ declined' = (declined /\ ~(there /\ Home \in TreeOf(j.folder)))
       /\ UNCHANGED <<project, creds, schedules, nextConn, nextRef, nextSync, seed, missed, lost, asked>>

DeleteProject(c) ==
    LET j == job[c]
    IN /\ j.pc = "deleteProject"
       /\ project' = FALSE /\ declined' = FALSE
       /\ IF project THEN Cascade(Folders \cup {Root}) ELSE UNCHANGED <<folders, conns, syncs>>
       /\ Goes(c, IF project THEN [j EXCEPT !.pc = "forget"] ELSE Idle)
       /\ UNCHANGED <<creds, schedules, nextConn, nextRef, nextSync, seed, missed, lost, asked>>

(* removeThing of a connection: each sync by deleteSync, then the row.     *)
AskRemoveConnection(c, k) ==
    /\ Is(k) /\ Asks(c, [Idle EXCEPT !.pc = "syncs", !.conn = k])
    /\ UNCHANGED <<rows, seed, ghosts>>

NextSyncOf(c) ==
    LET j == job[c]
    IN /\ j.pc = "syncs"
       /\ IF SyncsOf(j.conn) = {} THEN Goes(c, [j EXCEPT !.pc = "dropConn"])
          ELSE \E s \in SyncsOf(j.conn) : Goes(c, [j EXCEPT !.pc = "dropSchedule", !.sync = s])
       /\ UNCHANGED <<rows, seed, ghosts, asked>>

AskDeleteSync(c, s) ==
    /\ syncs[s] /= 0 /\ Asks(c, [Idle EXCEPT !.pc = "dropSchedule", !.sync = s])
    /\ UNCHANGED <<rows, seed, ghosts>>

DropSchedule(c) ==
    /\ job[c].pc = "dropSchedule"
    /\ schedules' = schedules \ {job[c].sync}
    /\ Goes(c, [job[c] EXCEPT !.pc = "dropSync"])
    /\ UNCHANGED <<project, folders, conns, creds, syncs, nextConn, nextRef, nextSync, seed, ghosts, asked>>

(* A sync another request has deleted ends the removal with an error.      *)
DropSync(c) ==
    LET j == job[c]
    IN /\ j.pc = "dropSync"
       /\ syncs' = [syncs EXCEPT ![j.sync] = 0]
       /\ Goes(c, IF syncs[j.sync] /= 0 /\ j.conn /= 0 THEN [j EXCEPT !.pc = "syncs"] ELSE Idle)
       /\ UNCHANGED <<project, folders, conns, creds, schedules, nextConn, nextRef, nextSync, seed, ghosts, asked>>

DropConnection(c) ==
    LET j == job[c]
        k == j.conn
    IN /\ j.pc = "dropConn"
       /\ conns' = [conns EXCEPT ![k] = Absent]
       /\ syncs' = [s \in SyncIds |-> IF syncs[s] = k THEN 0 ELSE syncs[s]]
       /\ declined' = (declined \/ (Is(k) /\ conns[k].ref = 0 /\ conns[k].folder = Home))
       /\ Goes(c, IF Is(k) /\ conns[k].ref /= 0
                  THEN [j EXCEPT !.pc = "forget", !.refs = {conns[k].ref}] ELSE Idle)
       /\ UNCHANGED <<project, folders, creds, schedules, nextConn, nextRef, nextSync, seed, missed, lost, asked>>

(* Only what no connection refers to any more.                             *)
Forgotten(refs) == refs \ RefsHeld(Folders \cup {Root})

ForgetCredentials(c) ==
    /\ job[c].pc = "forget"
    /\ creds' = creds \ Forgotten(job[c].refs) /\ Ends(c)
    /\ UNCHANGED <<project, folders, conns, syncs, schedules, nextConn, nextRef, nextSync, seed, ghosts, asked>>

---------------------------------------------------------------------------
(* seedSandbox at boot: the project and its folders, then, on what it takes *)
(* for the first setup, the built-in connection.                            *)

FirstSetup_NoConnection == \A k \in ConnIds : ~Is(k)
FirstSetup == ~project \/ ~FolderIs(Home)

SeedFolders ==
    /\ seed = "idle" /\ asked < MaxRequests /\ asked' = asked + 1
    /\ project' = TRUE
    /\ folders' = IF FolderIs(Home) THEN folders ELSE [folders EXCEPT ![Home] = Root]
    /\ seed' = IF FirstSetup THEN "first" ELSE "again"
    /\ UNCHANGED <<conns, creds, syncs, schedules, nextConn, nextRef, nextSync, job, ghosts>>

SeedConnection ==
    /\ seed \in {"first", "again"} /\ seed' = "idle"
    /\ IF /\ seed = "first" /\ project /\ FolderIs(Home) /\ nextConn \in ConnIds
          /\ \A k \in ConnIds : ~Is(k)
       THEN /\ conns' = [conns EXCEPT ![nextConn] = Row(Home, 0)]
            /\ nextConn' = nextConn + 1
       ELSE UNCHANGED <<conns, nextConn>>
    /\ UNCHANGED <<project, folders, creds, syncs, schedules, nextRef, nextSync, job, ghosts, asked>>

Next ==
    \/ \E c \in Clients :
         \/ CreateProject(c) \/ AskDeleteProject(c) \/ DeleteProject(c)
         \/ \E f \in Folders : \/ AskDeleteFolder(c, f)
                               \/ \E parent \in Folders \cup {Root} : CreateFolder(c, f, parent)
         \/ \E f \in Folders \cup {Root} : AskConnect(c, f) \/ \E ref \in Refs : AskConnectBy(c, f, ref)
         \/ \E taken \in BOOLEAN : CreateConnection(c, taken)
         \/ DeleteCredential(c) \/ DeleteFolder(c) \/ NextSyncOf(c) \/ DropSchedule(c) \/ DropSync(c)
         \/ DropConnection(c) \/ ForgetCredentials(c) \/ CreateSync(c)
         \/ \E k \in ConnIds : AskSync(c, k) \/ AskRemoveConnection(c, k)
         \/ \E s \in SyncIds : SetSchedule(c, s) \/ AskDeleteSync(c, s)
    \/ SeedFolders \/ SeedConnection

Spec == Init /\ [][Next]_vars

---------------------------------------------------------------------------
Held == UNION {{job[c].ref} \cup job[c].refs : c \in {d \in Clients : job[d].pc \in {"test", "undo", "forget"}}}

(* Every variable has its type.                                            *)
TypeOK ==
    /\ project \in BOOLEAN /\ folders \in [Folders -> Folders \cup {Root, Absent}]
    /\ conns \in [ConnIds -> Conn \cup {Absent}] /\ creds \subseteq Refs
    /\ syncs \in [SyncIds -> 0..MaxConn] /\ schedules \subseteq SyncIds
    /\ nextConn \in Nat /\ nextRef \in Nat /\ nextSync \in Nat
    /\ job \in [Clients -> Job] /\ seed \in {"idle", "first", "again"}
    /\ missed \subseteq 0..MaxRef /\ lost \subseteq 0..MaxRef /\ declined \in BOOLEAN /\ asked \in Nat

(* A stored password is behind a connection or a request under way; the    *)
(* only ones left behind are of connections made while a folder or project *)
(* around them was being deleted (spaces.ts forgetCredentials).            *)
NoPasswordLeft == creds \subseteq RefsHeld(Folders \cup {Root}) \cup Held \cup missed

(* The password of a connection stays in the vault as long as one refers   *)
(* to it, even when several do; only a reference that no longer existed    *)
(* when it was written dangles (spaces.ts forgetCredentials, vault.ts).    *)
PasswordStays == RefsHeld(Folders \cup {Root}) \subseteq creds \cup lost

(* The stored passwords and the connections that use them agree, whatever   *)
(* is made or deleted around them (spaces.ts, vault.ts).                    *)
PasswordsMatchConnections == NoPasswordLeft /\ PasswordStays

(* The built-in connection, once deleted by itself, does not come back at  *)
(* a later boot, whatever was made or deleted since, unless its folder or  *)
(* the whole project went too (spaces.ts seedSandbox).                     *)
DeletedStaysDeleted ==
    [][declined => \A k \in ConnIds : conns[k] = Absent => conns'[k] /= [folder |-> Home, ref |-> 0]]_vars

---------------------------------------------------------------------------
(* Why they hold.                                                          *)

(* A connection has a project and a folder around it, and ids are fresh.   *)
ConnectionsLive ==
    \A k \in ConnIds : conns[k] /= Absent => project /\ FolderIs(conns[k].folder) /\ k < nextConn
(* No folder outlives its parent.                                          *)
ParentsStand == \A f \in Folders : folders[f] /= Absent => FolderIs(folders[f])
(* What a request holds is of the kind its phase needs.                    *)
JobsHold == \A c \in Clients : /\ job[c].pc \in {"test", "undo"} => job[c].ref \in Refs
                               /\ job[c].pc = "undo" => job[c].own
                               /\ job[c].pc = "deleteFolder" => job[c].folder \in Folders

(* A request answers for a password it stored itself, or is to forget.     *)
AnswersFor(j, r) == \/ j.pc \in {"test", "undo"} /\ j.own /\ j.ref = r
                    \/ j.pc = "forget" /\ r \in j.refs
PasswordsAnsweredFor ==
    \A r \in creds : \/ \E k \in ConnIds : conns[k] /= Absent /\ conns[k].ref = r
                     \/ \E c \in Clients : AnswersFor(job[c], r)
                     \/ r \in missed

(* A deletion that has read which passwords go has read all of them, up to  *)
(* those of connections made since.                                        *)
Includes(j, f) == j.pc = "deleteProject" \/ (j.pc = "deleteFolder" /\ f \in TreeOf(j.folder))
PlansInclude ==
    \A c \in Clients, k \in ConnIds :
        conns[k] /= Absent /\ Includes(job[c], conns[k].folder)
            => conns[k].ref \in job[c].refs \cup missed \cup {0}

(* While the built-in connection counts as deleted, its project and folder *)
(* stand; when the seeding may make it again, it is not there.             *)
DeletionStands ==
    /\ declined => project /\ FolderIs(Home) /\ seed /= "first"
    /\ seed = "first" => \A k \in ConnIds : conns[k] /= Absent => conns[k].folder /= Home \/ conns[k].ref /= 0

IInv == /\ TypeOK /\ ConnectionsLive /\ ParentsStand /\ JobsHold /\ PasswordsAnsweredFor
        /\ PlansInclude /\ DeletionStands /\ PasswordStays

(* What removal.ts says was wrong and is put right: a connection that goes *)
(* takes the schedules of its syncs with it.                               *)
SchedulesGoWithSyncs ==
    (\A c \in Clients : job[c].pc = "idle") => \A s \in schedules : syncs[s] /= 0
=============================================================================
