------------------------------- MODULE Editing -------------------------------
(* What people make, change and take away in a workspace: its folders and   *)
(* connections (Workspace, which this module extends), its ontology         *)
(* (Builder), its boards (Dashboards), what is imported into it (Imports)   *)
(* and removed from it (Removal). Requests of any of them interleave at     *)
(* their statements; each part keeps the rows it needs of the others.       *)
EXTENDS Workspace, Sequences

CONSTANTS None,
          Types, Items, Metrics, Cols, Key, BuilderAsks,              \* Builder
          Titles, MaxBoard, BoardAsks,                                \* Dashboards
          Datasets, Names, Removers, RemovalAsks, RemovalFails,       \* Removal
          Tables, ForeignKeys, Requests, MaxTypes, ImportAsks, ImportFails   \* Imports

ASSUME EditingBounds == MaxBoard \in Nat /\ BoardAsks \in Nat /\ MaxTypes \in Nat
(* An import that lists a table twice, or nothing, is refused (importer.ts). *)
ASSUME RequestsAreLists ==
    \A r \in Requests : r \in Seq(Tables) /\ r # <<>> /\ \A m, n \in DOMAIN r : r[m] = r[n] => m = n

(* The names of types and of what refers to them are resource ids, which say *)
(* what they are of.                                                        *)
ASSUME NamesSayWhatTheyAre == Types \cap Items = {} /\ Metrics \subseteq Items /\ Key \in Cols
(* Views and landed tables are in schemas of their own.                     *)
ASSUME ViewsAreNotTables == Names \cap Datasets = {}

VARIABLES built, type, item, known, loaded, journal, bJob, bAsks, bSpoiled, behind,
          board, metrics, renames, had, unexplained, replaced, dJob, nextBoard, dAsked,
          rLanded, reads, rTypes, sync, schedule, card, rJob, rSpoiled, halted, rAsks, rFails,
          synced, iLanded, iTypes, made, links, figures, iJob, told, iAsks, iFails

B == INSTANCE Builder WITH MaxAsks <- BuilderAsks, landed <- built, job <- bJob, asks <- bAsks, spoiled <- bSpoiled
D == INSTANCE Dashboards WITH MaxAsks <- BoardAsks, job <- dJob, asked <- dAsked
R == INSTANCE Removal WITH Clients <- Removers, Tables <- Datasets, MaxAsks <- RemovalAsks, MaxFails <- RemovalFails,
       landed <- rLanded, types <- rTypes, job <- rJob, spoiled <- rSpoiled, asks <- rAsks, fails <- rFails
I == INSTANCE Imports WITH MaxAsks <- ImportAsks, MaxFails <- ImportFails,
       landed <- iLanded, types <- iTypes, job <- iJob, asks <- iAsks, fails <- iFails

ontology == <<built, type, item, known, journal, bJob, bAsks, bSpoiled, loaded, behind>>
boards == <<board, metrics, renames, had, unexplained, replaced, dJob, nextBoard, dAsked>>
removals == <<rLanded, reads, rTypes, sync, schedule, card, rJob, rSpoiled, halted, rAsks, rFails>>
imports == <<synced, iLanded, iTypes, made, links, figures, iJob, told, iAsks, iFails>>
everything == <<vars, ontology, boards, removals, imports>>

Empty == Init /\ B!Init /\ D!Init /\ R!Init /\ I!Init
Folding == Next /\ UNCHANGED <<ontology, boards, removals, imports>>
Building == B!Next /\ UNCHANGED <<vars, boards, removals, imports>>
Boarding == D!Next /\ UNCHANGED <<vars, ontology, removals, imports>>
Removing == R!Next /\ UNCHANGED <<vars, ontology, boards, imports>>
Importing == I!Next /\ UNCHANGED <<vars, ontology, boards, removals>>
EditingSpec == Empty /\ [][Folding \/ Building \/ Boarding \/ Removing \/ Importing]_everything

(* Types, what refers to them, and their titles hold together through edits *)
(* that interleave, are undone or fail half-way; and what stands is what    *)
(* the journal says was made and not taken back (builder.ts).               *)
OntologyHangsTogether == B!TitleAgrees /\ B!NothingDangles /\ B!JournalExplains
(* A new board overwrites none it saw, and an old address can be explained  *)
(* (dashboards.ts).                                                         *)
BoardsKeepTheirNames == D!NewIsNotAnEdit /\ D!StaleLinksExplained

(* At every statement of a removal, what is left has what it stands on      *)
(* (removal.ts).                                                            *)
NothingOnNothing == R!NothingOnNothing
(* A removal leaves what is another space's, and what it removed does not   *)
(* come back with the next sync (removal.ts).                               *)
RemovalIsExact == R!OthersKeepTheirs /\ R!DeletedIsNotBack

(* An import makes one type of a table, whatever overlaps with it, and says *)
(* of each table it was asked for what became of it (importer.ts).          *)
ImportsAreWhole == I!OneOfEach /\ I!EveryTableIsAccountedFor
=============================================================================
