--------------------------- MODULE OntologyPublish ---------------------------
(***************************************************************************)
(* Keeping an ontology described (definition.ts, registry.ts): its rows    *)
(* are the truth, and after every change publishChange rebuilds from them  *)
(* the document, the registry in memory and the workspace cards.  Changes  *)
(* are made by people, the assistant and approved proposals; registries    *)
(* are also reloaded when somebody opens a space and, for all the spaces,  *)
(* after a sync and on request.  Nothing orders these against each other.  *)
(*                                                                         *)
(* One step is one SQL statement of one worker, with the code up to its    *)
(* next await.  A change of the rows is one step: the row lock taken by    *)
(* the transactions that make it (FOR UPDATE) delays, and hides nothing    *)
(* committed.  The SELECTs behind one registry, and the two behind one     *)
(* update of the cards, are one step.                                      *)
(*                                                                         *)
(* Left out: what a row says, the validation of the document, folders.     *)
(***************************************************************************)
EXTENDS Naturals, FiniteSets

CONSTANTS
    LastSpace,   \* the spaces are 1..LastSpace, in the order of their slugs
    Fresh,       \* the spaces nobody has opened yet at the start
    Tables,      \* the tables that describe an ontology: types, links, ...
    Items,       \* what a row of such a table may describe
    Workers,     \* the requests and runs that may be under way at once
    Main,        \* the start-up code
    MaxChanges,  \* bound: changes made
    MaxFaults,   \* bound: failed statements and crashes
    NoVersion,   \* a space without an active ontology version
    NoRegistry   \* a space the registry in memory does not know

Spaces == 1..LastSpace
Things == Tables \X Items
Content == SUBSET Things
Registry == [holds : Content]

ASSUME FreshAreSpaces == Fresh \subseteq Spaces
ASSUME BoundsAreNaturals == LastSpace \in Nat \ {0} /\ MaxChanges \in Nat /\ MaxFaults \in Nat
ASSUME MainIsNoWorker == Main \notin Workers
ASSUME NoneIsNothing == NoRegistry \notin Registry

VARIABLES
    spaces,     \* the rows of platform.space
    rows,       \* the rows of a space's ontology tables: the truth
    doc,        \* its ontology_version row: minor number and document
    registry,   \* what queries on it are built through, in memory
    cards,      \* its ontology cards in the workspace
    serving,    \* has the start-up finished?
    toBoot,     \* the spaces the start-up still has to publish
    pc,         \* how far each worker is
    space,      \* the space it works on
    minor,      \* the minor number its publish has read
    got,        \* what it has read of the rows
    left,       \* the tables it has still to read
    seen,       \* the cards it has found
    todo,       \* the spaces its full reload still has to load
    changes,    \* how many changes there have been
    alone,      \* history: has nobody else begun since this worker did?
    failed,     \* history: the spaces whose last load failed in a full reload
    faults      \* how many failures there have been

vars == <<spaces, rows, doc, registry, cards, serving, toBoot, pc, space, minor, got, left,
          seen, todo, changes, alone, failed, faults>>
stored == <<spaces, rows, doc, cards>>
local == <<space, minor, got, left, seen, todo>>
startup == <<serving, toBoot>>
ghosts == <<changes, alone, failed>>

Everyone == Workers \cup {Main}
Document == [minor : Nat, says : Content]
Steps == {"idle", "version", "read", "store", "load", "install", "cards", "delete", "insert",
          "open", "openLoad", "openInstall", "list", "clear", "each", "eachInstall"}
ASSUME NoVersionIsNoDocument == NoVersion \notin Document

HasVersion(s) == doc[s] # NoVersion
Goto(w, step) == pc' = [pc EXCEPT ![w] = step]
Fault == faults < MaxFaults /\ faults' = faults + 1

(* A request or a publish of the start-up ends, and what it has read is gone. *)
Ends(w) ==
    /\ Goto(w, "idle")
    /\ minor' = [minor EXCEPT ![w] = 0]
    /\ got' = [got EXCEPT ![w] = {}]
    /\ left' = [left EXCEPT ![w] = {}]
    /\ seen' = [seen EXCEPT ![w] = {}]
    /\ todo' = [todo EXCEPT ![w] = {}]

(* activeVersion: a space without an active version gets an empty one.       *)
EnsureVersion(s) ==
    doc' = IF HasVersion(s) THEN doc ELSE [doc EXCEPT ![s] = [minor |-> 0, says |-> {}]]

(* A worker begins: whoever is under way is not alone any more.              *)
Begins(w, step) ==
    /\ serving /\ pc[w] = "idle"
    /\ Goto(w, step)
    /\ alone' = [v \in Everyone |-> v = w /\ \A u \in Everyone : pc[u] = "idle"]

------------------------------------------------------------------------------
(* publishChange, after a change.                                            *)

(* withActiveVersion, and the single statements of authoring.ts and          *)
(* builder.ts: the change is committed, then it is published.                *)
Change(w, s, new) ==
    /\ changes < MaxChanges
    /\ s \in spaces /\ new # rows[s]
    /\ Begins(w, "version")
    /\ rows' = [rows EXCEPT ![s] = new]
    /\ EnsureVersion(s)
    /\ space' = [space EXCEPT ![w] = s]
    /\ changes' = changes + 1
    /\ UNCHANGED <<spaces, registry, cards, startup, minor, got, left, seen, todo,
                   failed, faults>>

ReadVersion(w) ==
    /\ pc[w] = "version"
    /\ EnsureVersion(space[w])
    /\ minor' = [minor EXCEPT ![w] = doc'[space[w]].minor]
    /\ got' = [got EXCEPT ![w] = {}]
    /\ left' = [left EXCEPT ![w] = Tables]
    /\ Goto(w, "read")
    /\ UNCHANGED <<spaces, rows, registry, cards, startup, space, seen, todo, ghosts, faults>>

(* Promise.all: each table is read on a connection of its own, in any order. *)
ReadTable(w, t) ==
    /\ pc[w] = "read" /\ t \in left[w]
    /\ got' = [got EXCEPT ![w] = @ \cup {x \in rows[space[w]] : x[1] = t}]
    /\ left' = [left EXCEPT ![w] = @ \ {t}]
    /\ IF left[w] = {t} THEN Goto(w, "store") ELSE UNCHANGED pc
    /\ UNCHANGED <<stored, registry, startup, space, minor, seen, todo, ghosts, faults>>

(* bumped: the minor number read, plus one; start-up leaves it as it was.    *)
Bumped(w) == IF w = Main THEN minor[w] ELSE minor[w] + 1

StoreDocument(w) ==
    /\ pc[w] = "store"
    /\ doc' = [doc EXCEPT ![space[w]] = [minor |-> Bumped(w), says |-> got[w]]]
    /\ Goto(w, "load")
    /\ UNCHANGED <<spaces, rows, cards, registry, startup, local, changes, alone, failed, faults>>

(* loadRegistryForSpace reads, loadRegistry and reloadSpace put what it      *)
(* returns into the map: in between, anybody may change or reload.           *)
Load(w, from, to) ==
    /\ pc[w] = from
    /\ got' = [got EXCEPT ![w] = rows[space[w]]]
    /\ Goto(w, to)
    /\ UNCHANGED <<stored, registry, startup, space, minor, left, seen, todo, ghosts, faults>>

Install(w) ==
    /\ registry' = [registry EXCEPT ![space[w]] = [holds |-> got[w]]]
    /\ failed' = failed \ {space[w]}

InstallPublished(w) ==
    /\ pc[w] = "install"
    /\ Install(w)
    /\ Goto(w, "cards")
    /\ UNCHANGED <<stored, startup, local, changes, alone, faults>>

(* syncOntologyCards.                                                        *)
ReadCards(w) ==
    /\ pc[w] = "cards"
    /\ got' = [got EXCEPT ![w] = rows[space[w]]]
    /\ seen' = [seen EXCEPT ![w] = cards[space[w]]]
    /\ Goto(w, "delete")
    /\ UNCHANGED <<stored, registry, startup, space, minor, left, todo, ghosts, faults>>

(* Cards are only ever added.                                                *)
Stale_None(w) == {}

Stale(w) == seen[w] \ got[w]
Missing(w) == got[w] \ seen[w]

DeleteStale(w) ==
    /\ pc[w] = "delete"
    /\ cards' = [cards EXCEPT ![space[w]] = @ \ Stale(w)]
    /\ Goto(w, "insert")
    /\ UNCHANGED <<spaces, rows, doc, registry, startup, local, ghosts, faults>>

(* One statement per card.                                                   *)
InsertMissing(w, x) ==
    /\ pc[w] = "insert" /\ x \in Missing(w)
    /\ cards' = [cards EXCEPT ![space[w]] = @ \cup {x}]
    /\ seen' = [seen EXCEPT ![w] = @ \cup {x}]
    /\ UNCHANGED <<spaces, rows, doc, registry, startup, pc, space, minor, got, left, todo,
                   ghosts, faults>>

(* The last step of a publish; the start-up goes on to its next space, and   *)
(* serves when there is none.                                                *)
PublishEnds(w) ==
    /\ pc[w] = "insert" /\ Missing(w) = {}
    /\ Ends(w)
    /\ IF w = Main
       THEN toBoot' = toBoot \ {space[w]} /\ serving' = (toBoot' = {})
       ELSE UNCHANGED startup
    /\ UNCHANGED <<stored, registry, space, ghosts, faults>>

------------------------------------------------------------------------------
(* ensurePersonalSpace: on first use, and on every request that names none.  *)
OpenSpace(w, s) ==
    /\ Begins(w, "open")
    /\ spaces' = spaces \cup {s}
    /\ space' = [space EXCEPT ![w] = s]
    /\ UNCHANGED <<rows, doc, cards, registry, startup, minor, got, left, seen, todo, changes, failed, faults>>

EnsureSpaceOntology(w) ==
    /\ pc[w] = "open"
    /\ EnsureVersion(space[w])
    /\ Goto(w, "openLoad")
    /\ UNCHANGED <<spaces, rows, cards, registry, startup, local, ghosts, faults>>

InstallOpened(w) ==
    /\ pc[w] = "openInstall"
    /\ Install(w)
    /\ Ends(w)
    /\ UNCHANGED <<stored, startup, space, changes, alone, faults>>

------------------------------------------------------------------------------
(* loadRegistry of every space: after a sync, and on request.                *)
ReloadAll(w) ==
    /\ Begins(w, "list")
    /\ UNCHANGED <<stored, registry, startup, local, changes, failed, faults>>

ListSpaces(w) ==
    /\ pc[w] = "list"
    /\ todo' = [todo EXCEPT ![w] = {s \in spaces : HasVersion(s)}]
    /\ Goto(w, "clear")
    /\ UNCHANGED <<stored, registry, startup, space, minor, got, left, seen, ghosts, faults>>

Clear(w) ==
    /\ pc[w] = "clear"
    /\ registry' = [s \in Spaces |-> NoRegistry]
    /\ Goto(w, "each")
    /\ UNCHANGED <<stored, startup, local, ghosts, faults>>

Earliest(s, set) == s \in set /\ \A u \in set : s <= u

LoadEach(w, s) ==
    /\ pc[w] = "each" /\ Earliest(s, todo[w])
    /\ space' = [space EXCEPT ![w] = s]
    /\ got' = [got EXCEPT ![w] = rows[s]]
    /\ Goto(w, "eachInstall")
    /\ UNCHANGED <<stored, registry, startup, minor, left, seen, todo, ghosts, faults>>

InstallEach(w) ==
    /\ pc[w] = "eachInstall"
    /\ Install(w)
    /\ todo' = [todo EXCEPT ![w] = @ \ {space[w]}]
    /\ Goto(w, "each")
    /\ UNCHANGED <<stored, startup, space, minor, got, left, seen, changes, alone, faults>>

(* One try around the whole loop.                                            *)
LoadEachFails_EndsLoop(w, s) ==
    /\ pc[w] = "each" /\ Earliest(s, todo[w])
    /\ Fault
    /\ failed' = failed \cup {s}
    /\ todo' = [todo EXCEPT ![w] = {}]
    /\ UNCHANGED <<stored, registry, startup, pc, space, minor, got, left, seen, changes, alone>>

(* A space that does not load is logged, and the loop goes on.               *)
LoadEachFails(w, s) ==
    /\ pc[w] = "each" /\ Earliest(s, todo[w])
    /\ Fault
    /\ failed' = failed \cup {s}
    /\ todo' = [todo EXCEPT ![w] = @ \ {s}]
    /\ UNCHANGED <<stored, registry, startup, pc, space, minor, got, left, seen, changes, alone>>

ReloadEnds(w) ==
    /\ pc[w] = "each" /\ todo[w] = {}
    /\ Ends(w)
    /\ UNCHANGED <<stored, registry, startup, space, ghosts, faults>>

------------------------------------------------------------------------------
(* Start-up, failures and crashes.                                           *)

(* A start-up that trusts a document that says something.                    *)
ToPublish_EmptyOnly == {s \in spaces : HasVersion(s) => doc[s].says = {}}

(* ensureOntologies: every version first ...                                 *)
ToPublish == spaces

BootVersions ==
    /\ ~serving /\ toBoot = {} /\ pc[Main] = "idle"
    /\ toBoot' = ToPublish
    /\ doc' = [s \in Spaces |-> IF s \in spaces /\ ~HasVersion(s)
                                THEN [minor |-> 0, says |-> {}] ELSE doc[s]]
    /\ serving' = (ToPublish = {})
    /\ UNCHANGED <<spaces, rows, cards, registry, pc, local, ghosts, faults>>

(* ... then every document.                                                  *)
BootPublish(s) ==
    /\ ~serving /\ pc[Main] = "idle" /\ Earliest(s, toBoot)
    /\ space' = [space EXCEPT ![Main] = s]
    /\ Goto(Main, "version")
    /\ UNCHANGED <<stored, registry, startup, minor, got, left, seen, todo, ghosts, faults>>

(* A request whose statement fails stops where it is.                        *)
StepFails(w) ==
    /\ pc[w] \in {"version", "read", "store", "load", "cards", "delete", "insert", "open",
                 "openLoad", "list"}
    /\ Fault
    /\ Ends(w)
    /\ UNCHANGED <<stored, registry, startup, space, ghosts>>

(* The process stops, also when its start-up fails, and is started again.    *)
Crash ==
    /\ Fault
    /\ serving' = FALSE /\ toBoot' = {}
    /\ registry' = [s \in Spaces |-> NoRegistry]
    /\ pc' = [w \in Everyone |-> "idle"]
    /\ minor' = [w \in Everyone |-> 0]
    /\ got' = [w \in Everyone |-> {}] /\ left' = [w \in Everyone |-> {}]
    /\ seen' = [w \in Everyone |-> {}] /\ todo' = [w \in Everyone |-> {}]
    /\ failed' = {}
    /\ UNCHANGED <<stored, space, changes, alone>>

------------------------------------------------------------------------------
Init ==
    /\ spaces = Spaces \ Fresh
    /\ rows = [s \in Spaces |-> {}]
    /\ doc = [s \in Spaces |-> NoVersion]
    /\ registry = [s \in Spaces |-> NoRegistry]
    /\ cards = [s \in Spaces |-> {}]
    /\ serving = FALSE /\ toBoot = {}
    /\ pc = [w \in Everyone |-> "idle"]
    /\ space = [w \in Everyone |-> 1]
    /\ minor = [w \in Everyone |-> 0]
    /\ got = [w \in Everyone |-> {}]
    /\ left = [w \in Everyone |-> {}]
    /\ seen = [w \in Everyone |-> {}]
    /\ todo = [w \in Everyone |-> {}]
    /\ changes = 0
    /\ alone = [w \in Everyone |-> FALSE]
    /\ failed = {}
    /\ faults = 0

PublishStep(w) ==
    \/ ReadVersion(w)
    \/ \E t \in Tables : ReadTable(w, t)
    \/ StoreDocument(w)
    \/ Load(w, "load", "install")
    \/ InstallPublished(w)
    \/ ReadCards(w)
    \/ DeleteStale(w)
    \/ \E x \in Missing(w) : InsertMissing(w, x)
    \/ PublishEnds(w)

OpenStep(w) == EnsureSpaceOntology(w) \/ Load(w, "openLoad", "openInstall") \/ InstallOpened(w)

ReloadStep(w) ==
    \/ ListSpaces(w) \/ Clear(w) \/ InstallEach(w) \/ ReloadEnds(w)
    \/ \E s \in Spaces : LoadEach(w, s) \/ LoadEachFails(w, s)

Next ==
    \/ \E w \in Workers, s \in Spaces : OpenSpace(w, s) \/ \E new \in Content : Change(w, s, new)
    \/ \E w \in Workers : ReloadAll(w) \/ OpenStep(w) \/ ReloadStep(w) \/ StepFails(w)
    \/ \E w \in Everyone : PublishStep(w)
    \/ BootVersions
    \/ \E s \in Spaces : BootPublish(s)
    \/ Crash

Spec == Init /\ [][Next]_vars

------------------------------------------------------------------------------
TypeOK ==
    /\ spaces \subseteq Spaces /\ Spaces \ Fresh \subseteq spaces
    /\ rows \in [Spaces -> Content]
    /\ doc \in [Spaces -> Document \cup {NoVersion}]
    /\ registry \in [Spaces -> Registry \cup {NoRegistry}]
    /\ cards \in [Spaces -> Content]
    /\ serving \in BOOLEAN
    /\ toBoot \subseteq spaces
    /\ pc \in [Everyone -> Steps]
    /\ space \in [Everyone -> Spaces]
    /\ minor \in [Everyone -> Nat]
    /\ got \in [Everyone -> Content]
    /\ left \in [Everyone -> SUBSET Tables]
    /\ seen \in [Everyone -> Content]
    /\ todo \in [Everyone -> SUBSET Spaces]
    /\ changes \in 0..MaxChanges
    /\ alone \in [Everyone -> BOOLEAN]
    /\ failed \subseteq Spaces
    /\ faults \in 0..MaxFaults

Described(s) ==
    /\ HasVersion(s) /\ doc[s].says = rows[s]
    /\ registry[s] = [holds |-> rows[s]]
    /\ cards[s] = rows[s]

(* Whatever earlier failures, crashes and races have left behind, a publish  *)
(* that nobody overlaps brings document, registry and cards back in step     *)
(* with the rows: publishChange rebuilds, it does not patch.                 *)
SoloPublishRepairs ==
    [][\A w \in Workers :
          pc[w] = "insert" /\ pc'[w] = "idle" /\ faults' = faults /\ alone[w] => Described(space[w])']_vars

(* "At boot: every space has an active ontology, and every document is       *)
(* current": no request is served before everything is in step.              *)
BootRepairs == [][~serving /\ serving' => \A s \in spaces : Described(s)']_vars

(* "Each space is independent: one failing to load must not prevent the      *)
(* others".  A space is missing from the registry only while a full reload   *)
(* is on its way to it, or when that reload could not load it; a space       *)
(* opened after the reload listed them can be wiped by it.                   *)
OneFailureIsOneSpace ==
    serving => \A s \in Spaces \ Fresh :
        HasVersion(s) /\ registry[s] = NoRegistry => s \in failed \/ \E w \in Workers : s \in todo[w]

(* What the three rest on.  Nothing but the start-up moves before the service *)
(* serves, and the start-up has ended when it does.                          *)
OneAtATime ==
    /\ ~serving => \A w \in Workers : pc[w] = "idle"
    /\ serving => pc[Main] = "idle" /\ toBoot = {}
    /\ pc[Main] # "idle" => space[Main] \in toBoot
    /\ pc[Main] \in {"idle", "version", "read", "store", "load", "install", "cards", "delete", "insert"}
    /\ \A w \in Workers : alone[w] /\ pc[w] # "idle" => \A u \in Workers \ {w} : pc[u] = "idle"

(* A full reload has still to load every space it will clear.                *)
ReloadsGoOn ==
    /\ \A w \in Everyone : pc[w] \notin {"clear", "each", "eachInstall"} => todo[w] = {}
    /\ serving \/ toBoot # {} => \A s \in Spaces \ Fresh : HasVersion(s)
    /\ \A w \in Workers : pc[w] = "clear" => Spaces \ Fresh \subseteq todo[w]

(* How far a publish that nobody disturbs has come: what it read is true.    *)
Undisturbed(w) == IF w = Main THEN ~serving ELSE alone[w]
Progress(w) ==
    LET s == space[w]
    IN  /\ pc[w] = "read" => got[w] = {x \in rows[s] : x[1] \notin left[w]}
        /\ pc[w] \in {"store", "install", "delete", "insert"} => got[w] = rows[s]
        /\ pc[w] \in {"load", "install", "cards", "delete", "insert"} => doc[s] # NoVersion /\ doc[s].says = rows[s]
        /\ pc[w] \in {"cards", "delete", "insert"} => registry[s] = [holds |-> rows[s]]
        /\ pc[w] = "delete" => seen[w] = cards[s]
        /\ pc[w] = "insert" => cards[s] = seen[w] \cap got[w]
PublishesGoOn == \A w \in Everyone : Undisturbed(w) => Progress(w)
BootedAreDescribed == ~serving /\ toBoot # {} => \A s \in spaces \ toBoot : Described(s)

IInv == /\ TypeOK /\ OneAtATime /\ ReloadsGoOn /\ PublishesGoOn /\ BootedAreDescribed
        /\ OneFailureIsOneSpace

Quiet == serving /\ \A w \in Everyone : pc[w] = "idle"

(* definition.ts "keeps the three things that describe it in step after      *)
(* every change".  With no request under way, the registry is the rows.      *)
RegistryFollowsRows == Quiet => \A s \in spaces : registry[s] # NoRegistry => registry[s].holds = rows[s]
=============================================================================
