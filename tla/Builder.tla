------------------------------- MODULE Builder -------------------------------
(* Editing the ontology of one space: builder.ts (links, edits, deletions,  *)
(* the journal and its undo), authoring.ts (object types, actions, metrics) *)
(* and the deletions of removal.ts that carry what was built with them.     *)
(* Every request is a sequence of statements, one at a time; two requests   *)
(* may interleave between any two, and any statement may fail.              *)
EXTENDS Naturals, Sequences

CONSTANTS Types, Items, Metrics,   \* names: object types; links, actions and metrics; the metrics
          Cols, Key,               \* the dataset's columns, the one that is unique
          Clients, None,
          MaxAsks                  \* bound: requests ever made

VARIABLES landed,     \* whether the dataset the types are built on is there
          type,       \* the rows: object_type with its object_property rows
          item,       \* link_type, action_type, kpi_definition: the types each refers to
          known,      \* the registry: the rows as it last loaded them
          loaded,     \* what a request has read to install there
          journal,    \* ontology_edit
          job,        \* what each request has still to do
          asks,       \* requests so far
          spoiled,    \* history: the names two requests overlapped on, or a failed one left half-way
          behind      \* history: the names an older load has put out of step

vars == <<landed, type, item, known, journal, job, asks, spoiled, loaded, behind>>

(* title: title_column. flags: the properties with is_title.                *)
TypeRow == [title: Cols \cup {None}, props: SUBSET Cols, flags: SUBSET Cols]
(* at: the next statement, about name. title, props, ends: what is to be    *)
(* written or taken away. was, entry: the title before an edit, and the     *)
(* journal's number an undo is of. whole: it goes on with types.            *)
Idle == [at |-> "idle", name |-> None, names |-> {}, title |-> None, props |-> {}, ends |-> {},
         was |-> None, entry |-> 0, types |-> {}, whole |-> FALSE]

Put(f, n, v) == [m \in DOMAIN f \cup {n} |-> IF m = n THEN v ELSE f[m]]
Without(f, ns) == [m \in DOMAIN f \ ns |-> f[m]]
On(t, items) == {i \in DOMAIN items : t \in items[i]}
(* The names, and what refers to them.                                      *)
Near(ns) == ns \cup {i \in DOMAIN item : item[i] \cap ns # {}}
Exists(n) == n \in DOMAIN type \cup DOMAIN item

Init ==
    /\ landed = TRUE /\ journal = <<>> /\ spoiled = {} /\ behind = {} /\ asks = 0
    /\ type = <<>> /\ item = <<>> /\ known = [type |-> <<>>, item |-> <<>>]
    /\ job = [c \in Clients |-> Idle] /\ loaded = [c \in Clients |-> None]

(* A request begins. What it shares with one under way is spoiled, and what *)
(* the registry, by which it goes, has out of step near its names.          *)
Begin(c, j) ==
    /\ job[c] = Idle /\ asks < MaxAsks /\ asks' = asks + 1
    /\ job' = [job EXCEPT ![c] = j]
    /\ spoiled' = spoiled \cup (UNION {j.names \cap job[d].names : d \in Clients \ {c}}) \cup (behind \cap Near(j.names))
    /\ UNCHANGED <<landed, type, item, known, journal, loaded, behind>>

(* createObjectType: the dataset is there, the key is unique in it, the     *)
(* name is free in the registry. A property per column asked for, the key   *)
(* among them; the title is any column of the dataset.                      *)
CreateType(c, t, cols, title) ==
    /\ landed /\ t \notin DOMAIN known.type
    /\ Begin(c, [Idle EXCEPT !.at = "insert", !.name = t, !.names = {t}, !.title = title, !.props = cols \cup {Key}])

(* createLinkType, createActionType: the ends and the name are looked up in *)
(* the registry. createMetric: stored and published first, then run once;   *)
(* withdrawn again when it does not compute.                                *)
CreateItem_Unresolved(c, i, ends) ==
    /\ i \notin DOMAIN known.item
    /\ Begin(c, [Idle EXCEPT !.at = "insertItem", !.name = i, !.names = {i} \cup ends, !.ends = ends])
CreateItem(c, i, ends) ==
    /\ ends \subseteq DOMAIN known.type /\ i \notin DOMAIN known.item
    /\ Begin(c, [Idle EXCEPT !.at = "insertItem", !.name = i, !.names = {i} \cup ends, !.ends = ends])
CreateMetric(c, i, t) == i \in Metrics /\ CreateItem(c, i, {t})

(* editOntologyObject of a title: one of the properties the registry knows, *)
(* or none. What it was is read for the journal.                            *)
EditTitle(c, t, title) ==
    /\ t \in DOMAIN known.type /\ title \in known.type[t].props \cup {None}
    /\ t \in DOMAIN type
    /\ Begin(c, [Idle EXCEPT !.at = "write", !.name = t, !.names = {t}, !.title = title, !.was = type[t].title])

(* dependentsOf: what the registry says refers to the type.                 *)
Dependents(t) == On(t, known.item)
Delete(c, n) ==
    /\ Exists(n)
    /\ n \in Types => Dependents(n) = {}
    /\ Begin(c, [Idle EXCEPT !.at = "delete", !.name = n, !.names = {n}])

(* undoEdit: of an update, the values recorded before it are written back;  *)
(* of a creation, what it made is deleted, under the same refusal.          *)
Undo(c, k) ==
    LET e == journal[k] IN
    /\ e.active
    /\ \/ /\ e.op = "update"
          /\ Begin(c, [Idle EXCEPT !.at = "write", !.name = e.name, !.names = {e.name}, !.title = e.was, !.entry = k])
       \/ e.op = "create" /\ Delete(c, e.name)

(* removeObjectTypeDeep, for a type and what the registry says is built on  *)
(* it, which the person was shown; and a dataset with every type on it.     *)
RemoveType(c, t) ==
    /\ t \in DOMAIN known.type
    /\ Begin(c, [Idle EXCEPT !.at = "deep", !.name = t, !.names = {t} \cup On(t, known.item), !.ends = On(t, known.item)])
RemoveDataset(c) ==
    /\ landed
    /\ Begin(c, [Idle EXCEPT !.at = "plan", !.names = Types \cup Items, !.types = DOMAIN known.type, !.whole = TRUE])
(* After a sync, or when asked, the registry is loaded again for nobody's   *)
(* change.                                                                  *)
Reload(c) == Begin(c, [Idle EXCEPT !.at = "reload"])
(* The sync lands the dataset again.                                        *)
Land == ~landed /\ landed' = TRUE /\ UNCHANGED <<type, item, known, journal, job, asks, spoiled, loaded, behind>>

------------------------------------------------------------------------------
(* The statements.                                                          *)

Entry(n, op, was) == [name |-> n, op |-> op, was |-> was, active |-> TRUE]
Log(n, op, was) == journal' = Append(journal, Entry(n, op, was))
Retired(names) == [k \in DOMAIN journal |-> IF journal[k].name \in names THEN [journal[k] EXCEPT !.active = FALSE] ELSE journal[k]]
To(c, at) == job' = [job EXCEPT ![c].at = at]
Ended(c) == job' = [job EXCEPT ![c] = Idle]

(* As the rows have it; and where a request has changed its rows and the    *)
(* registry not yet.                                                        *)
SameType(k, n) == n \in DOMAIN type <=> n \in DOMAIN k.type
SameItem(k, n) == (n \in DOMAIN item <=> n \in DOMAIN k.item) /\ (n \in DOMAIN item => item[n] = k.item[n])
Same(k, n) == SameType(k, n) /\ SameItem(k, n)
Unpublished == {"property", "created", "publishFirst", "align", "updated", "undone", "withdraw", "deleted", "publish"}

(* The writes of a row that may find nothing to write to.                   *)
Write(t, title) == IF t \in DOMAIN type THEN [type EXCEPT ![t].title = title] ELSE type
Align(t, title) == IF t \in DOMAIN type THEN [type EXCEPT ![t].flags = {title} \cap type[t].props] ELSE type

Insert(c) == LET j == job[c] IN
    /\ j.at = "insert" /\ j.name \notin DOMAIN type
    /\ type' = Put(type, j.name, [title |-> j.title, props |-> {}, flags |-> {}])
    /\ To(c, "property") /\ UNCHANGED <<landed, item, known, journal, asks, spoiled, loaded, behind>>
(* The columns one at a time; the title's is flagged.                       *)
InsertProperty(c) == LET j == job[c] IN
    /\ j.at = "property" /\ j.name \in DOMAIN type
    /\ \E col \in j.props \ type[j.name].props :
          /\ type' = [type EXCEPT ![j.name].props = @ \cup {col}, ![j.name].flags = @ \cup ({col} \cap {j.title})]
          /\ job' = [job EXCEPT ![c].props = @ \ {col}, ![c].at = IF j.props = {col} THEN "created" ELSE "property"]
    /\ UNCHANGED <<landed, item, known, journal, asks, spoiled, loaded, behind>>
InsertItem(c) == LET j == job[c] IN
    /\ j.at = "insertItem" /\ j.name \notin DOMAIN item
    /\ item' = Put(item, j.name, j.ends)
    /\ To(c, IF j.name \in Metrics THEN "publishFirst" ELSE "created")
    /\ UNCHANGED <<landed, type, known, journal, asks, spoiled, loaded, behind>>
WriteTitle(c) == LET j == job[c] IN
    /\ j.at = "write" /\ type' = Write(j.name, j.title)
    /\ To(c, "align") /\ UNCHANGED <<landed, item, known, journal, asks, spoiled, loaded, behind>>
AlignTitle(c) == LET j == job[c] IN
    /\ j.at = "align" /\ type' = Align(j.name, j.title)
    /\ To(c, IF j.entry = 0 THEN "updated" ELSE "undone") /\ UNCHANGED <<landed, item, known, journal, asks, spoiled, loaded, behind>>

(* The journal's entries.                                                   *)
Record(c) == LET j == job[c] IN
    /\ \/ j.at = "created" /\ Log(j.name, "create", None) /\ To(c, "publish")
       \/ j.at = "updated" /\ Log(j.name, "update", j.was) /\ To(c, "publish")
       \/ j.at = "undone" /\ journal' = [journal EXCEPT ![j.entry].active = FALSE] /\ To(c, "publish")
       \/ j.at = "withdraw" /\ journal' = Retired({j.name}) /\ To(c, "deleted")
       \/ j.at = "deleted" /\ j.ends = {} /\ Log(j.name, "delete", None) /\ To(c, "publish")
       \/ j.at = "deleted" /\ \E i \in j.ends : Log(i, "delete", None) /\ job' = [job EXCEPT ![c].ends = @ \ {i}]
    /\ UNCHANGED <<landed, type, item, known, asks, spoiled, loaded, behind>>

(* publishChange, whose other steps are in OntologyPublish. The rows are    *)
(* read, the types before what refers to them (five statements here in two), *)
(* and then installed: by then there may be newer ones, and a newer load    *)
(* there already.                                                           *)
Publishing == {"publishFirst", "publish", "reload"}
LoadTypes(c) ==
    /\ job[c].at \in Publishing /\ loaded[c] = None
    /\ loaded' = [loaded EXCEPT ![c] = [type |-> type, item |-> None]]
    /\ UNCHANGED <<landed, type, item, known, journal, job, asks, spoiled, behind>>
LoadItems(c) ==
    /\ loaded[c] # None /\ loaded[c].item = None
    /\ loaded' = [loaded EXCEPT ![c] = [type |-> loaded[c].type, item |-> item]]
    /\ UNCHANGED <<landed, type, item, known, journal, job, asks, spoiled, behind>>
(* What is out of step then, is not its own, and nobody has still to publish. *)
Install(c) == LET j == job[c] IN
    /\ loaded[c] # None /\ loaded[c].item # None
    /\ \/ j.at = "publishFirst" /\ To(c, "trial")
       \/ j.at = "publish" /\ j.whole /\ To(c, "plan")
       \/ (j.at = "reload" \/ (j.at = "publish" /\ ~j.whole)) /\ Ended(c)
    /\ known' = loaded[c] /\ loaded' = [loaded EXCEPT ![c] = None]
    /\ behind' = {n \in (Types \cup Items) \ j.names :
                    ~Same(loaded[c], n) /\ \A d \in Clients : n \in job[d].names => job[d].at \notin Unpublished}
    /\ UNCHANGED <<landed, type, item, journal, asks, spoiled>>

Trial(c) == LET j == job[c] IN
    /\ j.at = "trial"
    /\ \/ Log(j.name, "create", None) /\ Ended(c) /\ UNCHANGED item
       \/ item' = Without(item, {j.name}) /\ To(c, "publish") /\ UNCHANGED journal
    /\ UNCHANGED <<landed, type, known, asks, spoiled, loaded, behind>>

(* deleteOntologyObject's DELETE: not found when the row has gone.          *)
DeleteRow(c) == LET j == job[c] IN
    /\ j.at = "delete"
    /\ type' = Without(type, {j.name}) /\ item' = Without(item, {j.name})
    /\ IF Exists(j.name) THEN To(c, "withdraw") ELSE Ended(c)
    /\ UNCHANGED <<landed, known, journal, asks, spoiled, loaded, behind>>
(* The type, its properties and what is built on it, and the withdrawal of  *)
(* their entries, in one transaction.                                       *)
DeleteDeep(c) == LET j == job[c] IN
    /\ j.at = "deep"
    /\ IF j.name \in DOMAIN type
       THEN /\ type' = Without(type, {j.name}) /\ item' = Without(item, j.ends)
            /\ journal' = Retired({j.name} \cup j.ends) /\ To(c, "deleted")
       ELSE Ended(c) /\ UNCHANGED <<type, item, journal>>
    /\ UNCHANGED <<landed, known, asks, spoiled, loaded, behind>>
(* removeDatasetDeep: each type as the registry has it by then, out of step *)
(* or not.                                                                  *)
PlanNext(c) == LET j == job[c] IN
    /\ j.at = "plan"
    /\ \E t \in j.types :
          job' = [job EXCEPT ![c].types = @ \ {t}, ![c].name = t, ![c].ends = On(t, known.item),
                             ![c].at = IF t \in DOMAIN known.type THEN "deep" ELSE "plan"]
    /\ spoiled' = spoiled \cup behind
    /\ UNCHANGED <<landed, type, item, known, journal, asks, loaded, behind>>
DropTable(c) ==
    /\ job[c].at = "plan" /\ job[c].types = {} /\ landed' = FALSE
    /\ To(c, "reload") /\ UNCHANGED <<type, item, known, journal, asks, spoiled, loaded, behind>>

(* A statement fails: the connection, a row that is there already, or a     *)
(* type that has gone.                                                      *)
Fail(c) ==
    /\ job[c] # Idle
    /\ spoiled' = spoiled \cup job[c].names /\ Ended(c)
    /\ loaded' = [loaded EXCEPT ![c] = None]
    /\ UNCHANGED <<landed, type, item, known, journal, asks, behind>>

Ask(c) ==
    \/ \E t \in Types, cols \in SUBSET Cols, title \in Cols : CreateType(c, t, cols, title)
    \/ \E i \in Items \ Metrics, ends \in (SUBSET Types) \ {{}} : CreateItem(c, i, ends)
    \/ \E i \in Items, t \in Types : CreateMetric(c, i, t)
    \/ \E t \in Types, title \in Cols \cup {None} : EditTitle(c, t, title)
    \/ \E n \in Types \cup Items : Delete(c, n)
    \/ \E k \in DOMAIN journal : Undo(c, k)
    \/ \E t \in Types : RemoveType(c, t)
    \/ RemoveDataset(c) \/ Reload(c)
Statement(c) ==
    \/ Insert(c) \/ InsertProperty(c) \/ InsertItem(c) \/ WriteTitle(c) \/ AlignTitle(c) \/ Record(c) \/ LoadTypes(c)
    \/ LoadItems(c) \/ Install(c) \/ Trial(c) \/ DeleteRow(c) \/ DeleteDeep(c) \/ PlanNext(c) \/ DropTable(c)
Next == Land \/ \E c \in Clients : Ask(c) \/ Statement(c) \/ Fail(c)
Spec == Init /\ [][Next]_vars

------------------------------------------------------------------------------
Busy == UNION {job[c].names : c \in Clients}
AtRest(n) == n \notin Busy \cup spoiled

(* "Every write of title_column is followed by this, so the two cannot      *)
(* disagree" (builder.ts:206): true of the types no two requests edited at  *)
(* once. Undoing an edit counts as a write.                                 *)
TitleAgrees == \A t \in DOMAIN type : AtRest(t) => type[t].flags = {type[t].title} \cap type[t].props

(* No link, action or metric is left on an object type that has gone, or of *)
(* a dataset that has: a type with anything on it is refused, or what is on *)
(* it goes too (builder.ts:545, removal.ts:566). Nothing in the database    *)
(* says so: the rows hold names. Both go by the registry, and so it is not  *)
(* said of what an older load, installed last, has left out of it when      *)
(* somebody goes by it.                                                     *)
NothingDangles ==
    /\ \A i \in DOMAIN item : AtRest(i) => \A t \in item[i] : t \in DOMAIN type \/ ~AtRest(t)
    /\ ~landed => \A t \in DOMAIN type : ~AtRest(t)

(* Not so: "with links, actions or metrics on it is refused" (builder.ts:563). *)
UsedIsRefused ==
    [][\A c \in Clients : (\A d \in Clients : job[d] = Idle) /\ job'[c].at = "delete" => On(job'[c].name, item) = {}]_vars

(* The journal says what is there: a thing exists when an entry still       *)
(* stands that made it, and only then, so that what can be undone can be.   *)
JournalExplains ==
    \A n \in Types \cup Items : AtRest(n) =>
        /\ Exists(n) <=> \E k \in DOMAIN journal : journal[k].name = n /\ journal[k].op = "create" /\ journal[k].active
        /\ \A k \in DOMAIN journal : journal[k].name = n /\ journal[k].active /\ ~Exists(n) => journal[k].op = "delete"

------------------------------------------------------------------------------
(* Why they hold: of a name that is not spoiled one request at most changes *)
(* the rows, and what that request has still to do is known.                *)
States == {"idle", "insert", "property", "created", "insertItem", "publishFirst", "trial", "write", "align", "updated",
           "undone", "delete", "withdraw", "deleted", "deep", "plan", "publish", "reload"}
Job == [at : States, name : Types \cup Items \cup {None}, names : SUBSET (Types \cup Items), title : Cols \cup {None},
        props : SUBSET Cols, ends : SUBSET (Types \cup Items), was : Cols \cup {None}, entry : Nat, types : SUBSET Types,
        whole : BOOLEAN]
Entries == [name : Types \cup Items, op : {"create", "update", "delete"}, was : Cols \cup {None}, active : BOOLEAN]
TypeOK ==
    /\ landed \in BOOLEAN /\ spoiled \subseteq Types \cup Items
    /\ DOMAIN type \subseteq Types /\ \A t \in DOMAIN type : type[t] \in TypeRow
    /\ DOMAIN item \subseteq Items /\ \A i \in DOMAIN item : item[i] \subseteq Types
    /\ DOMAIN known.type \subseteq Types /\ \A t \in DOMAIN known.type : known.type[t] \in TypeRow
    /\ DOMAIN known.item \subseteq Items
    /\ journal \in Seq(Entries) /\ \A k \in DOMAIN journal : journal[k].op = "update" => journal[k].name \in Types
    /\ job \in [Clients -> Job]
LoadedOK ==
    /\ behind \subseteq Types \cup Items /\ loaded = [c \in Clients |-> loaded[c]]
    /\ \A c \in Clients : loaded[c] # None =>
          /\ DOMAIN loaded[c].type \subseteq Types /\ \A t \in DOMAIN loaded[c].type : loaded[c].type[t] \in TypeRow
          /\ loaded[c].item # None => DOMAIN loaded[c].item \subseteq Items
(* What a request is about is among the names it claims.                    *)
Shape(j) ==
    /\ j.at = "idle" => j = Idle
    /\ j.at \notin {"idle", "plan", "reload"} => j.name \in j.names
    /\ j.at \in {"insert", "property", "write", "align", "updated", "deep"} => j.name \in Types
    /\ j.at \in {"insert", "write", "delete"} => j.names = {j.name}
    /\ j.at \in {"insertItem", "publishFirst", "trial"} => j.name \in Items /\ j.names \cap Items = {j.name}
    /\ j.at = "insertItem" => j.ends \subseteq j.names \cap Types
    /\ j.at \in {"delete", "withdraw", "deep", "deleted"} => j.ends \subseteq j.names \cap Items
    /\ j.at = "deep" /\ ~j.whole => j.names \cap Items = j.ends
    /\ j.at = "plan" => j.whole
    /\ j.whole => j.names = Types \cup Items /\ j.at \in {"plan", "deep", "deleted", "publish", "reload"}
    /\ j.at \in {"align", "write", "undone"} /\ j.entry # 0 =>
          j.entry \in DOMAIN journal /\ journal[j.entry].name = j.name /\ journal[j.entry].op = "update"
    /\ j.at = "undone" => j.entry # 0
    /\ j.at = "updated" => j.entry = 0
Apart == \A c, d \in Clients : c # d => job[c].names \cap job[d].names \subseteq spoiled

(* The registry is as the rows are, but for what is not yet published or an *)
(* older load put back; and what one is about to install is as its rows are. *)
Published(n) == \A c \in Clients : n \in job[c].names => job[c].at \notin Unpublished
Registered(n) == Same(known, n)
RegistryFollows == \A n \in (Types \cup Items) \ (spoiled \cup behind) : Published(n) => Registered(n)
Carries == \A c \in Clients : loaded[c] # None =>
    /\ job[c].at \in Publishing
    /\ \A n \in job[c].names \ spoiled : SameType(loaded[c], n) /\ (loaded[c].item # None => SameItem(loaded[c], n))

Titled(t) == type[t].flags = {type[t].title} \cap type[t].props
TitlesFollow == \A t \in DOMAIN type \ spoiled : (\A c \in Clients : ~(job[c].at = "align" /\ job[c].name = t)) => Titled(t)

Stands == /\ \A i \in DOMAIN item \ spoiled : item[i] \ spoiled \subseteq DOMAIN type
          /\ ~landed => DOMAIN type \subseteq spoiled

(* The entries of a name that still stand; a name without one that made it. *)
Standing(n) == {k \in DOMAIN journal : journal[k].name = n /\ journal[k].active}
Bare(n) == \A k \in Standing(n) : journal[k].op = "delete"
Made(n) == \E k \in Standing(n) : journal[k].op = "create"
Explained(n) == /\ Exists(n) => Made(n)
                /\ ~Exists(n) => Bare(n)
Unlogged(j, n) == n = j.name /\ j.at \in {"property", "created", "publishFirst", "trial", "withdraw"}
JournalFollows == \A n \in (Types \cup Items) \ spoiled : (\A c \in Clients : ~Unlogged(job[c], n)) => Explained(n)

(* What a request that is alone with its names may rely on.                 *)
DependentsOf(t) == On(t, item) \ spoiled
Relies(j) ==
    LET n == j.name IN
    /\ n \notin spoiled =>
          /\ j.at = "insert" => landed
          /\ j.at = "property" => n \in DOMAIN type /\ type[n].title = j.title
          /\ j.at = "align" /\ n \in DOMAIN type => type[n].title = j.title
          /\ j.at = "created" \/ (j.at \in {"write", "align", "updated"} /\ j.entry = 0) => Exists(n)
          /\ j.at \in {"publishFirst", "trial"} => n \in DOMAIN item /\ Bare(n)
          /\ j.at = "withdraw" => ~Exists(n)
          /\ j.at = "delete" => DependentsOf(n) = {}
          /\ j.at = "deep" => DependentsOf(n) \subseteq j.ends
    /\ j.at = "insertItem" => j.ends \ spoiled \subseteq DOMAIN type
    /\ j.at \in Unpublished => \A i \in (j.names \cap DOMAIN item) \ spoiled : item[i] \subseteq j.names
    /\ j.whole /\ j.at # "reload" => DOMAIN type \ spoiled \subseteq j.types \cup (IF j.at = "deep" THEN {n} ELSE {})
IInv == /\ TypeOK /\ LoadedOK /\ (\A c \in Clients : Shape(job[c]) /\ Relies(job[c])) /\ Apart
        /\ RegistryFollows /\ Carries /\ TitlesFollow /\ Stands /\ JournalFollows
=============================================================================
