------------------------------- MODULE Imports -------------------------------
(* Importing tables of one connection all the way to the ontology           *)
(* (importer.ts): a sync for each, its keys, a run, and then all of them    *)
(* modelled in one transaction (modeling.ts modelSources). What a run does  *)
(* is SyncRun; here it lands the table or fails. A type has one figure      *)
(* made for it; links guessed from names are left out.                      *)
EXTENDS Naturals, FiniteSets, SequencesExt

CONSTANTS Tables, ForeignKeys,   \* the source: [from, to], as declared
          Requests,              \* the lists of tables asked for
          Clients, None,
          MaxAsks, MaxTypes, MaxFails    \* bounds: requests, types of one table, failures

VARIABLES synced,     \* the tables with a sync, and whether their keys are stored with it
          landed,     \* the tables there is a copy of
          types,      \* the object types: [on, nth], the nth ever made of that table
          made,       \* how many were ever made of each table
          links,      \* [from, to] between types
          figures,    \* [on, adopted]: a figure is the automatic one, or a person's in its place
          job,        \* what each request is doing
          told,       \* what the last import answered
          asks, fails

rows == <<types, made, links, figures>>
vars == <<synced, landed, rows, job, told, asks, fails>>

Idle == [at |-> "idle", todo |-> <<>>, sources |-> {}, keyed |-> {}, failed |-> {}, asked |-> {}]
Nothing == [asked |-> {}, failed |-> {}, modelled |-> {}]
TypesOn(t) == {y \in types : y.on = t}

Init == /\ synced = <<>> /\ landed = {} /\ types = {} /\ made = [t \in Tables |-> 0] /\ links = {} /\ figures = {}
        /\ job = [c \in Clients |-> Idle] /\ told = Nothing /\ asks = 0 /\ fails = 0

To(c, at) == job' = [job EXCEPT ![c].at = at]
Failing == fails < MaxFails /\ fails' = fails + 1

(* importTables: the keys of all the tables are read first.                 *)
AskImport(c, request) ==
    /\ job[c].at = "idle" /\ asks < MaxAsks /\ asks' = asks + 1
    /\ job' = [job EXCEPT ![c] = [Idle EXCEPT !.at = "sync", !.todo = request, !.asked = ToSet(request)]]
    /\ UNCHANGED <<synced, landed, rows, told, fails>>
(* One table: its sync, the keys on it, a run.                              *)
CreateSync(c) ==
    LET t == Head(job[c].todo) IN
    /\ job[c].at = "sync"
    /\ synced' = [u \in DOMAIN synced \cup {t} |-> IF u \in DOMAIN synced THEN synced[u] ELSE FALSE]
    /\ To(c, "keys") /\ UNCHANGED <<landed, rows, told, asks, fails>>
StoreKeys(c) ==
    LET t == Head(job[c].todo) IN
    /\ job[c].at = "keys"
    /\ synced' = IF t \in DOMAIN synced THEN [synced EXCEPT ![t] = TRUE] ELSE synced
    /\ To(c, "run") /\ UNCHANGED <<landed, rows, told, asks, fails>>
NextTable(todo) == IF todo = <<>> THEN "profile" ELSE "sync"
AfterLanding(j) ==
    [j EXCEPT !.at = NextTable(Tail(j.todo)), !.todo = Tail(@), !.sources = @ \cup {Head(j.todo)},
              !.keyed = @ \cup {Head(j.todo)}]
Run(c) ==
    /\ job[c].at = "run" /\ Head(job[c].todo) \in DOMAIN synced
    /\ landed' = landed \cup {Head(job[c].todo)}
    /\ job' = [job EXCEPT ![c] = AfterLanding(@)]
    /\ UNCHANGED <<synced, rows, told, asks, fails>>
(* Any of the three may fail: the table is named, and the next is tried.    *)
AfterFailure(j) ==
    [j EXCEPT !.at = NextTable(Tail(j.todo)), !.todo = Tail(@), !.failed = @ \cup {Head(j.todo)}]
TableFails(c) ==
    /\ job[c].at \in {"sync", "keys", "run"}
    /\ IF job[c].at = "run" /\ Head(job[c].todo) \notin DOMAIN synced THEN UNCHANGED fails ELSE Failing
    /\ job' = [job EXCEPT ![c] = AfterFailure(@)]
    /\ UNCHANGED <<synced, landed, rows, told, asks>>

(* remodelConnection: what has a sync and a copy, with the keys stored.     *)
AskRemodel(c) ==
    LET there == DOMAIN synced \cap landed IN
    /\ job[c].at = "idle" /\ asks < MaxAsks /\ asks' = asks + 1 /\ there # {}
    /\ job' = [job EXCEPT ![c] = [Idle EXCEPT !.at = "profile", !.sources = there,
                                              !.keyed = {t \in there : synced[t]}, !.asked = there]]
    /\ UNCHANGED <<synced, landed, rows, told, fails>>

Answer(j) == [asked |-> j.asked, failed |-> j.failed, modelled |-> j.sources]
(* modelSources reads every table before its transaction, all or none; with *)
(* nothing landed it is not called, and that is the answer.                 *)
Profile(c) ==
    LET j == job[c] IN
    /\ j.at = "profile"
    /\ IF j.sources # {} /\ j.sources \subseteq landed
       THEN To(c, "model") ELSE job' = [job EXCEPT ![c] = Idle]
    /\ told' = IF j.sources = {} THEN Answer(j) ELSE told
    /\ UNCHANGED <<synced, landed, rows, asks, fails>>

NewType(t) == [on |-> t, nth |-> made[t] + 1]
Planned_AlwaysNew(ts) == types \cup {NewType(t) : t \in ts}
(* A table that has a type keeps it.                                        *)
Planned(ts) == types \cup {NewType(t) : t \in {u \in ts : TypesOn(u) = {}}}
(* The declared keys of the planned tables, to any type that is there.      *)
Declared(all, ts, keyed) ==
    {[from |-> k[1], to |-> k[2]] : k \in {p \in all \X all :
        p[1].on \in ts \cap keyed /\ [from |-> p[1].on, to |-> p[2].on] \in ForeignKeys}}
(* An adopted figure keeps its place.                                       *)
Automatic(on) == {[on |-> y, adopted |-> FALSE] : y \in {z \in on : [on |-> z, adopted |-> TRUE] \notin figures}}
(* The transaction, under the lock of the space's version.                  *)
Model(c) ==
    LET j == job[c]
        all == Planned(j.sources)
        on == {y \in all : y.on \in j.sources}
    IN  /\ j.at = "model" /\ \A y \in all : y.nth <= MaxTypes
        /\ types' = all
        /\ made' = [t \in Tables |-> IF NewType(t) \in all THEN made[t] + 1 ELSE made[t]]
        /\ links' = links \cup Declared(all, j.sources, j.keyed)
        /\ figures' = {f \in figures : f.adopted \/ f.on \notin on} \cup Automatic(on)
        /\ told' = Answer(j)
        /\ job' = [job EXCEPT ![c] = Idle]
        /\ UNCHANGED <<synced, landed, asks, fails>>
ModelFails(c) == /\ job[c].at = "model" /\ Failing /\ job' = [job EXCEPT ![c] = Idle]
                 /\ UNCHANGED <<synced, landed, rows, told, asks>>

(* A person approves the figure under another name: it takes the place of   *)
(* the automatic one (proposals.ts applyMetric).                            *)
Adopt(y) == /\ [on |-> y, adopted |-> FALSE] \in figures
            /\ figures' = (figures \ {[on |-> y, adopted |-> FALSE]}) \cup {[on |-> y, adopted |-> TRUE]}
            /\ UNCHANGED <<synced, landed, types, made, links, job, told, asks, fails>>
(* removeModelledType, in one transaction; of a dataset, its sync and copy. *)
Gone(y) == /\ types' = types \ {y} /\ made' = made
           /\ links' = {l \in links : y \notin {l.from, l.to}}
           /\ figures' = {f \in figures : f.on # y}
RemoveType(y) == Gone(y) /\ UNCHANGED <<synced, landed, job, told, asks, fails>>
RemoveDataset(t) ==
    /\ t \in landed /\ TypesOn(t) = {}
    /\ landed' = landed \ {t} /\ synced' = [u \in DOMAIN synced \ {t} |-> synced[u]]
    /\ UNCHANGED <<rows, job, told, asks, fails>>

Next == \/ \E c \in Clients : \/ \E r \in Requests : AskImport(c, r)
                              \/ CreateSync(c) \/ StoreKeys(c) \/ Run(c) \/ TableFails(c)
                              \/ AskRemodel(c) \/ Profile(c) \/ Model(c) \/ ModelFails(c)
        \/ \E y \in types : Adopt(y) \/ RemoveType(y)
        \/ \E t \in Tables : RemoveDataset(t)
Spec == Init /\ [][Next]_vars

------------------------------------------------------------------------------
(* Two imports of one table at once, or the same again, make one type of    *)
(* it, with one figure: a figure approved in place of the automatic one     *)
(* "keeps its place: modelling the type again does not add the automatic    *)
(* twin back" (modeling.ts:595).                                            *)
OneOfEach == /\ \A y, z \in types : y.on = z.on => y = z
             /\ \A y \in types : \E f \in figures : f.on = y /\ \A g \in figures : g.on = y => g = f

(* "One table failing does not stop the others" (importer.ts:12): what was  *)
(* asked for is modelled, or named as failed, and never both.               *)
EveryTableIsAccountedFor == told.asked = told.failed \cup told.modelled /\ told.failed \cap told.modelled = {}

(* A declared key to a table that is not there yet is left with "Import it  *)
(* to get the link" (modeling.ts:543): with both tables imported and no     *)
(* type removed, it is a link. The program does not keep it: importing the  *)
(* second table only looks at that table's own keys.                        *)
ImportedGetsItsLink ==
    (\A c \in Clients : job[c] = Idle) /\ (\A t \in Tables : \A n \in 1..made[t] : [on |-> t, nth |-> n] \in types) =>
        \A k \in ForeignKeys : \A y \in TypesOn(k.from), z \in TypesOn(k.to) : [from |-> y, to |-> z] \in links

------------------------------------------------------------------------------
(* Why they hold.                                                           *)
Type == [on : Tables, nth : 1..MaxTypes]
Job == [at : {"idle", "sync", "keys", "run", "profile", "model"}, todo : Seq(Tables), sources : SUBSET Tables,
        keyed : SUBSET Tables, failed : SUBSET Tables, asked : SUBSET Tables]
TypeOK == /\ landed \subseteq Tables /\ types \subseteq Type /\ made \in [Tables -> 0..MaxTypes]
          /\ figures \subseteq [on : Type, adopted : BOOLEAN] /\ job \in [Clients -> Job]

(* A type is of an earlier making than the next; a figure is of a type.     *)
EarlierMade == \A y \in types : y.nth <= made[y.on]
FiguresAreOfTypes == \A f \in figures : f.on \in types
(* Every table that was asked for is still to do, landed or failed, and one *)
(* of the three.                                                            *)
Shared(j) ==
    /\ j.asked = j.failed \cup j.sources \cup ToSet(j.todo)
    /\ j.failed \cap j.sources = {} /\ ToSet(j.todo) \cap (j.failed \cup j.sources) = {}
    /\ \A m, n \in DOMAIN j.todo : j.todo[m] = j.todo[n] => m = n
    /\ j.at \in {"sync", "keys", "run"} <=> j.todo # <<>>
IInv == /\ TypeOK /\ EarlierMade /\ FiguresAreOfTypes /\ \A c \in Clients : Shared(job[c])
        /\ OneOfEach /\ EveryTableIsAccountedFor
=============================================================================
