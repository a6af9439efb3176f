------------------------------- MODULE Removal -------------------------------
(* Deleting a dataset, a sync or an object type (removal.ts): what goes     *)
(* with it is planned and confirmed, then carried out in many statements,   *)
(* while other people land, model and combine tables. A combined dataset is *)
(* a view, named for its type. What else is built on a type (metrics,       *)
(* links, actions) is in Builder; lists of what is only affected, boards    *)
(* and functions, are left out.                                             *)
EXTENDS Naturals

CONSTANTS Tables,     \* what syncs land
          Names,      \* object types
          Clients, None,
          MaxAsks,    \* bound: removals ever asked for
          MaxFails    \* bound: statements that fail

VARIABLES landed,     \* the landed tables there are
          reads,      \* the views there are, and the relations each reads
          types,      \* the registry's object types, and the relation each is on
          sync,       \* for each table: the sync that lands it is in this space, elsewhere, or nowhere
          schedule,   \* the tables whose sync has a schedule
          card,       \* for each table: its dataset in this space, by whom it was registered
          job,        \* what each removal has still to do, in the order of Place
          spoiled,    \* what was made, or failed, while a removal was under way
          halted,     \* the removals that stopped half-way by themselves
          asks, fails

world == <<landed, reads, types, sync, schedule, card>>
vars == <<world, job, spoiled, halted, asks, fails>>

Do(what, on) == [what |-> what, on |-> on]
Idle == [todo |-> {}, of |-> None, lost |-> FALSE]
Busy == \E c \in Clients : job[c].todo # {}
TypeNames == DOMAIN types
Relations == landed \cup DOMAIN reads
RelationsOf(ns) == {types[n] : n \in ns}
With(f, x, v) == [y \in DOMAIN f \cup {x} |-> IF y = x THEN v ELSE f[y]]
Without(f, x) == [y \in DOMAIN f \ {x} |-> f[y]]

Init == /\ landed = {} /\ reads = <<>> /\ types = <<>> /\ schedule = {}
        /\ sync = [t \in Tables |-> "none"] /\ card = [t \in Tables |-> "none"]
        /\ job = [c \in Clients |-> Idle] /\ spoiled = {} /\ halted = {} /\ asks = 0 /\ fails = 0

------------------------------------------------------------------------------
(* What people make meanwhile. Made during a removal, it may be missed.     *)
Making(xs) == /\ spoiled' = IF Busy THEN spoiled \cup xs ELSE spoiled
              /\ UNCHANGED <<job, halted, asks, fails>>
AddSync(t, where) == /\ sync[t] = "none" /\ sync' = [sync EXCEPT ![t] = where] /\ Making({t})
                     /\ UNCHANGED <<landed, reads, types, schedule, card>>
AddSchedule(t) == /\ sync[t] = "here" /\ t \notin schedule /\ schedule' = schedule \cup {t} /\ Making({t})
                  /\ UNCHANGED <<landed, reads, types, sync, card>>
(* A run lands the table and registers it, unless someone did by hand.      *)
RunSync(t) == /\ sync[t] # "none" /\ landed' = landed \cup {t} /\ Making({t})
              /\ card' = IF sync[t] = "here" /\ card[t] = "none" THEN [card EXCEPT ![t] = "system"] ELSE card
              /\ <<landed', card'>> # <<landed, card>>
              /\ UNCHANGED <<reads, types, sync, schedule>>
RegisterByHand(t) == /\ card[t] = "none" /\ card' = [card EXCEPT ![t] = "person"] /\ Making({t})
                     /\ UNCHANGED <<landed, reads, types, sync, schedule>>
ModelTable(n, t) == /\ n \notin TypeNames \cup DOMAIN reads /\ t \in landed /\ card[t] # "none"
                    /\ types' = With(types, n, t) /\ Making({n})
                    /\ UNCHANGED <<landed, reads, sync, schedule, card>>
(* A combination is its view, then its type: the second may fail.           *)
Combine(n, bases, modelled) ==
    /\ n \notin TypeNames \cup DOMAIN reads /\ bases # {} /\ RelationsOf(bases) \subseteq Relations
    /\ reads' = With(reads, n, RelationsOf(bases))
    /\ types' = IF modelled THEN With(types, n, n) ELSE types
    /\ Making({n}) /\ UNCHANGED <<landed, sync, schedule, card>>

------------------------------------------------------------------------------
(* datasetParts: whose table it is. Mutant: whoever names it owns it.       *)
Owns_ByName(t) == t \in landed
Owns(t) == t \in landed /\ (sync[t] = "here" \/ (sync[t] = "none" /\ card[t] = "system"))
ViewsReading(r) == {v \in DOMAIN reads : r \in reads[v]}
(* planRemoval of a dataset: the types on its table, and those of the views *)
(* that read it. Mutant: the latter only.                                   *)
Combined(t) == {Do("combined", n) : n \in {m \in TypeNames : Owns(t) /\ types[m] \in ViewsReading(t)}}
Dependents_ViewsOnly(t) == Combined(t)
Dependents(t) == {Do("type", n) : n \in {m \in TypeNames : types[m] = t}} \cup Combined(t)
(* A view nothing of this space's model stands for keeps the table.         *)
Refused(t) == Owns(t) /\ \E v \in ViewsReading(t) : \A n \in TypeNames : types[n] # v

Begin(c, todo, of) ==
    /\ job[c].todo = {} /\ asks < MaxAsks /\ asks' = asks + 1
    /\ job' = [job EXCEPT ![c] = [todo |-> todo, of |-> of, lost |-> FALSE]]
    /\ spoiled' = IF Busy THEN Tables \cup Names ELSE spoiled
    /\ UNCHANGED <<world, halted, fails>>
(* Refused without cascade when anything is built on it.                    *)
RemoveDataset(c, t, cascade) ==
    /\ card[t] # "none" /\ ~Refused(t) /\ (cascade \/ Dependents(t) = {})
    /\ Begin(c, {Do("parts", t), Do("card", t)} \cup Dependents(t), t)
RemoveSync(c, t) == sync[t] = "here" /\ Begin(c, {Do("schedule", t), Do("sync", t)}, t)
RemoveType(c, n) == n \in TypeNames /\ Begin(c, {Do("type", n)}, n)

------------------------------------------------------------------------------
(* The statements, in this order: the types on a table, then the combined,  *)
(* each in the registry's order, which is people's to change (builder.ts);  *)
(* the sync, its schedule first; the table; the dataset itself.             *)
Place(what) == CASE what = "parts" -> 1 [] what = "type" -> 2 [] what = "combined" -> 3 [] what = "schedule" -> 4
                 [] what = "sync" -> 5 [] what = "table" -> 6 [] OTHER -> 7
First(todo) == {s \in todo : \A d \in todo : Place(s.what) <= Place(d.what)}
Rest(c, s, lost) ==
    /\ LET rest == job[c].todo \ {s}
       IN  job' = [job EXCEPT ![c] = IF rest = {} THEN Idle ELSE [todo |-> rest, of |-> job[c].of, lost |-> job[c].lost \/ lost]]
    /\ UNCHANGED <<spoiled, halted, asks, fails>>
(* The rest is not done. A stop with nobody in the way is the code's own.   *)
Stops(c) == /\ job' = [job EXCEPT ![c] = Idle]
            /\ halted' = IF job[c].lost /\ spoiled = {} THEN halted \cup {job[c].of} ELSE halted
            /\ UNCHANGED <<world, spoiled, asks, fails>>

(* removeDatasetDeep reads its parts again, and keeps them: the sync and    *)
(* the table go after the types.                                            *)
After(t) == (IF sync[t] = "here" THEN {Do("schedule", t), Do("sync", t)} ELSE {})
            \cup (IF Owns(t) THEN {Do("table", t)} ELSE {})
ReadParts(c, s) == /\ s.what = "parts"
                   /\ job' = [job EXCEPT ![c].todo = (@ \ {s}) \cup After(s.on)]
                   /\ UNCHANGED <<world, spoiled, halted, asks, fails>>
(* removeObjectTypeDeep, one transaction: a view another view reads stays.  *)
IsRead(n) == n \in TypeNames /\ types[n] \in DOMAIN reads /\ ViewsReading(n) # {}
DropType(c, s) ==
    /\ s.what \in {"type", "combined"} /\ ~IsRead(s.on)
    /\ types' = Without(types, s.on)
    /\ reads' = IF s.on \in TypeNames THEN Without(reads, s.on) ELSE reads
    /\ Rest(c, s, s.on \in TypeNames) /\ UNCHANGED <<landed, sync, schedule, card>>
ViewIsRead(c, s) == s.what \in {"type", "combined"} /\ IsRead(s.on) /\ Stops(c)
DropSchedule(c, s) == /\ s.what = "schedule" /\ schedule' = schedule \ {s.on}
                      /\ Rest(c, s, TRUE) /\ UNCHANGED <<landed, reads, types, sync, card>>
DropSync(c, s) ==
    /\ s.what = "sync"
    /\ IF sync[s.on] = "here"
       THEN /\ sync' = [sync EXCEPT ![s.on] = "none"]
            /\ Rest(c, s, TRUE) /\ UNCHANGED <<landed, reads, types, schedule, card>>
       ELSE Stops(c)
DropTable(c, s) ==
    /\ s.what = "table"
    /\ IF ViewsReading(s.on) = {}
       THEN /\ landed' = landed \ {s.on}
            /\ Rest(c, s, TRUE) /\ UNCHANGED <<reads, types, sync, schedule, card>>
       ELSE Stops(c)
DropCard(c, s) ==
    /\ s.what = "card"
    /\ IF card[s.on] # "none"
       THEN /\ card' = [card EXCEPT ![s.on] = "none"]
            /\ Rest(c, s, TRUE) /\ UNCHANGED <<landed, reads, types, sync, schedule>>
       ELSE Stops(c)
(* Any statement may fail, and the rest is not done.                        *)
Fails(c) == /\ job[c].todo # {} /\ fails < MaxFails /\ fails' = fails + 1
            /\ job' = [job EXCEPT ![c] = Idle]
            /\ UNCHANGED <<world, spoiled, halted, asks>>

Make == \/ \E t \in Tables : AddSchedule(t) \/ RunSync(t) \/ RegisterByHand(t) \/ \E w \in {"here", "elsewhere"} : AddSync(t, w)
        \/ \E n \in Names, t \in Tables : ModelTable(n, t)
        \/ \E n \in Names, bs \in SUBSET TypeNames, m \in BOOLEAN : Combine(n, bs, m)
AskTo(c) == \/ \E t \in Tables : RemoveSync(c, t) \/ \E b \in BOOLEAN : RemoveDataset(c, t, b)
            \/ \E n \in Names : RemoveType(c, n)
Carry(c) == \/ Fails(c)
            \/ \E s \in First(job[c].todo) : \/ ReadParts(c, s) \/ DropType(c, s) \/ ViewIsRead(c, s)
                                            \/ DropSchedule(c, s) \/ DropSync(c, s) \/ DropTable(c, s) \/ DropCard(c, s)
Next == Make \/ \E c \in Clients : AskTo(c) \/ Carry(c)
Spec == Init /\ [][Next]_vars

------------------------------------------------------------------------------
(* "things with a name of their own that cannot exist without it"           *)
(* (removal.ts:22): every object type has its relation, and every view what *)
(* it reads, at every statement of a removal and after one that failed,     *)
(* unless it was made while the removal was under way.                      *)
NothingOnNothing ==
    /\ \A n \in TypeNames \ spoiled : types[n] \in Relations
    /\ \A v \in DOMAIN reads : reads[v] \subseteq Relations

(* "A dataset's table is dropped only when it is provably that dataset's    *)
(* own" (README.md:478): a table another space's sync lands is never        *)
(* dropped from here, whoever registered it by hand; but a sync that claims *)
(* the table while it is being removed may lose it.                         *)
OthersKeepTheirs == [][\A t \in landed \ landed' : t \in spoiled \/ sync[t] # "elsewhere"]_vars

(* "a deleted dataset is not back after the next sync" (README.md:449):     *)
(* when its card goes, so have its copy, its sync and the sync's schedule,  *)
(* if the copy was its own and nobody made anything meanwhile.              *)
DeletedIsNotBack ==
    [][\A t \in Tables : card[t] # "none" /\ card'[t] = "none" /\ spoiled = {} =>
          sync[t] # "here" /\ t \notin schedule /\ (t \in landed => sync[t] = "elsewhere" \/ card[t] = "person")]_vars

(* "Delete it and n things built on it" (README.md:474) does so: a removal  *)
(* that nobody disturbed does not stop half-way. The program does not keep  *)
(* it: a view that another view reads cannot be dropped first.              *)
ConfirmedIsDone == halted = {}

------------------------------------------------------------------------------
(* Why they hold: what a removal has read and not yet acted on still holds, *)
(* as long as nobody made anything meanwhile.                               *)
Job == [todo : SUBSET [what : {"parts", "type", "combined", "schedule", "sync", "table", "card"}, on : Tables \cup Names],
        of : Tables \cup Names \cup {None}, lost : BOOLEAN]
TypeOK == /\ landed \subseteq Tables /\ schedule \subseteq Tables /\ spoiled \subseteq Tables \cup Names
          /\ DOMAIN reads \subseteq Names /\ DOMAIN types \subseteq Names
          /\ \A n \in TypeNames : types[n] = n \/ types[n] \in Tables
          /\ sync \in [Tables -> {"none", "here", "elsewhere"}] /\ card \in [Tables -> {"none", "system", "person"}]
          /\ job \in [Clients -> Job]
(* A type is on its view, or on a table and has none.                       *)
ViewsAreTheirTypes == \A n \in TypeNames : types[n] = n <=> n \in DOMAIN reads
(* The types on a table go before it does.                                  *)
TypesFirst ==
    \A c \in Clients, t \in Tables :
        Do("parts", t) \in job[c].todo \/ Do("table", t) \in job[c].todo
        => \A n \in TypeNames \ spoiled : types[n] = t => Do("type", n) \in job[c].todo
(* A table that is to be dropped is nobody else's.                          *)
OnlyOurs == \A c \in Clients, t \in Tables :
               Do("table", t) \in job[c].todo => t \in spoiled \/ sync[t] # "elsewhere"
(* Two removals at once may be in each other's way.                         *)
Alone == spoiled = {} => \A c, d \in Clients : job[c].todo # {} /\ job[d].todo # {} => c = d
SchedulesHaveSyncs == spoiled = {} => \A t \in schedule : sync[t] = "here"
ScheduleFirst == spoiled = {} => \A c \in Clients, t \in schedule :
                   Do("sync", t) \in job[c].todo => Do("schedule", t) \in job[c].todo
(* All that would bring a dataset back goes before its card.                *)
CardLast ==
    spoiled = {} =>
    \A c \in Clients, t \in Tables : Do("card", t) \in job[c].todo =>
        /\ card[t] # "none"
        /\ Do("parts", t) \in job[c].todo
           \/ /\ sync[t] = "here" => Do("sync", t) \in job[c].todo
              /\ t \in schedule => Do("schedule", t) \in job[c].todo
              /\ t \in landed => sync[t] = "elsewhere" \/ card[t] = "person" \/ Do("table", t) \in job[c].todo
IInv == /\ TypeOK /\ ViewsAreTheirTypes /\ TypesFirst /\ OnlyOurs /\ Alone
        /\ SchedulesHaveSyncs /\ ScheduleFirst /\ CardLast /\ NothingOnNothing
=============================================================================
