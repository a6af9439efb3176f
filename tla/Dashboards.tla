----------------------------- MODULE Dashboards -----------------------------
(* The boards of a space (dashboards.ts): saved new under a slug of their   *)
(* own, saved again, renamed, deleted, restored from a backup. A request    *)
(* looks at the slugs that are taken and writes in a later statement.       *)
EXTENDS Naturals, Sequences, FiniteSets, FiniteSetsExt

CONSTANTS Titles, Metrics, Clients, None,
          MaxBoard, MaxAsks     \* bounds: boards ever made, requests

VARIABLES board,        \* platform.dashboard, by id
          metrics,      \* the catalogue of the registry
          renames,      \* platform.dashboard_rename: [id, from, to]
          had,          \* every slug a board has had: <<id, slug>>
          unexplained,  \* boards renamed twice at once, or whose record was not written
          replaced,     \* slugs a new board took though it had seen them taken
          job, nextBoard, asked

vars == <<board, metrics, renames, had, unexplained, replaced, job, nextBoard, asked>>

(* slugify: a title gives the slug <<title, 1>>; a number tells the others  *)
(* of that title apart.                                                     *)
Slugify(title) == <<title, 1>>
Idle == [pc |-> "idle", new |-> FALSE, slug |-> None, title |-> None, layout |-> {}, id |-> 0,
         was |-> None, seen |-> {}, todo |-> <<>>, overwrite |-> FALSE]

Ids == 1..MaxBoard
Is(k) == k \in Ids /\ board[k] /= None
Boards == {k \in Ids : Is(k)}
Slugs == {board[k].slug : k \in Boards}
At(slug) == {k \in Boards : board[k].slug = slug}

Init ==
    /\ board = [k \in Ids |-> None] /\ metrics = Metrics /\ renames = {} /\ had = {}
    /\ unexplained = {} /\ replaced = {}
    /\ job = [c \in Clients |-> Idle] /\ nextBoard = 1 /\ asked = 0

Goes(c, j) == job' = [job EXCEPT ![c] = j]
Asks(c, j) ==
    /\ job[c].pc = "idle" /\ asked < MaxAsks /\ asked' = asked + 1 /\ Goes(c, j)
    /\ UNCHANGED <<board, metrics, renames, had, unexplained, replaced, nextBoard>>

(* validateLayout: every widget is on a metric of the catalogue.            *)
Valid(layout) == layout /= {} /\ layout \subseteq metrics

(* saveDashboard without a slug: the slugs of that title are read, the      *)
(* first that is free is taken.                                             *)
TakenLike_Exact(title) == Slugs \cap {Slugify(title)}
TakenLike(title) == {s \in Slugs : s[1] = title}
Free(title) == <<title, Min({n \in 1..(MaxBoard + 1) : <<title, n>> \notin TakenLike(title)})>>
AskSave(c, title, layout) ==
    /\ Valid(layout)
    /\ Asks(c, [Idle EXCEPT !.pc = "upsert", !.new = TRUE, !.slug = Free(title), !.title = title, !.layout = layout,
                            !.seen = Slugs])
(* With one it is an edit of that board, or makes it.                       *)
AskEdit(c, slug, title, layout) ==
    /\ Valid(layout)
    /\ Asks(c, [Idle EXCEPT !.pc = "upsert", !.slug = slug, !.title = title, !.layout = layout])

(* INSERT ... ON CONFLICT (space_id, slug) DO UPDATE: the row at the slug,  *)
(* or a new one. Its history keeps the title's changes out: only a rename   *)
(* is recorded.                                                             *)
Written(slug, title, layout) ==
    IF At(slug) /= {}
    THEN /\ board' = [k \in Ids |-> IF k \in At(slug) THEN [board[k] EXCEPT !.title = title, !.layout = layout] ELSE board[k]]
         /\ UNCHANGED <<had, nextBoard>>
    ELSE /\ nextBoard \in Ids
         /\ board' = [board EXCEPT ![nextBoard] = [slug |-> slug, title |-> title, layout |-> layout]]
         /\ had' = had \cup {<<nextBoard, slug>>} /\ nextBoard' = nextBoard + 1
Unasked(j) == IF j.new /\ At(j.slug) /= {} /\ j.slug \in j.seen THEN {j.slug} ELSE {}
Upsert(c) == LET j == job[c] IN
    /\ j.pc = "upsert"
    /\ Written(j.slug, j.title, j.layout)
    /\ replaced' = replaced \cup Unasked(j)
    /\ Goes(c, Idle) /\ UNCHANGED <<metrics, renames, unexplained, asked>>

(* renameDashboard: the row is read, the new slug must be nobody's.         *)
AskRename(c, slug, title) ==
    \E k \in At(slug) :
        /\ Slugify(title) = slug \/ At(Slugify(title)) = {}
        /\ Asks(c, [Idle EXCEPT !.pc = "rename", !.id = k, !.title = title, !.slug = Slugify(title), !.was = board[k]])
(* The unique index refuses a slug taken in between.                        *)
Worth(was, title, slug) == was.title /= title \/ was.slug /= slug
Rename(c) == LET j == job[c]  done == Is(j.id) /\ At(j.slug) \subseteq {j.id} IN
    /\ j.pc = "rename"
    /\ IF done
       THEN /\ board' = [board EXCEPT ![j.id].title = j.title, ![j.id].slug = j.slug]
            /\ had' = had \cup {<<j.id, j.slug>>}
            /\ unexplained' = IF board[j.id].slug /= j.was.slug THEN unexplained \cup {j.id} ELSE unexplained
       ELSE UNCHANGED <<board, had, unexplained>>
    /\ Goes(c, IF done /\ Worth(j.was, j.title, j.slug) THEN [j EXCEPT !.pc = "record"] ELSE Idle)
    /\ UNCHANGED <<metrics, renames, replaced, nextBoard, asked>>
(* Its record, in a statement of its own: it may fail, or find the board    *)
(* gone.                                                                    *)
RecordRename(c) == LET j == job[c] IN
    /\ j.pc = "record"
    /\ \/ Is(j.id) /\ renames' = renames \cup {[id |-> j.id, from |-> j.was.slug, to |-> j.slug]} /\ UNCHANGED unexplained
       \/ unexplained' = unexplained \cup {j.id} /\ UNCHANGED renames
    /\ Goes(c, Idle) /\ UNCHANGED <<board, metrics, had, replaced, nextBoard, asked>>

(* deleteDashboard, and its renames with it.                                *)
DeleteDashboard(c, slug) ==
    /\ At(slug) /= {} /\ job[c].pc = "idle" /\ asked < MaxAsks /\ asked' = asked + 1
    /\ board' = [k \in Ids |-> IF k \in At(slug) THEN None ELSE board[k]]
    /\ renames' = {r \in renames : r.id \notin At(slug)}
    /\ had' = {h \in had : h[1] \notin At(slug)}
    /\ UNCHANGED <<metrics, unexplained, replaced, job, nextBoard>>

(* importDashboards: the slugs taken are read once; the boards of the file  *)
(* are then written one by one.                                             *)
AskImport(c, file, overwrite) ==
    Asks(c, [Idle EXCEPT !.pc = "import", !.todo = file, !.seen = Slugs, !.overwrite = overwrite])
Skipped(j, b) == (b.slug \in j.seen /\ ~j.overwrite) \/ ~Valid(b.layout)
ImportNext(c) == LET j == job[c]  b == Head(j.todo) IN
    /\ j.pc = "import" /\ j.todo /= <<>>
    /\ IF Skipped(j, b) THEN UNCHANGED <<board, had, nextBoard, replaced>>
       ELSE /\ Written(b.slug, b.title, b.layout)
            /\ replaced' = replaced \cup Unasked([slug |-> b.slug, new |-> ~j.overwrite, seen |-> j.seen])
    /\ Goes(c, IF Len(j.todo) = 1 THEN Idle ELSE [j EXCEPT !.todo = Tail(@)])
    /\ UNCHANGED <<metrics, renames, unexplained, asked>>

(* A metric is made or removed (Builder).                                   *)
CatalogueChanges(m) ==
    /\ asked < MaxAsks /\ asked' = asked + 1
    /\ metrics' = IF m \in metrics THEN metrics \ {m} ELSE metrics \cup {m}
    /\ UNCHANGED <<board, renames, had, unexplained, replaced, job, nextBoard>>

Layouts == {{m} : m \in Metrics}
Next ==
    \/ \E c \in Clients :
         \/ \E title \in Titles, layout \in Layouts :
              \/ AskSave(c, title, layout)
              \/ \E slug \in Slugs : AskEdit(c, slug, title, layout)
              \/ \E overwrite \in BOOLEAN, n \in 1..2 :
                    LET b == [slug |-> <<title, n>>, title |-> title, layout |-> layout]
                    IN AskImport(c, <<b, [b EXCEPT !.slug = Slugify(title)]>>, overwrite)
         \/ \E slug \in Slugs : DeleteDashboard(c, slug) \/ \E title \in Titles : AskRename(c, slug, title)
         \/ Upsert(c) \/ Rename(c) \/ RecordRename(c) \/ ImportNext(c)
    \/ \E m \in Metrics : CatalogueChanges(m)
Spec == Init /\ [][Next]_vars

-----------------------------------------------------------------------------
(* Every variable has its type.                                             *)
Slug == Titles \X Nat
Row == [slug: Slug, title: Titles, layout: SUBSET Metrics]
Job == [pc: {"idle", "upsert", "rename", "record", "import"}, new: BOOLEAN, slug: Slug \cup {None},
        title: Titles \cup {None}, layout: SUBSET Metrics, id: 0..MaxBoard, was: Row \cup {None},
        seen: SUBSET Slug, todo: Seq(Row), overwrite: BOOLEAN]
TypeOK ==
    /\ board \in [Ids -> Row \cup {None}] /\ metrics \subseteq Metrics /\ nextBoard \in 1..(MaxBoard + 1)
    /\ renames \subseteq [id: Ids, from: Slug, to: Slug] /\ had \subseteq Ids \X Slug
    /\ unexplained \subseteq Ids /\ replaced \subseteq Slug
    /\ job \in [Clients -> Job] /\ asked \in 0..MaxAsks

(* A new board, and a restore without overwrite, never write over a board   *)
(* whose slug they saw was taken (dashboards.ts: "asking the assistant      *)
(* twice for a sales dashboard used to overwrite the first one"). One made  *)
(* or renamed after they looked, they do write over.                        *)
NewIsNotAnEdit == replaced = {}

(* A stale link can be explained: every slug a board has had and has no     *)
(* more is in the record of its renames (dashboards.ts renameDashboard).    *)
StaleLinksExplained ==
    \A h \in had : \/ h[1] \in unexplained \/ ~Is(h[1]) \/ board[h[1]].slug = h[2]
                   \/ \E r \in renames : r.id = h[1] /\ r.from = h[2]
                   \/ \E c \in Clients : job[c].pc = "record" /\ job[c].id = h[1]

---------------------------------------------------------------------------
(* Why they hold.                                                          *)

(* What a request holds is what its phase needs; an id is not given twice. *)
JobsHold ==
    \A c \in Clients :
        /\ job[c].pc \in {"upsert", "rename", "record"} => job[c].slug \in Slug /\ job[c].title \in Titles
        /\ job[c].pc \in {"rename", "record"} => job[c].id \in 1..(nextBoard - 1) /\ job[c].was \in Row
        /\ job[c].pc = "import" => job[c].todo /= <<>>
IdsAreFresh == \A h \in had : h[1] < nextBoard
MadeBefore == \A k \in Boards : k < nextBoard
(* Who makes a new board has not seen its slug taken.                      *)
NewIsFree == \A c \in Clients : job[c].pc = "upsert" /\ job[c].new => job[c].slug \notin job[c].seen
(* A rename that is done and not yet recorded is of the very slug that the *)
(* board has no more.                                                      *)
Explained(h) == \/ h[1] \in unexplained \/ ~Is(h[1]) \/ board[h[1]].slug = h[2]
                \/ \E r \in renames : r.id = h[1] /\ r.from = h[2]
                \/ \E c \in Clients : job[c].pc = "record" /\ job[c].id = h[1] /\ job[c].was.slug = h[2]
IInv == TypeOK /\ JobsHold /\ IdsAreFresh /\ MadeBefore /\ NewIsFree /\ NewIsNotAnEdit /\ \A h \in had : Explained(h)
=============================================================================
