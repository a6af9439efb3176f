------------------------------- MODULE Screens -------------------------------
(* The screens of the browser (services/ui/src), each as what it reads from *)
(* the server, what it writes, and what it locks meanwhile; and the one     *)
(* machine they all run on: answers arrive in any order, after the person   *)
(* has moved on. Layout and wording are left out.                           *)
EXTENDS Naturals, Sequences

CONSTANT MaxMoves     \* bound: what the person does

(* A read: the inputs it is asked again for, those whose change clears what *)
(* is shown, whether a stale answer is dropped, the read it waits for, and  *)
(* the inputs that must be open (2) for it to be asked at all.              *)
Read(on, clears, drops, after) ==
    [on |-> on, clears |-> clears, drops |-> drops, after |-> after, while |-> {}]
Always(on) == Read(on, {}, FALSE, 0)                \* painted whenever it arrives
Cleared(on) == Read(on, on, FALSE, 0)
Kept(on, clears) == Read(on, clears, TRUE, 0)       \* only the latest is painted
After(r, on, clears) == Read(on, clears, FALSE, r)
While(open, read) == [read EXCEPT !.while = open]   \* its effect returns before it counts
(* A write: its steps, the reads made again after it, whether these pass    *)
(* the guard by, and whether the screen is left.                            *)
Write(steps, again, leaves) ==
    [steps |-> steps, again |-> again, past |-> FALSE, leaves |-> leaves]
(* The lock: one for the page; one variable that names the busy row; a set  *)
(* of busy rows; none.                                                      *)
Screen(lock, reads, writes) == [lock |-> lock, reads |-> reads, writes |-> writes]

------------------------------------------------------------------------------
(* The frame and the contexts.                                              *)
ResourceProvider == Screen("none", <<Kept({"space", "tick"}, {"space"})>>, <<>>)
SpaceProvider == Screen("none", <<Always({"tick"})>>, <<>>)
RailApprovals == Screen("none", <<Always({"space", "tick"})>>, <<>>)
AppShell == Screen("none", <<Always({"user"})>>, <<>>)
GlobalSearch == Screen("none", <<Always({"term"})>>, <<>>)
SearchSelect == Screen("none", <<While({"open"}, Kept({"open", "term", "search"}, {}))>>, <<>>)
DeleteDialog == Screen("page", <<Kept({"pick"}, {"pick"})>>, <<Write(1, {}, TRUE)>>)
Login == Screen("none", <<Always({"mode"})>>, <<>>)
SignInForm == Screen("page", <<>>, <<Write(1, {}, FALSE)>>)
RegisterForm == Screen("page", <<>>, <<Write(1, {}, TRUE)>>)
ChatHistoryPanel ==
    Screen("row", <<Kept({"space", "term"}, {})>>,
           <<[Write(1, {1}, FALSE) EXCEPT !.past = TRUE], Write(1, {}, FALSE)>>)

(* A person's data: home, sources, the connection and import dialogs.       *)
Home == Screen("page", <<Always({"space", "tick"})>>, <<Write(1, {}, TRUE)>>)
DataSources == Screen("rows", <<Always({"resources"})>>, <<Write(2, {1}, FALSE)>>)
ConnectWizard == Screen("page", <<Cleared({"step"})>>, <<Write(1, {}, FALSE), Write(2, {1}, FALSE), Write(1, {}, TRUE)>>)
ConnectionDialog == Screen("page", <<Always({"space"})>>, <<Write(1, {}, FALSE), Write(1, {}, TRUE)>>)
ResourcePreview == Screen("page", <<Cleared({"pick"})>>, <<Write(1, {}, FALSE)>>)
ResourceBrowser == Screen("none", <<Always({"resources"})>>, <<>>)
ResourceDetail == Screen("none", <<Cleared({"pick"}), Cleared({"pick"})>>, <<>>)
DataGrid == Screen("none", <<Read({"base", "query"}, {"base"}, FALSE, 0)>>, <<>>)
SpacesPage == Screen("page", <<Cleared({"space"}), After(1, {"space", "pick"}, {"space"})>>, <<Write(1, {1}, FALSE)>>)
CreateDialog == Screen("page", <<>>, <<Write(1, {}, FALSE), Write(1, {}, TRUE)>>)
SyncPanel == Screen("page", <<Always({"pick"})>>, <<Write(1, {1}, FALSE)>>)
NewSync == Screen("page", <<Cleared({"pick"})>>, <<Write(3, {}, TRUE)>>)
Schedules == Screen("row", <<Always({"tick"}), Always({"pick"})>>, <<Write(1, {1}, FALSE)>>)

(* The ontology: objects, types, links, functions, actions, proposals.      *)
Overview == Screen("none", <<Cleared({"space"})>>, <<>>)
GraphView == Screen("none", <<Cleared({"space"}), Cleared({"format"})>>, <<>>)
ObjectExplorer ==
    Screen("none", <<Cleared({"space"}), After(1, {"type"}, {"type"}), After(2, {"type", "query"}, {})>>, <<>>)
ObjectDetail == Screen("none", <<Cleared({"type", "row"}), Cleared({"type", "row", "link"})>>, <<>>)
OntologyManager ==
    Screen("row", <<Cleared({"space"}), After(1, {"pick"}, {"space", "pick"})>>, <<Write(1, {1, 2}, FALSE)>>)
ObjectTypeEditor == Screen("page", <<>>, <<Write(1, {}, TRUE), Write(1, {}, FALSE)>>)
CreateObjectTypeDialog == Screen("page", <<Always({"dataset"})>>, <<Write(1, {}, TRUE)>>)
LinkBuilder == Screen("page", <<Always({"source"}), Always({"target"})>>, <<Write(1, {}, FALSE)>>)
Functions == Screen("none", <<Cleared({"space"}), Cleared({"pick"})>>, <<>>)
FunctionReview == Screen("page", <<Cleared({"pick"})>>, <<Write(2, {}, FALSE), Write(2, {}, TRUE)>>)
Actions ==
    Screen("page", <<Cleared({"space"}), Kept({"pick"}, {"pick"}), Kept({"pick", "row"}, {"pick", "row"}), Always({"space"})>>,
           <<Write(1, {4}, FALSE)>>)
Proposals == Screen("none", <<Always({"space"})>>, <<>>)
ProposalCard == Screen("page", <<>>, <<Write(1, {}, FALSE)>>)

(* Boards and administration.                                               *)
DashboardList == Screen("none", <<Cleared({"space"}), Always({"space"})>>, <<>>)
NewBoardDialog == Screen("page", <<Always({"mount"})>>, <<Write(1, {}, TRUE)>>)
DashboardDetail ==
    Screen("page", <<Read({"slug", "space", "filters"}, {"slug", "space"}, FALSE, 0), Always({"slug", "space"})>>,
           <<Write(1, {}, TRUE)>>)
DashboardHistory == Screen("page", <<Always({"space"})>>, <<Write(1, {1}, FALSE), Write(1, {}, FALSE)>>)
CostAnalysis == Screen("none", <<Always({"days", "space"})>>, <<>>)
Admin == Screen("none", <<Always({"tick"})>>, <<>>)
Activity == Screen("none", <<Always({"tick"})>>, <<>>)
SettingsPanel == Screen("page", <<Always({"mount"}), Always({"tick"})>>, <<Write(1, {2}, FALSE)>>)
AddUserDialog == Screen("page", <<>>, <<Write(1, {}, FALSE)>>)
ManageUserDialog == Screen("page", <<>>, <<Write(2, {}, FALSE), Write(1, {}, TRUE)>>)

Screens ==
    {ResourceProvider, SpaceProvider, RailApprovals, AppShell, GlobalSearch, SearchSelect, DeleteDialog, Login,
     SignInForm, RegisterForm, ChatHistoryPanel, Home, DataSources, ConnectWizard, ConnectionDialog, ResourcePreview,
     ResourceBrowser, ResourceDetail, DataGrid, SpacesPage, CreateDialog, SyncPanel, NewSync, Schedules, Overview,
     GraphView, ObjectExplorer, ObjectDetail, OntologyManager, ObjectTypeEditor, CreateObjectTypeDialog, LinkBuilder,
     Functions, FunctionReview, Actions, Proposals, ProposalCard, DashboardList, NewBoardDialog, DashboardDetail,
     DashboardHistory, CostAnalysis, Admin, Activity, SettingsPanel, AddUserDialog, ManageUserDialog}

------------------------------------------------------------------------------
VARIABLES screen,     \* the screen that is open
          keys,       \* what it asks for
          shown,      \* the answer each read shows: the request it answers, and what that asked for
          latest,     \* how often each read was asked for
          flights,    \* the answers under way
          held,       \* the lock: the rows that are busy, 0 for the page
          writing,    \* the writes under way
          moves

vars == <<screen, keys, shown, latest, flights, held, writing, moves>>

Rows == 1..2
Nothing == [n |-> 0, key |-> <<>>]
R(s) == DOMAIN s.reads
KeysOf(s) == UNION {s.reads[r].on : r \in R(s)}
Asked(r, ks) == [k \in screen.reads[r].on |-> ks[k]]
Active(r, ks) == \A k \in screen.reads[r].while : ks[k] = 2
Due(rs, ks, n) == {[read |-> r, n |-> n[r], key |-> Asked(r, ks), past |-> FALSE] : r \in rs}
Counted(rs) == [r \in R(screen) |-> latest[r] + IF r \in rs THEN 1 ELSE 0]

Init ==
    /\ screen \in Screens
    /\ keys = [k \in KeysOf(screen) |-> 1]
    /\ shown = [r \in R(screen) |-> Nothing]
    /\ latest = [r \in R(screen) |-> 1]
    /\ flights = Due({r \in R(screen) : screen.reads[r].after = 0 /\ Active(r, keys)}, keys, latest)
    /\ held = {} /\ writing = {} /\ moves = 0

(* Typing opens a search box, and closing it empties it.                    *)
Turned(k) ==
    LET turned == [keys EXCEPT ![k] = 3 - @] IN
    CASE screen = SearchSelect /\ k = "term" -> [turned EXCEPT !["open"] = 2]
      [] screen = SearchSelect /\ k = "open" /\ keys[k] = 2 -> [turned EXCEPT !["term"] = 1]
      [] OTHER -> turned

(* The person moves: another space, another row, another search. Answers to *)
(* what was asked before are on their way still, and closing a search box   *)
(* neither counts up nor drops them.                                        *)
Turn(k) ==
    LET new == Turned(k)
        moved == {j \in DOMAIN keys : new[j] /= keys[j]}
        rs == {r \in R(screen) : screen.reads[r].on \cap moved /= {} /\ Active(r, new)}
        left == [r \in R(screen) |-> IF screen.reads[r].clears \cap moved /= {} THEN Nothing ELSE shown[r]]
        ready == {r \in rs : screen.reads[r].after = 0 \/ left[screen.reads[r].after] /= Nothing}
    IN /\ moves < MaxMoves /\ moves' = moves + 1
       /\ keys' = new
       /\ shown' = left
       /\ latest' = Counted(rs)
       /\ flights' = flights \cup Due(ready, new, latest')
       /\ UNCHANGED <<screen, held, writing>>

(* An answer arrives. A read that drops stale answers paints only the       *)
(* latest; painting one sets off the reads that wait for it.                *)
Paints_Whatever(f) == TRUE
Paints(f) == ~screen.reads[f.read].drops \/ f.n = latest[f.read] \/ f.past
Arrive(f) ==
    LET next == {r \in R(screen) : Paints(f) /\ screen.reads[r].after = f.read} IN
    /\ shown' = IF Paints(f) THEN [shown EXCEPT ![f.read] = [n |-> f.n, key |-> f.key]] ELSE shown
    /\ latest' = Counted(next)
    /\ flights' = (flights \ {f}) \cup Due(next, keys, latest')
    /\ UNCHANGED <<screen, keys, held, writing, moves>>
(* It fails: an error is shown over what was there. Or the box is closed    *)
(* before its timer has sent it.                                            *)
Lose(f) == flights' = flights \ {f} /\ UNCHANGED <<screen, keys, shown, latest, held, writing, moves>>

(* A write starts unless its button is disabled, and locks. A screen with a *)
(* set of busy rows has a button for all of them, too: a request for each.  *)
Choices == {{i} : i \in Rows} \cup IF screen.lock = "rows" THEN {Rows} ELSE {}
Locked(rows) == IF screen.lock = "page" THEN held /= {} ELSE rows \cap held /= {}
Lock(rows) == CASE screen.lock = "page" -> {0}
                [] screen.lock = "row" -> rows
                [] screen.lock = "rows" -> held \cup rows
                [] OTHER -> {}
Requests(w, rows) == IF rows = Rows THEN w.steps + 1 ELSE w.steps
Start_Unlocked(w, rows) ==
    /\ moves < MaxMoves /\ moves' = moves + 1
    /\ held' = Lock(rows)
    /\ writing' = writing \cup {[id |-> moves', rows |-> rows, what |-> w, left |-> Requests(w, rows)]}
    /\ UNCHANGED <<screen, keys, shown, latest, flights>>
Start(w, rows) ==
    /\ moves < MaxMoves /\ moves' = moves + 1
    /\ ~Locked(rows) /\ held' = Lock(rows)
    /\ writing' = writing \cup {[id |-> moves', rows |-> rows, what |-> w, left |-> Requests(w, rows)]}
    /\ UNCHANGED <<screen, keys, shown, latest, flights>>
(* One of its requests answers, and the next is made.                       *)
Step(x) ==
    /\ x.left > 1 /\ writing' = (writing \ {x}) \cup {[x EXCEPT !.left = @ - 1]}
    /\ UNCHANGED <<screen, keys, shown, latest, flights, held, moves>>
(* The end of a write: unlocked, whatever the outcome (finally), and what   *)
(* it changed is read again.                                                *)
Unlock(x) == IF screen.lock = "rows" THEN held \ x.rows ELSE {}
Ends(x, again) ==
    LET asked == IF x.what.past THEN {} ELSE again IN
    /\ writing' = writing \ {x} /\ held' = Unlock(x)
    /\ latest' = Counted(asked)
    /\ flights' = flights \cup IF x.what.past THEN {[f EXCEPT !.past = TRUE] : f \in Due(again, keys, latest)}
                               ELSE Due(again, keys, latest')
    /\ UNCHANGED <<screen, keys, shown, moves>>
Finish(x) == x.left = 1 /\ ~x.what.leaves /\ Ends(x, x.what.again)
Fail(x) == Ends(x, {})
(* The screen is left: nothing of it shows any more.                        *)
Leave(x) ==
    /\ x.left = 1 /\ x.what.leaves
    /\ writing' = {} /\ held' = {} /\ flights' = {} /\ moves' = MaxMoves
    /\ UNCHANGED <<screen, keys, shown, latest>>

Goes == (\E f \in flights : Arrive(f) \/ Lose(f)) \/ \E x \in writing : Step(x) \/ Finish(x) \/ Fail(x) \/ Leave(x)
Person == (\E k \in DOMAIN keys : Turn(k)) \/ \E i \in DOMAIN screen.writes, rows \in Choices : Start(screen.writes[i], rows)
Next == Person \/ Goes
Spec == Init /\ [][Next]_vars

------------------------------------------------------------------------------
TypeOK ==
    /\ screen \in Screens /\ keys \in [KeysOf(screen) -> 1..2]
    /\ DOMAIN shown = R(screen) /\ latest \in [R(screen) -> Nat \ {0}]
    /\ \A f \in flights : f.read \in R(screen) /\ f.n \in 1..latest[f.read]
    /\ held \subseteq {0} \cup Rows /\ moves \in 0..MaxMoves
    /\ writing \subseteq [id: Nat, rows: SUBSET Rows, left: 1..4, what: {screen.writes[i] : i \in DOMAIN screen.writes}]

(* The screens that drop late answers paint only the answer to what was     *)
(* asked last, in whatever order answers come, and keep nothing of what was *)
(* left; and what was asked last is what is asked for now, except on a      *)
(* search box that is closed, which paints what it was last asked but shows *)
(* no list (ResourceContext.tsx:66, SearchSelect.tsx:77, Actions.tsx:214,   *)
(* DeleteDialog.tsx:137). A list that is not cleared stays until the next   *)
(* answer. The history panel's re-read after a pin goes past its number: it *)
(* is not among them.                                                       *)
Guarded(r) == screen.reads[r].drops /\ \A i \in DOMAIN screen.writes : ~screen.writes[i].past
Answered(r) ==
    \/ shown'[r] = Nothing
    \/ shown'[r] = shown[r] /\ \A k \in screen.reads[r].clears : keys'[k] = keys[k]
    \/ shown'[r].n = latest[r] /\ (Active(r, keys') => shown'[r].key = Asked(r, keys'))
ShowsWhatWasAsked == [][\A r \in R(screen) : Guarded(r) => Answered(r)]_vars

(* No double submit, and no lock left behind: where the lock is the page's, *)
(* or a set of rows, what is locked is what has a write under way, and it   *)
(* has one. A single variable naming the busy row does not give that        *)
(* (Schedules.tsx:43, OntologyManager.tsx:521): the second row's write      *)
(* unlocks the first.                                                       *)
RowsHaveOneWrite ==
    screen.lock = "rows" => /\ held = {i \in Rows : \E x \in writing : i \in x.rows}
                            /\ \A x, y \in writing : x.rows \cap y.rows /= {} => x = y
OneWriteAtATime ==
    /\ screen.lock = "page" => (held = {} <=> writing = {}) /\ \A x, y \in writing : x = y
    /\ RowsHaveOneWrite

(* Why they hold. Of the screens themselves no more is used than this.      *)
WellFormed(s) ==
    /\ \A r \in R(s) : s.reads[r].clears \cup s.reads[r].while \subseteq KeysOf(s) /\ s.reads[r].while \subseteq s.reads[r].on
    /\ \A i \in DOMAIN s.writes : s.writes[i].steps \in 1..3 /\ s.writes[i].again \subseteq R(s)
(* An answer to what was asked last is an answer to what is asked for now,  *)
(* as long as anything is.                                                  *)
LatestIsCurrent ==
    \A f \in flights : Guarded(f.read) =>
        ~f.past /\ (f.n = latest[f.read] /\ Active(f.read, keys) => f.key = Asked(f.read, keys))
PageHasOneWrite ==
    screen.lock = "page" => (writing = {} /\ held = {}) \/ \E x \in writing : writing = {x} /\ held = {0}
IInv == TypeOK /\ LatestIsCurrent /\ PageHasOneWrite /\ RowsHaveOneWrite
=============================================================================
