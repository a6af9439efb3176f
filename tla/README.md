# Verification of the ontology dashboard

TLA+ modules of the parts of this repository where the order of steps matters,
or where a pure algorithm is easy to get wrong, the TLC configurations that
check them on small instances, and TLAPS proofs of properties that should hold
for instances of any size. Paths are relative to the repository; `S/` stands
for `services/ontology-service/src/`, `U/` for `services/ui/src/` and `A/` for
`services/ai-fde/app/`.

Run a configuration with `tlc -config X.cfg MCModule` (`PROJECT.json`, `runs`,
pairs them), check the proofs with `tlapm M.tla` for the modules named
`*_proofs`.

## 1. The system

A PostgreSQL database, an Express service over it (`services/ontology-service`),
an assistant (`services/ai-fde`, Python), a pipeline of scripts that prepares
the database (`services/pipeline`) and a React interface (`services/ui`).
The service talks to the database through a pool: unless the code opens a
transaction, two consecutive statements of one request run on their own, and
everybody else's statements may run between them. Nothing else orders
requests, background runs, instances of the service or the assistant. Hence the
hard behaviours: check-then-write in two statements, work that goes on after
its answer, memory that mirrors rows, answers that arrive after the question
has changed, and failures half-way.

| Component | State it keeps | Operations | Interacts with | Correct when | Modelled in |
|---|---|---|---|---|---|
| Scheduler (`S/schedules.ts`) | `platform.schedule`, `schedule_run`, a tick flag in memory | create, update, delete, set for a sync, run now, tick, claim, execute | starts sync runs; a deleted sync takes its schedule along | a due moment fires once, late ones not in a burst, the rhythm stays, one schedule per sync, the loop never stops | `Schedules` |
| Sync runs (`S/connections.ts`) | `connection_sync_run`, the landed table, the dataset's card, row counts | `runSync`: read columns and rows, write the landing, tell card, types, registry | far databases; scheduler and people start runs; combinations are views over the landing | the table is one whole read, views stay valid, outcomes are truthful, runs end | `SyncRun`, `SnapshotCopy` |
| Ontology publishing (`S/definition.ts`, `S/registry.ts`) | the active version and document of each space, the registries in memory, the cards | `publishChange`, `loadRegistry`, `reloadSpace`, `ensureOntologies` | every authoring change, sync and proposal ends in it | the three descriptions follow the rows; one bad space harms no other | `OntologyPublish` |
| Proposals (`S/proposals.ts`, `S/followups.ts`) | `platform.proposal` | create, approve with dependencies, reject, delete, follow up | authors and the assistant; publishing; boards | applied means built, in order, and approved | `Proposals`, `Feasibility` |
| Accounts and sign-in (`S/auth.ts`, `S/admin.ts`, `S/workspaces.ts`) | users, token versions, attempts, settings, three caches per process | sign in, register, change, disable, delete, members | every request passes the middleware | an administrator is left, a session follows the password, nobody inherits a name | `Accounts` |
| Connections and vault (`S/vault.ts`, `S/connections.ts`) | credentials, connection resources, syncs | create, test, delete, forget | sync runs; removal | a connection's password exists, and no other | `Workspace` |
| Spaces, projects, folders (`S/spaces.ts`) | spaces, projects, folders, cards | create, delete with everything under it, seed | publishing; accounts | seeding is repeatable and brings nothing back | `Workspace`, `Accounts` |
| Removal (`S/removal.ts`) | none | plan, confirm, carry out | every kind of thing | nothing is left standing on nothing; what is another's stays | `Removal`, `Builder`, `Editing` |
| Functions (`S/functions.ts`) | `platform.function`, `function_run` | propose, edit, approve, archive, run | boards and metrics run them | what ran was approved, in its words | `FunctionApproval`, `Answers` |
| Dashboards (`S/dashboards.ts`) | `platform.dashboard`, its renames | save, rename, delete, import | follow-ups build boards | a new board overwrites none; old addresses explained | `Dashboards`, `Boards` |
| Actions (`S/actions.ts`) | the audit trail | run a declared action | authoring changes the declaration | who was told an outcome finds the one row that says it, and roles come first | `Actions` |
| Builder, authoring (`S/builder.ts`, `S/authoring.ts`) | ontology rows, the edit journal | create, edit, delete, undo | publishing; removal | titles and flags agree, nothing dangles, the journal explains | `Builder` |
| Queries (`S/kpi.ts`, `S/objectSet.ts`, `S/derived.ts`, `S/resourceData.ts`) | none | metrics, series, pages, filters, links, formulas | the registry; syncs come in between | statements of one answer tell one story | `Queries`, `Objects`, `Derived` |
| Feasibility (`S/feasibility.ts`) | none | can the data show this, plan a board | drafts proposals, boards | the figure is what was asked; what is offered fits | `Feasibility`, `Boards` |
| Import (`S/importer.ts`, `S/modeling.ts`) | syncs, types, links, figures | import tables, model again, adopt | sync runs | one type of a table, every table accounted for | `Imports` |
| REST interface (`S/index.ts`) | none | route a request, guard it, answer errors | everything above | an address reaches its route, behind the guards | `Routes` |
| Interface (`services/ui`) | browser state, local storage | a conversation; 47 screens that read, write and lock | the service and the assistant | no late answer is shown for another question; no double write; no box locked for good | `Chat`, `Screens` |
| Assistant: conversations (`A/main.py`, `A/store.py`) | sessions and messages | take a question, store the answer, read, delete | the interface | a conversation belongs to its space | `Chat` |
| Assistant: turns, limits | usage, settings | rounds of the language model and tool calls | the service | limits hold | not modelled |
| Pipeline (`services/pipeline/pipeline`) | schema versions, raw tables | migrate, ingest, purge | the database | each migration once | not modelled |

`PROJECT.json` lists the components with what of each is left out, and under
`hazards` what is hard to test here, at its line.

## 2. The modules

One action stands for one statement (or one transaction) of a handler with the
code up to the next await; what a request remembers between two statements is
in a record of its own (`job`, `request`, `call`). A failure or a crash between
two of them is an action too, where the code meets one.

### In the background

**Schedules.** `schedule` is the table: per id no row, or its target, interval,
`next_run_at`, enabled, `last_run_at` and `last_status`. `request[c]` is what a
request has read before its next statement, `ticking[i]`, `due[i]` and `up` are
the memory of an instance, `firing` the executions not awaited by a tick, `runs`
the history table. `now` is the clock of the database in a unit that divides
every interval, `anchor` a history variable: the first run the schedule was
last given. `AskCreate` and `Insert` are the two halves of `createSchedule`;
`AskSetSync`, `UpdateForSync`, `DeleteForSync` those of `setSyncSchedule`;
`ChangeCadence`, `MoveFirstRun`, `SetEnabled` the forms of `updateSchedule`'s
single UPDATE; `DeleteScheduleOfSync`, `DeleteSyncRow` the two statements of
`deleteSync`; `Tick`, `Claim`, `TickEnds`, `TickFails` the loop; `SyncEnds`,
`Record`, `Note`, `ExecutionThrows` an execution; `RunNow`, `Crash`, `Boot` and
`TimePasses` the rest. `OnGrid` is the arithmetic of `onGridSql`. Left out:
names, intervals as text, and `next_run_at = NULL`, which no statement stores.

**SyncRun** and **SnapshotCopy.** The source is a history of versions with the
set of columns each had; `landing` is the table as the last commit left it;
`viewed` the columns views over it read. A run has a program counter, its row's
status, the columns and the version it read. `sharing` and `writer` are
PostgreSQL's locks on the table: the count in the transaction shares it,
TRUNCATE or DROP wants it alone. `card`, `count`, `loaded`, `registry` are the
row counts told to others after the commit. `Begin`, `ReadColumns`, `ReadRows`;
the transaction of `writeLanding`: `CountLanding`, then `EmptyLanding` or
`CreateLanding`, then `Commit`; the four steps of telling; `Finish`. `WriteFails`
rolls back, `StepFails` is caught and marks the row, `ColumnsUnreadable` is
rethrown as it is. `DeadlockAbort`, `SourceChanges`, `ReadabilityChanges` are
PostgreSQL and the far side, `CreateView` and `RemoveViews` what combinations
do to the table. `SnapshotCopy` is what readers are promised: in one step the
copy becomes one whole snapshot, and views do not lose a column. It does not
promise that a copy is never replaced by an older one, and the code does not
keep that either. Left out: widening of types, batches, the row limit.

**OntologyPublish.** For each space `rows` (the ontology tables, the truth),
`doc` (the active version), `cards`, and in memory `registry`. Workers are
requests; `Main` is the start-up code. `Change` commits an edit and begins its
publish: `ReadVersion`, `ReadTable` per table (read by `Promise.all` on
different connections), `StoreDocument`, `Load`, `InstallPublished`,
`ReadCards`, `DeleteStale`, `InsertMissing` per card, `PublishEnds`. `OpenSpace`
to `InstallOpened` is `ensurePersonalSpace` with `reloadSpace`, `ReloadAll` to
`ReloadEnds` is `loadRegistry`, `BootVersions` and `BootPublish` are
`ensureOntologies`. Left out: validation, and what a definition says of a row.

**Proposals.** The rows of `platform.proposal`, what was built for each (`made`,
`view`), what the registry knows (`known`), which asked-for boards were answered,
and per actor the request under way. An approval is the stack of calls of
`visit` and the list `settled`; `approved` is a history variable. `AskCreate`
and `Create`, `AskReject` and `Reject`, `AskDelete` and `Delete` are check and
write; `Approve`, `ReadProposal`, `VisitDependency`, `DependenciesDone` are
`visit`; `Apply`, or `CreateView` then `ModelCombination`, build; `Publish`,
`SettleApplied`; `ApplyFails` and `SettleFailed` are the try and its catch,
`ApprovalThrows` what is outside it, `FollowUp` the route's `runFollowUps`,
which begins only when the approval has returned. Action types behave like
metrics. The cycle check of `visit` cannot be reached: a dependency must exist
when a proposal is inserted and is never edited.

### Who may do what

**Accounts.** `users`, `spaces`, `members`, `failures`, `signups` and the policy
`open` are rows; `cache`, `openCache` and `spaceCache` are the three caches of
each process: accounts, the policy, and the map of spaces with their owners;
`tokens` what was handed out. A request is a `job` of a client that goes from
statement to statement: `AskLogin`, `LoginReads`, `LoginAnswers`; `AskRegister`
to `RecordSignup`; `AskRoute`, `ReadUser`, `FillCache` (the row is put in the
cache in a later step than it was read in), `Scope`, `Authorize` are the
middleware. Between them a request with `?space=` is let in or not by the map
this process keeps (`ReadSpaces`, `FillSpaces`, `Enter`), whatever another
process has changed since; one without comes to the caller's own workspace,
which is looked up by name and made where there is none (`OpenSpace`,
`MakeSpace`, `SpaceMade`). `ReadTarget`, `CountAdmins`, `UpdateUser`,
`DeleteUser`, `ClearUserCache` are the console, `FindMember`, `AddMember` and
`RemoveMember` the members' routes. `overlapped` records that a removal was counted
while another change that may remove an administrator was between its read and
its write. It does not ask whether that other target was an administrator when
it was read: somebody may promote the account before it is written. `WindowPasses`, `HourPasses`, `TimePasses` are time.

**Routes.** The table of every route in the order `index.ts` mounts it, with
the guards before it. A request steps over the layers that do not fit
(`StepOver`), is taken by the first that does (`Guard`, `Handle`) or by none
(`NoSuchEndpoint`); `Answer` is what an error becomes. How Express matches is
modelled from its use.

### What people make, change and take away

**Workspace.** A project, its folders, the connections in them, `creds` (the
vault), syncs and schedules. A connection is made in three steps (the typed
password is stored, the connection is tested, the row is written or the password
is undone); a deletion reads which passwords go, deletes, and forgets those no
connection refers to. `SeedFolders` and `SeedConnection` are the seeding at
boot, which may stop between them. `missed`, `lost`, `declined` are history
variables: what a deletion could not have seen, references already dangling when
written, a built-in connection somebody deleted.

**Builder.** `type` holds the object types with their properties (`title` is
`title_column`, `flags` the properties marked `is_title`), `item` the links,
actions and metrics with the types each refers to, `known` the registry,
`loaded` what a request has read to put there, `journal` the edits. A request is a record that knows the statement it comes to
(`at`) and what it read before: `CreateType`, `CreateItem`, `EditTitle`,
`Delete`, `Undo`, `RemoveType` and `RemoveDataset` begin one, as does `Reload`
(a sync, or `POST /api/registry/reload`), and `Insert`,
`InsertProperty`, `InsertItem`, `WriteTitle`, `AlignTitle`, `Record`,
`LoadTypes`, `LoadItems`, `Install`, `Trial`, `DeleteRow`, `DeleteDeep`, `PlanNext`, `DropTable` each do
the statement some request comes to and move it to the next; `Fail` ends it
where it is. A publish reads the types, then what refers to them, and then
installs both, so that of two that overlap the older may be installed last; what
that puts out of step with the rows is `behind`, until the next load. `names`
are the names a request touches, `spoiled` those that two requests overlapped
on, a failure left half-way, or a request went by while they were `behind`: the
properties are not claimed of these.

**FunctionApproval.** `fn` holds a function's text, status and version, `runs`
the texts that ran; every request reads the row first (`Ask...`) and writes
from what it read. `planned` is what the planner accepts as the data is now.
`raced` are functions written from a row that had changed since.

**Dashboards.** Boards by id with slug and title, and the record of renames. A
slug is a title and a number. `AskSave` reads the slugs taken, `Upsert` writes
later; `Rename`, `RecordRename` are two statements; `AskImport`, `ImportNext`
restore a file board by board. `had`, `replaced`, `unexplained` are history.

**Removal.** `landed` tables, the views and what each reads, the registry's
types with the relation each is on, for each table where the sync that lands it
is and who registered its card. `RemoveDataset`, `RemoveSync` and `RemoveType`
plan and are refused unless confirmed with what stands on it. The plan is the
set of statements still `todo`, carried out in the order of `Place` (types
before combinations, syncs, the table, the card), one at a time, while others
land, model and combine, or until one fails. `spoiled` is what was made while a
removal was under way.

**Imports.** `AskImport` works through its tables (`CreateSync`, `StoreKeys`,
`Run`, `TableFails`), then reads all (`Profile`) and models them in one
transaction (`Model`, `ModelFails`); `AskRemodel` is the same over what is
landed. `made` counts the types ever made on a table, which tells a type made
again from the one that was removed. `Adopt` is a person's figure in the place of the automatic one.

### What the service answers

**Feasibility** and **Boards.** The ontology is a list of types with columns,
links and metrics. `Decide`, `LinkRequest` and `CombinationRequest` answer a
question as `feasibility.ts` does: ready, needs approval with drafts, or not
possible; `Ask`, `Approve`, `Drop` live with the answer. A question carries the
words the parser makes of it, exact names and others: `MatchType`, `MatchColumn`
and `MatchMetric` score them as `matchType`, `matchProperty` and `matchKpi` do,
`MeasuredAs` chooses between the three, and `Explained` is the check that a count
answers for all its words (`feasibility.ts:783`). Left out of `decide` are the
steps for new and returning (1a), for punctuality (1b), distinct counts, worked
out revenue and ratios, synonyms, and the words that stop, count or say when.
`Boards` extends it with boards on a topic: `PlanBoard` lays one out, `AskBoard`,
`ApproveWide` and `FollowUp` are the board that waits for its dataset.

**Queries.** One answer is several statements: `Total`, `ReadSeries`,
`Coverage`, `ReadPoints`, `Trend` of a metric, `ReadPage` and `CountRows` of a
list; `Land` puts another copy of the table under any two. A list is sorted or
not (`AskPages`): one of objects, or an action's log, always is, the rows of a
view, a link or a landed table only when a sort is asked for; without an ORDER BY
each page is cut from an order of its own.

**Objects.** Filters under SQL's three-valued logic, search, links followed
forward and backward, titles shown for keys, totals by group, over every small
table of two types. A list shows as many as its LIMIT lets it and any of them
(`Shown`): five hits of a search in each type, a hundred linked objects with the
total beside them, a hundred groups.

**Derived.** The recursive descent of `derived.ts` as recursive operators, the
type rules, the SQL each node becomes (`Compile`, which puts a divisor into
NULLIF), and what PostgreSQL makes of that SQL for a row, failing on a division by
zero or a type it does not take (`Run`), over every formula of depth three.

**Actions.** `executeAction`: `Apply` decides with the declaration as it is,
`FindTarget` looks for the object (a lookup that fails is as good as none),
`Record` writes the row and `Answer` tells the caller, two steps: other requests
come between, `RecordFails` may lose the row or only the news of it, and
`ServiceStops` ends what is under way unanswered. Meanwhile the action, the
roles and the object change. `asks` numbers the requests (history).

### In the browser

**Chat.** One conversation per space in the browser (`conv`: what it shows, the
box, whether it waits), what local storage remembers, the requests under way,
and the conversations stored. A request is launched, served by the assistant
(`Serve`, `TakeQuestion`, `StoreAnswer`, `Erase`) and ends in the browser
(`LoadEnds`, `OpenEnds`, `SendEnds`, `DeleteEnds`), or is lost on the way.

**Screens.** Every screen is one record of a small language: each read with the
inputs it is asked again for, those that clear what is shown, and whether a
late answer is dropped; each write with its requests, what it reads again and
whether it leaves the screen; and the kind of lock. A search box asks only while
it is open (`While`): its effect returns before it counts when it is closed, so
an answer under way at closing is still painted. A screen with a set of busy rows
has a button for all of them (`Choices`: "Refresh all"). The actions are the same
for all: `Turn` (an input changes), `Start` a write, `Arrive`, `Lose`, `Step`,
`Finish`, `Fail`, `Leave`. Layout and wording are left out; a row of the map
names the lines of a screen up to where its markup begins.

**Browser.** Both, as one person has them: the conversations live as long as
the session, a screen is open beside them, and either may move at any time.

### How they compose

A module sees another's work as its outcome, so that each can be checked with
all the interleavings of its own: `Schedules` sees a run as success or failure,
`SyncRun` a starter as `Begin`, `Proposals` a publish as one step, `Builder` as
its reads and its installation, `Imports` a run as a landing. What crosses is the same on both sides: a
run of a deleted sync throws, a publish either updates what the registry knows
or is lost to a crash, and `Boards` extends `Feasibility` so that a follow-up
acts on the very ontology the proposals made. `SyncRun` implements
`SnapshotCopy`.

Parts that share no state are put side by side:

- **Editing** (`EditingSpec`): Workspace, Builder, Dashboards, Removal and
  Imports, what people make, change and take away.
- **Answers** (`AnswersSpec`): FunctionApproval, Actions, Objects and Routes,
  what the service answers.
- **Browser** (`Browsing`): Chat and Screens.

Each is the specification of all interleavings of its parts, and the theorems
are about it. TLC would explore the product of parts that say nothing to one
another, so the model-checking modules (`MCEditing`, `MCAnswers`, `MCBrowser`,
and `MCBackground` for the scheduler beside the sync runs) choose a `part` at
the start and let only that part move: the states of a run are the sum of the
parts' and not their product. That this loses nothing is what the theorems
show: each invariant is kept by the steps of its own part and untouched by the
others'. `MCAnswers` adds the parts that are checked and not proved about
(Feasibility, Boards, Queries, Derived).

## 3. The runs

| Run | Instance | Shows |
|---|---|---|
| SchedulesClaims | 2 instances, 2 people, 1 sync, 2 schedules ever, interval 2, clock to 3, at most 2 executions; a fault or a click to 2, with one schedule | `OneFirePerMoment`, `NeverBurst`, `OnRhythm`, `OneSchedulePerSync`, `ClaimIsTheFire`, `StatusIsRecorded` |
| Background | the loop over a clock to 2 with 2 faults; the same to 1 with a click; 3 runs for one table with 2 faults | `DueIsHandled`, `RunsEnd` |
| SyncRunSafety | 3 runs, 2 columns, 2 versions, 1 fault | `ViewsStayValid`, `SuccessIsACopy`, implements `SnapshotCopy` |
| OntologyPublishRepair | 2 spaces (one not yet opened), 2 tables, 2 workers, 2 changes, 2 faults | `SoloPublishRepairs`, `BootRepairs`, `OneFailureIsOneSpace` |
| ProposalsSafety | 2 actors, 2 proposals of 3 kinds, a failure, a crash | `AppliedIsBuilt`, `DependenciesFirst`, `NothingUnapproved` |
| AccountsSafety | 2 founders, 2 requests at once, 3 in all, 3 accounts ever, disabled, reset and deleted (demoted in AccountsLastAdmin), a window of one failure, caches that live one tick | `PasswordOpensSession`, `FailuresBounded`, `AdminRemains`, `NoBorrowedRights` |
| Editing | per part 2 people (a remover and everybody else in Removal; in Workspace with 2 folders), 2 to 5 requests, 2 or 3 things of each kind, 2 types ever on a table, 1 failure where the part counts them | `PasswordsMatchConnections`, `DeletedStaysDeleted`, `OntologyHangsTogether`, `BoardsKeepTheirNames`, `NothingOnNothing`, `RemovalIsExact`, `ImportsAreWhole` |
| Answers | 2 people, one function name, 2 functions ever, 5 requests; a shop of three tables with 5 questions in its own names, 8 in other words, and 5 topics; 3 copies of a table with 18 figures, and its pages sorted or not; every route, with a free and a taken name; every 2 by 2 table, with lists of one; formulas of depth 3; 2 callers, 2 requests of one action and 7 ways to declare it | `RunsAreWhatWasApproved`, `FigureIsWhatWasAsked`, `BoardsAreAsPromised`, `AnswersAreWhole`, `AddressesArrive`, `ObjectsAgree`, `FormulasMeanWhatTheySay`, `TrailIsWhatWasSaid` |
| Browser | 2 spaces, 2 conversations, 2 questions, 2 requests under way; each screen with 3 moves of the person | `ConversationsApart`, `BoxOpensAgain`, `ShowsWhatWasAsked`, `OneWriteAtATime` |

What each property says is in the comment before it. A mutant of the code is
kept beside each (`PROJECT.json`, `mutants`): a definition suffixed with what is
wrong with it, for which TLC finds the property violated in the same instance.
A property of a run with parts is the conjunction of what its part promises;
the conjuncts are named, and commented, in the part's own module.

*Why the bounds are enough.* Two claimers, two writers, two readers suffice for
a race between a check and a write; a third run lands the table two others
then deadlock over, or waits while they do. A clock to 3 with interval 2 and a
first run at 1 lets a moment pass unclaimed and the next be computed from it,
and a first run that was chosen and one counted from now differ. Two schedules
ever let one be deleted and another be made for the sync. Two versions let
the source change between the two reads of a run, or between two runs. Two changes are what a lost update needs. A fault more than the crash
lets the start-up itself be interrupted. Three requests are two that overlap
and one that finds what they left; where a part is given more (Workspace 5,
FunctionApproval 5, Dashboards 4), a thing has to be made and changed first.
Three accounts are the two founders and one who registers the name of one that
was deleted. Two groups to a page and a chart with five rows give a last page
that is not full and groups that are cut off. Depth three is an operator beside
an operator under a third: precedence, left to right, and a call. Symmetric
people, runs and instances are permuted, in runs of safety properties only.

*Deadlock* is checked in `SchedulesClaims`. The other modules stop when their
requests, runs, changes or ids are used up, and their configurations say so.

*Fairness.* In `Schedules` the loop of an instance and its restart are weakly
fair (`setInterval` fires whatever happened before; the container restarts).
Nobody is obliged to act and no execution to end. A tick that does not end
because the database never answers is excluded by this. In `SyncRun` the next
step of a run is weakly fair, which includes PostgreSQL's deadlock detection;
beginning a run, failures and the far side are not. `Background` assumes less
than both: one weak fairness condition, that something of the loop, or of the
runs, goes on when it can. In `Chat` every request ends, with an answer or with
the failure the transport reports (`U/api.ts` turns both into one); the person
is obliged to nothing.

### Where the code and its words differ

Each of these runs checks one sentence of the repository, and TLC shows a
behaviour of the code against it.

| Run | The words | What happens |
|---|---|---|
| ProposalsBoard | "the board is built the moment you approve it" (`README.md:111`) | what a failed approval has settled before is lost with the exception, and a retry returns early for it |
| AccountsLastAdmin | "the last active admin cannot be removed by anyone" (`S/admin.ts:222`) | two administrators who demote each other at once each count two |
| AccountsBorrowed | "Nobody else can open it." (`S/workspaces.ts:257`, and the header, line 9) | the map of spaces is kept for 30 seconds by every process, and a deletion drops it in its own only: at another, whoever registers the name again is let into the old workspace as its owner |

### Stated, refuted, and not kept

TLC refutes these as well. Their formulas stay in the modules, no run is spent
on them. First those that a sentence of the repository says:

| Formula | The words | What happens |
|---|---|---|
| `ReenabledIsNotDue` (Schedules) | "Re-enabling fires on the cadence from now, not retroactively" (`S/schedules.ts:376`) | `next_run_at` is never NULL, so it is kept: a schedule disabled past its due moment fires at the next tick |
| `EndedRunsAreMarked` (SyncRun) | "A BadRequest here already has its run row marked failed by fail()" (`S/connections.ts:1115`) | `sourceColumns` throws BadRequests of its own (`S/connections.ts:965`, `972`): the source stops being readable, the handler rethrows, and the row stays 'running' |
| `UsedIsRefused` (Builder) | "An object type with links, actions or metrics on it is refused with their names" (`S/builder.ts:563`) | `dependentsOf` asks the registry: a link whose publish failed, or which a load that began before it and was installed after it has left out, is not seen, its type is deleted, and the link is left on nothing |
| `CopiesGoForward` (SyncRun) | "the dataset is what the source holds now" (`S/connections.ts:1203`) | of two overlapping runs the older read may commit last |
| `RegistryFollowsRows` (OntologyPublish) | "keeps the three things that describe it in step after every change" (`S/definition.ts:8`) | of two overlapping publishes the older load may be installed last, until the next change or reload |
| `FailedBuiltNothing` (Proposals) | "nothing is half-applied, because each apply is one transaction" (`S/proposals.ts:978`) | a combination's view is committed before its sources are modelled |
| `SchedulesGoWithSyncs` (Workspace) | a deleted sync's schedule goes too (`S/removal.ts:682`) | deleting a folder or a project (`S/spaces.ts:281`, `368`) cascades to the syncs and leaves their schedules |
| `RunsAreWhatWasApproved` without its first exemption (FunctionApproval) | "a dashboard cannot start rendering numbers from something nobody signed off" (`S/functions.ts:558`) | an edit that read the draft before its approval writes the text the approval then makes active, unread (`S/functions.ts:491`) |
| the same, of versions | "a function_run recorded against version 2 is not attributed to the text of version 3" (`S/functions.ts:410`) | two edits at once read one version and both write the next: a version names two texts |
| `ImportedGetsItsLink` (Imports) | "Import it to get the link" (`S/modeling.ts:543`) | importing the second table looks at that table's own keys only |
| `ConfirmedIsDone` (Removal) | "Delete it and n things built on it" (`README.md:474`) | a combination over a combination stops the removal half-way, its view being read by the other |
| `ErasedStaysErased` (Chat) | "What was said is erased; what it cost is kept" (`A/store.py:419`) | an answer that was under way is stored in the deleted conversation |
| `NotPaintedOver` (Chat) | "The message would go to a new session and then be painted over" (`U/ChatContext.tsx:280`) | guarded against for one order; a conversation opened while the question is out still paints over it |
| `ApprovedIsAnswered`, `SliceIsWhatWasAsked` (Feasibility) | "here are the proposals that would add it" (`S/feasibility.ts:10`) | some questions are still not answered once all was approved; a slice may be by the like-named column of another table (`S/feasibility.ts:1055`) |
| `NotFromElsewhere` without `PartOfAName` (Feasibility) | "it never falls back to a number from somewhere else" (`S/feasibility.ts:17`) | the words a name does not cover are explained only when the phrase matches a type; with a table "line item", "item satisfaction" matches no type but the metric of one (`matchKpi`), and is answered by the number of line items, "total item satisfaction" by their quantity |
| `NamedIsAnswered` of an average of a table's name (Feasibility) | the same | "average orders" finds the table's count by `matchKpi`, and shows it |
| `OffersFit` with "total orders by customer" (Feasibility) | "here are the proposals that would add it" (`S/feasibility.ts:10`) | once the combination is there, a metric is offered that adds up no column, and drafting it fails |
| `AskedAgainIsLaidOut` (Boards) | the dataset of an approved board is found again (`S/feasibility.ts:1293`) | asked again, some topics are laid out on another type |
| `WaysAgree` (Objects) | "The UI needs both to expand a node in either direction" (`S/objectSet.ts:391`) | the way back, and the title, of a link to a column that is not the key read the key all the same |

Others no sentence promises; the steps that break them are in the modules:

- A sync has at most one run at a time; its schedule's sync exists (created
  between `deleteSync`'s two statements); a run marked failed has left the copy
  alone; card, count and registry agree with the table when all runs have ended.
- The document describes the rows when nothing is under way; the minor number
  counts the changes.
- A rejected proposal built nothing; a waiting one has its dependencies; a
  metric is made at most once for a proposal.
- Relation ids are unique (two link types made at once); a title and its flag
  agree at every moment (two statements); a type with no property is never left
  (a creation that fails half-way); a metric that fails its trial is not stored.
- A membership is of an account there is: `addMember` looks the account up and
  writes in another statement, and the row refers to none. A request of a
  deleted account opens only what was its own: while its row is still in another
  process's cache it is led to the workspace its name has now (`OpenSpace`).
- A metric's function exists.
- Two boards of one title saved at once are two boards; a file that holds one
  slug twice restores both; a rename's record survives a crash.
- A figure is one story when a sync comes between its statements; pages are
  when sorted by a value that repeats, or not sorted at all: rows of a view,
  a link or a landed table are read with LIMIT and OFFSET but no ORDER BY when no
  sort is asked for (`S/resourceData.ts:107`), so a row may be on two pages and another on none. The
  newest of more than 120 periods is shown (the oldest are).
- A search by a title finds its object: beyond five of a type it may not.
- A copy a person registered by hand is dropped with its dataset (it stays); a
  sync made between a removal's plan and its end is removed.
- Modelling again keeps a person's titles and the links' unique columns; links
  of columns that are gone go too.
- A board named `history` or `export`, or a metric named `catalogue`, can be
  reached: a literal route shadows it (`Taken` of `Routes`).
- Rows without a value are either in a filter's answer or in its opposite's,
  when the filter is `in` and `notIn`: they are in neither.
- An action that needs approval is queued: "The request has been queued."
  (`S/actions.ts:367`) is the last that is heard of it.
- The screens whose lock is one variable have one write under way: a second row
  clicked unlocks the first. The history panel's re-read after a pin goes past
  its guard. A first question that fails leaves a session the second does not
  use.
- A screen with several requests writes in one space: each request uses the
  space that is active when it is made. A late 401 of an old token does not sign
  out the new one (`U/api.ts:190`).

## 4. The proofs

For any values of the constants, bounds included, that satisfy the ASSUMEs of the
modules: intervals are positive, bounds are natural numbers, markers such as
`NoRow` are no rows, `Null` is no key (`NullIsNoKey`), there are finitely many
keys and a list shows one row at least (`ListsAreFinite`), what is declared is a
declaration (`AreDeclarations`). Those of `Editing` are
what the code checks or what names are there: a request to import lists tables
and none twice (`RequestsAreLists`), views and landed tables are in schemas of
their own (`ViewsAreNotTables`), a resource id says what it is of
(`NamesSayWhatTheyAre`).

`Schedules_proofs`: `Spec => []IInv`, where

    IInv == TypeOK /\ NothingInTheFuture /\ IdsAreFresh
            /\ OneFirePerMoment /\ NeverBurst /\ OnRhythm /\ OneSchedulePerSync

- `NothingInTheFuture`: no last run and no execution's moment is after `now`.
  Needed for `NeverBurst`: a next run computed from `now` is then after all.
- `IdsAreFresh`: rows and executions have ids below `nextId`. Without it an
  execution of a deleted schedule could be taken for one of a new row.
- `OneFirePerMoment` follows from `NeverBurst`: what claimed a moment left the
  row due later, so the same moment is never claimed twice.
- Lemmas about `OnGrid` give that the result is a whole number of intervals
  from the first, not before it and after the given time.

`ClaimIsTheFire` is an action property, proved from the same invariant and one
step of `Next`: only `Claim` adds an execution that is claimed and at its
beginning.

`StatusIsRecorded` needs `NotesFollowRecords` besides: an execution about to
note an outcome on its schedule has its record, unless the record went with the
schedule. A failure between the two leaves the record and no note, never the
other way round; the deletion of a schedule takes both.

`SyncRun_proofs`: `Spec => []IInv`, where

    IInv == TypeOK /\ HoldsARead /\ OneWriter /\ LandingHasARun
            /\ SuccessHasItsRead /\ ViewsStayValid

- `HoldsARead`: past its read, a run holds rows and columns of one version.
- `OneWriter`: the run at its COMMIT is the one that holds the table, and the
  columns views read are among those it is about to write. This is what makes
  `ViewsStayValid` inductive, the views being looked at before the commit.
- `LandingHasARun`: the table is the read of a run past its commit.
- `SuccessHasItsRead`: telling and success come after a commit.

`SyncingIsCopying` is the refinement `Spec => Copy!Spec`: initial states map to
initial states; `Commit` maps to `Install`, `SourceChanges`, `CreateView` and
`RemoveViews` to their namesakes, and every other step leaves the mapped
variables alone.

`Proposals_proofs`: `Spec => []IInv`, where

    IInv == TypeOK /\ IdsAreFresh /\ DraftsDependOnOlder /\ FramesStand
            /\ AppliedIsBuilt /\ DependenciesFirst

- `FramesStand` says of each frame of each approval's stack what it rests on: a
  dependency it need not visit any more is built, or is the frame above it; at
  the apply all are built; from the publish on its own proposal is. Every frame
  below the top is at its visits. That a row may be deleted or rejected under
  the frame does not matter: what is built stays (`Grows`), which is also why
  the steps of other actors leave a stack standing.
- `IdsAreFresh`, `DraftsDependOnOlder`: the next id was never used, and nothing
  depends on it or on a later one. A new row has therefore nothing built for
  it, and its dependencies are the ones its draft had.
- The lemmas `TopStands`, `PushStands` and `PopStands` are about any stack; the
  lemmas about actions instantiate them.

`NothingUnapproved` is inductive together with `IInv` and

    NewNeedNothing /\ VisitsCalledFor

- What a proposal needs, through dependencies of any depth, is the least set
  that holds it and is closed under dependencies (`Needs`): said so, and not by
  recursion, it takes no induction to see that a dependency of what is needed
  is needed.
- `VisitsCalledFor`: every frame of an approval is of a proposal that was
  approved or is needed by one that was. It holds as dependencies do not change
  once a proposal is there, and what is not there yet has none (`NewNeedNothing`).

`OntologyPublish_proofs`: `Spec => []IInv`, where

    IInv == TypeOK /\ OneAtATime /\ ReloadsGoOn /\ PublishesGoOn
            /\ BootedAreDescribed /\ OneFailureIsOneSpace

- `OneAtATime`: before the service serves, only the start-up moves; a worker
  that began when nobody else was at work stays alone as long as `alone` says so.
- `PublishesGoOn`: what an undisturbed publish (of a worker that is alone, or of
  the start-up) has done so far is true: the tables it has read are the rows',
  then the document says the rows, then the registry holds them, then the cards
  are the rows met by the cards it has seen. `PublishedIsDescribed` is its end.
- `BootedAreDescribed`: a space off the start-up's list is in step.
- `ReloadsGoOn`: a reload about to clear the registry has on its list every space
  that was there at the start, all of which have a version by then. This is what
  makes `OneFailureIsOneSpace` inductive over `Clear`.

`SoloPublishRepairs` and `BootRepairs` are action properties, proved from the
invariant: `SoloStep` shows that only the end of a publish can take a worker from
its last statement to idle without a failure. All three hold whatever the rows,
document, registry and cards were before, failures and crashes included.

`Answers_proofs`, of `FunctionApproval`: `Spec => []IInv`, where

    IInv == TypeOK /\ IdsWereGiven /\ VersionsHaveOneText /\ ActiveWasApproved

- `IdsWereGiven`: every id in a row, held by a request or recorded with a run was
  given, once. A function created after a deletion shares nothing with the old.
- `VersionsHaveOneText`: a version of a function that no two requests wrote at
  once has one text, in the row, in what requests hold and in what ran, and the
  row is at the latest version. This is where "not at once" is needed: two edits
  of one version leave two texts with the same number.
- `ActiveWasApproved`: an active text was approved, and so was one read to be
  run. An edit that writes has read a function that was not active.

`Accounts_proofs`: `Spec => []IInv`, where

    IInv == TypeOK /\ JobsHold /\ AdminsAct /\ RowIds /\ TokenIds /\ JobIds
            /\ OneRowPerName /\ TokenNames /\ JobNames /\ HeldNames /\ TargetNames
            /\ TokensMatch /\ JobsMatch /\ SpacesKeepOwners /\ MapsAgree
            /\ OwnersNamed /\ AdminBesides /\ AttemptsBounded

- `Effects` reduces the 33 actions to thirteen effects of one request, and each
  part of the invariant is kept over those, using the parts it needs.
- `TokensMatch`, `JobsMatch`: a token, and the row a login or registration is
  about to sign, are of an earlier version of the account's row, or of this
  version and of its password. A login that read the row before a reset therefore
  signs a token that the row has left behind (`PasswordOpensSession`).
- `OneRowPerName`, `TokenNames`, `JobNames`, `HeldNames`, `TargetNames`: a name
  has one row, and what holds an id goes by its row's name. `RowIds`, `TokenIds`,
  `JobIds`: a new id is nobody's, so a row made under it is no old token's.
- `SpacesKeepOwners`: a workspace labelled with a name is of the account of that
  name, unless it was made after its account had gone. With `OneRowPerName` it
  gives `NoInheritance`; it is the deletion's relabelling that keeps it.
- `MapsAgree`, `OwnersNamed`: a map of spaces, however old, has each workspace
  under the name it was made under, tombstone or not, so whoever is let in as an
  owner has that name (`OwnersInside`; `MapEffects` says what each action does
  to the maps). No more is so: that the account is the one it was made for is
  what `AccountsBorrowed` refutes. The proof therefore says of a reused name
  that the rows leave nothing to it, not that no process lets it in.
- `AdminBesides`: one active administrator is the target of no request that is
  past its count, or needed none. `AdminRemains` itself is not inductive: the
  count is taken before the write.
- `AttemptsBounded`: failures and attempts under way together stay below the
  limit plus the number of clients.
- `NobodyBorrowsRights` adds an action property, proved from `JobsHold` and
  `AdminsAct`: what reaches a change holds an administrator's row, cached or not.

Trying `AdminBesides` showed that `overlapped` had been too narrow: it named
only removals of what was an administrator when read. It now names them all.

`Editing_proofs`, of `Workspace`: `Spec => []IInv`, where

    IInv == TypeOK /\ ConnectionsLive /\ ParentsStand /\ JobsHold
            /\ PasswordsAnsweredFor /\ PlansInclude /\ DeletionStands /\ PasswordStays

- `Effects` reduces the actions to fifteen effects; each part is kept over those.
- The folders under a folder are a least closed set as well (`TreeIn`).
  `NewFolderInTrees` and `NoLargerTrees` say what a step does to every tree: a
  new folder joins its parent's, and nothing else grows.
- `PlansInclude`: a deletion that has read which passwords go has read those of
  all connections under it, but for what was made since (`missed`). This is what
  a deletion in many statements needs, its plan being older than its writes.
- `PasswordsAnsweredFor`: a stored password is behind a connection, or a request
  will give it one or take it back, or it is one of the `missed`.
- `ConnectionsLive`, `ParentsStand`: no connection or folder outlives what it is
  in, so a cascade leaves nothing behind that refers to what is gone.
- `DeletionStands`: while the built-in connection counts as deleted its folder
  stands and no first seeding is under way. `DeletedStaysDeleted` is an action
  property proved from it and one step of `Next`.

`Editing_proofs` of the other four parts: `EditingSpec => []X!IInv`, the steps of
the other parts leaving the part's variables alone.

*Boards* (`BoardsHold`):

    D!IInv == TypeOK /\ JobsHold /\ IdsAreFresh /\ MadeBefore /\ NewIsFree
              /\ NewIsNotAnEdit /\ \A h \in had : Explained(h)

- `NewIsFree`: the slug a request has chosen for a new board is not among those
  it saw taken. That the search for a free number finds one rests on the least
  element of a set of natural numbers (`LeastNatural`, `FreeIsFree`).
- `Explained(h)`: a slug a board has had is its slug, in the record of renames,
  or held by the rename about to record *that very slug*. The property says
  only that some rename of the board is under way, which no step preserves.
- `IdsAreFresh`, `MadeBefore`: a new board takes an id that had no slug yet, so
  none of another's history.

*Imports* (`ImportsHold`):

    I!IInv == TypeOK /\ EarlierMade /\ FiguresAreOfTypes
              /\ (\A c \in Clients : Shared(job[c])) /\ OneOfEach /\ EveryTableIsAccountedFor

- `Shared`: each table asked for is in exactly one of what is to do, what landed
  and what failed, and nothing is to do twice (`ListSplits`: the head of a list
  without repetitions is not in its tail). The answer is then whole at its end.
- `EarlierMade`: the next type of a table is none there ever was. `OneOfEach`
  holds because a transaction makes types only of tables that have none when it
  runs, not when they were read.

*Removal* (`NothingHangs`, `RemovalHolds`):

    R!IInv == TypeOK /\ ViewsAreTheirTypes /\ TypesFirst /\ OnlyOurs /\ Alone
              /\ SchedulesHaveSyncs /\ ScheduleFirst /\ CardLast /\ NothingOnNothing

- `TypesFirst`: while a table is still to be dropped, so is every type on it, but
  for those made meanwhile. With the order of `Place` it gives that none is left
  when the table goes.
- `OnlyOurs`: a table to be dropped is landed by nobody else's sync.
- `CardLast`, `ScheduleFirst`: while a card is to go, whatever would bring its
  dataset back is to go before it. They need that no other removal takes half of
  it away: `Alone` says that unless something was made meanwhile there is one
  removal at a time, `OnlyOne` and `Making` that, and `Begin` counts a second one as such.
- `RemovalIsExact` is two action properties, proved from these and one step
  (`TheirsStays`, `CardGoesLast`).

*The ontology* (`OntologyHolds`):

    B!IInv == TypeOK /\ LoadedOK /\ (\A c \in Clients : Shape(job[c]) /\ Relies(job[c])) /\ Apart
              /\ RegistryFollows /\ Carries /\ TitlesFollow /\ Stands /\ JournalFollows

- `Apart`: two requests share only names that are spoiled, so whatever a request
  claims of an unspoiled name, no other request can disturb. `Shape` ties what a
  request writes to the names it claims.
- `RegistryFollows`: the registry says what the rows say of every name, but for
  those of a request that has written and not yet published (`Unpublished`) and
  those an older load has put `behind`. The check of a deletion reads the
  registry, and this is why what it finds there is what hangs on the rows, or
  `spoiled`. `Carries` is what makes a publish do its work: between its reads and
  its installation, what a request holds of its own names is what the rows say,
  so that `behind` never takes in a name of the request that installs.
- `Relies`: what a request has read and still acts on holds: a type about to get
  its flag is titled as the request wrote it, what is about to be deleted has no
  dependents but those on the list. `Stands` then follows: each link, action and
  metric has its types.
- `TitlesFollow`, `JournalFollows`: title and flag, and journal and rows, agree
  but for the one name between its two statements. `JournalExplains` is not
  inductive without the entries that still stand (`Bare`, `Made`).
- `RowsKeep` reduces a statement to what it does to the names of its request,
  `StepKeeps` adds the registry for those that leave it alone (`LoadKeeps` and
  `InstallKeeps` are the others),
  `RequestKeeps` a request to names that are nobody else's, `FailureKeeps` an
  end half-way to more names that are spoiled. Each statement then has its lemma.

This proof failed on `Delete` first: its guard had been written
`Exists(n) /\ n \in Types => Dependents(n) = {}`, where the implication binds
last, so that a link or a metric that was gone could be deleted and journalled
once more. The two are conjuncts of their own now, as `deleteOntologyObject`
(`S/builder.ts:568`) throws when its DELETE finds no row. No property of the run
had noticed.

`Answers_proofs` of the other three parts:

*Actions* (`TrailHolds`):

    AC!IInv == TypeOK /\ CallsAreAllowed /\ RequestsAreNumbered /\ TrailIsWhatWasSaid

- `RequestsAreNumbered`: a request has no row before it records, one after, and
  nobody was told of it before it answers. So an answer finds its row, and a
  failure of the INSERT, before or after the row was there, leaves one at most:
  nothing of `executeAction` records twice. (`return record(...)` without `await`
  is what keeps the `catch` around it from recording once more.) Rows without an
  answer, and rows in another order than the answers, are allowed: both happen.
- `CallsAreAllowed`: a call past its checks was allowed by the declaration it was
  checked against, whatever is declared since.

This proof found an error of the model as well: `Verdict` had been a CASE whose
guards overlap, and such a CASE is any of the matching branches, not the first,
though TLC takes the first. It is an IF with the order of the code now, and so
is the like place in `Derived`.

*Objects* (`ObjectsHold`): from `TypeOK` alone, for every content of the tables.
`OppositesOfAValue` goes through the three truth values; `WhatIsShown` is what a
LIMIT keeps of a finite table (`ListsAreFinite`): all, or as many as it allows.
`WaysHold` needs `NullIsNoKey`.

*The front door* (`AddressesHold`):

    DoorHolds == at \in Nat \ {0} /\ IsAddress(request.path) /\ Len(request.path) > 0
                 /\ WasWritten(request)
                 /\ GuardsWerePassed /\ RoutesDidNotFit /\ AnswersHere

- `GuardsWerePassed`: of the layers before the one a request has come to, each
  guard that takes the request has let it by.
- `RoutesDidNotFit`: no route before that layer fits the request.
- `AnswersHere`: who answers is the layer the request has come to, and fits.
- `StackIsInOrder`, `GuardsTakeAll`, `ConsoleHasALock`, `NumbersAreChecked`,
  `HandlersAreBehind`: what the order of `index.ts` gives - the three public
  routes first, the general guards before all others, the lock before the rest of
  the console, the check of a number before the routes that carry one.

- `PublicAre` to `SchedulesAre` list the routes of each part by verb, first word,
  length and the word that tells them apart. From that `ToldApart` and
  `AloneOfItsKind`: two routes that could fit one address are one, but for the
  metric's and the board's own address and the three literal ones like them;
  `RivalsComeFirst`: those three are mounted before. Hence `OneRouteFits`.

It holds of any names in an address. The three that are `Taken` are those of
which it would be false, and the route that answers in the place of theirs is
behind the guards too.

`Browser_proofs`: `Browsing => [](IInv /\ S!IInv)`, the first of `Chat`, the
second of `Screens`:

    IInv == TypeOK /\ IdsMadeHere /\ (\A r \in waiting : IsInOrder(r)) /\ LocksHaveReason
    S!IInv == TypeOK /\ LatestIsCurrent /\ PageHasOneWrite /\ RowsHaveOneWrite

- `IdsMadeHere`: every id a space remembers or shows, or a request carries, is of
  a conversation made in that space. An answer that comes after the person has
  gone elsewhere can then only bring home what belongs there.
- `Effect` of the proofs: a step ends some requests of one space, begins others
  of it and changes that space alone. `EffectKeeps` shows once that this keeps
  the invariant; a lemma per action shows that the action is one.
- `LatestIsCurrent`: of a read that drops stale answers, an answer to the latest
  request is one to what is asked for now, as each change of what it asks for
  counts it up - as long as it asks for anything: a closed search box
  (`SearchSelect.tsx:87`) counts nothing up, paints what it was last asked and
  shows no list; opened again it asks anew, and shows its last list until that
  answer comes. `ShowsWhatWasAsked` is an action property, proved from it.
- `PageHasOneWrite`, `RowsHaveOneWrite`: what is locked has its write.
- `ScreensAreWellFormed`: the 47 screens, one by one; of what they are the rest
  uses only that a screen clears by its own inputs, that a write has one to three
  steps and reads again what the screen reads.
- What the transcript of a conversation holds is not part of `TypeOK`: Chat
  drops a refused question from it with `SelectSeq`, of which the provers know
  nothing. No theorem needs it.

*Only model-checked.*

- What must eventually happen (`DueIsHandled`, `RunsEnd`, `BoxOpensAgain`):
  liveness under fairness is beyond this prover.
- `FigureIsWhatWasAsked` and `BoardsAreAsPromised` (`Feasibility`, `Boards`):
  they match the words of a question with those of an ontology, and hold of the
  given ontology and questions, not of any: with other names a word may fit two
  columns. What is filtered and flattened there (`SelectSeq`, `FlattenSeq`) is a
  recursion over data besides.
- `AnswersAreWhole` (`Queries`): that the groups add up to the whole is a
  statement about sums over sets, hence an induction; so is what a sorted page
  holds.
- `FormulasMeanWhatTheySay`: `Derived` declares recursive operators and is out of
  `tlapm`'s reach.

The refuted properties have counterexamples and need no proof. The type
invariants of the modules with proofs, and `LandingIsOneRead`, are proved and
therefore in no configuration.

## 5. Not modelled

- The assistant's turns, limits, credit and settings: a turn does what a
  language model's answers make it do, and no model bounds those. What its tools
  call is the REST interface, modelled there.
- The pipeline and the schema: batch programs run by hand, and definitions.
- `S/documentation.ts` (text rendered from a definition), statistics of columns
  in `S/profiling.ts`, the wording of what registration refuses, the validation
  of settings, the lists, counts and overviews of the console: no state changes,
  or none that another step depends on.
- `U/` beyond what a screen reads, writes and locks: layout, wording, charts.

Known, and in no module:

- The row count on a dataset's card is written after the commit, outside its
  transaction (`S/connections.ts:1094`): the older of two runs may write last.
  `SyncRun` has the step; no property says it should not.
- A failure after the commit marks a run failed whose copy is there
  (`S/connections.ts:1093`).
- Two overlapping publishes read and write the minor version
  (`S/definition.ts:379`): one increase is lost. Two that read the cards at
  different moments may leave a stale one (`S/definition.ts:493`).
- A dependency may be deleted between its check and the insertion of what
  depends on it (`S/proposals.ts:900`). In `Proposals` the approval then fails.
- Of more than ten due schedules a tick claims ten (`S/schedules.ts:455`). The
  oldest come first, so none waits for ever unless syncs outlast their interval;
  `Schedules` has the limit, its instances have fewer schedules.
- The Python services: a retry after the model's rate limit, whose
  wait the caller's own timeout does not know (`A/llm.py:200`), a budget compared
  before a turn and spent during it (`A/limits.py:110`), the message number read and written in two statements
  (`A/store.py:325`), two migrations at once (`pipeline/migrate.py:108`), old
  sessions listed and then deleted, though used in between
  (`pipeline/retention.py:43`).

## 6. Plan

1. Sums by groups (`AnswersAreWhole`) once an induction over finite
   sets can be instantiated.
2. A module of the migrations with two processes at once, and one of usage
   limits with parallel turns.
3. More due schedules than a tick takes, with the liveness of each schedule.
4. `Screens` and `Accounts` composed: a session that ends under a screen.
