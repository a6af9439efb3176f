----------------------------- MODULE Schedules -----------------------------
(***************************************************************************)
(* The scheduler of the ontology service (schedules.ts): the rows of         *)
(* platform.schedule, the requests that create, change, stop and delete      *)
(* them, and the loop that claims what is due and runs it.                   *)
(*                                                                           *)
(* One step is one SQL statement.  Between two statements of one request,    *)
(* of one tick or of one run, every other request and every other            *)
(* instance of the service may act.  Time is a count of some unit that       *)
(* divides every interval.                                                   *)
(*                                                                           *)
(* Left out: names and descriptions of intervals, the space of a             *)
(* schedule, the cleaning of request text, and next_run_at = NULL, which     *)
(* no statement of the code stores (so the backfill at boot finds none).     *)
(* What a run does to the data is the module SyncRun.                        *)
(***************************************************************************)
EXTENDS Integers, Sequences, FiniteSets

CONSTANTS
    Syncs,      \* the syncs there are at the start
    Intervals,  \* the cadences people choose (interval_seconds)
    Starts,     \* the dates they choose for a first run
    Instances,  \* the running copies of the service
    Clients,    \* the people changing schedules, one request at a time each
    TickLimit,  \* how many due schedules one tick reads (LIMIT 10)
    MaxId,      \* bound: schedules ever created
    MaxNow,     \* bound: the last moment of the clock
    MaxFaults,  \* bound: crashes and failed statements
    MaxClicks,  \* bound: runs started by hand under way at once
    NoRow,      \* what a schedule id that has no row stands for
    Idle        \* a client with no request under way

ASSUME IntervalsArePositive == Intervals \subseteq Nat \ {0}
ASSUME StartsAreMoments == Starts \subseteq Nat
ASSUME BoundsAreNaturals == /\ TickLimit \in Nat \ {0}
                            /\ MaxId \in Nat /\ MaxNow \in Nat
                            /\ MaxFaults \in Nat /\ MaxClicks \in Nat

VARIABLES
    now,       \* the database's clock
    sync,      \* the rows of connection_sync: the syncs that exist
    schedule,  \* the rows of platform.schedule
    nextId,    \* the sequence behind schedule_id
    request,   \* what each client's request has read and is about to write
    up,        \* the instances that are running
    ticking,   \* per instance, the flag that keeps ticks from piling up
    due,       \* per instance, what its tick still has to claim
    firing,    \* the executions of executeSchedule under way
    runs,      \* the rows of platform.schedule_run
    faults,    \* how many crashes and failed statements there have been
    anchor     \* history: the first run each schedule was last given

vars == <<now, sync, schedule, nextId, request, up, ticking, due, firing, runs,
          faults, anchor>>
loop == <<up, ticking, due>>
asked == <<sync, nextId, request>>

Ids == 1..MaxId
NeverRun == -1

Row == [target : Syncs, interval : Intervals, next : Nat, enabled : BOOLEAN,
        lastRun : Nat \cup {NeverRun}, lastStatus : {"none", "succeeded", "failed"}]
Request == [op : {"create", "update", "delete", "deleteSync"}, sync : Syncs, id : Ids \cup {0}]

(* An execution: of which schedule, on which instance, for which due moment  *)
(* (for a person's click: the moment of it), and how far it is.              *)
Firing == [id : Ids, inst : Instances, at : Nat, claimed : BOOLEAN,
           phase : {"sync", "succeeded", "failed", "noteSucceeded", "noteFailed"}]

(* A record of a run, told apart by its schedule and its outcome only.       *)
Run == [id : Ids, status : {"succeeded", "failed"}]

ASSUME NoRowIsNoRow == NoRow \notin Row
ASSUME IdleIsNoRequest == Idle \notin Request

Exists(id) == id \in Ids /\ schedule[id] # NoRow
ScheduleOf(s) == {id \in Ids : Exists(id) /\ schedule[id].target = s}

(* onGridSql: `first` while it is ahead, then the next moment after `t` that *)
(* is a whole number of intervals past it.                                   *)
OnGrid(first, interval, t) ==
    IF first > t THEN first ELSE first + ((t - first) \div interval + 1) * interval

(* What a request without a startAt asks for is the first run an interval    *)
(* from now (nextRunSql).                                                    *)
FirstRuns(interval) == Starts \cup {now + interval}

------------------------------------------------------------------------------
(* Requests.                                                                 *)

(* createSchedule's checks: the sync exists and has no schedule yet.         *)
AskCreate(c, s) ==
    /\ request[c] = Idle
    /\ s \in sync /\ ScheduleOf(s) = {}
    /\ request' = [request EXCEPT ![c] = [op |-> "create", sync |-> s, id |-> 0]]
    /\ UNCHANGED <<now, sync, schedule, nextId, loop, firing, runs, faults, anchor>>

(* setSyncSchedule reads the sync and its schedule, and decides from what it *)
(* read: change that schedule, remove it, or create one (AskCreate).         *)
AskSetSync(c, s, manual) ==
    /\ request[c] = Idle
    /\ s \in sync
    /\ \E id \in ScheduleOf(s) :
          request' = [request EXCEPT ![c] =
                        [op |-> IF manual THEN "delete" ELSE "update", sync |-> s, id |-> id]]
    /\ UNCHANGED <<now, sync, schedule, nextId, loop, firing, runs, faults, anchor>>

(* A request that is refused, or whose statement fails, changes nothing.     *)
Refused(c) ==
    /\ request[c] # Idle
    /\ request' = [request EXCEPT ![c] = Idle]
    /\ UNCHANGED <<now, sync, schedule, nextId, loop, firing, runs, faults, anchor>>

(* A database without the index.                                             *)
IndexAllows_Missing(s) == TRUE

(* The unique index ux_schedule_one_per_sync.                                *)
IndexAllows(s) == ScheduleOf(s) = {}

(* createSchedule's INSERT.  Nothing ties target_ref to the sync's row.      *)
Insert(c, interval, first) ==
    /\ request[c] # Idle /\ request[c].op = "create"
    /\ nextId <= MaxId
    /\ IndexAllows(request[c].sync)
    /\ schedule' = [schedule EXCEPT ![nextId] =
                      [target |-> request[c].sync, interval |-> interval,
                       next |-> OnGrid(first, interval, now), enabled |-> TRUE,
                       lastRun |-> NeverRun, lastStatus |-> "none"]]
    /\ anchor' = [anchor EXCEPT ![nextId] = first]
    /\ nextId' = nextId + 1
    /\ request' = [request EXCEPT ![c] = Idle]
    /\ UNCHANGED <<now, sync, loop, firing, runs, faults>>

(* updateSchedule with a cadence: the rhythm starts again at `first`.        *)
Recadence(id, interval, first, enabled) ==
    /\ schedule' = [schedule EXCEPT ![id].interval = interval,
                                    ![id].next = OnGrid(first, interval, now),
                                    ![id].enabled = enabled]
    /\ anchor' = [anchor EXCEPT ![id] = first]

(* setSyncSchedule's update: by the id it read, if that row is still there.  *)
UpdateForSync(c, interval, first) ==
    /\ request[c] # Idle /\ request[c].op = "update"
    /\ Exists(request[c].id)
    /\ Recadence(request[c].id, interval, first, TRUE)
    /\ request' = [request EXCEPT ![c] = Idle]
    /\ UNCHANGED <<now, sync, nextId, loop, firing, runs, faults>>

(* A row goes with the record of its runs (ON DELETE CASCADE).               *)
DeleteRows(ids) ==
    /\ schedule' = [id \in Ids |-> IF id \in ids THEN NoRow ELSE schedule[id]]
    /\ runs' = {r \in runs : r.id \notin ids}

DeleteForSync(c) ==
    /\ request[c] # Idle /\ request[c].op = "delete"
    /\ DeleteRows({request[c].id})
    /\ request' = [request EXCEPT ![c] = Idle]
    /\ UNCHANGED <<now, sync, nextId, loop, firing, faults, anchor>>

(* deleteSync: the schedule first, then the sync's own row.                  *)
DeleteScheduleOfSync(c, s) ==
    /\ request[c] = Idle
    /\ s \in sync
    /\ DeleteRows(ScheduleOf(s))
    /\ request' = [request EXCEPT ![c] = [op |-> "deleteSync", sync |-> s, id |-> 0]]
    /\ UNCHANGED <<now, sync, nextId, loop, firing, faults, anchor>>

DeleteSyncRow(c) ==
    /\ request[c] # Idle /\ request[c].op = "deleteSync"
    /\ sync' = sync \ {request[c].sync}
    /\ request' = [request EXCEPT ![c] = Idle]
    /\ UNCHANGED <<now, schedule, nextId, loop, firing, runs, faults, anchor>>

(* updateSchedule by schedule id, with a cadence, with a first run only, or  *)
(* with `enabled` only.  Each is one UPDATE.                                 *)
ChangeCadence(id, interval, first, enabled) ==
    /\ Exists(id)
    /\ Recadence(id, interval, first, enabled)
    /\ UNCHANGED <<now, asked, loop, firing, runs, faults>>

MoveFirstRun(id, first) ==
    /\ Exists(id)
    /\ Recadence(id, schedule[id].interval, first, schedule[id].enabled)
    /\ UNCHANGED <<now, asked, loop, firing, runs, faults>>

SetEnabled(id, enabled) ==
    /\ Exists(id)
    /\ schedule' = [schedule EXCEPT ![id].enabled = enabled]
    /\ UNCHANGED <<now, asked, loop, firing, runs, faults, anchor>>

DeleteSchedule(id) ==
    /\ Exists(id)
    /\ DeleteRows({id})
    /\ UNCHANGED <<now, asked, loop, firing, faults, anchor>>

------------------------------------------------------------------------------
(* The loop.                                                                 *)

Due(id) == Exists(id) /\ schedule[id].enabled /\ schedule[id].next <= now

(* ORDER BY next_run_at LIMIT TickLimit: every order the database may return *)
(* rows of equal next_run_at in is possible.                                 *)
Selections ==
    LET all == {id \in Ids : Due(id)}
        n == IF Cardinality(all) < TickLimit THEN Cardinality(all) ELSE TickLimit
    IN  {q \in [1..n -> all] :
            /\ \A j, k \in 1..n : j < k => q[j] # q[k] /\ schedule[q[j]].next <= schedule[q[k]].next
            /\ \A id \in all \ {q[j] : j \in 1..n} :
                  \A j \in 1..n : schedule[q[j]].next <= schedule[id].next}

Tick(i) ==
    /\ i \in up /\ ~ticking[i]
    /\ \E q \in Selections : due' = [due EXCEPT ![i] = q]
    /\ ticking' = [ticking EXCEPT ![i] = TRUE]
    /\ UNCHANGED <<now, asked, schedule, up, firing, runs, faults, anchor>>

(* An UPDATE that trusts what the tick has read.                             *)
Claimable_NoDueCheck(id) == Exists(id) /\ schedule[id].enabled

(* An UPDATE that no longer looks at enabled.                                *)
Claimable_NoEnabled(id) == Exists(id) /\ schedule[id].next <= now

(* An equality where the code has <=: a late schedule is never claimed.      *)
Claimable_ThisMoment(id) == Exists(id) /\ schedule[id].enabled /\ schedule[id].next = now

(* claimSchedule's WHERE, read again by the UPDATE itself.                   *)
Claimable(id) == Exists(id) /\ schedule[id].enabled /\ schedule[id].next <= now

(* The drift of "now() + interval".                                          *)
NextAfterClaim_FromNow(r) == now + r.interval

(* One step, however late: the missed runs come in a burst.                  *)
NextAfterClaim_OneStep(r) == r.next + r.interval

(* The next moment on the schedule's own rhythm, from when it was due.       *)
NextAfterClaim(r) == OnGrid(r.next, r.interval, now)

Claim(i) ==
    /\ i \in up /\ due[i] # <<>>
    /\ LET id == Head(due[i]) IN
         IF Claimable(id)
         THEN /\ schedule' = [schedule EXCEPT ![id].next = NextAfterClaim(schedule[id]),
                                              ![id].lastRun = now]
              /\ firing' = firing \cup {[id |-> id, inst |-> i, at |-> schedule[id].next,
                                         claimed |-> TRUE, phase |-> "sync"]}
         ELSE UNCHANGED <<schedule, firing>>
    /\ due' = [due EXCEPT ![i] = Tail(due[i])]
    /\ UNCHANGED <<now, asked, up, ticking, runs, faults, anchor>>

TickEnds(i) ==
    /\ i \in up /\ ticking[i] /\ due[i] = <<>>
    /\ ticking' = [ticking EXCEPT ![i] = FALSE]
    /\ UNCHANGED <<now, asked, schedule, up, due, firing, runs, faults, anchor>>

(* A claim that throws ends the tick; .finally() still lowers the flag.      *)
TickFails(i) ==
    /\ faults < MaxFaults
    /\ i \in up /\ due[i] # <<>>
    /\ due' = [due EXCEPT ![i] = <<>>]
    /\ ticking' = [ticking EXCEPT ![i] = FALSE]
    /\ faults' = faults + 1
    /\ UNCHANGED <<now, asked, schedule, up, firing, runs, anchor>>

------------------------------------------------------------------------------
(* executeSchedule: run the sync, insert the record, note it on the row.     *)

(* runScheduleNow: a person's click; the cadence is not touched.             *)
RunNow(i, id) ==
    /\ i \in up /\ Exists(id)
    /\ Cardinality({e \in firing : ~e.claimed}) < MaxClicks
    /\ firing' = firing \cup {[id |-> id, inst |-> i, at |-> now, claimed |-> FALSE,
                               phase |-> "sync"]}
    /\ UNCHANGED <<now, asked, schedule, loop, runs, faults, anchor>>

Advance(e, phase) == firing' = (firing \ {e}) \cup {[e EXCEPT !.phase = phase]}
Ends(e) == firing' = firing \ {e}
Fault == faults < MaxFaults /\ faults' = faults + 1

(* runSync succeeds, or throws: a sync that was deleted always does.         *)
SyncEnds(e) ==
    /\ e.phase = "sync"
    /\ \/ Exists(e.id) /\ schedule[e.id].target \in sync /\ Advance(e, "succeeded")
       \/ Advance(e, "failed")
    /\ UNCHANGED <<now, asked, schedule, loop, runs, faults, anchor>>

(* An INSERT whose failure would be swallowed.                               *)
Record_ErrorSwallowed(e) ==
    /\ e.phase \in {"succeeded", "failed"}
    /\ \/ Exists(e.id) /\ runs' = runs \cup {[id |-> e.id, status |-> e.phase]}
       \/ UNCHANGED runs
    /\ Advance(e, IF e.phase = "succeeded" THEN "noteSucceeded" ELSE "noteFailed")
    /\ UNCHANGED <<now, asked, schedule, loop, faults, anchor>>

(* The INSERT into schedule_run: refused by its foreign key once the         *)
(* schedule is gone.                                                         *)
Record(e) ==
    /\ e.phase \in {"succeeded", "failed"}
    /\ Exists(e.id)
    /\ runs' = runs \cup {[id |-> e.id, status |-> e.phase]}
    /\ Advance(e, IF e.phase = "succeeded" THEN "noteSucceeded" ELSE "noteFailed")
    /\ UNCHANGED <<now, asked, schedule, loop, faults, anchor>>

(* A failing statement of the success path falls into the catch, which       *)
(* records a failure; one of the catch itself ends in the log.               *)
ExecutionThrows(e) ==
    /\ \/ e.phase \in {"succeeded", "failed"} /\ ~Exists(e.id) /\ UNCHANGED faults
       \/ e.phase # "sync" /\ Fault
    /\ IF e.phase \in {"succeeded", "noteSucceeded"} THEN Advance(e, "failed") ELSE Ends(e)
    /\ UNCHANGED <<now, asked, schedule, loop, runs, anchor>>

(* The UPDATE of last_status, which finds no row once the schedule is gone.  *)
Note(e) ==
    /\ e.phase \in {"noteSucceeded", "noteFailed"}
    /\ schedule' = IF Exists(e.id)
                   THEN [schedule EXCEPT ![e.id].lastStatus =
                           IF e.phase = "noteSucceeded" THEN "succeeded" ELSE "failed"]
                   ELSE schedule
    /\ Ends(e)
    /\ UNCHANGED <<now, asked, loop, runs, faults, anchor>>

------------------------------------------------------------------------------
(* The service stops and comes back: a tick and the runs under way are lost, *)
(* the rows are not.                                                         *)
Crash(i) ==
    /\ Fault
    /\ i \in up
    /\ up' = up \ {i}
    /\ ticking' = [ticking EXCEPT ![i] = FALSE]
    /\ due' = [due EXCEPT ![i] = <<>>]
    /\ firing' = {e \in firing : e.inst # i}
    /\ UNCHANGED <<now, asked, schedule, runs, anchor>>

Boot(i) ==
    /\ i \notin up
    /\ up' = up \cup {i}
    /\ UNCHANGED <<now, asked, schedule, ticking, due, firing, runs, faults, anchor>>

TimePasses ==
    /\ now < MaxNow
    /\ now' = now + 1
    /\ UNCHANGED <<asked, schedule, loop, firing, runs, faults, anchor>>

------------------------------------------------------------------------------
Init ==
    /\ now = 0
    /\ sync = Syncs
    /\ schedule = [id \in Ids |-> NoRow]
    /\ nextId = 1
    /\ request = [c \in Clients |-> Idle]
    /\ up = Instances
    /\ ticking = [i \in Instances |-> FALSE]
    /\ due = [i \in Instances |-> <<>>]
    /\ firing = {}
    /\ runs = {}
    /\ faults = 0
    /\ anchor = [id \in Ids |-> 0]

RequestStep(c) ==
    \/ \E s \in Syncs : AskCreate(c, s) \/ DeleteScheduleOfSync(c, s)
    \/ \E s \in Syncs, manual \in BOOLEAN : AskSetSync(c, s, manual)
    \/ \E interval \in Intervals : \E first \in FirstRuns(interval) :
          Insert(c, interval, first) \/ UpdateForSync(c, interval, first)
    \/ DeleteForSync(c)
    \/ DeleteSyncRow(c)
    \/ Refused(c)

EditStep(id) ==
    \/ \E interval \in Intervals, enabled \in BOOLEAN : \E first \in FirstRuns(interval) :
          ChangeCadence(id, interval, first, enabled)
    \/ \E first \in Starts : MoveFirstRun(id, first)
    \/ \E enabled \in BOOLEAN : SetEnabled(id, enabled)
    \/ DeleteSchedule(id)

LoopStep(i) == Tick(i) \/ Claim(i) \/ TickEnds(i)
ExecutionStep(e) == SyncEnds(e) \/ Record(e) \/ Note(e)

Next ==
    \/ \E c \in Clients : RequestStep(c)
    \/ \E id \in Ids : EditStep(id)
    \/ \E i \in Instances : LoopStep(i) \/ TickFails(i) \/ Crash(i) \/ Boot(i)
    \/ \E i \in Instances, id \in Ids : RunNow(i, id)
    \/ \E e \in firing : ExecutionStep(e) \/ ExecutionThrows(e)
    \/ TimePasses

Spec == Init /\ [][Next]_vars

(* setInterval keeps ticking and a tick's statements are answered; a crashed *)
(* service is restarted.  Nobody is obliged to send a request, and no run is *)
(* obliged to end.                                                           *)
FairSpec == Spec /\ \A i \in Instances : WF_vars(LoopStep(i)) /\ WF_vars(Boot(i))

------------------------------------------------------------------------------
TypeOK ==
    /\ now \in Nat
    /\ sync \subseteq Syncs
    /\ schedule \in [Ids -> Row \cup {NoRow}]
    /\ nextId \in 1..(MaxId + 1)
    /\ request \in [Clients -> Request \cup {Idle}]
    /\ up \subseteq Instances
    /\ ticking \in [Instances -> BOOLEAN]
    /\ due \in [Instances -> Seq(Ids)]
    /\ firing \subseteq Firing
    /\ runs \subseteq Run
    /\ faults \in 0..MaxFaults
    /\ anchor \in [Ids -> Nat]

(* "The claim is the fire": one due moment of one schedule is run once, by   *)
(* one instance, however many ticks and instances read it as due.            *)
OneFirePerMoment ==
    \A e, f \in firing : e.claimed /\ f.claimed /\ e.id = f.id /\ e.at = f.at => e = f

(* However late the loop is, the runs missed meanwhile are not made up for   *)
(* one by one: a schedule is next due only after the moment it last ran, and *)
(* after every due moment it was already run for.                            *)
NeverBurst ==
    /\ \A id \in Ids : Exists(id) => schedule[id].next > schedule[id].lastRun
    /\ \A e \in firing : e.claimed /\ Exists(e.id) => e.at < schedule[e.id].next

(* "A schedule keeps its rhythm": whatever the latency of ticks, the crashes *)
(* and the missed runs, the next run is a whole number of intervals after    *)
(* the first run the schedule was last given.                                *)
OnRhythm ==
    \A id \in Ids : Exists(id) =>
        \E k \in 0..schedule[id].next :
            schedule[id].next = anchor[id] + k * schedule[id].interval

(* "One cadence per sync", also when two people set it at the same time.     *)
OneSchedulePerSync ==
    \A a, b \in Ids : Exists(a) /\ Exists(b) /\ schedule[a].target = schedule[b].target => a = b

(* What these four rest on: nothing has run in the future, and a schedule id *)
(* is never used again, so a run under way cannot be taken for a run of      *)
(* another schedule.                                                         *)
NothingInTheFuture ==
    /\ \A id \in Ids : Exists(id) => schedule[id].lastRun <= now
    /\ \A e \in firing : e.at <= now

IdsAreFresh ==
    /\ \A id \in Ids : Exists(id) => id < nextId
    /\ \A e \in firing : e.id < nextId

IInv ==
    /\ TypeOK /\ NothingInTheFuture /\ IdsAreFresh
    /\ OneFirePerMoment /\ NeverBurst /\ OnRhythm /\ OneSchedulePerSync

(* The status beside a schedule is one its history shows: last_status is     *)
(* noted only after the record of that run was inserted.                     *)
StatusIsRecorded ==
    \A id \in Ids : Exists(id) /\ schedule[id].lastStatus # "none" =>
        \E r \in runs : r.id = id /\ r.status = schedule[id].lastStatus

(* What it rests on: an execution about to note the outcome of its run has   *)
(* recorded it, unless the record went with the schedule.                    *)
Outcome(e) == IF e.phase = "noteSucceeded" THEN "succeeded" ELSE "failed"
NotesFollowRecords ==
    \A e \in firing : Exists(e.id) /\ e.phase \in {"noteSucceeded", "noteFailed"} =>
        [id |-> e.id, status |-> Outcome(e)] \in runs

(* A run the loop starts is of a schedule that is enabled and due at that    *)
(* very step, not merely when the tick read it, and the same step moves the  *)
(* schedule past it.                                                         *)
ClaimIsTheFire ==
    [][\A e \in firing' \ firing : e.claimed /\ e.phase = "sync" =>
          /\ Due(e.id) /\ schedule[e.id].next = e.at
          /\ schedule'[e.id].next > now]_vars

(* A schedule that is due is eventually claimed, stopped or deleted: no      *)
(* failed tick, crash or slow run leaves the loop switched off.              *)
DueIsHandled == \A id \in Ids : Due(id) ~> ~Due(id)

(* updateSchedule: "Re-enabling fires on the cadence from now, not           *)
(* retroactively".  The step that enables a schedule leaves it not yet due.  *)
ReenabledIsNotDue ==
    [][\A id \in Ids :
          Exists(id) /\ ~schedule[id].enabled /\ schedule'[id] # NoRow /\ schedule'[id].enabled
             => schedule'[id].next > now]_vars
=============================================================================
