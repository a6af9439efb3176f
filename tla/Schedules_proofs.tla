-------------------------- MODULE Schedules_proofs --------------------------
(***************************************************************************)
(* Theorems about Schedules, for every number of syncs, instances, clients *)
(* and schedules, every set of intervals and first runs, and every clock.  *)
(***************************************************************************)
EXTENDS Schedules, FiniteSetTheorems, TLAPS

(* The next moment on a grid is later than the time it is asked at, and on  *)
(* the grid: the facts about onGridSql everything else rests on.            *)
LEMMA OnGridAhead ==
  ASSUME NEW first \in Nat, NEW interval \in Nat \ {0}, NEW t \in Nat
  PROVE  /\ OnGrid(first, interval, t) \in Nat
         /\ OnGrid(first, interval, t) > t
<1> DEFINE q == (t - first) \div interval
<1>1. CASE first > t
  BY <1>1 DEF OnGrid
<1>2. CASE ~(first > t)
  <2>1. /\ t - first \in Nat
        /\ q \in Nat
        /\ t - first < (q + 1) * interval
    BY <1>2
  <2>2. OnGrid(first, interval, t) = first + (q + 1) * interval
    BY <1>2 DEF OnGrid
  <2>3. (q + 1) * interval \in Nat
    BY <2>1
  <2>. HIDE DEF q
  <2>. QED BY <2>1, <2>2, <2>3
<1>. QED BY <1>1, <1>2

LEMMA OnGridOnGrid ==
  ASSUME NEW first \in Nat, NEW interval \in Nat \ {0}, NEW t \in Nat
  PROVE  \E k \in Nat : OnGrid(first, interval, t) = first + k * interval
<1> DEFINE q == (t - first) \div interval
<1>1. CASE first > t
  <2>1. OnGrid(first, interval, t) = first + 0 * interval
    BY <1>1 DEF OnGrid
  <2>. QED BY <2>1
<1>2. CASE ~(first > t)
  <2>1. q + 1 \in Nat
    BY <1>2
  <2>2. OnGrid(first, interval, t) = first + (q + 1) * interval
    BY <1>2 DEF OnGrid
  <2>. QED BY <2>1, <2>2
<1>. QED BY <1>1, <1>2

(* What a tick reads is a sequence of schedule ids.                         *)
LEMMA SelectionsAreSequences == \A q \in Selections : q \in Seq(Ids)
<1> DEFINE all == {id \in Ids : Due(id)}
<1>1. IsFiniteSet(all)
  <2>1. IsFiniteSet(Ids)
    BY FS_Interval, BoundsAreNaturals DEF Ids
  <2>. QED BY <2>1, FS_Subset
<1>2. Cardinality(all) \in Nat
  BY <1>1, FS_CardinalityType
<1>3. \A n \in Nat : \A q \in [1..n -> all] : q \in Seq(Ids)
  OBVIOUS
<1>. QED BY <1>2, <1>3, BoundsAreNaturals DEF Selections

(* A request's first run is a moment.                                       *)
LEMMA FirstRunsAreMoments ==
  ASSUME TypeOK, NEW interval \in Intervals
  PROVE  FirstRuns(interval) \subseteq Nat
BY StartsAreMoments, IntervalsArePositive DEF FirstRuns, TypeOK

LEMMA RecadenceType ==
  ASSUME TypeOK, NEW id \in Ids, Exists(id), NEW interval \in Intervals, NEW first \in Nat,
         NEW enabled \in BOOLEAN, Recadence(id, interval, first, enabled)
  PROVE  /\ schedule' \in [Ids -> Row \cup {NoRow}]
         /\ anchor' \in [Ids -> Nat]
<1>1. schedule[id] \in Row
  BY DEF TypeOK, Exists
<1>2. OnGrid(first, interval, now) \in Nat
  BY OnGridAhead, IntervalsArePositive DEF TypeOK
<1>. QED BY <1>1, <1>2 DEF TypeOK, Recadence, Row

LEMMA DeleteRowsType ==
  ASSUME TypeOK, NEW ids, DeleteRows(ids)
  PROVE  /\ schedule' \in [Ids -> Row \cup {NoRow}]
         /\ runs' \subseteq Run
BY DEF TypeOK, DeleteRows

LEMMA RequestType ==
  ASSUME TypeOK, NEW c \in Clients
  PROVE  /\ request[c] \in Request \cup {Idle}
         /\ \A r \in Request \cup {Idle} :
               [request EXCEPT ![c] = r] \in [Clients -> Request \cup {Idle}]
BY DEF TypeOK

LEMMA RequestStepType ==
  ASSUME TypeOK, NEW c \in Clients, RequestStep(c)
  PROVE  TypeOK'
<1>1. ASSUME NEW s \in Syncs, AskCreate(c, s) PROVE TypeOK'
  <2>1. [op |-> "create", sync |-> s, id |-> 0] \in Request
    BY DEF Request
  <2>. QED BY <1>1, <2>1, RequestType DEF AskCreate, TypeOK, loop
<1>2. ASSUME NEW s \in Syncs, DeleteScheduleOfSync(c, s) PROVE TypeOK'
  <2>1. [op |-> "deleteSync", sync |-> s, id |-> 0] \in Request
    BY DEF Request
  <2>. QED BY <1>2, <2>1, RequestType, DeleteRowsType DEF DeleteScheduleOfSync, TypeOK, loop
<1>3. ASSUME NEW s \in Syncs, NEW manual \in BOOLEAN, AskSetSync(c, s, manual) PROVE TypeOK'
  <2>1. PICK id \in ScheduleOf(s) :
          request' = [request EXCEPT ![c] =
                        [op |-> IF manual THEN "delete" ELSE "update", sync |-> s, id |-> id]]
    BY <1>3 DEF AskSetSync
  <2>2. [op |-> IF manual THEN "delete" ELSE "update", sync |-> s, id |-> id] \in Request
    BY <2>1 DEF Request, ScheduleOf
  <2>. QED BY <1>3, <2>1, <2>2, RequestType DEF AskSetSync, TypeOK, loop
<1>4. ASSUME NEW interval \in Intervals, NEW first \in FirstRuns(interval), Insert(c, interval, first)
      PROVE  TypeOK'
  <2>1. first \in Nat
    BY FirstRunsAreMoments
  <2>2. OnGrid(first, interval, now) \in Nat
    BY <2>1, OnGridAhead, IntervalsArePositive DEF TypeOK
  <2>3. /\ request[c] \in Request
        /\ nextId \in Ids
        /\ nextId + 1 \in 1..(MaxId + 1)
    BY <1>4, BoundsAreNaturals DEF Insert, TypeOK, Ids
  <2>4. [target |-> request[c].sync, interval |-> interval,
         next |-> OnGrid(first, interval, now), enabled |-> TRUE,
         lastRun |-> NeverRun, lastStatus |-> "none"] \in Row
    BY <2>2, <2>3 DEF Row, Request
  <2>. QED BY <1>4, <2>1, <2>3, <2>4, RequestType DEF Insert, TypeOK, loop
<1>5. ASSUME NEW interval \in Intervals, NEW first \in FirstRuns(interval),
             UpdateForSync(c, interval, first)
      PROVE  TypeOK'
  <2>1. first \in Nat
    BY FirstRunsAreMoments
  <2>2. request[c].id \in Ids
    BY <1>5 DEF UpdateForSync, Exists
  <2>. QED BY <1>5, <2>1, <2>2, RequestType, RecadenceType DEF UpdateForSync, TypeOK, loop
<1>6. CASE DeleteForSync(c)
  BY <1>6, RequestType, DeleteRowsType DEF DeleteForSync, TypeOK, loop
<1>7. CASE DeleteSyncRow(c)
  BY <1>7, RequestType DEF DeleteSyncRow, TypeOK, loop
<1>8. CASE Refused(c)
  BY <1>8, RequestType DEF Refused, TypeOK, loop
<1>. QED BY <1>1, <1>2, <1>3, <1>4, <1>5, <1>6, <1>7, <1>8 DEF RequestStep

LEMMA EditStepType ==
  ASSUME TypeOK, NEW id \in Ids, EditStep(id)
  PROVE  TypeOK'
<1>1. ASSUME NEW interval \in Intervals, NEW enabled \in BOOLEAN,
             NEW first \in FirstRuns(interval), ChangeCadence(id, interval, first, enabled)
      PROVE  TypeOK'
  <2>1. first \in Nat
    BY FirstRunsAreMoments
  <2>. QED BY <1>1, <2>1, RecadenceType DEF ChangeCadence, TypeOK, loop, asked
<1>2. ASSUME NEW first \in Starts, MoveFirstRun(id, first) PROVE TypeOK'
  <2>1. /\ first \in Nat
        /\ schedule[id].interval \in Intervals
        /\ schedule[id].enabled \in BOOLEAN
    BY <1>2, StartsAreMoments DEF MoveFirstRun, Exists, TypeOK, Row
  <2>. QED BY <1>2, <2>1, RecadenceType DEF MoveFirstRun, TypeOK, loop, asked
<1>3. ASSUME NEW enabled \in BOOLEAN, SetEnabled(id, enabled) PROVE TypeOK'
  <2>1. schedule[id] \in Row
    BY <1>3 DEF SetEnabled, Exists, TypeOK
  <2>. QED BY <1>3, <2>1 DEF SetEnabled, TypeOK, Row, loop, asked
<1>4. CASE DeleteSchedule(id)
  BY <1>4, DeleteRowsType DEF DeleteSchedule, TypeOK, loop, asked
<1>. QED BY <1>1, <1>2, <1>3, <1>4 DEF EditStep

LEMMA ClaimType ==
  ASSUME TypeOK, NEW i \in Instances, Claim(i)
  PROVE  TypeOK'
<1> DEFINE id == Head(due[i])
           e == [id |-> id, inst |-> i, at |-> schedule[id].next, claimed |-> TRUE,
                 phase |-> "sync"]
<1>1. /\ due[i] \in Seq(Ids) /\ due[i] # <<>>
      /\ id \in Ids
      /\ due' \in [Instances -> Seq(Ids)]
  BY DEF Claim, TypeOK
<1>2. CASE Claimable(id)
  <2>1. schedule[id] \in Row
    BY <1>1, <1>2 DEF Claimable, Exists, TypeOK
  <2>2. NextAfterClaim(schedule[id]) \in Nat
    BY <2>1, OnGridAhead, IntervalsArePositive DEF NextAfterClaim, Row, TypeOK
  <2>3. schedule' = [schedule EXCEPT ![id].next = NextAfterClaim(schedule[id]),
                                     ![id].lastRun = now]
    BY <1>2 DEF Claim
  <2>4. schedule' \in [Ids -> Row \cup {NoRow}]
    BY <1>1, <2>1, <2>2, <2>3 DEF Row, TypeOK
  <2>5. e \in Firing
    BY <1>1, <2>1 DEF Firing, Row
  <2>6. firing' = firing \cup {e}
    BY <1>2 DEF Claim
  <2>. QED BY <1>1, <2>4, <2>5, <2>6 DEF Claim, TypeOK, asked
<1>3. CASE ~Claimable(id)
  BY <1>1, <1>3 DEF Claim, TypeOK, asked
<1>. QED BY <1>2, <1>3

LEMMA AdvanceType ==
  ASSUME TypeOK, NEW e \in firing,
         NEW phase \in {"succeeded", "failed", "noteSucceeded", "noteFailed"}, Advance(e, phase)
  PROVE  firing' \subseteq Firing
<1>1. [e EXCEPT !.phase = phase] \in Firing
  BY DEF TypeOK, Firing
<1>. QED BY <1>1 DEF TypeOK, Advance

LEMMA ExecutionStepType ==
  ASSUME TypeOK, NEW e \in firing, ExecutionStep(e) \/ ExecutionThrows(e)
  PROVE  TypeOK'
<1> USE DEF loop, asked
<1>0. e \in Firing
  BY DEF TypeOK
<1>1. CASE SyncEnds(e)
  BY <1>1, AdvanceType DEF SyncEnds, TypeOK
<1>2. CASE Record(e)
  <2>1. [id |-> e.id, status |-> e.phase] \in Run
    BY <1>0, <1>2 DEF Record, Run, Firing
  <2>2. firing' \subseteq Firing
    BY <1>2, AdvanceType DEF Record
  <2>. QED BY <1>2, <2>1, <2>2 DEF Record, TypeOK
<1>3. CASE Note(e)
  <2>1. schedule' \in [Ids -> Row \cup {NoRow}]
    <3>1. CASE Exists(e.id)
      <4>1. schedule[e.id] \in Row
        BY <3>1 DEF Exists, TypeOK
      <4>. QED BY <1>0, <1>3, <3>1, <4>1 DEF Note, TypeOK, Row
    <3>2. CASE ~Exists(e.id)
      BY <1>3, <3>2 DEF Note, TypeOK
    <3>. QED BY <3>1, <3>2
  <2>. QED BY <1>3, <2>1 DEF Note, Ends, TypeOK
<1>4. CASE ExecutionThrows(e)
  <2>1. firing' \subseteq Firing
    BY <1>4, AdvanceType DEF ExecutionThrows, Ends, TypeOK
  <2>2. faults' \in 0..MaxFaults
    BY <1>4, BoundsAreNaturals DEF ExecutionThrows, Fault, TypeOK
  <2>. QED BY <1>4, <2>1, <2>2 DEF ExecutionThrows, TypeOK
<1>. QED BY <1>1, <1>2, <1>3, <1>4 DEF ExecutionStep

LEMMA LoopType ==
  ASSUME TypeOK, NEW i \in Instances, LoopStep(i) \/ TickFails(i) \/ Crash(i) \/ Boot(i)
  PROVE  TypeOK'
<1> USE DEF asked
<1>1. CASE Tick(i)
  BY <1>1, SelectionsAreSequences DEF Tick, TypeOK
<1>2. CASE TickEnds(i)
  BY <1>2 DEF TickEnds, TypeOK
<1>3. CASE TickFails(i)
  BY <1>3, BoundsAreNaturals DEF TickFails, TypeOK
<1>4. CASE Crash(i)
  BY <1>4, BoundsAreNaturals DEF Crash, Fault, TypeOK
<1>5. CASE Boot(i)
  BY <1>5 DEF Boot, TypeOK
<1>. QED BY <1>1, <1>2, <1>3, <1>4, <1>5, ClaimType DEF LoopStep

LEMMA TypeStep == TypeOK /\ [Next]_vars => TypeOK'
<1> SUFFICES ASSUME TypeOK, [Next]_vars PROVE TypeOK'
  OBVIOUS
<1>1. ASSUME NEW c \in Clients, RequestStep(c) PROVE TypeOK'
  BY <1>1, RequestStepType
<1>2. ASSUME NEW id \in Ids, EditStep(id) PROVE TypeOK'
  BY <1>2, EditStepType
<1>3. ASSUME NEW i \in Instances, LoopStep(i) \/ TickFails(i) \/ Crash(i) \/ Boot(i)
      PROVE  TypeOK'
  BY <1>3, LoopType
<1>4. ASSUME NEW i \in Instances, NEW id \in Ids, RunNow(i, id) PROVE TypeOK'
  <2>1. [id |-> id, inst |-> i, at |-> now, claimed |-> FALSE, phase |-> "sync"] \in Firing
    BY DEF TypeOK, Firing
  <2>. QED BY <1>4, <2>1 DEF RunNow, TypeOK, loop, asked
<1>5. ASSUME NEW e \in firing, ExecutionStep(e) \/ ExecutionThrows(e) PROVE TypeOK'
  BY <1>5, ExecutionStepType
<1>6. CASE TimePasses
  BY <1>6 DEF TimePasses, TypeOK, loop, asked
<1>7. CASE UNCHANGED vars
  BY <1>7 DEF vars, TypeOK
<1>. QED BY <1>1, <1>2, <1>3, <1>4, <1>5, <1>6, <1>7 DEF Next

(* The rows, the requests, the ticks and the runs keep their types.         *)
THEOREM TypeCorrect == Spec => []TypeOK
<1>1. Init => TypeOK
  BY BoundsAreNaturals DEF Init, TypeOK, Ids
<1>. QED BY <1>1, TypeStep, PTL DEF Spec

------------------------------------------------------------------------------
(* The invariant, one lemma per way a step can disturb it.                  *)

(* A grid that starts at a moment of another grid stays on that other grid. *)
LEMMA RhythmIsKept ==
  ASSUME NEW a \in Nat, NEW interval \in Nat \ {0}, NEW k \in Nat, NEW t \in Nat
  PROVE  \E m \in Nat : OnGrid(a + k * interval, interval, t) = a + m * interval
<1>0. a + k * interval \in Nat
  OBVIOUS
<1>1. PICK j \in Nat : OnGrid(a + k * interval, interval, t) = a + k * interval + j * interval
  BY <1>0, OnGridOnGrid
<1>2. /\ k + j \in Nat
      /\ (k + j) * interval = k * interval + j * interval
  OBVIOUS
<1>. QED BY <1>1, <1>2

(* The bounded search OnRhythm is written with misses no multiple.          *)
LEMMA MultiplesAreBounded ==
  ASSUME NEW a \in Nat, NEW interval \in Nat \ {0}, NEW n \in Nat,
         \E k \in Nat : n = a + k * interval
  PROVE  \E k \in 0..n : n = a + k * interval
<1>1. PICK k \in Nat : n = a + k * interval
  OBVIOUS
<1>2. k <= k * interval
  OBVIOUS
<1>. QED BY <1>1, <1>2

(* Steps that leave the rhythm, the target and the runs of every row alone. *)
SameRows ==
  /\ \A id \in Ids : Exists(id)' = Exists(id)
  /\ \A id \in Ids : Exists(id) =>
        /\ schedule'[id].target = schedule[id].target
        /\ schedule'[id].interval = schedule[id].interval
        /\ schedule'[id].next = schedule[id].next
        /\ schedule'[id].lastRun = schedule[id].lastRun
  /\ UNCHANGED <<nextId, anchor>>

(* Steps that start no run for a due moment: a run is a former one further  *)
(* on, or a person's click.                                                 *)
NoNewClaim ==
  /\ \A e \in firing' :
        \/ ~e.claimed /\ e.at <= now /\ e.id < nextId
        \/ \E f \in firing : e.id = f.id /\ e.at = f.at /\ e.claimed = f.claimed
  /\ OneFirePerMoment'

LEMMA SameRowsStep ==
  ASSUME IInv, TypeOK', SameRows, NoNewClaim, now' \in Nat, now <= now'
  PROVE  IInv'
<1>0. now \in Nat /\ nextId \in Nat /\ firing \subseteq Firing
  BY DEF IInv, TypeOK
<1>1. NothingInTheFuture'
  <2>1. ASSUME NEW id \in Ids, Exists(id)' PROVE schedule'[id].lastRun <= now'
    <3>1. Exists(id) /\ schedule[id] \in Row
      BY <2>1 DEF SameRows, IInv, TypeOK, Exists
    <3>. QED BY <1>0, <3>1 DEF SameRows, IInv, NothingInTheFuture, Row, NeverRun
  <2>2. ASSUME NEW e \in firing' PROVE e.at <= now'
    <3>1. e.at \in Nat
      BY DEF TypeOK, Firing
    <3>. QED BY <1>0, <3>1 DEF NoNewClaim, IInv, NothingInTheFuture
  <2>. QED BY <2>1, <2>2 DEF NothingInTheFuture
<1>2. IdsAreFresh'
  BY <1>0 DEF SameRows, NoNewClaim, IInv, IdsAreFresh
<1>3. NeverBurst'
  <2>1. \A id \in Ids : Exists(id)' => schedule'[id].next > schedule'[id].lastRun
    BY DEF SameRows, IInv, NeverBurst
  <2>2. ASSUME NEW e \in firing', e.claimed, Exists(e.id)' PROVE e.at < schedule'[e.id].next
    <3>1. e.id \in Ids
      BY <2>2 DEF Exists
    <3>2. PICK f \in firing : e.id = f.id /\ e.at = f.at /\ e.claimed = f.claimed
      BY <2>2 DEF NoNewClaim
    <3>. QED BY <2>2, <3>1, <3>2 DEF SameRows, IInv, NeverBurst
  <2>. QED BY <2>1, <2>2 DEF NeverBurst
<1>4. OnRhythm'
  BY DEF SameRows, IInv, OnRhythm
<1>5. OneSchedulePerSync'
  BY DEF SameRows, IInv, OneSchedulePerSync
<1>. QED BY <1>1, <1>2, <1>3, <1>4, <1>5 DEF IInv, NoNewClaim

LEMMA SameFiring ==
  ASSUME IInv, UNCHANGED firing
  PROVE  NoNewClaim
BY DEF NoNewClaim, IInv, OneFirePerMoment

LEMMA SameSchedule ==
  ASSUME UNCHANGED <<schedule, nextId, anchor>>
  PROVE  SameRows
BY DEF SameRows, Exists

LEMMA AdvanceStep ==
  ASSUME IInv, NEW e \in firing,
         \/ Ends(e)
         \/ \E phase \in {"succeeded", "failed", "noteSucceeded", "noteFailed"} : Advance(e, phase)
  PROVE  NoNewClaim
<1>1. CASE Ends(e)
  BY <1>1 DEF Ends, NoNewClaim, IInv, OneFirePerMoment
<1>2. ASSUME NEW phase \in {"succeeded", "failed", "noteSucceeded", "noteFailed"},
             Advance(e, phase)
      PROVE  NoNewClaim
  <2> DEFINE d == [e EXCEPT !.phase = phase]
  <2>1. e \in Firing /\ d \in Firing
    BY DEF IInv, TypeOK, Firing
  <2>2. d.id = e.id /\ d.at = e.at /\ d.claimed = e.claimed
    BY <2>1 DEF Firing
  <2>3. firing' = (firing \ {e}) \cup {d}
    BY <1>2 DEF Advance
  <2>. HIDE DEF d
  <2>4. \A g \in firing' : \E f \in firing : g.id = f.id /\ g.at = f.at /\ g.claimed = f.claimed
    BY <2>2, <2>3
  <2>5. OneFirePerMoment'
    BY <2>2, <2>3 DEF IInv, OneFirePerMoment
  <2>. QED BY <2>4, <2>5 DEF NoNewClaim
<1>. QED BY <1>1, <1>2

LEMMA RecadenceStep ==
  ASSUME IInv, TypeOK', NEW id \in Ids, Exists(id), NEW interval \in Intervals,
         NEW first \in Nat, NEW enabled \in BOOLEAN, Recadence(id, interval, first, enabled),
         UNCHANGED <<now, nextId, firing>>
  PROVE  IInv'
<1> DEFINE n == OnGrid(first, interval, now)
<1>0. /\ now \in Nat /\ interval \in Nat \ {0} /\ firing \subseteq Firing
      /\ schedule[id] \in Row
      /\ schedule \in [Ids -> Row \cup {NoRow}]
      /\ anchor \in [Ids -> Nat]
  BY IntervalsArePositive DEF IInv, TypeOK, Exists
<1>1. n \in Nat /\ n > now
  BY <1>0, OnGridAhead
<1>2. \E k \in 0..n : n = first + k * interval
  BY <1>0, <1>1, OnGridOnGrid, MultiplesAreBounded
<1>3. /\ schedule'[id].next = n
      /\ schedule'[id].interval = interval
      /\ schedule'[id].target = schedule[id].target
      /\ schedule'[id].lastRun = schedule[id].lastRun
      /\ anchor'[id] = first
      /\ Exists(id)'
  <2>1. schedule'[id] = [schedule[id] EXCEPT !.interval = interval, !.next = n,
                                             !.enabled = enabled]
    BY <1>0 DEF Recadence
  <2>2. schedule'[id] # NoRow
    <3> DEFINE r == [schedule[id] EXCEPT !.interval = interval, !.next = n, !.enabled = enabled]
    <3>1. r \in Row
      BY <1>0, <1>1 DEF Row
    <3>. QED BY <2>1, <3>1, NoRowIsNoRow
  <2>3. /\ schedule'[id].next = n /\ schedule'[id].interval = interval
        /\ schedule'[id].target = schedule[id].target
        /\ schedule'[id].lastRun = schedule[id].lastRun
    BY <1>0, <2>1 DEF Row
  <2>4. anchor'[id] = first
    BY <1>0 DEF Recadence
  <2>. QED BY <2>2, <2>3, <2>4 DEF Exists
<1>4. \A j \in Ids : j # id => /\ schedule'[j] = schedule[j]
                             /\ anchor'[j] = anchor[j]
                             /\ (Exists(j)' <=> Exists(j))
  BY <1>0 DEF Recadence, Exists
<1>. HIDE DEF n
<1>5. ASSUME NEW j \in Ids PROVE Exists(j)' <=> Exists(j)
  BY <1>3, <1>4
<1>6. NothingInTheFuture'
  BY <1>3, <1>4, <1>5 DEF IInv, NothingInTheFuture
<1>7. IdsAreFresh'
  BY <1>5 DEF IInv, IdsAreFresh
<1>8. NeverBurst'
  <2>1. schedule[id].lastRun <= now /\ schedule[id].lastRun \in Nat \cup {NeverRun}
    BY <1>0 DEF IInv, NothingInTheFuture, Row
  <2>2. \A e \in firing : e.at \in Nat /\ e.at <= now
    BY <1>0 DEF IInv, NothingInTheFuture, Firing
  <2>3. \A j \in Ids : Exists(j)' => schedule'[j].next > schedule'[j].lastRun
    BY <1>0, <1>1, <1>3, <1>4, <2>1 DEF IInv, NeverBurst, NeverRun
  <2>4. ASSUME NEW e \in firing, e.claimed, Exists(e.id)' PROVE e.at < schedule'[e.id].next
    <3>1. e.id \in Ids
      BY <2>4 DEF Exists
    <3>. QED BY <1>0, <1>1, <1>3, <1>4, <2>2, <2>4, <3>1 DEF IInv, NeverBurst
  <2>. QED BY <2>3, <2>4 DEF NeverBurst
<1>9. OnRhythm'
  BY <1>2, <1>3, <1>4 DEF IInv, OnRhythm
<1>10. OneSchedulePerSync'
  BY <1>3, <1>4, <1>5 DEF IInv, OneSchedulePerSync
<1>. QED BY <1>6, <1>7, <1>8, <1>9, <1>10 DEF IInv, OneFirePerMoment

LEMMA DeleteRowsStep ==
  ASSUME IInv, TypeOK', NEW ids, DeleteRows(ids), UNCHANGED <<now, nextId, firing, anchor>>
  PROVE  IInv'
<1>1. \A id \in Ids : Exists(id)' => Exists(id) /\ schedule'[id] = schedule[id]
  BY DEF DeleteRows, Exists
<1>2. NothingInTheFuture' /\ IdsAreFresh' /\ OnRhythm'
  BY <1>1 DEF IInv, NothingInTheFuture, IdsAreFresh, OnRhythm
<1>3. NeverBurst'
  <2>1. \A e \in firing : Exists(e.id)' => e.id \in Ids
    BY DEF Exists
  <2>. QED BY <1>1, <2>1 DEF IInv, NeverBurst
<1>4. OneSchedulePerSync'
  BY <1>1 DEF IInv, OneSchedulePerSync
<1>. QED BY <1>2, <1>3, <1>4 DEF IInv, OneFirePerMoment

LEMMA InsertStep ==
  ASSUME IInv, TypeOK', NEW c \in Clients, NEW interval \in Intervals,
         NEW first \in Nat, Insert(c, interval, first)
  PROVE  IInv'
<1> DEFINE n == OnGrid(first, interval, now)
           s == request[c].sync
<1>0. /\ now \in Nat /\ interval \in Nat \ {0} /\ firing \subseteq Firing
      /\ schedule \in [Ids -> Row \cup {NoRow}]
      /\ anchor \in [Ids -> Nat]
      /\ nextId \in Ids /\ nextId' = nextId + 1
      /\ UNCHANGED <<now, firing>>
  BY IntervalsArePositive, BoundsAreNaturals DEF IInv, TypeOK, Insert, Ids
<1>1. n \in Nat /\ n > now
  BY <1>0, OnGridAhead
<1>2. \E k \in 0..n : n = first + k * interval
  BY <1>0, <1>1, OnGridOnGrid, MultiplesAreBounded
<1>3. /\ schedule'[nextId].next = n
      /\ schedule'[nextId].interval = interval
      /\ schedule'[nextId].target = s
      /\ schedule'[nextId].lastRun = NeverRun
      /\ anchor'[nextId] = first
  BY <1>0 DEF Insert
<1>4. \A j \in Ids : j # nextId => /\ schedule'[j] = schedule[j]
                                 /\ anchor'[j] = anchor[j]
                                 /\ (Exists(j)' <=> Exists(j))
  BY <1>0 DEF Insert, Exists
<1>5. \A j \in Ids : Exists(j) => schedule[j].target # s /\ j # nextId
  BY <1>0 DEF Insert, IndexAllows, ScheduleOf, IInv, IdsAreFresh, Ids
<1>. HIDE DEF n, s
<1>6. NothingInTheFuture'
  BY <1>0, <1>3, <1>4 DEF IInv, NothingInTheFuture, NeverRun
<1>7. IdsAreFresh'
  <2>1. \A e \in firing : e.id \in Nat
    BY <1>0 DEF Firing, Ids
  <2>. QED BY <1>0, <1>4, <2>1 DEF IInv, IdsAreFresh, Ids
<1>8. NeverBurst'
  <2>1. \A j \in Ids : Exists(j)' => schedule'[j].next > schedule'[j].lastRun
    BY <1>1, <1>3, <1>4 DEF IInv, NeverBurst, NeverRun
  <2>2. ASSUME NEW e \in firing, e.claimed, Exists(e.id)' PROVE e.at < schedule'[e.id].next
    <3>1. e.id \in Ids /\ e.id # nextId
      BY <1>0, <2>2 DEF Exists, IInv, IdsAreFresh, Ids
    <3>. QED BY <1>4, <2>2, <3>1 DEF IInv, NeverBurst
  <2>. QED BY <1>0, <2>1, <2>2 DEF NeverBurst
<1>9. OnRhythm'
  BY <1>2, <1>3, <1>4 DEF IInv, OnRhythm
<1>10. OneSchedulePerSync'
  BY <1>3, <1>4, <1>5 DEF IInv, OneSchedulePerSync
<1>. QED BY <1>0, <1>6, <1>7, <1>8, <1>9, <1>10 DEF IInv, OneFirePerMoment

LEMMA ClaimStep ==
  ASSUME IInv, TypeOK', NEW i \in Instances, Claim(i)
  PROVE  IInv'
<1> DEFINE id == Head(due[i])
           d == [id |-> id, inst |-> i, at |-> schedule[id].next, claimed |-> TRUE,
                 phase |-> "sync"]
           n == NextAfterClaim(schedule[id])
<1>1. CASE ~Claimable(id)
  <2>1. UNCHANGED <<schedule, firing, now, nextId, anchor>>
    BY <1>1 DEF Claim, asked
  <2>2. SameRows /\ NoNewClaim
    BY <2>1, SameSchedule, SameFiring
  <2>3. now \in Nat /\ now <= now'
    BY <2>1 DEF IInv, TypeOK
  <2>. QED BY <2>1, <2>2, <2>3, SameRowsStep
<1>2. CASE Claimable(id)
  <2>0. /\ id \in Ids /\ Exists(id) /\ schedule[id] \in Row
        /\ now \in Nat /\ firing \subseteq Firing
        /\ schedule \in [Ids -> Row \cup {NoRow}]
        /\ UNCHANGED <<now, nextId, anchor>>
    BY <1>2 DEF Claimable, Exists, IInv, TypeOK, Claim, asked
  <2>1. /\ schedule[id].next \in Nat /\ schedule[id].next <= now
        /\ schedule[id].interval \in Nat \ {0}
        /\ anchor[id] \in Nat
    BY <1>2, <2>0, IntervalsArePositive DEF Claimable, Row, IInv, TypeOK
  <2>2. n \in Nat /\ n > now
    BY <2>0, <2>1, OnGridAhead DEF NextAfterClaim
  <2>3. \E k \in 0..n : n = anchor[id] + k * schedule[id].interval
    <3>1. PICK k \in 0..schedule[id].next :
             schedule[id].next = anchor[id] + k * schedule[id].interval
      BY <2>0 DEF IInv, OnRhythm
    <3>2. \E m \in Nat : n = anchor[id] + m * schedule[id].interval
      <4>1. n = OnGrid(anchor[id] + k * schedule[id].interval, schedule[id].interval, now)
        BY <3>1 DEF NextAfterClaim
      <4>2. k \in Nat
        BY <2>1
      <4>3. \E m \in Nat : OnGrid(anchor[id] + k * schedule[id].interval, schedule[id].interval, now)
                            = anchor[id] + m * schedule[id].interval
        BY <2>0, <2>1, <4>2, RhythmIsKept
      <4>. QED BY <4>1, <4>3
    <3>. QED BY <2>1, <2>2, <3>2, MultiplesAreBounded
  <2>4. /\ schedule' = [schedule EXCEPT ![id].next = n, ![id].lastRun = now]
        /\ firing' = firing \cup {d}
    BY <1>2 DEF Claim
  <2>5. /\ schedule'[id].next = n
        /\ schedule'[id].lastRun = now
        /\ schedule'[id].interval = schedule[id].interval
        /\ schedule'[id].target = schedule[id].target
    <3>1. schedule'[id] = [schedule[id] EXCEPT !.next = n, !.lastRun = now]
      BY <2>0, <2>4
    <3>. QED BY <2>0, <3>1 DEF Row
  <2>6. \A j \in Ids : j # id => schedule'[j] = schedule[j]
    BY <2>0, <2>4
  <2>7. ASSUME NEW j \in Ids PROVE Exists(j)' => Exists(j)
    BY <2>0, <2>6 DEF Exists
  <2>8. d.id = id /\ d.at = schedule[id].next /\ d.claimed
    OBVIOUS
  <2>. HIDE DEF d, n, id
  <2>9. NothingInTheFuture'
    <3>1. ASSUME NEW j \in Ids, Exists(j)' PROVE schedule'[j].lastRun <= now
      BY <2>0, <2>5, <2>6, <2>7, <3>1 DEF IInv, NothingInTheFuture
    <3>2. ASSUME NEW e \in firing' PROVE e.at <= now
      BY <2>1, <2>4, <2>8 DEF IInv, NothingInTheFuture
    <3>. QED BY <2>0, <3>1, <3>2 DEF NothingInTheFuture
  <2>10. IdsAreFresh'
    BY <2>0, <2>4, <2>7, <2>8 DEF IInv, IdsAreFresh
  <2>11. NeverBurst'
    <3>1. \A j \in Ids : Exists(j)' => schedule'[j].next > schedule'[j].lastRun
      BY <2>2, <2>5, <2>6, <2>7 DEF IInv, NeverBurst
    <3>2. ASSUME NEW e \in firing', e.claimed, Exists(e.id)' PROVE e.at < schedule'[e.id].next
      <4>1. e.id \in Ids /\ Exists(e.id)
        BY <2>7, <3>2 DEF Exists
      <4>2. CASE e.id = id
        <5>1. e.at \in Nat /\ e.at <= now
          BY <2>0, <2>1, <2>4, <2>8 DEF IInv, NothingInTheFuture, Firing
        <5>. QED BY <2>0, <2>2, <2>5, <4>2, <5>1
      <4>3. CASE e.id # id
        <5>1. e \in firing
          BY <2>4, <2>8, <4>3
        <5>. QED BY <2>6, <3>2, <4>1, <4>3, <5>1 DEF IInv, NeverBurst
      <4>. QED BY <4>2, <4>3
    <3>. QED BY <3>1, <3>2 DEF NeverBurst
  <2>12. OneFirePerMoment'
    <3>1. \A e \in firing : e.claimed /\ e.id = id => e.at # schedule[id].next
      BY <2>0, <2>1 DEF IInv, NeverBurst, Firing
    <3>. QED BY <2>4, <2>8, <3>1 DEF IInv, OneFirePerMoment
  <2>13. OnRhythm'
    BY <2>0, <2>3, <2>5, <2>6, <2>7 DEF IInv, OnRhythm
  <2>14. OneSchedulePerSync'
    BY <2>0, <2>5, <2>6, <2>7 DEF IInv, OneSchedulePerSync
  <2>. QED BY <2>9, <2>10, <2>11, <2>12, <2>13, <2>14 DEF IInv
<1>. QED BY <1>1, <1>2

LEMMA InvariantStep == IInv /\ [Next]_vars => IInv'
<1> SUFFICES ASSUME IInv, [Next]_vars PROVE IInv'
  OBVIOUS
<1>0. /\ TypeOK /\ TypeOK' /\ now \in Nat /\ now <= now
  BY TypeStep DEF IInv, TypeOK
<1>1. ASSUME NEW c \in Clients, RequestStep(c) PROVE IInv'
  <2>0. ASSUME UNCHANGED <<schedule, firing, now, nextId, anchor>> PROVE IInv'
    BY <1>0, <2>0, SameSchedule, SameFiring, SameRowsStep
  <2>1. ASSUME NEW s \in Syncs, NEW manual \in BOOLEAN,
               AskSetSync(c, s, manual) \/ AskCreate(c, s)
        PROVE  IInv'
    BY <2>0, <2>1 DEF AskSetSync, AskCreate
  <2>6. CASE DeleteSyncRow(c) \/ Refused(c)
    BY <2>0, <2>6 DEF DeleteSyncRow, Refused
  <2>2. ASSUME NEW s \in Syncs, DeleteScheduleOfSync(c, s) PROVE IInv'
    BY <1>0, <2>2, DeleteRowsStep DEF DeleteScheduleOfSync
  <2>3. ASSUME NEW interval \in Intervals, NEW first \in FirstRuns(interval),
               Insert(c, interval, first)
        PROVE  IInv'
    BY <1>0, <2>3, FirstRunsAreMoments, InsertStep
  <2>4. ASSUME NEW interval \in Intervals, NEW first \in FirstRuns(interval),
               UpdateForSync(c, interval, first)
        PROVE  IInv'
    <3>1. first \in Nat /\ request[c].id \in Ids
      BY <1>0, <2>4, FirstRunsAreMoments DEF UpdateForSync, Exists
    <3>. QED BY <1>0, <2>4, <3>1, RecadenceStep DEF UpdateForSync
  <2>5. CASE DeleteForSync(c)
    BY <1>0, <2>5, DeleteRowsStep DEF DeleteForSync
  <2>. QED BY <1>1, <2>1, <2>2, <2>3, <2>4, <2>5, <2>6 DEF RequestStep
<1>2. ASSUME NEW id \in Ids, EditStep(id) PROVE IInv'
  <2>1. ASSUME NEW interval \in Intervals, NEW enabled \in BOOLEAN,
               NEW first \in FirstRuns(interval), ChangeCadence(id, interval, first, enabled)
        PROVE  IInv'
    <3>1. first \in Nat
      BY <1>0, FirstRunsAreMoments
    <3>. QED BY <1>0, <2>1, <3>1, RecadenceStep DEF ChangeCadence, asked
  <2>2. ASSUME NEW first \in Starts, MoveFirstRun(id, first) PROVE IInv'
    <3>1. /\ first \in Nat
          /\ schedule[id].interval \in Intervals
          /\ schedule[id].enabled \in BOOLEAN
      BY <1>0, <2>2, StartsAreMoments DEF MoveFirstRun, Exists, TypeOK, Row
    <3>. QED BY <1>0, <2>2, <3>1, RecadenceStep DEF MoveFirstRun, asked
  <2>3. ASSUME NEW enabled \in BOOLEAN, SetEnabled(id, enabled) PROVE IInv'
    <3>1. schedule[id] \in Row
      BY <1>0, <2>3 DEF SetEnabled, Exists, TypeOK
    <3>2. SameRows
      BY <1>0, <2>3, <3>1, NoRowIsNoRow DEF SetEnabled, SameRows, Exists, TypeOK, Row, asked
    <3>3. UNCHANGED <<now, firing>>
      BY <2>3 DEF SetEnabled
    <3>. QED BY <1>0, <3>2, <3>3, SameFiring, SameRowsStep
  <2>4. CASE DeleteSchedule(id)
    BY <1>0, <2>4, DeleteRowsStep DEF DeleteSchedule, asked
  <2>. QED BY <1>2, <2>1, <2>2, <2>3, <2>4 DEF EditStep
<1>3. ASSUME NEW i \in Instances, LoopStep(i) \/ TickFails(i) \/ Crash(i) \/ Boot(i)
      PROVE  IInv'
  <2>1. CASE Claim(i)
    BY <1>0, <2>1, ClaimStep
  <2>2. CASE Tick(i) \/ TickEnds(i) \/ TickFails(i) \/ Boot(i)
    <3>1. UNCHANGED <<schedule, firing, now, nextId, anchor>>
      BY <2>2 DEF Tick, TickEnds, TickFails, Boot, asked
    <3>. QED BY <1>0, <3>1, SameSchedule, SameFiring, SameRowsStep
  <2>3. CASE Crash(i)
    <3>1. UNCHANGED <<schedule, now, nextId, anchor>> /\ firing' \subseteq firing
      BY <2>3 DEF Crash, asked
    <3>2. NoNewClaim
      BY <3>1 DEF NoNewClaim, IInv, OneFirePerMoment
    <3>. QED BY <1>0, <3>1, <3>2, SameSchedule, SameRowsStep
  <2>. QED BY <1>3, <2>1, <2>2, <2>3 DEF LoopStep
<1>4. ASSUME NEW i \in Instances, NEW id \in Ids, RunNow(i, id) PROVE IInv'
  <2>1. UNCHANGED <<schedule, now, nextId, anchor>>
    BY <1>4 DEF RunNow, asked
  <2>2. id < nextId
    BY <1>4 DEF RunNow, IInv, IdsAreFresh
  <2>3. NoNewClaim
    BY <1>0, <1>4, <2>1, <2>2 DEF RunNow, NoNewClaim, IInv, OneFirePerMoment
  <2>. QED BY <1>0, <2>1, <2>3, SameSchedule, SameRowsStep
<1>5. ASSUME NEW e \in firing, ExecutionStep(e) \/ ExecutionThrows(e) PROVE IInv'
  <2>1. NoNewClaim
    BY <1>5, AdvanceStep DEF ExecutionStep, SyncEnds, Record, Note, ExecutionThrows
  <2>2. UNCHANGED now
    BY <1>5 DEF ExecutionStep, SyncEnds, Record, Note, ExecutionThrows
  <2>3. SameRows
    <3>1. CASE Note(e)
      <4>1. CASE Exists(e.id)
        <5>1. e.id \in Ids /\ schedule[e.id] \in Row
          BY <1>0, <4>1 DEF Exists, TypeOK
        <5>2. PICK status \in {"succeeded", "failed"} :
                 schedule' = [schedule EXCEPT ![e.id].lastStatus = status]
          BY <3>1, <4>1 DEF Note
        <5> DEFINE r == [schedule[e.id] EXCEPT !.lastStatus = status]
        <5>3. /\ r \in Row /\ r # NoRow
              /\ r.target = schedule[e.id].target /\ r.interval = schedule[e.id].interval
              /\ r.next = schedule[e.id].next /\ r.lastRun = schedule[e.id].lastRun
          BY <5>1, NoRowIsNoRow DEF Row
        <5>4. schedule'[e.id] = r /\ \A j \in Ids \ {e.id} : schedule'[j] = schedule[j]
          BY <1>0, <5>1, <5>2 DEF TypeOK
        <5>. HIDE DEF r
        <5>. QED BY <3>1, <4>1, <5>3, <5>4 DEF Note, SameRows, Exists, asked
      <4>2. CASE ~Exists(e.id)
        BY <3>1, <4>2, SameSchedule DEF Note, asked
      <4>. QED BY <4>1, <4>2
    <3>2. CASE SyncEnds(e) \/ Record(e) \/ ExecutionThrows(e)
      BY <3>2, SameSchedule DEF SyncEnds, Record, ExecutionThrows, asked
    <3>. QED BY <1>5, <3>1, <3>2 DEF ExecutionStep
  <2>. QED BY <1>0, <2>1, <2>2, <2>3, SameRowsStep
<1>6. CASE TimePasses
  <2>1. UNCHANGED <<schedule, firing, nextId, anchor>> /\ now' = now + 1
    BY <1>6 DEF TimePasses, asked
  <2>. QED BY <1>0, <2>1, SameSchedule, SameFiring, SameRowsStep
<1>7. CASE UNCHANGED vars
  <2>1. UNCHANGED <<schedule, firing, now, nextId, anchor>>
    BY <1>7 DEF vars
  <2>. QED BY <1>0, <2>1, SameSchedule, SameFiring, SameRowsStep
<1>. QED BY <1>1, <1>2, <1>3, <1>4, <1>5, <1>6, <1>7 DEF Next

LEMMA Invariance == Spec => []IInv
<1>1. Init => IInv
  <2>1. Init => TypeOK
    BY BoundsAreNaturals DEF Init, TypeOK, Ids
  <2>. QED BY <2>1 DEF Init, IInv, NothingInTheFuture, IdsAreFresh, OneFirePerMoment,
                       NeverBurst, OnRhythm, OneSchedulePerSync, Exists
<1>. QED BY <1>1, InvariantStep, PTL DEF Spec

(* The claim is the fire: with any number of instances and ticks, no due    *)
(* moment of a schedule is run twice.                                       *)
THEOREM NoDoubleFire == Spec => []OneFirePerMoment
BY Invariance, PTL DEF IInv

(* Runs missed while the loop was late or down are not fired in a burst.    *)
THEOREM NoBurst == Spec => []NeverBurst
BY Invariance, PTL DEF IInv

(* A schedule keeps the rhythm of the first run it was given.               *)
THEOREM RhythmKept == Spec => []OnRhythm
BY Invariance, PTL DEF IInv

(* However requests interleave, a sync never has two schedules.             *)
THEOREM OneCadence == Spec => []OneSchedulePerSync
BY Invariance, PTL DEF IInv

------------------------------------------------------------------------------
(* The status beside a schedule.                                            *)

(* What most steps do to it: no schedule appears or changes its status, no  *)
(* record goes but with its schedule, and no execution begins a note.       *)
RecordsStand ==
  /\ \A id \in Ids : Exists(id)' => Exists(id) /\ schedule'[id].lastStatus = schedule[id].lastStatus
  /\ \A r \in runs : Exists(r.id)' => r \in runs'
  /\ \A e \in firing' : e.phase \in {"noteSucceeded", "noteFailed"} => e \in firing

LEMMA StandingRecords ==
  ASSUME TypeOK, NotesFollowRecords, StatusIsRecorded, RecordsStand
  PROVE  NotesFollowRecords' /\ StatusIsRecorded'
<1>1. ASSUME NEW e \in firing', Exists(e.id)', e.phase \in {"noteSucceeded", "noteFailed"}
      PROVE  [id |-> e.id, status |-> Outcome(e)] \in runs'
  <2>1. e \in firing /\ e.id \in Ids /\ Exists(e.id)
    BY <1>1 DEF RecordsStand, Exists
  <2>2. [id |-> e.id, status |-> Outcome(e)] \in runs
    BY <1>1, <2>1 DEF NotesFollowRecords
  <2>. QED BY <1>1, <2>2 DEF RecordsStand
<1>2. ASSUME NEW id \in Ids, Exists(id)', schedule'[id].lastStatus # "none"
      PROVE  \E r \in runs' : r.id = id /\ r.status = schedule'[id].lastStatus
  <2>1. PICK r \in runs : r.id = id /\ r.status = schedule[id].lastStatus
    BY <1>2 DEF RecordsStand, StatusIsRecorded
  <2>. QED BY <1>2, <2>1 DEF RecordsStand
<1>. QED BY <1>1, <1>2 DEF NotesFollowRecords, StatusIsRecorded, Outcome

(* A change of one row that keeps its status.                               *)
LEMMA StatusKept ==
  ASSUME TypeOK, NEW id \in Ids, Exists(id), NEW r \in Row, r.lastStatus = schedule[id].lastStatus,
         schedule' = [schedule EXCEPT ![id] = r], UNCHANGED <<runs, firing>>
  PROVE  RecordsStand
BY DEF TypeOK, Exists, RecordsStand

LEMMA RecadenceKeepsStatus ==
  ASSUME TypeOK, NEW id \in Ids, Exists(id), NEW interval \in Intervals, NEW first \in Nat,
         NEW enabled \in BOOLEAN, Recadence(id, interval, first, enabled), UNCHANGED <<runs, firing>>
  PROVE  RecordsStand
<1>1. schedule[id] \in Row
  BY DEF TypeOK, Exists
<1>2. OnGrid(first, interval, now) \in Nat
  BY OnGridAhead, IntervalsArePositive DEF TypeOK
<1> DEFINE r == [schedule[id] EXCEPT !.interval = interval, !.next = OnGrid(first, interval, now),
                                     !.enabled = enabled]
<1>3. r \in Row /\ r.lastStatus = schedule[id].lastStatus
  BY <1>1, <1>2 DEF Row
<1>4. schedule' = [schedule EXCEPT ![id] = r]
  BY <1>1, <1>2 DEF Recadence, TypeOK
<1>. HIDE DEF r
<1>. QED BY <1>3, <1>4, StatusKept

LEMMA DeleteRowsKeepsStatus ==
  ASSUME TypeOK, NEW ids, DeleteRows(ids), UNCHANGED firing
  PROVE  RecordsStand
BY DEF TypeOK, DeleteRows, Exists, RecordsStand

(* A new row has no status, and no execution notes one under its id.        *)
LEMMA NewRowHasNoStatus ==
  ASSUME IInv, NotesFollowRecords, StatusIsRecorded, NEW c \in Clients,
         NEW interval \in Intervals, NEW first \in FirstRuns(interval), Insert(c, interval, first)
  PROVE  NotesFollowRecords' /\ StatusIsRecorded'
<1>1. /\ nextId \in Ids /\ schedule'[nextId].lastStatus = "none"
      /\ \A id \in Ids \ {nextId} : schedule'[id] = schedule[id]
      /\ UNCHANGED <<firing, runs>>
  BY BoundsAreNaturals DEF Insert, IInv, TypeOK, Ids
<1>2. \A e \in firing : e.id # nextId
  BY DEF IInv, TypeOK, IdsAreFresh, Firing, Ids
<1>3. NotesFollowRecords'
  BY <1>1, <1>2 DEF NotesFollowRecords, Exists, Outcome
<1>4. ASSUME NEW id \in Ids, Exists(id)', schedule'[id].lastStatus # "none"
      PROVE  \E r \in runs' : r.id = id /\ r.status = schedule'[id].lastStatus
  BY <1>1, <1>4 DEF StatusIsRecorded, Exists
<1>. QED BY <1>3, <1>4 DEF StatusIsRecorded

(* A claim begins an execution, which has nothing to note yet.              *)
LEMMA ClaimKeepsStatus ==
  ASSUME TypeOK, NEW i \in Instances, Claim(i)
  PROVE  RecordsStand
<1> DEFINE id == Head(due[i])
<1>1. CASE ~Claimable(id)
  BY <1>1 DEF Claim, RecordsStand, Exists
<1>2. CASE Claimable(id)
  <2>1. id \in Ids /\ schedule[id] \in Row /\ Exists(id) /\ now \in Nat
    BY <1>2 DEF Claimable, Exists, TypeOK
  <2>2. /\ schedule'[id].lastStatus = schedule[id].lastStatus
        /\ \A j \in Ids \ {id} : schedule'[j] = schedule[j]
    BY <1>2, <2>1 DEF Claim, TypeOK, Row
  <2>3. UNCHANGED runs /\ \A e \in firing' \ firing : e.phase = "sync"
    BY <1>2 DEF Claim
  <2>. QED BY <2>1, <2>2, <2>3 DEF RecordsStand, Exists
<1>. QED BY <1>1, <1>2

(* The record comes before the note, and the note says what it says.        *)
LEMMA RecordKeepsStatus ==
  ASSUME TypeOK, NotesFollowRecords, StatusIsRecorded, NEW e \in firing, Record(e)
  PROVE  NotesFollowRecords' /\ StatusIsRecorded'
<1>1. e \in Firing /\ UNCHANGED schedule /\ runs \subseteq runs'
  BY DEF TypeOK, Record
<1> DEFINE phase == IF e.phase = "succeeded" THEN "noteSucceeded" ELSE "noteFailed"
           g == [e EXCEPT !.phase = phase]
<1>2. /\ firing' = (firing \ {e}) \cup {g}
      /\ [id |-> e.id, status |-> e.phase] \in runs'
      /\ e.phase \in {"succeeded", "failed"}
  BY DEF Record, Advance
<1>3. g.id = e.id /\ g.phase = phase /\ Outcome(g) = e.phase
  BY <1>1, <1>2 DEF Firing, Outcome
<1>4. [id |-> g.id, status |-> Outcome(g)] \in runs'
  BY <1>2, <1>3
<1>. HIDE DEF g
<1>5. ASSUME NEW f \in firing', Exists(f.id)', f.phase \in {"noteSucceeded", "noteFailed"}
      PROVE  [id |-> f.id, status |-> Outcome(f)] \in runs'
  <2>1. CASE f = g
    BY <1>4, <2>1
  <2>2. CASE f \in firing
    BY <1>1, <1>5, <2>2 DEF NotesFollowRecords, Exists
  <2>. QED BY <1>2, <2>1, <2>2
<1>6. StatusIsRecorded'
  BY <1>1 DEF StatusIsRecorded, Exists
<1>. QED BY <1>5, <1>6 DEF NotesFollowRecords, Outcome

LEMMA NoteKeepsStatus ==
  ASSUME TypeOK, NotesFollowRecords, StatusIsRecorded, NEW e \in firing, Note(e)
  PROVE  NotesFollowRecords' /\ StatusIsRecorded'
<1>1. e \in Firing /\ UNCHANGED runs /\ firing' \subseteq firing
  BY DEF TypeOK, Note, Ends
<1>2. CASE ~Exists(e.id)
  <2>1. UNCHANGED schedule
    BY <1>2 DEF Note
  <2>. QED BY <1>1, <2>1 DEF NotesFollowRecords, StatusIsRecorded, Exists, Outcome
<1>3. CASE Exists(e.id)
  <2>1. e.id \in Ids /\ schedule[e.id] \in Row
    BY <1>3 DEF Exists, TypeOK
  <2>2. schedule' = [schedule EXCEPT ![e.id].lastStatus = Outcome(e)]
    BY <1>3 DEF Note, Outcome
  <2>3. /\ schedule'[e.id].lastStatus = Outcome(e)
        /\ \A id \in Ids \ {e.id} : schedule'[id] = schedule[id]
    BY <2>1, <2>2 DEF TypeOK, Row
  <2>4. [id |-> e.id, status |-> Outcome(e)] \in runs
    BY <1>3 DEF Note, NotesFollowRecords
  <2>5. \A id \in Ids : Exists(id)' => Exists(id)
    BY <1>3, <2>1, <2>3 DEF Exists
  <2>6. NotesFollowRecords'
    <3>1. \A f \in firing' : f \in firing /\ (Exists(f.id)' => Exists(f.id))
      BY <1>1, <2>5 DEF Exists
    <3>. QED BY <1>1, <3>1 DEF NotesFollowRecords, Outcome
  <2>7. ASSUME NEW id \in Ids, Exists(id)', schedule'[id].lastStatus # "none"
        PROVE  \E r \in runs' : r.id = id /\ r.status = schedule'[id].lastStatus
    <3>1. CASE id = e.id
      <4> DEFINE r == [id |-> e.id, status |-> Outcome(e)]
      <4>1. r \in runs' /\ r.id = id /\ r.status = schedule'[id].lastStatus
        BY <1>1, <2>3, <2>4, <3>1
      <4>. QED BY <4>1
    <3>2. CASE id # e.id
      BY <1>1, <2>3, <2>5, <2>7, <3>2 DEF StatusIsRecorded
    <3>. QED BY <3>1, <3>2
  <2>. QED BY <2>6, <2>7 DEF StatusIsRecorded
<1>. QED BY <1>2, <1>3

LEMMA RecordsStep ==
  ASSUME IInv, NotesFollowRecords, StatusIsRecorded, [Next]_vars
  PROVE  NotesFollowRecords' /\ StatusIsRecorded'
<1>0. TypeOK
  BY DEF IInv
<1> DEFINE Good == NotesFollowRecords' /\ StatusIsRecorded'
<1>1. ASSUME RecordsStand PROVE Good
  BY <1>0, <1>1, StandingRecords
<1>2. ASSUME UNCHANGED <<schedule, runs>>,
             \A e \in firing' : e.phase \in {"noteSucceeded", "noteFailed"} => e \in firing
      PROVE  Good
  BY <1>1, <1>2 DEF RecordsStand, Exists
<1>3. ASSUME NEW c \in Clients, RequestStep(c) PROVE Good
  <2>1. ASSUME NEW interval \in Intervals, NEW first \in FirstRuns(interval),
               Insert(c, interval, first)
        PROVE  Good
    BY <2>1, NewRowHasNoStatus
  <2>2. ASSUME NEW interval \in Intervals, NEW first \in FirstRuns(interval),
               UpdateForSync(c, interval, first)
        PROVE  Good
    <3>1. first \in Nat /\ request[c].id \in Ids
      BY <1>0, <2>2, FirstRunsAreMoments DEF UpdateForSync, Exists
    <3>. QED BY <1>0, <1>1, <2>2, <3>1, RecadenceKeepsStatus DEF UpdateForSync
  <2>3. ASSUME NEW s \in Syncs, DeleteScheduleOfSync(c, s) PROVE Good
    BY <1>0, <1>1, <2>3, DeleteRowsKeepsStatus DEF DeleteScheduleOfSync
  <2>4. CASE DeleteForSync(c)
    BY <1>0, <1>1, <2>4, DeleteRowsKeepsStatus DEF DeleteForSync
  <2>5. ASSUME NEW s \in Syncs, NEW manual \in BOOLEAN,
               AskSetSync(c, s, manual) \/ AskCreate(c, s)
        PROVE  Good
    BY <1>2, <2>5 DEF AskSetSync, AskCreate
  <2>6. CASE DeleteSyncRow(c) \/ Refused(c)
    BY <1>2, <2>6 DEF DeleteSyncRow, Refused
  <2>. QED BY <1>3, <2>1, <2>2, <2>3, <2>4, <2>5, <2>6 DEF RequestStep
<1>4. ASSUME NEW id \in Ids, EditStep(id) PROVE Good
  <2>1. ASSUME NEW interval \in Intervals, NEW enabled \in BOOLEAN,
               NEW first \in FirstRuns(interval), ChangeCadence(id, interval, first, enabled)
        PROVE  Good
    BY <1>0, <1>1, <2>1, FirstRunsAreMoments, RecadenceKeepsStatus DEF ChangeCadence
  <2>2. ASSUME NEW first \in Starts, MoveFirstRun(id, first) PROVE Good
    <3>1. /\ first \in Nat /\ schedule[id].interval \in Intervals
          /\ schedule[id].enabled \in BOOLEAN
      BY <1>0, <2>2, StartsAreMoments DEF MoveFirstRun, Exists, TypeOK, Row
    <3>. QED BY <1>0, <1>1, <2>2, <3>1, RecadenceKeepsStatus DEF MoveFirstRun
  <2>3. ASSUME NEW enabled \in BOOLEAN, SetEnabled(id, enabled) PROVE Good
    <3>1. schedule[id] \in Row /\ Exists(id) /\ UNCHANGED <<runs, firing>>
      BY <1>0, <2>3 DEF SetEnabled, Exists, TypeOK
    <3> DEFINE r == [schedule[id] EXCEPT !.enabled = enabled]
    <3>2. r \in Row /\ r.lastStatus = schedule[id].lastStatus
      BY <3>1 DEF Row
    <3>3. schedule' = [schedule EXCEPT ![id] = r]
      BY <1>0, <2>3, <3>1 DEF SetEnabled, TypeOK
    <3>. HIDE DEF r
    <3>. QED BY <1>0, <1>1, <3>1, <3>2, <3>3, StatusKept
  <2>4. CASE DeleteSchedule(id)
    BY <1>0, <1>1, <2>4, DeleteRowsKeepsStatus DEF DeleteSchedule
  <2>. QED BY <1>4, <2>1, <2>2, <2>3, <2>4 DEF EditStep
<1>5. ASSUME NEW i \in Instances, LoopStep(i) \/ TickFails(i) \/ Crash(i) \/ Boot(i) PROVE Good
  <2>1. CASE Claim(i)
    BY <1>0, <1>1, <2>1, ClaimKeepsStatus
  <2>2. CASE Tick(i) \/ TickEnds(i) \/ TickFails(i) \/ Crash(i) \/ Boot(i)
    BY <1>2, <2>2 DEF Tick, TickEnds, TickFails, Crash, Boot
  <2>. QED BY <1>5, <2>1, <2>2 DEF LoopStep
<1>6. ASSUME NEW i \in Instances, NEW id \in Ids, RunNow(i, id) PROVE Good
  BY <1>2, <1>6 DEF RunNow
<1>7. ASSUME NEW e \in firing, ExecutionStep(e) \/ ExecutionThrows(e) PROVE Good
  <2>1. CASE Record(e)
    BY <1>0, <2>1, RecordKeepsStatus
  <2>2. CASE Note(e)
    BY <1>0, <2>2, NoteKeepsStatus
  <2>3. CASE SyncEnds(e) \/ ExecutionThrows(e)
    <3>1. \A phase \in {"succeeded", "failed"} : [e EXCEPT !.phase = phase].phase = phase
      BY <1>0 DEF TypeOK, Firing
    <3>. QED BY <1>2, <2>3, <3>1 DEF SyncEnds, ExecutionThrows, Advance, Ends
  <2>. QED BY <1>7, <2>1, <2>2, <2>3 DEF ExecutionStep
<1>8. CASE TimePasses \/ UNCHANGED vars
  BY <1>2, <1>8 DEF TimePasses, vars
<1>. QED BY <1>3, <1>4, <1>5, <1>6, <1>7, <1>8 DEF Next

(* The status beside a schedule is one its recorded runs show, whichever    *)
(* statements failed and whoever deleted or made schedules in between.      *)
THEOREM StatusIsInTheHistory == Spec => []StatusIsRecorded
<1>1. Init => NotesFollowRecords /\ StatusIsRecorded
  BY DEF Init, NotesFollowRecords, StatusIsRecorded, Exists
<1>. QED BY <1>1, Invariance, RecordsStep, PTL DEF Spec

------------------------------------------------------------------------------
(* The loop only ever starts a run of an enabled schedule that is due, and  *)
(* moves it past the moment in the same step.                               *)
THEOREM FireOnlyWhatIsDue == Spec => ClaimIsTheFire
<1> DEFINE A == \A e \in firing' \ firing : e.claimed /\ e.phase = "sync" =>
                  /\ Due(e.id) /\ schedule[e.id].next = e.at
                  /\ schedule'[e.id].next > now
<1>1. ASSUME IInv, [Next]_vars PROVE A \/ UNCHANGED vars
  <2>1. ASSUME NEW i \in Instances, Claim(i) PROVE A
    <3> DEFINE id == Head(due[i])
    <3>1. CASE ~Claimable(id)
      BY <2>1, <3>1 DEF Claim
    <3>2. CASE Claimable(id)
      <4>1. id \in Ids /\ schedule[id] \in Row /\ now \in Nat
        BY <1>1, <3>2 DEF Claimable, Exists, IInv, TypeOK
      <4>2. NextAfterClaim(schedule[id]) > now
        BY <4>1, OnGridAhead, IntervalsArePositive DEF NextAfterClaim, Row
      <4>3. schedule'[id].next = NextAfterClaim(schedule[id])
        BY <1>1, <2>1, <3>2, <4>1 DEF Claim, IInv, TypeOK, Row
      <4>4. \A e \in firing' \ firing : e.id = id /\ e.at = schedule[id].next
        BY <2>1, <3>2 DEF Claim
      <4>. QED BY <3>2, <4>2, <4>3, <4>4 DEF Claimable, Due
    <3>. QED BY <3>1, <3>2
  <2>2. ASSUME NEW e \in firing, ExecutionStep(e) \/ ExecutionThrows(e) PROVE A
    <3>1. CASE firing' \subseteq firing
      BY <3>1
    <3>2. ASSUME NEW phase \in {"succeeded", "failed", "noteSucceeded", "noteFailed"},
                 Advance(e, phase)
          PROVE  A
      <4>1. e \in Firing
        BY <1>1 DEF IInv, TypeOK
      <4>2. [e EXCEPT !.phase = phase].phase # "sync"
        BY <4>1 DEF Firing
      <4>. QED BY <3>2, <4>2 DEF Advance
    <3>. QED BY <2>2, <3>1, <3>2
             DEF ExecutionStep, ExecutionThrows, SyncEnds, Record, Note, Ends
  <2>3. ASSUME NEW i \in Instances, NEW id \in Ids, RunNow(i, id) PROVE A
    BY <2>3 DEF RunNow
  <2>4. CASE firing' \subseteq firing
    BY <2>4
  <2>. QED BY <1>1, <2>1, <2>2, <2>3, <2>4
           DEF Next, RequestStep, AskCreate, DeleteScheduleOfSync, AskSetSync, Insert,
               UpdateForSync, DeleteForSync, DeleteSyncRow, Refused, EditStep, ChangeCadence,
               MoveFirstRun, SetEnabled, DeleteSchedule, LoopStep, Tick, TickEnds, TickFails,
               Crash, Boot, TimePasses, vars
<1>. QED BY <1>1, Invariance, PTL DEF Spec, ClaimIsTheFire
=============================================================================
