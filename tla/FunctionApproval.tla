-------------------------- MODULE FunctionApproval --------------------------
(* The functions of a space (functions.ts): drafted, edited, approved, run,  *)
(* retired. Every request reads the row first and writes it in a later       *)
(* statement, from what it read.                                             *)
EXTENDS Naturals, FiniteSets

CONSTANTS Names,        \* api names
          Texts,        \* definitions
          Clients, None,
          MaxFn, MaxAsks        \* bounds: functions ever made, requests

VARIABLES fn,           \* platform.function, by name
          runs,         \* platform.function_run, with the text that ran
          planned,      \* the texts the planner accepts, as the data is now
          approvals,    \* what was approved: <<function, text>>
          raced,        \* functions written from a row that had changed since
          job, nextFn, asked

vars == <<fn, runs, planned, approvals, raced, job, nextFn, asked>>

Row == [id: Nat \ {0}, text: Texts, status: {"proposed", "active", "rejected", "archived"}, version: Nat \ {0}]
Idle == [pc |-> "idle", name |-> None, row |-> None, text |-> None, preview |-> FALSE]

Init ==
    /\ fn = [n \in Names |-> None] /\ runs = {} /\ planned = Texts
    /\ approvals = {} /\ raced = {}
    /\ job = [c \in Clients |-> Idle] /\ nextFn = 1 /\ asked = 0

Asks(c, j) ==
    /\ job[c].pc = "idle" /\ asked < MaxAsks /\ asked' = asked + 1
    /\ job' = [job EXCEPT ![c] = j]
    /\ UNCHANGED <<fn, runs, planned, approvals, raced, nextFn>>
Reads(c, pc, n, text, preview) ==
    /\ fn[n] /= None
    /\ Asks(c, [pc |-> pc, name |-> n, row |-> fn[n], text |-> text, preview |-> preview])
Ends(c) == job' = [job EXCEPT ![c] = Idle]

(* The row the request read is still the one of that name, and unchanged.    *)
Still(c) == fn[job[c].name] /= None /\ fn[job[c].name].id = job[c].row.id
Races(c) == IF Still(c) /\ fn[job[c].name] /= job[c].row THEN raced \cup {job[c].row.id} ELSE raced

(* proposeFunction: the text is planned, the name is free.                   *)
AskPropose(c, n, text) ==
    /\ text \in planned /\ fn[n] = None
    /\ Asks(c, [pc |-> "propose", name |-> n, row |-> None, text |-> text, preview |-> FALSE])
(* The unique index refuses a name taken in between.                         *)
Propose(c) ==
    /\ job[c].pc = "propose"
    /\ IF fn[job[c].name] = None /\ nextFn <= MaxFn
       THEN /\ fn' = [fn EXCEPT ![job[c].name] = [id |-> nextFn, text |-> job[c].text, status |-> "proposed", version |-> 1]]
            /\ nextFn' = nextFn + 1
       ELSE UNCHANGED <<fn, nextFn>>
    /\ Ends(c) /\ UNCHANGED <<runs, planned, approvals, raced, asked>>

(* updateFunction: not while it is active. The text may be the one it had:   *)
(* then only its name or its parameters were edited.                         *)
Editable(row) == row.status /= "active"
AskUpdate(c, n, text) ==
    /\ fn[n] /= None /\ Editable(fn[n]) /\ text \in planned /\ Reads(c, "update", n, text, FALSE)
(* The version goes up by whether the text differs from the one read.        *)
Bump(text, read) == IF text /= read THEN 1 ELSE 0
Update(c) == LET n == job[c].name IN
    /\ job[c].pc = "update"
    /\ fn' = IF Still(c) THEN [fn EXCEPT ![n].text = job[c].text, ![n].version = @ + Bump(job[c].text, job[c].row.text)] ELSE fn
    /\ raced' = Races(c)
    /\ Ends(c) /\ UNCHANGED <<runs, planned, approvals, nextFn, asked>>

(* approveFunction: a draft or a rejected one, planned once more.            *)
AskApprove(c, n) ==
    /\ fn[n] /= None /\ fn[n].status \in {"proposed", "rejected"} /\ fn[n].text \in planned
    /\ Reads(c, "approve", n, fn[n].text, FALSE)
Approve(c) ==
    /\ job[c].pc = "approve"
    /\ fn' = IF Still(c) THEN [fn EXCEPT ![job[c].name].status = "active"] ELSE fn
    /\ approvals' = IF Still(c) THEN approvals \cup {<<job[c].row.id, job[c].row.text>>} ELSE approvals
    /\ raced' = Races(c)
    /\ Ends(c) /\ UNCHANGED <<runs, planned, nextFn, asked>>

(* setFunctionStatus, from whatever the status was.                          *)
AskSetStatus(c, n, status) == Reads(c, status, n, None, FALSE)
SetFunctionStatus(c) ==
    /\ job[c].pc \in {"rejected", "archived"}
    /\ fn' = IF Still(c) THEN [fn EXCEPT ![job[c].name].status = job[c].pc] ELSE fn
    /\ Ends(c) /\ UNCHANGED <<runs, planned, approvals, raced, nextFn, asked>>

(* deleteFunction: its runs go with it, its name is free.                    *)
AskDelete(c, n) == Reads(c, "delete", n, None, FALSE)
DeleteFunction(c) ==
    /\ job[c].pc = "delete"
    /\ fn' = IF Still(c) THEN [fn EXCEPT ![job[c].name] = None] ELSE fn
    /\ runs' = {r \in runs : r.id /= job[c].row.id}
    /\ Ends(c) /\ UNCHANGED <<planned, approvals, raced, nextFn, asked>>

(* runFunction: an active one, or a draft for a preview.                     *)
Runnable_Any(row, preview) == TRUE
Runnable(row, preview) == preview \/ row.status = "active"
AskRun(c, n, preview) ==
    /\ fn[n] /= None /\ Runnable(fn[n], preview) /\ Reads(c, "run", n, None, preview)
(* The text that was read runs; succeeded or failed, it is recorded against  *)
(* the version that was read, unless the function has gone.                  *)
RunFunction(c) == LET row == job[c].row IN
    /\ job[c].pc = "run"
    /\ runs' = IF Still(c) THEN runs \cup {[id |-> row.id, version |-> row.version, text |-> row.text, preview |-> job[c].preview]}
               ELSE runs
    /\ Ends(c) /\ UNCHANGED <<fn, planned, approvals, raced, nextFn, asked>>

(* A sync or a publish takes away, or brings back, what a text reads.        *)
DataChanges(text) ==
    /\ asked < MaxAsks /\ asked' = asked + 1
    /\ planned' = IF text \in planned THEN planned \ {text} ELSE planned \cup {text}
    /\ UNCHANGED <<fn, runs, approvals, raced, job, nextFn>>

Next ==
    \/ \E c \in Clients :
         \/ \E n \in Names :
              \/ \E text \in Texts : AskPropose(c, n, text) \/ AskUpdate(c, n, text)
              \/ AskApprove(c, n) \/ AskDelete(c, n)
              \/ \E status \in {"rejected", "archived"} : AskSetStatus(c, n, status)
              \/ \E preview \in BOOLEAN : AskRun(c, n, preview)
         \/ Propose(c) \/ Update(c) \/ Approve(c) \/ SetFunctionStatus(c) \/ DeleteFunction(c) \/ RunFunction(c)
    \/ \E text \in Texts : DataChanges(text)
Spec == Init /\ [][Next]_vars

------------------------------------------------------------------------------
(* Every variable has its type.                                              *)
Job == [pc: {"idle", "propose", "update", "approve", "rejected", "archived", "delete", "run"},
        name: Names \cup {None}, row: Row \cup {None}, text: Texts \cup {None}, preview: BOOLEAN]
Run == [id: Nat \ {0}, version: Nat \ {0}, text: Texts, preview: BOOLEAN]
TypeOK ==
    /\ fn \in [Names -> Row \cup {None}] /\ job \in [Clients -> Job] /\ runs \subseteq Run
    /\ planned \subseteq Texts /\ raced \subseteq Nat /\ approvals \subseteq Nat \X Texts
    /\ nextFn \in Nat \ {0} /\ asked \in Nat

(* What runs for a dashboard was approved, in the very words that ran, and a *)
(* run filed under a version is a run of that version's text (functions.ts:  *)
(* "a dashboard cannot start rendering numbers from something nobody signed  *)
(* off"; "a function_run recorded against version 2 is not attributed to the *)
(* text of version 3"). Not of a function two requests wrote at once.        *)
RunsAreWhatWasApproved ==
    \A r \in runs : r.id \notin raced =>
        /\ ~r.preview => <<r.id, r.text>> \in approvals
        /\ \A q \in runs : q.id = r.id /\ q.version = r.version => q.text = r.text

(* What it rests on. A request that has read a row holds that row, and the   *)
(* ids of the rows, of what requests hold and of the runs were all given.    *)
Standing == {n \in Names : fn[n] /= None}
Holding == {c \in Clients : job[c].pc \notin {"idle", "propose"}}
IdsWereGiven ==
    /\ \A n \in Standing : fn[n] \in Row /\ fn[n].id < nextFn
    /\ \A n, m \in Standing : fn[n].id = fn[m].id => n = m
    /\ \A c \in Clients : job[c].pc /= "idle" => job[c].name \in Names
    /\ \A c \in Clients : job[c].pc \in {"propose", "update"} => job[c].text \in Texts
    /\ \A c \in Holding : job[c].row \in Row /\ job[c].row.id < nextFn
    /\ \A r \in runs : r.id < nextFn
(* A version of a function has one text, wherever it is seen, and the row is *)
(* at the latest of them.                                                    *)
Seen == {[id |-> fn[n].id, version |-> fn[n].version, text |-> fn[n].text] : n \in Standing}
        \cup {[id |-> job[c].row.id, version |-> job[c].row.version, text |-> job[c].row.text] : c \in Holding}
        \cup {[id |-> r.id, version |-> r.version, text |-> r.text] : r \in runs}
VersionsHaveOneText ==
    \A v \in Seen : v.id \notin raced =>
        /\ \A u \in Seen : u.id = v.id /\ u.version = v.version => u.text = v.text
        /\ \A n \in Standing : fn[n].id = v.id => v.version <= fn[n].version
(* An active text was approved, and so was one read to be run.               *)
ActiveWasApproved ==
    /\ \A n \in Standing : fn[n].status = "active" /\ fn[n].id \notin raced => <<fn[n].id, fn[n].text>> \in approvals
    /\ \A c \in Holding : job[c].pc = "update" => job[c].row.status /= "active"
    /\ \A c \in Holding : job[c].pc = "run" /\ ~job[c].preview /\ job[c].row.id \notin raced
                            => <<job[c].row.id, job[c].row.text>> \in approvals
    /\ \A r \in runs : ~r.preview /\ r.id \notin raced => <<r.id, r.text>> \in approvals

IInv == TypeOK /\ IdsWereGiven /\ VersionsHaveOneText /\ ActiveWasApproved
=============================================================================
