---------------------------- MODULE MCBackground ----------------------------
(* What goes on in the background, for the questions about time: the loop    *)
(* that claims what is due, first over two due moments and then with a       *)
(* person who clicks, or the runs it starts.  Schedules and SyncRun share no *)
(* state (what is an execution to one is a run to the other), so one run     *)
(* explores each in turn.                                                    *)
EXTENDS Naturals, Sequences, FiniteSets

CONSTANTS s1, i1, c1, r1, r2, r3, x, NoRow, Idle, NoTable, Nobody

VARIABLES part,
          now, sync, schedule, nextId, request, up, ticking, due, firing, runs, anchor, troubles,
          history, readable, landing, viewed, pc, runRow, began, cols, read, sharing, writer,
          card, count, loaded, registry, faults

Instances == {i1}
Runs == {r1, r2, r3}
Loop == INSTANCE Schedules WITH
    Syncs <- {s1}, Intervals <- {1}, Starts <- {}, Clients <- {c1}, TickLimit <- 2,
    MaxId <- 1, MaxNow <- 2, MaxFaults <- 2, MaxClicks <- 0, faults <- troubles
Hand == INSTANCE Schedules WITH
    Syncs <- {s1}, Intervals <- {1}, Starts <- {}, Clients <- {c1}, TickLimit <- 2,
    MaxId <- 1, MaxNow <- 1, MaxFaults <- 2, MaxClicks <- 1, faults <- troubles
Work == INSTANCE SyncRun WITH Columns <- {x}, MaxVersion <- 1, MaxFaults <- 2

Init == part \in {"loop", "hand", "work"} /\ Loop!Init /\ Work!Init

loop == <<now, sync, schedule, nextId, request, up, ticking, due, firing, runs, anchor, troubles>>
work == <<history, readable, landing, viewed, pc, runRow, began, cols, read, sharing, writer,
          card, count, loaded, registry, faults>>
all == <<part, loop, work>>

Next ==
    \/ part = "loop" /\ Loop!Next /\ UNCHANGED <<part, work>>
    \/ part = "hand" /\ Hand!Next /\ UNCHANGED <<part, work>>
    \/ part = "work" /\ Work!Next /\ UNCHANGED <<part, loop>>

(* Whoever can go on does, in time: weaker than the fairness of the modules,  *)
(* which let no single instance or run wait for ever while others act.       *)
LoopGoesOn ==
    /\ \E i \in Instances : \/ part = "loop" /\ (Loop!LoopStep(i) \/ Loop!Boot(i))
                            \/ part = "hand" /\ (Hand!LoopStep(i) \/ Hand!Boot(i))
    /\ UNCHANGED <<part, work>>
RunsGoOn == part = "work" /\ (\E r \in Runs : Work!RunStep(r)) /\ UNCHANGED <<part, loop>>
Spec == Init /\ [][Next]_all /\ WF_all(LoopGoesOn \/ RunsGoOn)

DueIsHandled == Loop!DueIsHandled
RunsEnd == Work!RunsEnd
=============================================================================
