----------------------------- MODULE Proposals -----------------------------
(***************************************************************************)
(* Proposals (proposals.ts, and the part of removal.ts and followups.ts    *)
(* that is about them): a link, a metric or a combined dataset is drafted, *)
(* waits, and is built when somebody approves it - after the proposals it  *)
(* depends on.  People, and the assistant, create, approve, reject and     *)
(* delete at the same time, and every statement may be interleaved.        *)
(*                                                                         *)
(* One step is one statement or one transaction.  A combination takes two: *)
(* the view, then the object type modelled from it.  publishChange (module *)
(* OntologyPublish) is one step here: what is built becomes known to the   *)
(* registry the drafts are checked against.                                *)
(*                                                                         *)
(* Left out: what is drafted and measured, who decides, the figures made   *)
(* for a combination's columns, and action types, which go like metrics.   *)
(***************************************************************************)
EXTENDS Naturals, Sequences, FiniteSets

CONSTANTS
    Actors,     \* the requests that may be under way at once
    Kinds,      \* the kinds of proposal made, of "link", "metric", "combination"
    MaxId,      \* bound: proposals ever created
    MaxMade,    \* bound: metrics made for one proposal
    MaxFaults,  \* bound: applications that fail
    MaxCrashes, \* bound: crashes, and statements that fail outside an application
    Idle        \* an actor with no request under way

Ids == 1..MaxId
ASSUME KindsAreKnown == Kinds \subseteq {"link", "metric", "combination"}
ASSUME BoundsAreNaturals == MaxId \in Nat /\ MaxMade \in Nat \ {0} /\ MaxFaults \in Nat
                            /\ MaxCrashes \in Nat

VARIABLES
    status,    \* per proposal: its row's status; "none" and "gone" have no row
    kind,      \* what it is a proposal of
    dependsOn, \* the proposals to apply before it
    nextId,    \* the sequence behind proposal_id
    made,      \* how many links, metrics or object types were built for it
    view,      \* the combinations whose view was created
    known,     \* the proposals whose result the registry in memory has
    answered,  \* those whose board was built, or could not be and says so
    act,       \* what each actor's request is doing
    approved,  \* history: the proposals somebody approved
    faults,    \* how many applications have failed so
    crashes    \* how many crashes and other failures there have been

vars == <<status, kind, dependsOn, nextId, made, view, known, answered, act, approved,
          faults, crashes>>
born == <<kind, dependsOn, nextId>>
model == <<made, view, known>>
counts == <<faults, crashes>>

Frame == [id : Ids, step : {"read", "visit", "apply", "model", "publish", "settle", "fail"},
          todo : SUBSET Ids]
Approval == [op : {"approve"}, stack : Seq(Frame), settled : SUBSET Ids]
Decision == [op : {"reject", "delete"}, id : Ids]
Draft == [op : {"create"}, kind : Kinds, deps : SUBSET Ids]
Request == Approval \cup Decision \cup Draft
ASSUME IdleIsNoRequest == Idle \notin Request

Exists(id) == status[id] \notin {"none", "gone"}
Begin(p, request) == act[p] = Idle /\ act' = [act EXCEPT ![p] = request]
Ends(p) == act' = [act EXCEPT ![p] = Idle]
Doing(p, op) == act[p] # Idle /\ act[p].op = op
Fault == faults < MaxFaults /\ faults' = faults + 1 /\ UNCHANGED crashes
Stops == crashes < MaxCrashes /\ crashes' = crashes + 1 /\ UNCHANGED faults

------------------------------------------------------------------------------
(* createProposal: the proposals it depends on are in this space ...         *)
AskCreate(p, k, deps) ==
    /\ \A d \in deps : Exists(d)
    /\ Begin(p, [op |-> "create", kind |-> k, deps |-> deps])
    /\ UNCHANGED <<status, born, model, answered, approved, counts>>

(* ... then the INSERT.                                                      *)
Create(p) ==
    /\ Doing(p, "create") /\ nextId <= MaxId
    /\ status' = [status EXCEPT ![nextId] = "pending"]
    /\ kind' = [kind EXCEPT ![nextId] = act[p].kind]
    /\ dependsOn' = [dependsOn EXCEPT ![nextId] = act[p].deps]
    /\ nextId' = nextId + 1
    /\ Ends(p)
    /\ UNCHANGED <<model, answered, approved, counts>>

(* rejectProposal: read the status, then settle.                             *)
AskReject(p, id) ==
    /\ status[id] = "pending"
    /\ Begin(p, [op |-> "reject", id |-> id])
    /\ UNCHANGED <<status, born, model, answered, approved, counts>>

Settled(id, outcome) ==
    status' = IF Exists(id) THEN [status EXCEPT ![id] = outcome] ELSE status

(* The status is not looked at again.                                        *)
Reject(p) ==
    /\ Doing(p, "reject")
    /\ Settled(act[p].id, "rejected")
    /\ Ends(p)
    /\ UNCHANGED <<born, model, answered, approved, counts>>

(* proposalsWaitingOn, which refuses a removal ...                           *)
WaitingOn(id) == {q \in Ids : status[q] \in {"pending", "failed"} /\ id \in dependsOn[q]}

AskDelete(p, id) ==
    /\ Exists(id) /\ WaitingOn(id) = {}
    /\ Begin(p, [op |-> "delete", id |-> id])
    /\ UNCHANGED <<status, born, model, answered, approved, counts>>

(* ... and the DELETE.  What was built stays.                                *)
Delete(p) ==
    /\ Doing(p, "delete")
    /\ Settled(act[p].id, "gone")
    /\ Ends(p)
    /\ UNCHANGED <<born, model, answered, approved, counts>>

------------------------------------------------------------------------------
(* approveProposal: visit(), with its calls on a stack.                      *)

Visit(id) == [id |-> id, step |-> "read", todo |-> {}]

Approve(p, id) ==
    /\ Exists(id)
    /\ Begin(p, [op |-> "approve", stack |-> <<Visit(id)>>, settled |-> {}])
    /\ approved' = approved \cup {id}
    /\ UNCHANGED <<status, born, model, answered, counts>>

Stack(p) == act[p].stack
Top(p) == Stack(p)[Len(Stack(p))]
At(p, step) == Doing(p, "approve") /\ Stack(p) # <<>> /\ Top(p).step = step

Step(p, step) == act' = [act EXCEPT ![p].stack[Len(Stack(p))].step = step]

Returns(p, settled) ==
    act' = [act EXCEPT ![p].stack = SubSeq(@, 1, Len(@) - 1), ![p].settled = settled]

(* A failed dependency taken for a settled one.                              *)
Done_OrFailed(id) == status[id] \in {"applied", "failed"}

(* A proposal that is visited only to be returned from.                      *)
Done(id) == status[id] = "applied"

(* Whatever waits longer is applied first, asked for or not.                 *)
ToVisit_EarlierPending(id) == {d \in Ids : d < id /\ status[d] = "pending"} \cup dependsOn[id]

(* Those to visit before one that is not.                                    *)
ToVisit(id) == dependsOn[id]

(* getProposal: one that is gone, or was rejected, ends the approval.        *)
ReadProposal(p) ==
    /\ At(p, "read")
    /\ LET id == Top(p).id IN
         IF Done(id) THEN Returns(p, act[p].settled)
         ELSE IF status[id] \in {"pending", "failed"}
         THEN act' = [act EXCEPT ![p].stack[Len(Stack(p))] =
                        [id |-> id, step |-> "visit", todo |-> ToVisit(id)]]
         ELSE Ends(p)
    /\ UNCHANGED <<status, born, model, answered, approved, counts>>

(* Each dependency in turn, then the proposal itself.                        *)
VisitDependency(p, d) ==
    /\ At(p, "visit") /\ d \in Top(p).todo
    /\ act' = [act EXCEPT ![p].stack =
                 Append([Stack(p) EXCEPT ![Len(Stack(p))].todo = @ \ {d}], Visit(d))]
    /\ UNCHANGED <<status, born, model, answered, approved, counts>>

DependenciesDone(p) ==
    /\ At(p, "visit") /\ Top(p).todo = {}
    /\ Step(p, "apply")
    /\ UNCHANGED <<status, born, model, answered, approved, counts>>

(* Drafted again: refused when the registry has it.  One that is built and   *)
(* not in the registry yet meets a unique key - but a view is replaced, and  *)
(* a metric the registry has is made again under a second name.              *)
Refuses(id) ==
    \/ kind[id] = "link" /\ made[id] > 0
    \/ kind[id] = "combination" /\ id \in known
    \/ kind[id] = "metric" /\ made[id] > 0 /\ id \notin known

ApplyRefused(p) ==
    /\ At(p, "apply") /\ Refuses(Top(p).id)
    /\ Step(p, "fail")
    /\ UNCHANGED <<status, born, model, answered, approved, counts>>

(* applyLink, applyMetric: one transaction.                                  *)
Apply(p) ==
    /\ At(p, "apply") /\ ~Refuses(Top(p).id) /\ kind[Top(p).id] # "combination"
    /\ made[Top(p).id] < MaxMade
    /\ made' = [made EXCEPT ![Top(p).id] = @ + 1]
    /\ Step(p, "publish")
    /\ UNCHANGED <<status, born, view, known, answered, approved, counts>>

(* applyCombination: the view and its record ...                             *)
CreateView(p) ==
    /\ At(p, "apply") /\ ~Refuses(Top(p).id) /\ kind[Top(p).id] = "combination"
    /\ view' = view \cup {Top(p).id}
    /\ Step(p, "model")
    /\ UNCHANGED <<status, born, made, known, answered, approved, counts>>

(* ... then modelSources: a relation modelled before keeps its type.         *)
ModelCombination(p) ==
    /\ At(p, "model")
    /\ made' = [made EXCEPT ![Top(p).id] = 1]
    /\ Step(p, "publish")
    /\ UNCHANGED <<status, born, view, known, answered, approved, counts>>

Publish(p) ==
    /\ At(p, "publish")
    /\ known' = {id \in Ids : made[id] > 0}
    /\ Step(p, "settle")
    /\ UNCHANGED <<status, born, made, view, answered, approved, counts>>

(* settle as applied.  A row deleted meanwhile fails it.                     *)
SettleApplied(p) ==
    /\ At(p, "settle")
    /\ LET id == Top(p).id IN
         /\ Settled(id, "applied")
         /\ IF Exists(id) THEN Returns(p, act[p].settled \cup {id}) ELSE Step(p, "fail")
    /\ UNCHANGED <<born, model, answered, approved, counts>>

(* A catch that lets the approval go on.                                     *)
ApplyFails_Ignored(p) ==
    /\ \E step \in {"apply", "model", "publish", "settle"} : At(p, step)
    /\ Fault
    /\ Step(p, "settle")
    /\ UNCHANGED <<status, born, model, answered, approved>>

(* What it is built from is not there, a publish fails, a statement fails.   *)
ApplyFails(p) ==
    /\ \E step \in {"apply", "model", "publish", "settle"} : At(p, step)
    /\ Fault
    /\ Step(p, "fail")
    /\ UNCHANGED <<status, born, model, answered, approved>>

(* The catch: settle as failed, and throw, past every caller.                *)
SettleFailed(p) ==
    /\ At(p, "fail")
    /\ Settled(Top(p).id, "failed")
    /\ Ends(p)
    /\ UNCHANGED <<born, model, answered, approved, counts>>

(* A statement outside the try fails, or the one in the catch does, or the   *)
(* recording of a follow-up: whatever the approval still had to do is lost.  *)
ApprovalThrows(p) ==
    /\ \/ \E step \in {"read", "fail"} : At(p, step)
       \/ Doing(p, "approve") /\ Stack(p) = <<>>
    /\ Stops
    /\ Ends(p)
    /\ UNCHANGED <<status, born, model, answered, approved>>

(* runFollowUps, once the approval has returned: the board each was for, or  *)
(* why there is none, recorded on a proposal that has not been deleted.      *)
HasFollowUp(id) == kind[id] = "combination"

FollowUp(p) ==
    /\ Doing(p, "approve") /\ Stack(p) = <<>>
    /\ LET waiting == {id \in act[p].settled : HasFollowUp(id)} IN
         \/ waiting = {} /\ Ends(p) /\ UNCHANGED answered
         \/ \E id \in waiting :
               IF Exists(id)
               THEN /\ answered' = answered \cup {id}
                    /\ act' = [act EXCEPT ![p].settled = @ \ {id}]
               ELSE Ends(p) /\ UNCHANGED answered
    /\ UNCHANGED <<status, born, model, approved, counts>>

Crash ==
    /\ Stops
    /\ act' = [p \in Actors |-> Idle]
    /\ known' = {id \in Ids : made[id] > 0}
    /\ UNCHANGED <<status, born, made, view, answered, approved>>

------------------------------------------------------------------------------
Init ==
    /\ status = [id \in Ids |-> "none"]
    /\ kind = [id \in Ids |-> "none"]
    /\ dependsOn = [id \in Ids |-> {}]
    /\ nextId = 1
    /\ made = [id \in Ids |-> 0]
    /\ view = {} /\ known = {} /\ answered = {}
    /\ act = [p \in Actors |-> Idle]
    /\ approved = {}
    /\ faults = 0 /\ crashes = 0

ApprovalStep(p) ==
    \/ ReadProposal(p)
    \/ \E d \in Ids : VisitDependency(p, d)
    \/ DependenciesDone(p)
    \/ ApplyRefused(p) \/ Apply(p) \/ CreateView(p) \/ ModelCombination(p) \/ Publish(p)
    \/ SettleApplied(p) \/ SettleFailed(p)
    \/ FollowUp(p)

Next ==
    \/ \E p \in Actors, k \in Kinds, deps \in SUBSET Ids : AskCreate(p, k, deps)
    \/ \E p \in Actors, id \in Ids : Approve(p, id) \/ AskReject(p, id) \/ AskDelete(p, id)
    \/ \E p \in Actors : Create(p) \/ Reject(p) \/ Delete(p)
    \/ \E p \in Actors : ApprovalStep(p) \/ ApplyFails(p) \/ ApprovalThrows(p)
    \/ Crash

Spec == Init /\ [][Next]_vars

------------------------------------------------------------------------------
TypeOK ==
    /\ status \in [Ids -> {"none", "pending", "applied", "rejected", "failed", "gone"}]
    /\ kind \in [Ids -> Kinds \cup {"none"}]
    /\ dependsOn \in [Ids -> SUBSET Ids]
    /\ nextId \in 1..(MaxId + 1)
    /\ made \in [Ids -> 0..MaxMade]
    /\ view \subseteq Ids /\ known \subseteq Ids /\ answered \subseteq Ids
    /\ act \in [Actors -> Request \cup {Idle}]
    /\ approved \subseteq Ids
    /\ faults \in 0..MaxFaults /\ crashes \in 0..MaxCrashes

(* A proposal shown as applied has been built, whoever approved, failed,     *)
(* rejected or crashed meanwhile.                                            *)
AppliedIsBuilt == \A id \in Ids : status[id] = "applied" => made[id] > 0

(* "Apply its pending dependencies, then it": nothing is built, in whole or  *)
(* in part, before everything it depends on.                                 *)
DependenciesFirst ==
    \A id \in Ids : made[id] > 0 \/ id \in view => \A d \in dependsOn[id] : made[d] > 0

(* What these two rest on: an approval has behind it what it stands on - the *)
(* dependencies it does not have to visit any more, and from the publish on  *)
(* what it was to build - and the next proposal's id has never been used.    *)
FrameStands(f, above) ==
    /\ f.id < nextId /\ f.todo \subseteq dependsOn[f.id]
    /\ f.step = "visit" => \A d \in dependsOn[f.id] \ (f.todo \cup above) : made[d] > 0
    /\ f.step \in {"apply", "model", "publish", "settle"} =>
          \A d \in dependsOn[f.id] : made[d] > 0
    /\ f.step \in {"publish", "settle"} => made[f.id] > 0

Above(stack, k) == IF k < Len(stack) THEN {stack[k + 1].id} ELSE {}

Stands(stack) ==
    \A k \in 1..Len(stack) : /\ FrameStands(stack[k], Above(stack, k))
                             /\ k < Len(stack) => stack[k].step = "visit"

FramesStand == \A p \in Actors : Doing(p, "approve") => Stands(Stack(p))

IdsAreFresh ==
    /\ \A id \in Ids : id >= nextId => status[id] = "none" /\ made[id] = 0 /\ id \notin view
    /\ \A id \in Ids : \A d \in dependsOn[id] : d < nextId

DraftsDependOnOlder ==
    \A p \in Actors : Doing(p, "create") => \A d \in act[p].deps : d < nextId

IInv == TypeOK /\ IdsAreFresh /\ DraftsDependOnOlder /\ FramesStand /\ AppliedIsBuilt
        /\ DependenciesFirst

(* What a proposal needs, directly or through others, and itself; and what   *)
(* was called for by approving something that needs it.                      *)
Needs(root) ==
    {id \in Ids : \A ids \in SUBSET Ids :
        root \in ids /\ (\A i \in ids : dependsOn[i] \subseteq ids) => id \in ids}
CalledFor == {id \in Ids : \E root \in approved : id \in Needs(root)}

(* README: "Nothing changes until you approve".  Whatever was built was      *)
(* approved, itself or through a proposal that needs it.                     *)
NothingUnapproved == \A id \in Ids : made[id] > 0 \/ id \in view => id \in CalledFor

(* What it rests on: an approval visits nothing else, and a proposal's       *)
(* dependencies do not change once it is there.                              *)
VisitsCalledFor ==
    \A p \in Actors : Doing(p, "approve") => \A k \in 1..Len(Stack(p)) : Stack(p)[k].id \in CalledFor

NewNeedNothing == \A id \in Ids : id >= nextId => dependsOn[id] = {}

UInv == IInv /\ NewNeedNothing /\ VisitsCalledFor /\ NothingUnapproved

(* "Nothing is half-applied, because each apply is one transaction": a       *)
(* proposal marked failed has built nothing.                                 *)
FailedBuiltNothing == \A id \in Ids : status[id] = "failed" => made[id] = 0 /\ id \notin view

(* README: "the board is built the moment you approve it".  When no approval *)
(* is under way, every applied proposal that was for a board has it, or says *)
(* why not.                                                                  *)
BoardIsAnswered ==
    (\A p \in Actors : act[p] = Idle) =>
        \A id \in Ids : status[id] = "applied" /\ HasFollowUp(id) => id \in answered
=============================================================================
