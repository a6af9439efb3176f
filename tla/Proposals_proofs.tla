-------------------------- MODULE Proposals_proofs --------------------------
(***************************************************************************)
(* Theorems about Proposals, for any number of requests, proposals and     *)
(* dependencies between them, failures and crashes.                        *)
(***************************************************************************)
EXTENDS Proposals, SequenceTheorems, TLAPS

USE KindsAreKnown, BoundsAreNaturals, IdleIsNoRequest

------------------------------------------------------------------------------
(* What an approval's stack is, and what the steps do to it.                 *)

(* A request under way is the one its op says.                               *)
LEMMA IsApproval ==
  ASSUME TypeOK, NEW p \in Actors, Doing(p, "approve")
  PROVE  act[p] \in Approval /\ Stack(p) \in Seq(Frame)
BY DEF TypeOK, Doing, Request, Approval, Decision, Draft, Stack

LEMMA IsDraft ==
  ASSUME TypeOK, NEW p \in Actors, Doing(p, "create")
  PROVE  act[p] \in Draft
BY DEF TypeOK, Doing, Request, Approval, Decision, Draft

LEMMA IsDecision ==
  ASSUME TypeOK, NEW p \in Actors, Doing(p, "reject") \/ Doing(p, "delete")
  PROVE  act[p] \in Decision
BY DEF TypeOK, Doing, Request, Approval, Decision, Draft

LEMMA IsFrame ==
  ASSUME TypeOK, NEW p \in Actors, NEW step, At(p, step)
  PROVE  /\ act[p] \in Approval /\ Stack(p) \in Seq(Frame)
         /\ Len(Stack(p)) \in Nat \ {0}
         /\ Top(p) \in Frame /\ Top(p).step = step /\ Top(p).id \in Ids
<1>1. act[p] \in Approval /\ Stack(p) \in Seq(Frame) /\ Stack(p) # <<>>
  BY IsApproval DEF At
<1>2. Len(Stack(p)) \in Nat \ {0}
  BY <1>1
<1>3. Top(p) \in Frame
  BY <1>1, <1>2 DEF Top
<1>. QED BY <1>1, <1>2, <1>3 DEF At, Frame

(* A request becomes another, or none.                                       *)
LEMMA RequestMoves ==
  ASSUME TypeOK, NEW p \in Actors, NEW r \in Request \cup {Idle}, act' = [act EXCEPT ![p] = r]
  PROVE  /\ act' \in [Actors -> Request \cup {Idle}]
         /\ act'[p] = r /\ \A q \in Actors \ {p} : act'[q] = act[q]
BY DEF TypeOK

(* The top frame of an approval becomes another.                             *)
LEMMA TopMoves ==
  ASSUME TypeOK, NEW p \in Actors, NEW step, At(p, step), NEW f \in Frame,
         act' = [act EXCEPT ![p].stack[Len(Stack(p))] = f]
  PROVE  /\ act' \in [Actors -> Request \cup {Idle}]
         /\ act'[p] \in Approval
         /\ act'[p].stack = [Stack(p) EXCEPT ![Len(Stack(p))] = f]
         /\ \A q \in Actors \ {p} : act'[q] = act[q]
<1>1. act[p] \in Approval /\ Stack(p) \in Seq(Frame) /\ Len(Stack(p)) \in Nat \ {0}
  BY IsFrame
<1>2. act'[p] = [act[p] EXCEPT !.stack = [Stack(p) EXCEPT ![Len(Stack(p))] = f]]
  BY DEF TypeOK, Stack
<1>3. [Stack(p) EXCEPT ![Len(Stack(p))] = f] \in Seq(Frame)
  BY <1>1
<1>4. act'[p] \in Approval
  BY <1>1, <1>2, <1>3 DEF Approval
<1>. QED BY <1>1, <1>2, <1>4 DEF TypeOK, Request, Approval

(* A dependency is visited: the top frame waits under a new one.             *)
LEMMA StackGrows ==
  ASSUME TypeOK, NEW p \in Actors, NEW step, At(p, step), NEW f \in Frame, NEW g \in Frame,
         act' = [act EXCEPT ![p].stack = Append([Stack(p) EXCEPT ![Len(Stack(p))] = f], g)]
  PROVE  /\ act' \in [Actors -> Request \cup {Idle}]
         /\ act'[p] \in Approval
         /\ act'[p].stack = Append([Stack(p) EXCEPT ![Len(Stack(p))] = f], g)
         /\ \A q \in Actors \ {p} : act'[q] = act[q]
<1>1. act[p] \in Approval /\ Stack(p) \in Seq(Frame) /\ Len(Stack(p)) \in Nat \ {0}
  BY IsFrame
<1>2. act'[p] = [act[p] EXCEPT !.stack = Append([Stack(p) EXCEPT ![Len(Stack(p))] = f], g)]
  BY DEF TypeOK, Stack
<1>3. Append([Stack(p) EXCEPT ![Len(Stack(p))] = f], g) \in Seq(Frame)
  BY <1>1
<1>4. act'[p] \in Approval
  BY <1>1, <1>2, <1>3 DEF Approval
<1>. QED BY <1>1, <1>2, <1>4 DEF TypeOK, Request, Approval

(* The top frame returns to the one below it.                                *)
LEMMA StackShrinks ==
  ASSUME TypeOK, NEW p \in Actors, NEW step, At(p, step), NEW settled \in SUBSET Ids,
         Returns(p, settled)
  PROVE  /\ act' \in [Actors -> Request \cup {Idle}]
         /\ act'[p] \in Approval
         /\ act'[p].stack = SubSeq(Stack(p), 1, Len(Stack(p)) - 1)
         /\ \A q \in Actors \ {p} : act'[q] = act[q]
<1>1. act[p] \in Approval /\ Stack(p) \in Seq(Frame) /\ Len(Stack(p)) \in Nat \ {0}
  BY IsFrame
<1>2. act'[p] = [op |-> act[p].op, stack |-> SubSeq(Stack(p), 1, Len(Stack(p)) - 1),
                 settled |-> settled]
  BY <1>1 DEF TypeOK, Stack, Returns, Approval
<1>3. SubSeq(Stack(p), 1, Len(Stack(p)) - 1) \in Seq(Frame)
  BY <1>1
<1>4. act'[p] \in Approval
  BY <1>1, <1>2, <1>3 DEF Approval
<1>. QED BY <1>1, <1>2, <1>4 DEF TypeOK, Request, Approval, Returns

(* What is built stays built, ids only grow, and dependencies are fixed once *)
(* a proposal is made: whatever stood goes on standing.                      *)
Grows ==
    /\ \A id \in Ids : made[id] > 0 => made'[id] > 0
    /\ nextId <= nextId'
    /\ \A id \in Ids : id < nextId => dependsOn'[id] = dependsOn[id]

LEMMA GoesOnStanding ==
  ASSUME TypeOK, TypeOK', Grows, NEW st \in Seq(Frame), Stands(st)
  PROVE  Stands(st)'
<1> SUFFICES ASSUME NEW k \in 1..Len(st)
             PROVE  FrameStands(st[k], Above(st, k))' /\ (k < Len(st) => st[k].step = "visit")
  BY DEF Stands, Above
<1>1. FrameStands(st[k], Above(st, k)) /\ (k < Len(st) => st[k].step = "visit")
  BY DEF Stands
<1>2. st[k] \in Frame
  OBVIOUS
<1>3. st[k].id \in Ids
  BY <1>2 DEF Frame
<1>4. dependsOn[st[k].id] \in SUBSET Ids /\ nextId \in Nat /\ nextId' \in Nat
  BY <1>3 DEF TypeOK
<1>5. dependsOn'[st[k].id] = dependsOn[st[k].id]
  BY <1>1, <1>3 DEF FrameStands, Grows
<1>6. st[k].id < nextId'
  BY <1>1, <1>3, <1>4 DEF FrameStands, Grows, Ids
<1>. QED BY <1>1, <1>3, <1>4, <1>5, <1>6 DEF FrameStands, Grows, Above

(* The frame on top becomes another of the same proposal.                    *)
LEMMA TopStands ==
  ASSUME NEW st \in Seq(Frame), st # <<>>, Stands(st)', NEW f \in Frame,
         f.id = st[Len(st)].id, FrameStands(f, {})'
  PROVE  Stands([st EXCEPT ![Len(st)] = f])'
<1> DEFINE new == [st EXCEPT ![Len(st)] = f]
<1>1. Len(st) \in Nat \ {0} /\ Len(new) = Len(st)
  OBVIOUS
<1>2. \A k \in 1..Len(st) : new[k] = IF k = Len(st) THEN f ELSE st[k]
  BY <1>1
<1>3. \A k \in 1..Len(st) : new[k].id = st[k].id
  BY <1>2
<1> HIDE DEF new
<1> SUFFICES ASSUME NEW k \in 1..Len(st)
             PROVE  FrameStands(new[k], Above(new, k))' /\ (k < Len(st) => new[k].step = "visit")
  BY <1>1 DEF Stands, Above, new
<1>4. CASE k = Len(st)
  <2>1. new[k] = f
    BY <1>2, <1>4
  <2>2. ~(k < Len(new))
    BY <1>1, <1>4
  <2>. QED BY <1>4, <1>1, <2>1, <2>2 DEF FrameStands, Above
<1>5. CASE k < Len(st)
  <2>1. new[k] = st[k]
    BY <1>1, <1>2, <1>5
  <2>2. new[k + 1].id = st[k + 1].id
    BY <1>1, <1>3, <1>5
  <2>3. FrameStands(st[k], Above(st, k))' /\ st[k].step = "visit"
    BY <1>5 DEF Stands
  <2>. QED BY <1>1, <1>5, <2>1, <2>2, <2>3 DEF FrameStands, Above
<1>. QED BY <1>1, <1>4, <1>5

(* It waits under a new frame, of a dependency it has still to visit.        *)
LEMMA PushStands ==
  ASSUME NEW st \in Seq(Frame), st # <<>>, Stands(st)', NEW f \in Frame, NEW g \in Frame,
         f.id = st[Len(st)].id, f.step = "visit", FrameStands(f, {g.id})', FrameStands(g, {})'
  PROVE  Stands(Append([st EXCEPT ![Len(st)] = f], g))'
<1> DEFINE new == Append([st EXCEPT ![Len(st)] = f], g)
<1>1. Len(st) \in Nat \ {0} /\ Len(new) = Len(st) + 1
  OBVIOUS
<1>2. new[Len(st) + 1] = g /\ new[Len(st)] = f
  BY <1>1
<1>3. \A k \in 1..(Len(st) - 1) : new[k] = st[k]
  BY <1>1
<1> HIDE DEF new
<1> SUFFICES ASSUME NEW k \in 1..(Len(st) + 1)
             PROVE  FrameStands(new[k], Above(new, k))' /\ (k < Len(st) + 1 => new[k].step = "visit")
  BY <1>1 DEF Stands, Above, new
<1>4. CASE k = Len(st) + 1
  <2>1. new[k] = g /\ ~(k < Len(new))
    BY <1>1, <1>2, <1>4
  <2>. QED BY <1>1, <1>4, <2>1 DEF FrameStands, Above
<1>5. CASE k = Len(st)
  <2>1. new[k] = f /\ new[k + 1] = g /\ k < Len(new)
    BY <1>1, <1>2, <1>5
  <2>. QED BY <1>1, <1>5, <2>1 DEF FrameStands, Above
<1>6. CASE k < Len(st)
  <2>1. new[k] = st[k] /\ k < Len(new)
    BY <1>1, <1>3, <1>6
  <2>2. new[k + 1].id = st[k + 1].id
    BY <1>1, <1>2, <1>3, <1>6
  <2>3. FrameStands(st[k], Above(st, k))' /\ st[k].step = "visit"
    BY <1>1, <1>6 DEF Stands
  <2>. QED BY <1>1, <1>6, <2>1, <2>2, <2>3 DEF FrameStands, Above
<1>. QED BY <1>1, <1>4, <1>5, <1>6

(* It returns, its proposal built, to the one that waited for it.            *)
LEMMA PopStands ==
  ASSUME NEW st \in Seq(Frame), st # <<>>, Stands(st)', made'[st[Len(st)].id] > 0
  PROVE  Stands(SubSeq(st, 1, Len(st) - 1))'
<1> DEFINE new == SubSeq(st, 1, Len(st) - 1)
<1>1. Len(st) \in Nat \ {0}
  OBVIOUS
<1>2. Len(new) = Len(st) - 1 /\ \A k \in 1..(Len(st) - 1) : new[k] = st[k]
  <2>1. 1 \in Int /\ Len(st) - 1 \in Int /\ \A i \in 1..(Len(st) - 1) : st[i] \in Frame
    BY <1>1
  <2>2. /\ Len(new) = IF 1 <= Len(st) - 1 THEN Len(st) - 1 - 1 + 1 ELSE 0
        /\ \A i \in 1..(Len(st) - 1 - 1 + 1) : new[i] = st[1 + i - 1]
    BY <2>1, SubSeqProperties
  <2>3. Len(st) - 1 - 1 + 1 = Len(st) - 1 /\ \A i \in 1..(Len(st) - 1) : 1 + i - 1 = i
    BY <1>1
  <2> HIDE DEF new
  <2>4. \A k \in 1..(Len(st) - 1) : new[k] = st[k]
    BY <2>2, <2>3, <1>1
  <2>5. \A n \in Nat \ {0} : n - 1 = IF 1 <= n - 1 THEN n - 1 - 1 + 1 ELSE 0
    OBVIOUS
  <2>6. Len(new) = Len(st) - 1
    BY <2>2, <2>5, <1>1, Zenon
  <2>. QED BY <2>4, <2>6
<1> HIDE DEF new
<1> SUFFICES ASSUME NEW k \in 1..(Len(st) - 1)
             PROVE  FrameStands(new[k], Above(new, k))' /\ (k < Len(new) => new[k].step = "visit")
  BY <1>1, <1>2 DEF Stands, Above, new
<1>3. new[k] = st[k] /\ k < Len(st) /\ k \in 1..Len(st)
  BY <1>1, <1>2
<1>4. FrameStands(st[k], Above(st, k))' /\ st[k].step = "visit"
  BY <1>3 DEF Stands
<1>5. CASE k = Len(st) - 1
  <2>1. k + 1 = Len(st) /\ ~(k < Len(new))
    BY <1>1, <1>2, <1>5
  <2>. QED BY <1>3, <1>4, <2>1 DEF FrameStands, Above
<1>6. CASE k < Len(st) - 1
  <2>1. new[k + 1] = st[k + 1] /\ k < Len(new)
    BY <1>1, <1>2, <1>6
  <2>. QED BY <1>3, <1>4, <2>1 DEF FrameStands, Above
<1>. QED BY <1>1, <1>5, <1>6

LEMMA StepMoves ==
  ASSUME TypeOK, NEW p \in Actors, NEW step, At(p, step),
         NEW to \in {"read", "visit", "apply", "model", "publish", "settle", "fail"}, Step(p, to)
  PROVE  /\ act' \in [Actors -> Request \cup {Idle}]
         /\ act'[p] \in Approval
         /\ [Top(p) EXCEPT !.step = to] \in Frame
         /\ act'[p].stack = [Stack(p) EXCEPT ![Len(Stack(p))] = [Top(p) EXCEPT !.step = to]]
         /\ \A q \in Actors \ {p} : act'[q] = act[q]
<1> DEFINE f == [Top(p) EXCEPT !.step = to]
<1>1. act[p] \in Approval /\ Stack(p) \in Seq(Frame) /\ Len(Stack(p)) \in Nat \ {0} /\ Top(p) \in Frame
  BY IsFrame
<1>2. f \in Frame
  BY <1>1 DEF Frame
<1>3. act' = [act EXCEPT ![p].stack[Len(Stack(p))] = f]
  BY <1>1 DEF Step, Top, Stack
<1> HIDE DEF f
<1>. QED BY <1>2, <1>3, TopMoves DEF f

LEMMA VisitGrows ==
  ASSUME TypeOK, NEW p \in Actors, NEW d \in Ids, VisitDependency(p, d)
  PROVE  /\ act' \in [Actors -> Request \cup {Idle}]
         /\ act'[p] \in Approval
         /\ [Top(p) EXCEPT !.todo = @ \ {d}] \in Frame /\ Visit(d) \in Frame
         /\ act'[p].stack = Append([Stack(p) EXCEPT ![Len(Stack(p))] = [Top(p) EXCEPT !.todo = @ \ {d}]],
                                   Visit(d))
         /\ \A q \in Actors \ {p} : act'[q] = act[q]
<1> DEFINE f == [Top(p) EXCEPT !.todo = @ \ {d}]
           g == Visit(d)
<1>1. /\ At(p, "visit") /\ act[p] \in Approval /\ Stack(p) \in Seq(Frame)
      /\ Len(Stack(p)) \in Nat \ {0} /\ Top(p) \in Frame
  BY IsFrame DEF VisitDependency
<1>2. f \in Frame /\ g \in Frame
  BY <1>1 DEF Frame, Visit
<1>3. act' = [act EXCEPT ![p].stack = Append([Stack(p) EXCEPT ![Len(Stack(p))] = f], g)]
  <2>1. act' = [act EXCEPT ![p].stack =
                  Append([Stack(p) EXCEPT ![Len(Stack(p))].todo = @ \ {d}], g)]
    BY DEF VisitDependency
  <2>2. [Stack(p) EXCEPT ![Len(Stack(p))].todo = @ \ {d}] = [Stack(p) EXCEPT ![Len(Stack(p))] = f]
    BY <1>1 DEF Top
  <2>. QED BY <2>1, <2>2
<1> HIDE DEF f, g
<1>. QED BY <1>1, <1>2, <1>3, StackGrows DEF f, g

------------------------------------------------------------------------------
(* Every variable keeps its type.                                            *)
LEMMA TypeStep ==
  ASSUME TypeOK, [Next]_vars
  PROVE  TypeOK'
<1> USE DEF TypeOK, Ids, born, model, counts
<1>1. ASSUME NEW p \in Actors, NEW k \in Kinds, NEW deps \in SUBSET Ids, AskCreate(p, k, deps)
      PROVE  TypeOK'
  BY <1>1 DEF AskCreate, Begin, Request, Draft
<1>2. ASSUME NEW p \in Actors, NEW id \in Ids, AskReject(p, id) \/ AskDelete(p, id)
      PROVE  TypeOK'
  <2>1. [op |-> "reject", id |-> id] \in Request /\ [op |-> "delete", id |-> id] \in Request
    BY DEF Request, Decision
  <2>. QED BY <1>2, <2>1 DEF AskReject, AskDelete, Begin
<1>3. ASSUME NEW p \in Actors, NEW id \in Ids, Approve(p, id)
      PROVE  TypeOK'
  <2>1. [op |-> "approve", stack |-> <<Visit(id)>>, settled |-> {}] \in Request
    BY DEF Visit, Request, Approval, Frame
  <2>. QED BY <1>3, <2>1 DEF Approve, Begin
<1>4. ASSUME NEW p \in Actors, Create(p)
      PROVE  TypeOK'
  <2>1. act[p].kind \in Kinds /\ act[p].deps \in SUBSET Ids
    BY <1>4, IsDraft DEF Create, Draft
  <2>2. nextId \in 1..MaxId /\ nextId' = nextId + 1
    BY <1>4 DEF Create
  <2>. QED BY <1>4, <2>1, <2>2 DEF Create, Ends
<1>5. ASSUME NEW p \in Actors, Reject(p) \/ Delete(p)
      PROVE  TypeOK'
  BY <1>5 DEF Reject, Delete, Settled, Ends
<1>6. ASSUME NEW p \in Actors, ReadProposal(p)
      PROVE  TypeOK'
  <2>1. Top(p).id \in Ids /\ act[p] \in Approval
    BY <1>6, IsFrame DEF ReadProposal
  <2>2. CASE Returns(p, act[p].settled)
    <3>1. act[p].settled \in SUBSET Ids
      BY <2>1 DEF Approval
    <3>. QED BY <1>6, <2>2, <3>1, StackShrinks DEF ReadProposal
  <2>3. CASE act' = [act EXCEPT ![p].stack[Len(Stack(p))] =
                       [id |-> Top(p).id, step |-> "visit", todo |-> ToVisit(Top(p).id)]]
    <3>1. [id |-> Top(p).id, step |-> "visit", todo |-> ToVisit(Top(p).id)] \in Frame
      BY <2>1 DEF Frame, ToVisit
    <3>2. act' \in [Actors -> Request \cup {Idle}]
      BY <1>6, <2>3, <3>1, TopMoves DEF ReadProposal
    <3>. QED BY <1>6, <3>2 DEF ReadProposal
  <2>4. CASE Ends(p)
    BY <1>6, <2>4 DEF ReadProposal, Ends
  <2>. QED BY <1>6, <2>2, <2>3, <2>4 DEF ReadProposal
<1>7. ASSUME NEW p \in Actors, NEW d \in Ids, VisitDependency(p, d)
      PROVE  TypeOK'
  <2>1. At(p, "visit")
    BY <1>7 DEF VisitDependency
  <2>2. act' \in [Actors -> Request \cup {Idle}]
    BY <1>7, <2>1, VisitGrows
  <2>. QED BY <1>7, <2>2 DEF VisitDependency
<1>8. ASSUME NEW p \in Actors, DependenciesDone(p) \/ ApplyRefused(p) \/ Apply(p) \/ CreateView(p)
             \/ ModelCombination(p) \/ Publish(p) \/ ApplyFails(p)
      PROVE  TypeOK'
  <2>1. \E step \in {"visit", "apply", "model", "publish", "settle"},
           to \in {"apply", "model", "publish", "settle", "fail"} : At(p, step) /\ Step(p, to)
    BY <1>8, Zenon DEF DependenciesDone, ApplyRefused, Apply, CreateView, ModelCombination, Publish, ApplyFails
  <2>2. Top(p).id \in Ids
    BY <2>1, IsFrame
  <2>3. act' \in [Actors -> Request \cup {Idle}]
    BY <2>1, StepMoves
  <2>4. CASE Apply(p)
    BY <2>2, <2>3, <2>4 DEF Apply
  <2>5. CASE CreateView(p)
    BY <2>2, <2>3, <2>5 DEF CreateView
  <2>6. CASE ModelCombination(p)
    BY <2>2, <2>3, <2>6 DEF ModelCombination
  <2>7. CASE DependenciesDone(p) \/ ApplyRefused(p)
    BY <2>3, <2>7 DEF DependenciesDone, ApplyRefused
  <2>8. CASE Publish(p)
    BY <2>3, <2>8 DEF Publish
  <2>9. CASE ApplyFails(p)
    BY <2>3, <2>9 DEF ApplyFails, Fault
  <2>. QED BY <1>8, <2>4, <2>5, <2>6, <2>7, <2>8, <2>9
<1>9. ASSUME NEW p \in Actors, SettleApplied(p)
      PROVE  TypeOK'
  <2>1. At(p, "settle") /\ Top(p).id \in Ids /\ act[p] \in Approval
    BY <1>9, IsFrame DEF SettleApplied
  <2>2. act' \in [Actors -> Request \cup {Idle}]
    <3>1. CASE Step(p, "fail")
      BY <2>1, <3>1, StepMoves
    <3>2. CASE Returns(p, act[p].settled \cup {Top(p).id})
      <4>1. act[p].settled \cup {Top(p).id} \in SUBSET Ids
        BY <2>1 DEF Approval
      <4>. QED BY <2>1, <3>2, <4>1, StackShrinks
    <3>. QED BY <1>9, <3>1, <3>2 DEF SettleApplied
  <2>. QED BY <1>9, <2>2 DEF SettleApplied, Settled
<1>10. ASSUME NEW p \in Actors, SettleFailed(p) \/ ApprovalThrows(p)
       PROVE  TypeOK'
  <2>1. CASE SettleFailed(p)
    BY <2>1 DEF SettleFailed, Settled, Ends
  <2>2. CASE ApprovalThrows(p)
    BY <2>2 DEF ApprovalThrows, Stops, Ends
  <2>. QED BY <1>10, <2>1, <2>2
<1>11. ASSUME NEW p \in Actors, FollowUp(p)
       PROVE  TypeOK'
  <2>1. act[p] \in Approval
    BY <1>11, IsApproval DEF FollowUp
  <2>2. CASE Ends(p) /\ UNCHANGED answered
    BY <1>11, <2>2 DEF FollowUp, Ends
  <2>3. ASSUME NEW id \in act[p].settled, act' = [act EXCEPT ![p].settled = @ \ {id}],
               answered' = answered \cup {id}
        PROVE  TypeOK'
    <3>1. act'[p] = [op |-> "approve", stack |-> act[p].stack, settled |-> act[p].settled \ {id}]
      BY <2>1, <2>3 DEF Approval
    <3>2. act'[p] \in Request /\ id \in Ids
      BY <2>1, <3>1 DEF Request, Approval
    <3>3. act' \in [Actors -> Request \cup {Idle}]
      BY <2>3, <3>2
    <3>. QED BY <1>11, <2>3, <3>2, <3>3 DEF FollowUp
  <2>. QED BY <1>11, <2>2, <2>3 DEF FollowUp
<1>12. CASE Crash
  BY <1>12 DEF Crash, Stops
<1>13. CASE UNCHANGED vars
  BY <1>13 DEF vars
<1>. QED BY <1>1, <1>2, <1>3, <1>4, <1>5, <1>6, <1>7, <1>8, <1>9, <1>10, <1>11, <1>12, <1>13
         DEF Next, ApprovalStep

------------------------------------------------------------------------------
(* The invariant.                                                            *)

LEMMA InitInv == Init => IInv
<1> SUFFICES ASSUME Init PROVE IInv
  OBVIOUS
<1>1. TypeOK
  BY DEF Init, TypeOK, Ids
<1>2. IdsAreFresh /\ DraftsDependOnOlder /\ FramesStand
  BY DEF Init, IdsAreFresh, DraftsDependOnOlder, FramesStand, Doing, Ids
<1>3. AppliedIsBuilt /\ DependenciesFirst
  BY DEF Init, AppliedIsBuilt, DependenciesFirst
<1>. QED BY <1>1, <1>2, <1>3 DEF IInv

(* The frame on top of an approval, and the proposal it is about.            *)
LEMMA TopFacts ==
  ASSUME IInv, NEW p \in Actors, NEW step, At(p, step)
  PROVE  /\ FrameStands(Top(p), {}) /\ Stands(Stack(p))
         /\ Top(p) \in Frame /\ Top(p).id \in Ids /\ Top(p).step = step
         /\ Stack(p) \in Seq(Frame) /\ Stack(p) # <<>> /\ Top(p) = Stack(p)[Len(Stack(p))]
<1>1. /\ Stack(p) \in Seq(Frame) /\ Len(Stack(p)) \in Nat \ {0} /\ Stack(p) # <<>>
      /\ Top(p) \in Frame /\ Top(p).id \in Ids /\ Top(p).step = step
  BY IsFrame DEF IInv, At
<1>2. Stands(Stack(p))
  BY DEF IInv, FramesStand, At
<1>3. Above(Stack(p), Len(Stack(p))) = {}
  BY <1>1 DEF Above
<1>4. FrameStands(Stack(p)[Len(Stack(p))], Above(Stack(p), Len(Stack(p))))
  <2>1. Len(Stack(p)) \in 1..Len(Stack(p))
    BY <1>1
  <2>. QED BY <1>2, <2>1, Zenon DEF Stands
<1>5. FrameStands(Top(p), {})
  BY <1>3, <1>4 DEF FrameStands, Top
<1>. QED BY <1>1, <1>2, <1>5 DEF Top

(* Only one request moves in a step; the approvals of the others go on.      *)
LEMMA OthersStand ==
  ASSUME IInv, TypeOK', Grows, NEW q \in Actors, Doing(q, "approve")', act'[q] = act[q]
  PROVE  Stands(Stack(q))'
<1>1. Doing(q, "approve")
  BY DEF Doing
<1>2. Stack(q) \in Seq(Frame) /\ Stands(Stack(q))
  BY <1>1, IsApproval DEF IInv, FramesStand
<1>3. PICK st : st = Stack(q)
  OBVIOUS
<1>4. st \in Seq(Frame) /\ Stands(st)
  BY <1>2, <1>3 DEF Stands, FrameStands, Above
<1>5. Stands(st)'
  BY <1>4, GoesOnStanding DEF IInv
<1>6. act'[q].stack = st
  BY <1>3 DEF Stack
<1>. QED BY <1>5, <1>6 DEF Stack, Stands, FrameStands, Above

LEMMA StackBecomes ==
  ASSUME IInv, TypeOK', Grows, NEW p \in Actors, \A q \in Actors \ {p} : act'[q] = act[q],
         NEW st, act'[p].stack = st, Stands(st)'
  PROVE  FramesStand'
<1> SUFFICES ASSUME NEW q \in Actors, Doing(q, "approve")'
             PROVE  Stands(Stack(q))'
  BY DEF FramesStand
<1>1. CASE q = p
  BY <1>1 DEF Stack, Stands, FrameStands, Above
<1>2. CASE q # p
  BY <1>2, OthersStand
<1>. QED BY <1>1, <1>2

LEMMA NoApproval ==
  ASSUME IInv, TypeOK', Grows, NEW p \in Actors, \A q \in Actors \ {p} : act'[q] = act[q],
         ~ Doing(p, "approve")'
  PROVE  FramesStand'
<1> SUFFICES ASSUME NEW q \in Actors, Doing(q, "approve")'
             PROVE  Stands(Stack(q))'
  BY DEF FramesStand
<1>1. q # p
  BY DEF Doing
<1>. QED BY <1>1, OthersStand

(* The frame on top becomes another of its proposal, at a later step.        *)
LEMMA FrameBecomes ==
  ASSUME IInv, TypeOK', Grows, NEW p \in Actors, NEW step, At(p, step), NEW f \in Frame,
         f.id = Top(p).id, FrameStands(f, {})',
         act'[p].stack = [Stack(p) EXCEPT ![Len(Stack(p))] = f],
         \A q \in Actors \ {p} : act'[q] = act[q]
  PROVE  FramesStand'
<1>1. PICK st : st = Stack(p)
  OBVIOUS
<1>2. /\ st \in Seq(Frame) /\ st # <<>> /\ Stands(st) /\ f.id = st[Len(st)].id
      /\ act'[p].stack = [st EXCEPT ![Len(st)] = f]
  BY <1>1, TopFacts DEF Stands, FrameStands, Above
<1>3. Stands(st)'
  BY <1>2, GoesOnStanding DEF IInv
<1>4. PICK new : new = [st EXCEPT ![Len(st)] = f]
  OBVIOUS
<1>5. Stands([st EXCEPT ![Len(st)] = f])'
  BY <1>2, <1>3, TopStands
<1>6. Stands(new)'
  BY <1>4, <1>5
<1>. QED BY <1>2, <1>4, <1>6, StackBecomes

LEMMA StepStands ==
  ASSUME IInv, TypeOK', Grows, NEW p \in Actors, NEW step, At(p, step),
         NEW to \in {"apply", "model", "publish", "settle", "fail"}, Step(p, to),
         to # "fail" => \A d \in dependsOn[Top(p).id] : made'[d] > 0,
         to \in {"publish", "settle"} => made'[Top(p).id] > 0
  PROVE  FramesStand'
<1>1. /\ FrameStands(Top(p), {}) /\ Top(p).id \in Ids /\ Top(p) \in Frame /\ TypeOK
  BY TopFacts DEF IInv
<1>2. PICK f : f = [Top(p) EXCEPT !.step = to]
  OBVIOUS
<1>3. /\ f \in Frame /\ f.id = Top(p).id /\ f.step = to /\ f.todo = Top(p).todo
      /\ act'[p].stack = [Stack(p) EXCEPT ![Len(Stack(p))] = f]
      /\ \A q \in Actors \ {p} : act'[q] = act[q]
  <2>1. to \in {"read", "visit", "apply", "model", "publish", "settle", "fail"}
    OBVIOUS
  <2>2. /\ [Top(p) EXCEPT !.step = to] \in Frame
        /\ act'[p].stack = [Stack(p) EXCEPT ![Len(Stack(p))] = [Top(p) EXCEPT !.step = to]]
        /\ \A q \in Actors \ {p} : act'[q] = act[q]
    BY <1>1, <2>1, StepMoves
  <2>3. f.id = Top(p).id /\ f.step = to /\ f.todo = Top(p).todo
    BY <1>1, <1>2 DEF Frame
  <2>. QED BY <1>2, <2>2, <2>3
<1>4. dependsOn'[f.id] = dependsOn[f.id] /\ f.id < nextId
  BY <1>1, <1>3 DEF Grows, FrameStands
<1>5. f.id < nextId'
  BY <1>1, <1>3, <1>4 DEF Grows, TypeOK, Ids
<1>6. FrameStands(f, {})'
  BY <1>1, <1>3, <1>4, <1>5 DEF FrameStands
<1>. QED BY <1>3, <1>6, FrameBecomes

(* The frame on top returns, its proposal built.                             *)
LEMMA ReturnStands ==
  ASSUME IInv, TypeOK', Grows, NEW p \in Actors, NEW step, At(p, step), NEW settled \in SUBSET Ids,
         Returns(p, settled), made[Top(p).id] > 0
  PROVE  FramesStand'
<1>1. PICK st : st = Stack(p)
  OBVIOUS
<1>2. /\ st \in Seq(Frame) /\ st # <<>> /\ Stands(st) /\ Top(p) = st[Len(st)] /\ Top(p).id \in Ids
  BY <1>1, TopFacts DEF Stands, FrameStands, Above
<1>3. /\ act'[p].stack = SubSeq(st, 1, Len(st) - 1) /\ \A q \in Actors \ {p} : act'[q] = act[q]
  BY <1>1, StackShrinks DEF IInv
<1>4. Stands(st)' /\ made'[st[Len(st)].id] > 0
  BY <1>2, GoesOnStanding DEF IInv, Grows
<1>5. PICK new : new = SubSeq(st, 1, Len(st) - 1)
  OBVIOUS
<1>6. Stands(SubSeq(st, 1, Len(st) - 1))'
  BY <1>2, <1>4, PopStands
<1>7. Stands(new)'
  BY <1>5, <1>6
<1>. QED BY <1>3, <1>5, <1>7, StackBecomes

(* The drafts of the others depend on what they did.                         *)
LEMMA DraftsStay ==
  ASSUME IInv, TypeOK', Grows, NEW p \in Actors, \A q \in Actors \ {p} : act'[q] = act[q],
         Doing(p, "create")' => \A d \in act'[p].deps : d < nextId'
  PROVE  DraftsDependOnOlder'
<1> SUFFICES ASSUME NEW q \in Actors, q # p, Doing(q, "create")', NEW d \in act'[q].deps
             PROVE  d < nextId'
  BY DEF DraftsDependOnOlder
<1>1. Doing(q, "create") /\ act'[q] = act[q]
  BY DEF Doing
<1>2. d < nextId /\ d \in Ids
  BY <1>1, IsDraft DEF IInv, DraftsDependOnOlder, Draft
<1>. QED BY <1>2 DEF Grows, IInv, TypeOK, Ids

(* A step that builds nothing, makes no proposal and settles none.           *)
LEMMA QuietStep ==
  ASSUME IInv, TypeOK', UNCHANGED <<status, dependsOn, nextId, made, view>>
  PROVE  Grows /\ IdsAreFresh' /\ AppliedIsBuilt' /\ DependenciesFirst'
<1>1. Grows
  BY DEF IInv, TypeOK, Grows, Ids
<1>2. IdsAreFresh' /\ AppliedIsBuilt' /\ DependenciesFirst'
  BY DEF IInv, IdsAreFresh, AppliedIsBuilt, DependenciesFirst
<1>. QED BY <1>1, <1>2

(* A quiet step at which a request ends.                                     *)
LEMMA EndStep ==
  ASSUME IInv, TypeOK', Grows, NEW p \in Actors, Ends(p)
  PROVE  FramesStand' /\ DraftsDependOnOlder'
<1>1. act'[p] = Idle /\ \A q \in Actors \ {p} : act'[q] = act[q]
  BY DEF Ends, IInv, TypeOK
<1>2. ~ Doing(p, "approve")' /\ ~ Doing(p, "create")'
  BY <1>1 DEF Doing
<1>. QED BY <1>1, <1>2, NoApproval, DraftsStay

LEMMA StartsDraft ==
  ASSUME IInv, TypeOK', NEW p \in Actors, NEW k \in Kinds, NEW deps \in SUBSET Ids,
         AskCreate(p, k, deps)
  PROVE  IInv'
<1>1. Grows /\ IdsAreFresh' /\ AppliedIsBuilt' /\ DependenciesFirst'
  BY QuietStep DEF AskCreate, born, model
<1>2. \A d \in deps : d < nextId'
  BY DEF AskCreate, born, IInv, IdsAreFresh, Exists, TypeOK, Ids
<1>3. /\ act'[p] = [op |-> "create", kind |-> k, deps |-> deps]
      /\ \A q \in Actors \ {p} : act'[q] = act[q]
  BY DEF AskCreate, Begin, IInv, TypeOK
<1>4. ~ Doing(p, "approve")' /\ \A d \in act'[p].deps : d < nextId'
  BY <1>2, <1>3 DEF Doing
<1>. QED BY <1>1, <1>3, <1>4, NoApproval, DraftsStay DEF IInv

LEMMA Starts ==
  ASSUME IInv, TypeOK', NEW p \in Actors, NEW id \in Ids,
         AskReject(p, id) \/ AskDelete(p, id) \/ Approve(p, id)
  PROVE  IInv'
<1>1. Grows /\ IdsAreFresh' /\ AppliedIsBuilt' /\ DependenciesFirst'
  BY QuietStep DEF AskReject, AskDelete, Approve, born, model
<1>2. CASE AskReject(p, id) \/ AskDelete(p, id)
  <2>1. /\ act'[p].op \in {"reject", "delete"} /\ \A q \in Actors \ {p} : act'[q] = act[q]
    BY <1>2 DEF AskReject, AskDelete, Begin, IInv, TypeOK
  <2>2. ~ Doing(p, "approve")' /\ ~ Doing(p, "create")'
    BY <2>1 DEF Doing
  <2>. QED BY <1>1, <2>1, <2>2, NoApproval, DraftsStay DEF IInv
<1>3. CASE Approve(p, id)
  <2>1. PICK st : st = <<Visit(id)>>
    OBVIOUS
  <2>2. /\ act'[p].op = "approve" /\ act'[p].stack = st /\ \A q \in Actors \ {p} : act'[q] = act[q]
    BY <1>3, <2>1 DEF Approve, Begin, IInv, TypeOK
  <2>3. id < nextId'
    BY <1>3 DEF Approve, born, IInv, IdsAreFresh, Exists, TypeOK, Ids
  <2>4. Len(st) = 1 /\ st[1] = Visit(id)
    BY <2>1
  <2>5. Stands(st)'
    BY <2>3, <2>4 DEF Stands, FrameStands, Above, Visit
  <2>6. ~ Doing(p, "create")'
    BY <2>2 DEF Doing
  <2>. QED BY <1>1, <2>2, <2>5, <2>6, StackBecomes, DraftsStay DEF IInv
<1>. QED BY <1>2, <1>3

(* getProposal, and what follows from the status it reads.                   *)
LEMMA Reads ==
  ASSUME IInv, TypeOK', NEW p \in Actors, ReadProposal(p)
  PROVE  IInv'
<1>1. Grows /\ IdsAreFresh' /\ AppliedIsBuilt' /\ DependenciesFirst'
  BY QuietStep DEF ReadProposal, born, model
<1>2. /\ At(p, "read") /\ FrameStands(Top(p), {}) /\ Top(p).id \in Ids /\ act[p] \in Approval
      /\ TypeOK
  BY TopFacts, IsFrame DEF ReadProposal, IInv
<1>3. CASE Ends(p)
  BY <1>1, <1>3, EndStep DEF IInv
<1>4. CASE Done(Top(p).id) /\ Returns(p, act[p].settled)
  <2>1. made[Top(p).id] > 0
    BY <1>2, <1>4 DEF IInv, AppliedIsBuilt, Done
  <2>2. act[p].settled \in SUBSET Ids
    BY <1>2 DEF Approval
  <2>3. FramesStand'
    BY <1>1, <1>2, <1>4, <2>1, <2>2, ReturnStands
  <2>4. act'[p] \in Approval /\ \A q \in Actors \ {p} : act'[q] = act[q]
    BY <1>2, <1>4, <2>2, StackShrinks
  <2>5. DraftsDependOnOlder'
    BY <1>1, <2>4, DraftsStay DEF Doing, Approval
  <2>. QED BY <1>1, <2>3, <2>5 DEF IInv
<1>5. ASSUME act' = [act EXCEPT ![p].stack[Len(Stack(p))] =
                       [id |-> Top(p).id, step |-> "visit", todo |-> ToVisit(Top(p).id)]]
      PROVE  IInv'
  <2>1. PICK f : f = [id |-> Top(p).id, step |-> "visit", todo |-> ToVisit(Top(p).id)]
    OBVIOUS
  <2>2. f \in Frame /\ f.id = Top(p).id /\ f.step = "visit" /\ f.todo = dependsOn[f.id]
    BY <1>2, <2>1 DEF Frame, ToVisit, TypeOK
  <2>3. /\ act'[p] \in Approval /\ act'[p].stack = [Stack(p) EXCEPT ![Len(Stack(p))] = f]
        /\ \A q \in Actors \ {p} : act'[q] = act[q]
    BY <1>2, <1>5, <2>1, <2>2, TopMoves
  <2>4. f.id < nextId' /\ dependsOn' = dependsOn
    BY <1>2, <2>2 DEF FrameStands, ReadProposal, born
  <2>5. FrameStands(f, {})'
    BY <2>2, <2>4 DEF FrameStands
  <2>6. FramesStand'
    BY <1>1, <1>2, <2>2, <2>3, <2>5, FrameBecomes
  <2>7. DraftsDependOnOlder'
    BY <1>1, <2>3, DraftsStay DEF Doing, Approval
  <2>. QED BY <1>1, <2>6, <2>7 DEF IInv
<1>. QED BY <1>3, <1>4, <1>5 DEF ReadProposal

(* A dependency's frame is put on top of the one that waits for it.          *)
LEMMA Visits ==
  ASSUME IInv, TypeOK', NEW p \in Actors, NEW d \in Ids, VisitDependency(p, d)
  PROVE  IInv'
<1>1. Grows /\ IdsAreFresh' /\ AppliedIsBuilt' /\ DependenciesFirst'
  BY QuietStep DEF VisitDependency, born, model
<1>2. /\ At(p, "visit") /\ FrameStands(Top(p), {}) /\ Top(p) \in Frame /\ Top(p).id \in Ids
      /\ Top(p).step = "visit" /\ d \in Top(p).todo /\ TypeOK
  BY TopFacts DEF VisitDependency, IInv
<1>3. PICK st : st = Stack(p)
  OBVIOUS
<1>4. /\ st \in Seq(Frame) /\ st # <<>> /\ Stands(st) /\ Top(p) = st[Len(st)]
  BY <1>2, <1>3, TopFacts DEF Stands, FrameStands, Above
<1>5. Stands(st)'
  BY <1>1, <1>2, <1>4, GoesOnStanding
<1>6. PICK f : f = [Top(p) EXCEPT !.todo = @ \ {d}]
  OBVIOUS
<1>7. PICK g : g = Visit(d)
  OBVIOUS
<1>8. /\ f \in Frame /\ g \in Frame /\ act'[p] \in Approval
      /\ act'[p].stack = Append([st EXCEPT ![Len(st)] = f], g)
      /\ \A q \in Actors \ {p} : act'[q] = act[q]
  BY <1>2, <1>3, <1>6, <1>7, VisitGrows
<1>9. /\ f.id = Top(p).id /\ f.step = "visit" /\ f.todo = Top(p).todo \ {d}
      /\ g.id = d /\ g.step = "read" /\ g.todo = {}
  BY <1>2, <1>6, <1>7 DEF Frame, Visit
<1>10. dependsOn' = dependsOn /\ nextId' = nextId /\ made' = made
  BY DEF VisitDependency, born, model
<1>11. d \in dependsOn[Top(p).id] /\ d < nextId
  BY <1>2 DEF FrameStands, IInv, IdsAreFresh
<1>12. FrameStands(f, {g.id})'
  BY <1>2, <1>9, <1>10 DEF FrameStands
<1>13. FrameStands(g, {})'
  BY <1>9, <1>10, <1>11 DEF FrameStands
<1>14. Stands(Append([st EXCEPT ![Len(st)] = f], g))'
  BY <1>4, <1>5, <1>8, <1>9, <1>12, <1>13, PushStands
<1>15. PICK new : new = Append([st EXCEPT ![Len(st)] = f], g)
  OBVIOUS
<1>16. Stands(new)'
  BY <1>14, <1>15
<1>17. FramesStand'
  BY <1>1, <1>8, <1>15, <1>16, StackBecomes
<1>18. DraftsDependOnOlder'
  BY <1>1, <1>8, DraftsStay DEF Doing, Approval
<1>. QED BY <1>1, <1>17, <1>18 DEF IInv

(* A step of the frame on top that builds nothing.                           *)
LEMMA QuietTop ==
  ASSUME IInv, TypeOK', NEW p \in Actors,
         DependenciesDone(p) \/ ApplyRefused(p) \/ ApplyFails(p) \/ Publish(p)
  PROVE  IInv'
<1>1. Grows /\ IdsAreFresh' /\ AppliedIsBuilt' /\ DependenciesFirst'
  BY QuietStep DEF DependenciesDone, ApplyRefused, ApplyFails, Publish, born, model
<1>2. made' = made
  BY DEF DependenciesDone, ApplyRefused, ApplyFails, Publish, model
<1>3. \E step \in {"visit", "apply", "model", "publish", "settle"}, to \in {"apply", "settle", "fail"} :
         /\ At(p, step) /\ Step(p, to)
         /\ to = "apply" => step = "visit" /\ Top(p).todo = {}
         /\ to = "settle" => step = "publish"
  BY Zenon DEF DependenciesDone, ApplyRefused, ApplyFails, Publish
<1>4. PICK step \in {"visit", "apply", "model", "publish", "settle"}, to \in {"apply", "settle", "fail"} :
         /\ At(p, step) /\ Step(p, to)
         /\ to = "apply" => step = "visit" /\ Top(p).todo = {}
         /\ to = "settle" => step = "publish"
  BY <1>3
<1>5. FrameStands(Top(p), {}) /\ Top(p).id \in Ids /\ Top(p).step = step /\ TypeOK
  BY <1>4, TopFacts DEF IInv
<1>6. /\ to # "fail" => \A d \in dependsOn[Top(p).id] : made'[d] > 0
      /\ to \in {"publish", "settle"} => made'[Top(p).id] > 0
  BY <1>2, <1>4, <1>5 DEF FrameStands
<1>7. FramesStand'
  BY <1>1, <1>4, <1>6, StepStands
<1>8. act'[p] \in Approval /\ \A q \in Actors \ {p} : act'[q] = act[q]
  BY <1>4, <1>5, StepMoves
<1>9. DraftsDependOnOlder'
  BY <1>1, <1>8, DraftsStay DEF Doing, Approval
<1>. QED BY <1>1, <1>7, <1>9 DEF IInv

(* runFollowUps, and the end of an approval that throws.                     *)
LEMMA Leaves ==
  ASSUME IInv, TypeOK', NEW p \in Actors, FollowUp(p) \/ ApprovalThrows(p)
  PROVE  IInv'
<1>1. Grows /\ IdsAreFresh' /\ AppliedIsBuilt' /\ DependenciesFirst'
  BY QuietStep DEF FollowUp, ApprovalThrows, born, model
<1>2. CASE Ends(p)
  BY <1>1, <1>2, EndStep DEF IInv
<1>3. ASSUME FollowUp(p), NEW id, act' = [act EXCEPT ![p].settled = @ \ {id}]
      PROVE  IInv'
  <2>1. act[p] \in Approval /\ act[p].stack = <<>>
    BY <1>3, IsApproval DEF FollowUp, Stack, IInv
  <2>2. /\ act'[p].op = "approve" /\ act'[p].stack = <<>>
        /\ \A q \in Actors \ {p} : act'[q] = act[q]
    BY <1>3, <2>1 DEF IInv, TypeOK, Approval
  <2>3. PICK st : st = <<>>
    OBVIOUS
  <2>4. act'[p].stack = st /\ Stands(st)'
    BY <2>2, <2>3 DEF Stands
  <2>5. FramesStand'
    BY <1>1, <2>2, <2>4, StackBecomes
  <2>6. DraftsDependOnOlder'
    BY <1>1, <2>2, DraftsStay DEF Doing
  <2>. QED BY <1>1, <2>5, <2>6 DEF IInv
<1>. QED BY <1>2, <1>3 DEF FollowUp, ApprovalThrows

LEMMA Crashes ==
  ASSUME IInv, TypeOK', Crash
  PROVE  IInv'
<1>1. Grows /\ IdsAreFresh' /\ AppliedIsBuilt' /\ DependenciesFirst'
  BY QuietStep DEF Crash, born
<1>2. FramesStand' /\ DraftsDependOnOlder'
  BY DEF Crash, FramesStand, DraftsDependOnOlder, Doing
<1>. QED BY <1>1, <1>2 DEF IInv

(* A proposal settles: as applied only when it is built.                     *)
LEMMA Settles ==
  ASSUME IInv, TypeOK', NEW id \in Ids,
         NEW outcome \in {"applied", "rejected", "failed", "gone"}, Settled(id, outcome),
         outcome = "applied" => made[id] > 0, UNCHANGED <<dependsOn, nextId, made, view>>
  PROVE  Grows /\ IdsAreFresh' /\ AppliedIsBuilt' /\ DependenciesFirst'
<1>1. Grows
  BY DEF IInv, TypeOK, Grows, Ids
<1>2. \A i \in Ids : status'[i] = status[i] \/ (i = id /\ Exists(id) /\ status'[i] = outcome)
  <2>1. CASE Exists(id) /\ status' = [status EXCEPT ![id] = outcome]
    BY <2>1 DEF IInv, TypeOK
  <2>2. CASE status' = status
    BY <2>2
  <2>. QED BY <2>1, <2>2 DEF Settled
<1>3. IdsAreFresh'
  BY <1>2 DEF IInv, IdsAreFresh, Exists
<1>4. AppliedIsBuilt'
  BY <1>2 DEF IInv, AppliedIsBuilt
<1>5. DependenciesFirst'
  BY DEF IInv, DependenciesFirst
<1>. QED BY <1>1, <1>3, <1>4, <1>5

LEMMA Decides ==
  ASSUME IInv, TypeOK', NEW p \in Actors, Reject(p) \/ Delete(p) \/ SettleFailed(p)
  PROVE  IInv'
<1>1. /\ \E id \in Ids, outcome \in {"rejected", "failed", "gone"} : Settled(id, outcome)
      /\ UNCHANGED <<dependsOn, nextId, made, view>> /\ Ends(p)
  <2>1. CASE Reject(p) \/ Delete(p)
    <3>1. act[p].id \in Ids
      BY <2>1, IsDecision DEF Reject, Delete, Decision, IInv
    <3>. QED BY <2>1, <3>1 DEF Reject, Delete, born, model
  <2>2. CASE SettleFailed(p)
    <3>1. Top(p).id \in Ids
      BY <2>2, TopFacts DEF SettleFailed
    <3>. QED BY <2>2, <3>1 DEF SettleFailed, born, model
  <2>. QED BY <2>1, <2>2
<1>2. Grows /\ IdsAreFresh' /\ AppliedIsBuilt' /\ DependenciesFirst'
  BY <1>1, Settles
<1>. QED BY <1>1, <1>2, EndStep DEF IInv

LEMMA SettlesApplied ==
  ASSUME IInv, TypeOK', NEW p \in Actors, SettleApplied(p)
  PROVE  IInv'
<1>1. /\ At(p, "settle") /\ FrameStands(Top(p), {}) /\ Top(p).id \in Ids /\ Top(p).step = "settle"
      /\ act[p] \in Approval /\ TypeOK
  BY TopFacts, IsFrame DEF SettleApplied, IInv
<1>2. made[Top(p).id] > 0
  BY <1>1 DEF FrameStands
<1>3. Grows /\ IdsAreFresh' /\ AppliedIsBuilt' /\ DependenciesFirst'
  BY <1>1, <1>2, Settles DEF SettleApplied, born, model
<1>4. CASE Returns(p, act[p].settled \cup {Top(p).id})
  <2>1. act[p].settled \cup {Top(p).id} \in SUBSET Ids
    BY <1>1 DEF Approval
  <2>2. FramesStand'
    BY <1>1, <1>2, <1>3, <1>4, <2>1, ReturnStands
  <2>3. act'[p] \in Approval /\ \A q \in Actors \ {p} : act'[q] = act[q]
    BY <1>1, <1>4, <2>1, StackShrinks
  <2>4. DraftsDependOnOlder'
    BY <1>3, <2>3, DraftsStay DEF Doing, Approval
  <2>. QED BY <1>3, <2>2, <2>4 DEF IInv
<1>5. CASE Step(p, "fail")
  <2>1. FramesStand'
    BY <1>1, <1>3, <1>5, StepStands
  <2>2. act'[p] \in Approval /\ \A q \in Actors \ {p} : act'[q] = act[q]
    BY <1>1, <1>5, StepMoves
  <2>3. DraftsDependOnOlder'
    BY <1>3, <2>2, DraftsStay DEF Doing, Approval
  <2>. QED BY <1>3, <2>1, <2>3 DEF IInv
<1>. QED BY <1>4, <1>5 DEF SettleApplied

(* Something is built: its dependencies are.                                 *)
LEMMA Builds ==
  ASSUME IInv, TypeOK', NEW p \in Actors, Apply(p) \/ CreateView(p) \/ ModelCombination(p)
  PROVE  IInv'
<1>1. PICK step \in {"apply", "model"}, to \in {"model", "publish"} :
         /\ At(p, step) /\ Step(p, to)
         /\ \/ view' = view \cup {Top(p).id} /\ made' = made /\ to = "model"
            \/ view' = view /\ made' = [made EXCEPT ![Top(p).id] = @ + 1]
            \/ view' = view /\ made' = [made EXCEPT ![Top(p).id] = 1]
  BY Zenon DEF Apply, CreateView, ModelCombination
<1>2. status' = status /\ dependsOn' = dependsOn /\ nextId' = nextId
  BY DEF Apply, CreateView, ModelCombination, born
<1>3. FrameStands(Top(p), {}) /\ Top(p).id \in Ids /\ Top(p).step = step /\ TypeOK
  BY <1>1, TopFacts DEF IInv
<1>4. /\ \A id \in Ids \ {Top(p).id} : made'[id] = made[id] /\ (id \in view' <=> id \in view)
      /\ made[Top(p).id] > 0 => made'[Top(p).id] > 0
      /\ to = "publish" => made'[Top(p).id] > 0
  <2>1. made \in [Ids -> 0..MaxMade] /\ made[Top(p).id] + 1 > 0
    BY <1>3 DEF TypeOK
  <2>2. CASE view' = view \cup {Top(p).id} /\ made' = made /\ to = "model"
    BY <2>2
  <2>3. CASE view' = view /\ made' = [made EXCEPT ![Top(p).id] = @ + 1]
    BY <1>3, <2>1, <2>3
  <2>4. CASE view' = view /\ made' = [made EXCEPT ![Top(p).id] = 1]
    BY <1>3, <2>1, <2>4
  <2>. QED BY <1>1, <2>2, <2>3, <2>4
<1>5. Grows
  <2>1. \A id \in Ids : made[id] > 0 => made'[id] > 0
    BY <1>3, <1>4
  <2>2. nextId <= nextId'
    BY <1>2, <1>3 DEF TypeOK
  <2>. QED BY <1>2, <2>1, <2>2 DEF Grows
<1>6. Top(p).id < nextId /\ \A d \in dependsOn[Top(p).id] : d \in Ids /\ made[d] > 0
  BY <1>1, <1>3 DEF FrameStands, TypeOK
<1>7. \A d \in dependsOn[Top(p).id] : made'[d] > 0
  BY <1>5, <1>6 DEF Grows
<1>8. IdsAreFresh'
  <2>1. \A id \in Ids : id >= nextId => id # Top(p).id
    BY <1>3, <1>6 DEF TypeOK, Ids
  <2>. QED BY <1>2, <1>4, <2>1 DEF IInv, IdsAreFresh
<1>9. AppliedIsBuilt'
  BY <1>2, <1>5 DEF IInv, AppliedIsBuilt, Grows
<1>10. DependenciesFirst'
  <2> SUFFICES ASSUME NEW id \in Ids, made'[id] > 0 \/ id \in view', NEW d \in dependsOn[id]
               PROVE  made'[d] > 0
    BY <1>2 DEF DependenciesFirst
  <2>1. CASE id = Top(p).id
    BY <1>7, <2>1
  <2>2. CASE id # Top(p).id
    <3>1. made[d] > 0 /\ d \in Ids
      BY <1>3, <1>4, <2>2 DEF IInv, DependenciesFirst, TypeOK
    <3>. QED BY <1>5, <3>1 DEF Grows
  <2>. QED BY <2>1, <2>2
<1>11. FramesStand'
  <2>1. to \in {"apply", "model", "publish", "settle", "fail"} /\ to # "settle"
    BY <1>1
  <2>2. to \in {"publish", "settle"} => made'[Top(p).id] > 0
    BY <1>4, <2>1
  <2>. QED BY <1>1, <1>5, <1>7, <2>1, <2>2, StepStands
<1>12. act'[p] \in Approval /\ \A q \in Actors \ {p} : act'[q] = act[q]
  BY <1>1, <1>3, StepMoves
<1>13. DraftsDependOnOlder'
  BY <1>5, <1>12, DraftsStay DEF Doing, Approval
<1>. QED BY <1>8, <1>9, <1>10, <1>11, <1>13 DEF IInv

(* A proposal is made: nothing was, or is, built for it.                     *)
LEMMA Creates ==
  ASSUME IInv, TypeOK', NEW p \in Actors, Create(p)
  PROVE  IInv'
<1>1. /\ nextId \in 1..MaxId /\ nextId' = nextId + 1 /\ made' = made /\ view' = view
      /\ TypeOK /\ act[p] \in Draft /\ Ends(p)
  BY IsDraft DEF Create, IInv, TypeOK, model
<1>2. /\ status'[nextId] = "pending" /\ dependsOn'[nextId] = act[p].deps
      /\ \A id \in Ids \ {nextId} : status'[id] = status[id] /\ dependsOn'[id] = dependsOn[id]
  BY <1>1 DEF Create, TypeOK, Ids
<1>3. Grows
  BY <1>1, <1>2 DEF Grows, TypeOK, Ids
<1>4. \A d \in act[p].deps : d < nextId /\ d \in Ids
  BY <1>1 DEF IInv, DraftsDependOnOlder, Create, Draft
<1>5. made[nextId] = 0 /\ nextId \notin view
  BY <1>1 DEF IInv, IdsAreFresh, Ids
<1>6. IdsAreFresh'
  <2>1. \A id \in Ids : id >= nextId' => id # nextId /\ id >= nextId
    BY <1>1 DEF Ids
  <2>2. \A id \in Ids : \A d \in dependsOn'[id] : d < nextId /\ d \in Ids
    BY <1>1, <1>2, <1>4 DEF IInv, IdsAreFresh, TypeOK
  <2>3. \A id \in Ids : \A d \in dependsOn'[id] : d < nextId'
    BY <1>1, <2>2 DEF Ids
  <2>. QED BY <1>1, <1>2, <2>1, <2>3 DEF IInv, IdsAreFresh
<1>7. AppliedIsBuilt'
  BY <1>1, <1>2 DEF IInv, AppliedIsBuilt
<1>8. DependenciesFirst'
  BY <1>1, <1>2, <1>5 DEF IInv, DependenciesFirst
<1>9. FramesStand' /\ DraftsDependOnOlder'
  BY <1>1, <1>3, EndStep
<1>. QED BY <1>6, <1>7, <1>8, <1>9 DEF IInv

LEMMA NextInv == IInv /\ [Next]_vars => IInv'
<1> SUFFICES ASSUME IInv, [Next]_vars PROVE IInv'
  OBVIOUS
<1>1. TypeOK'
  BY TypeStep DEF IInv
<1>2. ASSUME NEW p \in Actors, NEW k \in Kinds, NEW deps \in SUBSET Ids, AskCreate(p, k, deps)
      PROVE  IInv'
  BY <1>1, <1>2, StartsDraft
<1>3. ASSUME NEW p \in Actors, NEW id \in Ids, Approve(p, id) \/ AskReject(p, id) \/ AskDelete(p, id)
      PROVE  IInv'
  BY <1>1, <1>3, Starts
<1>4. ASSUME NEW p \in Actors, Create(p) \/ Reject(p) \/ Delete(p)
      PROVE  IInv'
  BY <1>1, <1>4, Creates, Decides
<1>5. ASSUME NEW p \in Actors, ApprovalStep(p)
      PROVE  IInv'
  BY <1>1, <1>5, Reads, Visits, QuietTop, Builds, SettlesApplied, Decides, Leaves DEF ApprovalStep
<1>6. ASSUME NEW p \in Actors, ApplyFails(p) \/ ApprovalThrows(p)
      PROVE  IInv'
  BY <1>1, <1>6, QuietTop, Leaves
<1>7. CASE Crash
  BY <1>1, <1>7, Crashes
<1>8. CASE UNCHANGED vars
  <2>1. Grows /\ IdsAreFresh' /\ AppliedIsBuilt' /\ DependenciesFirst'
    BY <1>1, <1>8, QuietStep DEF vars, born, model
  <2>2. FramesStand' /\ DraftsDependOnOlder'
    BY <1>8 DEF vars, born, model, IInv, FramesStand, DraftsDependOnOlder, Doing, Stack, Stands,
       FrameStands, Above
  <2>. QED BY <1>1, <2>1, <2>2 DEF IInv
<1>. QED BY <1>2, <1>3, <1>4, <1>5, <1>6, <1>7, <1>8 DEF Next

(* The invariant holds of every state.                                       *)
THEOREM Invariant == Spec => []IInv
<1>. QED BY InitInv, NextInv, PTL DEF Spec

(* Every variable stays within its type, whatever the requests, proposals,   *)
(* failures and crashes.                                                     *)
THEOREM TypeCorrect == Spec => []TypeOK
<1>1. IInv => TypeOK
  BY DEF IInv
<1>. QED BY <1>1, Invariant, PTL

(* A proposal shown as applied has been built: settle follows what applyLink,*)
(* applyMetric or applyCombination made, whoever else approved, rejected or  *)
(* deleted it between any two statements.                                    *)
THEOREM AppliedMeansBuilt == Spec => []AppliedIsBuilt
<1>1. IInv => AppliedIsBuilt
  BY DEF IInv
<1>. QED BY <1>1, Invariant, PTL

(* Nothing is built before everything it depends on: visit() comes back from *)
(* a dependency only once that is built, and what is built stays.            *)
THEOREM BuiltInOrder == Spec => []DependenciesFirst
<1>1. IInv => DependenciesFirst
  BY DEF IInv
<1>. QED BY <1>1, Invariant, PTL

------------------------------------------------------------------------------
(* Nothing is built that nobody approved.                                    *)

(* More approvals and more dependencies call for more.                       *)
LEMMA CalledForGrows ==
  ASSUME approved \subseteq approved', \A id \in Ids : dependsOn[id] \subseteq dependsOn'[id]
  PROVE  CalledFor \subseteq CalledFor'
BY DEF CalledFor, Needs

LEMMA ApprovedIsCalledFor ==
  ASSUME NEW id \in Ids, id \in approved'
  PROVE  id \in CalledFor'
BY DEF CalledFor, Needs

LEMMA DependencyIsCalledFor ==
  ASSUME NEW id \in CalledFor, NEW d \in Ids, d \in dependsOn[id]
  PROVE  d \in CalledFor
<1>1. PICK root \in approved : id \in Needs(root)
  BY DEF CalledFor
<1>2. \A ids \in SUBSET Ids : root \in ids /\ (\A i \in ids : dependsOn[i] \subseteq ids) => d \in ids
  BY <1>1 DEF Needs
<1>. QED BY <1>1, <1>2 DEF CalledFor, Needs

(* The frame on top of an approval is about something called for.            *)
LEMMA TopIsCalledFor ==
  ASSUME UInv, NEW p \in Actors, NEW step, At(p, step)
  PROVE  Top(p).id \in CalledFor
<1>1. Len(Stack(p)) \in Nat \ {0}
  BY IsFrame DEF UInv, IInv
<1>. QED BY <1>1 DEF UInv, VisitsCalledFor, At, Top

(* One request moves: only its approval has to be looked at.                 *)
LEMMA OthersVisitTheSame ==
  ASSUME VisitsCalledFor, CalledFor \subseteq CalledFor', NEW p \in Actors,
         \A q \in Actors \ {p} : act'[q] = act[q],
         Doing(p, "approve")' => \A k \in 1..Len(act'[p].stack) : act'[p].stack[k].id \in CalledFor'
  PROVE  VisitsCalledFor'
<1> SUFFICES ASSUME NEW q \in Actors, Doing(q, "approve")', NEW k \in 1..Len(Stack(q)')
             PROVE  Stack(q)'[k].id \in CalledFor'
  BY DEF VisitsCalledFor
<1>1. CASE q = p
  BY <1>1 DEF Stack
<1>2. CASE q # p
  <2>1. act'[q] = act[q] /\ Doing(q, "approve")
    BY <1>2 DEF Doing
  <2>2. Stack(q)' = Stack(q)
    BY <2>1 DEF Stack
  <2>. QED BY <2>1, <2>2 DEF VisitsCalledFor
<1>. QED BY <1>1, <1>2

(* The frame on top becomes another of its proposal.                         *)
LEMMA SameProposalOnTop ==
  ASSUME UInv, CalledFor \subseteq CalledFor', NEW p \in Actors, NEW step, At(p, step), NEW f \in Frame,
         f.id = Top(p).id, act'[p].stack = [Stack(p) EXCEPT ![Len(Stack(p))] = f],
         \A q \in Actors \ {p} : act'[q] = act[q]
  PROVE  VisitsCalledFor'
<1>1. Stack(p) \in Seq(Frame) /\ Len(Stack(p)) \in Nat \ {0} /\ Doing(p, "approve")
  BY IsFrame DEF UInv, IInv, At
<1>2. PICK st \in Seq(Frame) : st = Stack(p)
  BY <1>1
<1>3. \A k \in 1..Len(st) : st[k].id \in CalledFor
  BY <1>1, <1>2 DEF UInv, VisitsCalledFor
<1>4. f.id \in CalledFor
  BY TopIsCalledFor
<1>5. PICK new : new = [st EXCEPT ![Len(st)] = f]
  OBVIOUS
<1>6. Len(new) = Len(st) /\ \A k \in 1..Len(st) : new[k].id \in CalledFor
  BY <1>1, <1>2, <1>3, <1>4, <1>5
<1>7. act'[p].stack = new
  BY <1>2, <1>5
<1>8. \A k \in 1..Len(act'[p].stack) : act'[p].stack[k].id \in CalledFor'
  BY <1>6, <1>7
<1>. QED BY <1>8, OthersVisitTheSame DEF UInv

(* The frame on top returns.                                                 *)
LEMMA FewerProposals ==
  ASSUME UInv, CalledFor \subseteq CalledFor', NEW p \in Actors, NEW step, At(p, step),
         NEW settled \in SUBSET Ids, Returns(p, settled)
  PROVE  VisitsCalledFor'
<1>1. Stack(p) \in Seq(Frame) /\ Len(Stack(p)) \in Nat \ {0} /\ Doing(p, "approve")
  BY IsFrame DEF UInv, IInv, At
<1>2. /\ act'[p].stack = SubSeq(Stack(p), 1, Len(Stack(p)) - 1) /\ \A q \in Actors \ {p} : act'[q] = act[q]
  BY StackShrinks DEF UInv, IInv
<1>3. PICK st \in Seq(Frame) : st = Stack(p)
  BY <1>1
<1>4. \A k \in 1..Len(st) : st[k].id \in CalledFor
  BY <1>1, <1>3 DEF UInv, VisitsCalledFor
<1>5. PICK new : new = SubSeq(st, 1, Len(st) - 1)
  OBVIOUS
<1>6. \A k \in 1..Len(new) : k \in 1..Len(st) /\ new[k] = st[k]
  BY <1>1, <1>3, <1>5
<1>7. act'[p].stack = new
  BY <1>2, <1>3, <1>5
<1>8. \A k \in 1..Len(act'[p].stack) : act'[p].stack[k].id \in CalledFor'
  BY <1>4, <1>6, <1>7
<1>. QED BY <1>2, <1>8, OthersVisitTheSame DEF UInv

(* A dependency of what is called for is put on top.                         *)
LEMMA DependencyOnTop ==
  ASSUME UInv, CalledFor \subseteq CalledFor', NEW p \in Actors, NEW d \in Ids, VisitDependency(p, d)
  PROVE  VisitsCalledFor'
<1>1. At(p, "visit") /\ d \in Top(p).todo
  BY DEF VisitDependency
<1>2. Stack(p) \in Seq(Frame) /\ Len(Stack(p)) \in Nat \ {0} /\ Doing(p, "approve") /\ Top(p).id \in Ids
  BY <1>1, IsFrame DEF UInv, IInv, At
<1>3. d \in CalledFor
  <2>1. d \in dependsOn[Top(p).id]
    BY <1>1, TopFacts DEF UInv, FrameStands
  <2>. QED BY <1>1, <2>1, TopIsCalledFor, DependencyIsCalledFor
<1>4. PICK st \in Seq(Frame) : st = Stack(p)
  BY <1>2
<1>5. \A k \in 1..Len(st) : st[k].id \in CalledFor
  BY <1>2, <1>4 DEF UInv, VisitsCalledFor
<1>6. PICK f \in Frame : f = [Top(p) EXCEPT !.todo = @ \ {d}]
  BY VisitGrows DEF UInv, IInv
<1>7. PICK g \in Frame : g = Visit(d)
  BY VisitGrows DEF UInv, IInv
<1>8. f.id = Top(p).id /\ g.id = d /\ Top(p) = st[Len(st)]
  BY <1>1, <1>2, <1>4, <1>6, <1>7, IsFrame DEF Visit, Frame, Top, UInv, IInv
<1>9. PICK new : new = Append([st EXCEPT ![Len(st)] = f], g)
  OBVIOUS
<1>10. act'[p].stack = new /\ \A q \in Actors \ {p} : act'[q] = act[q]
  BY <1>4, <1>6, <1>7, <1>9, VisitGrows DEF UInv, IInv
<1>11. \A k \in 1..Len(new) : new[k].id \in CalledFor
  <2>1. Len(new) = Len(st) + 1 /\ new[Len(st) + 1] = g
    BY <1>9
  <2>2. \A k \in 1..Len(st) : new[k] = IF k = Len(st) THEN f ELSE st[k]
    BY <1>9
  <2>3. f.id \in CalledFor
    BY <1>2, <1>4, <1>5, <1>8
  <2>. QED BY <1>3, <1>5, <1>8, <2>1, <2>2, <2>3
<1>12. \A k \in 1..Len(act'[p].stack) : act'[p].stack[k].id \in CalledFor'
  BY <1>10, <1>11
<1>. QED BY <1>10, <1>12, OthersVisitTheSame DEF UInv

(* A request that is no approval any more, or not yet.                       *)
LEMMA NotVisiting ==
  ASSUME UInv, CalledFor \subseteq CalledFor', NEW p \in Actors, NEW r \in Request \cup {Idle},
         r = Idle \/ r.op # "approve", act' = [act EXCEPT ![p] = r]
  PROVE  VisitsCalledFor'
<1>1. ~ Doing(p, "approve")' /\ \A q \in Actors \ {p} : act'[q] = act[q]
  BY RequestMoves DEF UInv, IInv, Doing
<1>. QED BY <1>1, OthersVisitTheSame DEF UInv

(* What every step does to what is called for and to what is built.          *)
LEMMA CalledForStays ==
  ASSUME UInv, [Next]_vars
  PROVE  CalledFor \subseteq CalledFor'
<1>1. CASE \E p \in Actors : Create(p)
  <2>1. PICK p \in Actors : Create(p)
    BY <1>1
  <2>2. nextId \in Ids /\ dependsOn[nextId] = {}
    BY <2>1 DEF Create, UInv, NewNeedNothing, IInv, TypeOK, Ids
  <2>3. approved' = approved /\ \A id \in Ids : dependsOn[id] \subseteq dependsOn'[id]
    BY <2>1, <2>2 DEF Create, UInv, IInv, TypeOK
  <2>. QED BY <2>3, CalledForGrows
<1>2. CASE ~ \E p \in Actors : Create(p)
  <2>1. dependsOn' = dependsOn /\ approved \subseteq approved'
    BY <1>2 DEF Next, ApprovalStep, AskCreate, Approve, AskReject, AskDelete, Reject, Delete, ReadProposal,
       VisitDependency, DependenciesDone, ApplyRefused, Apply, CreateView, ModelCombination, Publish,
       SettleApplied, SettleFailed, FollowUp, ApplyFails, ApprovalThrows, Crash, vars, born
  <2>. QED BY <2>1, CalledForGrows
<1>. QED BY <1>1, <1>2

LEMMA NewNeedNothingStep ==
  ASSUME UInv, [Next]_vars
  PROVE  NewNeedNothing'
<1>1. CASE \E p \in Actors : Create(p)
  BY <1>1 DEF Create, UInv, NewNeedNothing, IInv, TypeOK, Ids
<1>2. CASE ~ \E p \in Actors : Create(p)
  <2>1. dependsOn' = dependsOn /\ nextId' = nextId
    BY <1>2 DEF Next, ApprovalStep, AskCreate, Approve, AskReject, AskDelete, Reject, Delete, ReadProposal,
       VisitDependency, DependenciesDone, ApplyRefused, Apply, CreateView, ModelCombination, Publish,
       SettleApplied, SettleFailed, FollowUp, ApplyFails, ApprovalThrows, Crash, vars, born
  <2>. QED BY <2>1 DEF UInv, NewNeedNothing
<1>. QED BY <1>1, <1>2

LEMMA NothingUnapprovedStep ==
  ASSUME UInv, [Next]_vars
  PROVE  NothingUnapproved'
<1>1. CalledFor \subseteq CalledFor' /\ NothingUnapproved
  BY CalledForStays DEF UInv
<1>2. ASSUME NEW p \in Actors, Apply(p) \/ CreateView(p) \/ ModelCombination(p)
      PROVE  NothingUnapproved'
  <2>1. /\ Top(p).id \in CalledFor
        /\ \/ view' = view \cup {Top(p).id} /\ made' = made
           \/ view' = view /\ made' = [made EXCEPT ![Top(p).id] = @ + 1]
           \/ view' = view /\ made' = [made EXCEPT ![Top(p).id] = 1]
    BY <1>2, TopIsCalledFor DEF Apply, CreateView, ModelCombination
  <2>2. \A id \in Ids \ {Top(p).id} : made'[id] = made[id] /\ (id \in view' => id \in view)
    BY <2>1 DEF UInv, IInv, TypeOK
  <2>. QED BY <1>1, <2>1, <2>2 DEF NothingUnapproved
<1>3. CASE ~ \E p \in Actors : Apply(p) \/ CreateView(p) \/ ModelCombination(p)
  <2>1. made' = made /\ view' = view
    BY <1>3 DEF Next, ApprovalStep, AskCreate, Approve, AskReject, AskDelete, Create, Reject, Delete, ReadProposal,
       VisitDependency, DependenciesDone, ApplyRefused, Publish, SettleApplied, SettleFailed, FollowUp,
       ApplyFails, ApprovalThrows, Crash, vars, model
  <2>. QED BY <1>1, <2>1 DEF NothingUnapproved
<1>. QED BY <1>2, <1>3

LEMMA VisitsCalledForStep ==
  ASSUME UInv, [Next]_vars
  PROVE  VisitsCalledFor'
<1>1. CalledFor \subseteq CalledFor' /\ IInv /\ TypeOK /\ VisitsCalledFor
  BY CalledForStays DEF UInv, IInv
<1>2. ASSUME NEW p \in Actors, Ends(p) PROVE VisitsCalledFor'
  BY <1>1, <1>2, NotVisiting DEF Ends
<1>3. ASSUME NEW p \in Actors, NEW to \in {"apply", "model", "publish", "settle", "fail"}, NEW step,
             At(p, step), Step(p, to)
      PROVE  VisitsCalledFor'
  <2>1. PICK f : f = [Top(p) EXCEPT !.step = to]
    OBVIOUS
  <2>2. /\ f \in Frame /\ act'[p].stack = [Stack(p) EXCEPT ![Len(Stack(p))] = f]
        /\ \A q \in Actors \ {p} : act'[q] = act[q]
    BY <1>1, <1>3, <2>1, StepMoves
  <2>3. f.id = Top(p).id
    BY <1>1, <1>3, <2>1, IsFrame DEF Frame
  <2>. QED BY <1>1, <1>3, <2>2, <2>3, SameProposalOnTop
<1>4. ASSUME NEW p \in Actors, NEW k \in Kinds, NEW deps \in SUBSET Ids, AskCreate(p, k, deps)
      PROVE  VisitsCalledFor'
  <2>1. PICK r \in Request : r = [op |-> "create", kind |-> k, deps |-> deps]
    BY DEF Request, Draft
  <2>2. r.op # "approve" /\ act' = [act EXCEPT ![p] = r]
    BY <1>4, <2>1 DEF AskCreate, Begin
  <2>. QED BY <1>1, <2>2, NotVisiting
<1>5. ASSUME NEW p \in Actors, NEW id \in Ids, AskReject(p, id) \/ AskDelete(p, id)
      PROVE  VisitsCalledFor'
  <2>1. PICK r \in Request : /\ r \in {[op |-> "reject", id |-> id], [op |-> "delete", id |-> id]}
                             /\ act' = [act EXCEPT ![p] = r]
    BY <1>5 DEF AskReject, AskDelete, Begin, Request, Decision
  <2>. QED BY <1>1, <2>1, NotVisiting
<1>6. ASSUME NEW p \in Actors, NEW id \in Ids, Approve(p, id)
      PROVE  VisitsCalledFor'
  <2>1. PICK st : st = <<Visit(id)>>
    OBVIOUS
  <2>2. act'[p].stack = st /\ \A q \in Actors \ {p} : act'[q] = act[q]
    BY <1>1, <1>6, <2>1 DEF Approve, Begin, TypeOK
  <2>3. Len(st) = 1 /\ st[1].id = id
    BY <2>1 DEF Visit
  <2>4. id \in CalledFor'
    BY <1>6, ApprovedIsCalledFor DEF Approve
  <2>5. \A k \in 1..Len(act'[p].stack) : act'[p].stack[k].id \in CalledFor'
    BY <2>2, <2>3, <2>4
  <2>. QED BY <1>1, <2>2, <2>5, OthersVisitTheSame
<1>7. ASSUME NEW p \in Actors, Create(p) \/ Reject(p) \/ Delete(p) \/ SettleFailed(p) \/ ApprovalThrows(p)
      PROVE  VisitsCalledFor'
  BY <1>2, <1>7 DEF Create, Reject, Delete, SettleFailed, ApprovalThrows
<1>8. ASSUME NEW p \in Actors, ReadProposal(p) PROVE VisitsCalledFor'
  <2>1. At(p, "read") /\ act[p] \in Approval /\ Top(p).id \in Ids
    BY <1>1, <1>8, IsFrame DEF ReadProposal
  <2>2. CASE Returns(p, act[p].settled)
    <3>1. act[p].settled \in SUBSET Ids
      BY <2>1 DEF Approval
    <3>. QED BY <1>1, <2>1, <2>2, <3>1, FewerProposals
  <2>3. ASSUME act' = [act EXCEPT ![p].stack[Len(Stack(p))] =
                         [id |-> Top(p).id, step |-> "visit", todo |-> ToVisit(Top(p).id)]]
        PROVE  VisitsCalledFor'
    <3>1. PICK f : f = [id |-> Top(p).id, step |-> "visit", todo |-> ToVisit(Top(p).id)]
      OBVIOUS
    <3>2. f \in Frame /\ f.id = Top(p).id
      BY <1>1, <2>1, <3>1 DEF Frame, ToVisit, TypeOK
    <3>3. /\ act'[p].stack = [Stack(p) EXCEPT ![Len(Stack(p))] = f]
          /\ \A q \in Actors \ {p} : act'[q] = act[q]
      BY <1>1, <2>1, <2>3, <3>1, <3>2, TopMoves
    <3>. QED BY <1>1, <2>1, <3>2, <3>3, SameProposalOnTop
  <2>. QED BY <1>2, <1>8, <2>2, <2>3 DEF ReadProposal
<1>9. ASSUME NEW p \in Actors, NEW d \in Ids, VisitDependency(p, d) PROVE VisitsCalledFor'
  BY <1>1, <1>9, DependencyOnTop
<1>10. ASSUME NEW p \in Actors, \/ DependenciesDone(p) \/ ApplyRefused(p) \/ Apply(p) \/ CreateView(p)
                                \/ ModelCombination(p) \/ Publish(p) \/ ApplyFails(p)
       PROVE  VisitsCalledFor'
  <2>1. \E step \in {"visit", "apply", "model", "publish", "settle"},
           to \in {"apply", "model", "publish", "settle", "fail"} : At(p, step) /\ Step(p, to)
    BY <1>10, Zenon DEF DependenciesDone, ApplyRefused, Apply, CreateView, ModelCombination, Publish, ApplyFails
  <2>. QED BY <1>3, <2>1
<1>11. ASSUME NEW p \in Actors, SettleApplied(p) PROVE VisitsCalledFor'
  <2>1. At(p, "settle") /\ act[p] \in Approval /\ Top(p).id \in Ids
    BY <1>1, <1>11, IsFrame DEF SettleApplied
  <2>2. CASE Returns(p, act[p].settled \cup {Top(p).id})
    <3>1. act[p].settled \cup {Top(p).id} \in SUBSET Ids
      BY <2>1 DEF Approval
    <3>. QED BY <1>1, <2>1, <2>2, <3>1, FewerProposals
  <2>3. CASE Step(p, "fail")
    BY <1>3, <2>1, <2>3
  <2>. QED BY <1>11, <2>2, <2>3 DEF SettleApplied
<1>12. ASSUME NEW p \in Actors, FollowUp(p) PROVE VisitsCalledFor'
  <2>1. act[p] \in Approval /\ act[p].stack = <<>>
    BY <1>1, <1>12, IsApproval DEF FollowUp, Stack
  <2>2. ASSUME NEW id, act' = [act EXCEPT ![p].settled = @ \ {id}] PROVE VisitsCalledFor'
    <3>1. act'[p].stack = <<>> /\ \A q \in Actors \ {p} : act'[q] = act[q]
      BY <1>1, <2>1, <2>2 DEF TypeOK, Approval
    <3>. QED BY <1>1, <3>1, OthersVisitTheSame
  <2>. QED BY <1>2, <1>12, <2>2 DEF FollowUp
<1>13. CASE Crash
  BY <1>13 DEF Crash, VisitsCalledFor, Doing
<1>14. CASE UNCHANGED vars
  <2>1. act' = act
    BY <1>14 DEF vars
  <2>. QED BY <1>1, <2>1 DEF VisitsCalledFor, Doing, Stack
<1>. QED BY <1>4, <1>5, <1>6, <1>7, <1>8, <1>9, <1>10, <1>11, <1>12, <1>13, <1>14 DEF Next, ApprovalStep

LEMMA InitUnapproved == Init => UInv
<1> SUFFICES ASSUME Init PROVE UInv
  OBVIOUS
<1>. QED BY InitInv DEF Init, UInv, NewNeedNothing, VisitsCalledFor, Doing, NothingUnapproved

LEMMA NextUnapproved == UInv /\ [Next]_vars => UInv'
<1> SUFFICES ASSUME UInv, [Next]_vars PROVE UInv'
  OBVIOUS
<1>1. IInv'
  BY NextInv DEF UInv
<1>. QED BY <1>1, NewNeedNothingStep, VisitsCalledForStep, NothingUnapprovedStep DEF UInv

(* Nothing is built, in whole or in part, that nobody approved, itself or    *)
(* through a proposal that needs it: visit() goes from an approved proposal  *)
(* to its dependencies and nowhere else.                                     *)
THEOREM ApprovedBeforeBuilt == Spec => []NothingUnapproved
<1>1. UInv => NothingUnapproved
  BY DEF UInv
<1>. QED BY <1>1, InitUnapproved, NextUnapproved, PTL DEF Spec

=============================================================================
