--------------------------- MODULE Answers_proofs ---------------------------
(***************************************************************************)
(* Theorems about the parts of Answers: functions, actions, objects and    *)
(* the front door, for any number of functions, texts, clients, roles, keys *)
(* and names, and however the requests overlap.                            *)
(***************************************************************************)
EXTENDS Answers, SequenceTheorems, FiniteSetTheorems, TLAPS

---------------------------------------------------------------------------
(* Functions (FunctionApproval).                                           *)
---------------------------------------------------------------------------

(* Every step keeps every variable's type.                                   *)
LEMMA TypeStep ==
  ASSUME TypeOK, IdsWereGiven, [Next]_vars
  PROVE  TypeOK'
<1>. USE DEF TypeOK, Asks, Reads, Ends, Still, Races
<1>1. Idle \in Job
  BY DEF Idle, Job
<1>2. \A n \in Names : fn[n] \in Row \cup {None}
  OBVIOUS
<1>3. ASSUME NEW c \in Clients, NEW n \in Names, NEW text \in Texts, AskPropose(c, n, text) PROVE TypeOK'
  BY <1>3 DEF AskPropose, Job
<1>4. ASSUME NEW c \in Clients, NEW n \in Names, NEW text \in Texts, AskUpdate(c, n, text) PROVE TypeOK'
  BY <1>4 DEF AskUpdate, Job
<1>5. ASSUME NEW c \in Clients, NEW n \in Names, AskApprove(c, n) PROVE TypeOK'
  <2>1. fn[n] \in Row /\ fn[n].text \in Texts
    BY <1>2, <1>5 DEF AskApprove, Row
  <2>. QED BY <1>5, <2>1 DEF AskApprove, Job
<1>6. ASSUME NEW c \in Clients, NEW n \in Names, AskDelete(c, n) PROVE TypeOK'
  BY <1>6 DEF AskDelete, Job
<1>7. ASSUME NEW c \in Clients, NEW n \in Names, NEW status \in {"rejected", "archived"}, AskSetStatus(c, n, status)
      PROVE  TypeOK'
  BY <1>7 DEF AskSetStatus, Job
<1>8. ASSUME NEW c \in Clients, NEW n \in Names, NEW preview \in BOOLEAN, AskRun(c, n, preview) PROVE TypeOK'
  BY <1>8 DEF AskRun, Job
<1>9. ASSUME NEW c \in Clients, Propose(c) PROVE TypeOK'
  BY <1>1, <1>9 DEF Propose, Row, IdsWereGiven
<1>10. ASSUME NEW c \in Clients, Update(c) PROVE TypeOK'
  BY <1>1, <1>10 DEF Update, Row, Bump, IdsWereGiven, Holding
<1>11. ASSUME NEW c \in Clients, Approve(c) PROVE TypeOK'
  BY <1>1, <1>11 DEF Approve, Row, IdsWereGiven, Holding
<1>12. ASSUME NEW c \in Clients, SetFunctionStatus(c) PROVE TypeOK'
  BY <1>1, <1>12 DEF SetFunctionStatus, Row
<1>13. ASSUME NEW c \in Clients, DeleteFunction(c) PROVE TypeOK'
  BY <1>1, <1>13 DEF DeleteFunction
<1>14. ASSUME NEW c \in Clients, RunFunction(c) PROVE TypeOK'
  <2>1. job[c].row \in Row /\ job[c].preview \in BOOLEAN
    BY <1>14 DEF RunFunction, IdsWereGiven, Holding, Job
  <2>. QED BY <1>1, <1>14, <2>1 DEF RunFunction, Row, Run
<1>15. ASSUME NEW text \in Texts, DataChanges(text) PROVE TypeOK'
  BY <1>15 DEF DataChanges
<1>16. CASE UNCHANGED vars
  BY <1>16 DEF vars
<1>. QED BY <1>3, <1>4, <1>5, <1>6, <1>7, <1>8, <1>9, <1>10, <1>11, <1>12, <1>13, <1>14, <1>15, <1>16 DEF Next

(* An id is given once.                                                     *)
LEMMA IdsWereGivenStep ==
  ASSUME IInv, TypeOK', [Next]_vars
  PROVE  IdsWereGiven'
<1>. USE DEF IInv, IdsWereGiven, TypeOK, Idle, Asks, Reads, Ends, Still, Races, Standing, Holding
<1>1. ASSUME NEW c \in Clients, NEW n \in Names, NEW text \in Texts, AskPropose(c, n, text)
      PROVE  IdsWereGiven'
  BY <1>1 DEF AskPropose
<1>2. ASSUME NEW c \in Clients, NEW n \in Names, NEW text \in Texts, AskUpdate(c, n, text) PROVE IdsWereGiven'
  BY <1>2 DEF AskUpdate, Editable
<1>3. ASSUME NEW c \in Clients, NEW n \in Names, AskApprove(c, n) PROVE IdsWereGiven'
  BY <1>3 DEF AskApprove
<1>4. ASSUME NEW c \in Clients, NEW n \in Names, AskDelete(c, n) PROVE IdsWereGiven'
  BY <1>4 DEF AskDelete
<1>5. ASSUME NEW c \in Clients, NEW n \in Names, NEW status \in {"rejected", "archived"}, AskSetStatus(c, n, status)
      PROVE  IdsWereGiven'
  BY <1>5 DEF AskSetStatus
<1>6. ASSUME NEW c \in Clients, NEW n \in Names, NEW preview \in BOOLEAN, AskRun(c, n, preview)
      PROVE  IdsWereGiven'
  BY <1>6 DEF AskRun, Runnable
<1>7. ASSUME NEW c \in Clients, Propose(c) PROVE IdsWereGiven'
  <2>1. CASE fn[job[c].name] = None /\ nextFn <= MaxFn
    <3>. DEFINE row == [id |-> nextFn, text |-> job[c].text, status |-> "proposed", version |-> 1]
    <3>1. job[c].name \in Names /\ row \in Row /\ row.id = nextFn /\ nextFn' = nextFn + 1
      BY <1>7, <2>1 DEF Propose, Row
    <3>2. fn' = [fn EXCEPT ![job[c].name] = row]
      BY <1>7, <2>1 DEF Propose
    <3>3. \A n \in Standing' : fn'[n] = IF n = job[c].name THEN row ELSE fn[n]
      BY <3>1, <3>2
    <3>4. \A n \in Standing' : n = job[c].name \/ n \in Standing
      BY <3>1, <3>2
    <3>. HIDE DEF row
    <3>5. \A n \in Standing' : fn'[n] \in Row /\ fn'[n].id < nextFn'
      BY <3>1, <3>3, <3>4 DEF Row
    <3>6. \A n, m \in Standing' : fn'[n].id = fn'[m].id => n = m
      BY <3>1, <3>3, <3>4 DEF Row
    <3>7. \A d \in Clients : job'[d] = Idle \/ job'[d] = job[d]
      BY <1>7 DEF Propose
    <3>8. \A d \in Holding' : d \in Holding /\ job'[d] = job[d]
      BY <3>7
    <3>. QED BY <1>7, <3>1, <3>5, <3>6, <3>7, <3>8 DEF Propose, Row, Run
  <2>2. CASE ~(fn[job[c].name] = None /\ nextFn <= MaxFn)
    BY <1>7, <2>2 DEF Propose
  <2>. QED BY <2>1, <2>2
<1>8. ASSUME NEW c \in Clients, Update(c) PROVE IdsWereGiven'
  BY <1>8 DEF Update, Bump, Row
<1>9. ASSUME NEW c \in Clients, Approve(c) PROVE IdsWereGiven'
  BY <1>9 DEF Approve, Row
<1>10. ASSUME NEW c \in Clients, SetFunctionStatus(c) PROVE IdsWereGiven'
  BY <1>10 DEF SetFunctionStatus, Row
<1>11. ASSUME NEW c \in Clients, DeleteFunction(c) PROVE IdsWereGiven'
  BY <1>11 DEF DeleteFunction
<1>12. ASSUME NEW c \in Clients, RunFunction(c) PROVE IdsWereGiven'
  BY <1>12 DEF RunFunction
<1>13. ASSUME NEW text \in Texts, DataChanges(text) PROVE IdsWereGiven'
  BY <1>13 DEF DataChanges
<1>14. CASE UNCHANGED vars
  BY <1>14 DEF vars
<1>. HIDE DEF IInv, IdsWereGiven, TypeOK
<1>. QED BY <1>1, <1>2, <1>3, <1>4, <1>5, <1>6, <1>7, <1>8, <1>9, <1>10, <1>11, <1>12, <1>13, <1>14 DEF Next

(* Only an approval makes a text active, and an active one is not edited.    *)
LEMMA ActiveWasApprovedStep ==
  ASSUME IInv, TypeOK', [Next]_vars
  PROVE  ActiveWasApproved'
<1>. USE DEF IInv, ActiveWasApproved, IdsWereGiven, TypeOK, Idle, Asks, Reads, Ends, Still, Races, Standing, Holding
<1>1. ASSUME NEW c \in Clients, NEW n \in Names, NEW text \in Texts, AskPropose(c, n, text)
      PROVE  ActiveWasApproved'
  BY <1>1 DEF AskPropose
<1>2. ASSUME NEW c \in Clients, NEW n \in Names, NEW text \in Texts, AskUpdate(c, n, text)
      PROVE  ActiveWasApproved'
  BY <1>2 DEF AskUpdate, Editable
<1>3. ASSUME NEW c \in Clients, NEW n \in Names, AskApprove(c, n) PROVE ActiveWasApproved'
  BY <1>3 DEF AskApprove
<1>4. ASSUME NEW c \in Clients, NEW n \in Names, AskDelete(c, n) PROVE ActiveWasApproved'
  BY <1>4 DEF AskDelete
<1>5. ASSUME NEW c \in Clients, NEW n \in Names, NEW status \in {"rejected", "archived"}, AskSetStatus(c, n, status)
      PROVE  ActiveWasApproved'
  BY <1>5 DEF AskSetStatus
<1>6. ASSUME NEW c \in Clients, NEW n \in Names, NEW preview \in BOOLEAN, AskRun(c, n, preview)
      PROVE  ActiveWasApproved'
  BY <1>6 DEF AskRun, Runnable
<1>7. ASSUME NEW c \in Clients, Propose(c) PROVE ActiveWasApproved'
  BY <1>7 DEF Propose, Row
<1>8. ASSUME NEW c \in Clients, Update(c) PROVE ActiveWasApproved'
  BY <1>8 DEF Update, Bump, Row
<1>9. ASSUME NEW c \in Clients, Approve(c) PROVE ActiveWasApproved'
  BY <1>9 DEF Approve, Row
<1>10. ASSUME NEW c \in Clients, SetFunctionStatus(c) PROVE ActiveWasApproved'
  BY <1>10 DEF SetFunctionStatus, Row
<1>11. ASSUME NEW c \in Clients, DeleteFunction(c) PROVE ActiveWasApproved'
  BY <1>11 DEF DeleteFunction
<1>12. ASSUME NEW c \in Clients, RunFunction(c) PROVE ActiveWasApproved'
  BY <1>12 DEF RunFunction
<1>13. ASSUME NEW text \in Texts, DataChanges(text) PROVE ActiveWasApproved'
  BY <1>13 DEF DataChanges
<1>14. CASE UNCHANGED vars
  <2>1. ActiveWasApproved /\ fn' = fn /\ job' = job /\ runs' = runs /\ raced' = raced /\ approvals' = approvals
    BY <1>14 DEF vars
  <2>. HIDE DEF IInv, TypeOK, IdsWereGiven
  <2>. QED BY <2>1
<1>. HIDE DEF IInv, ActiveWasApproved, IdsWereGiven, TypeOK
<1>. QED BY <1>1, <1>2, <1>3, <1>4, <1>5, <1>6, <1>7, <1>8, <1>9, <1>10, <1>11, <1>12, <1>13, <1>14 DEF Next

(* Where nothing new is seen and every row stays at its version, nothing   *)
(* changes.                                                                  *)
LEMMA NothingNewSeen ==
  ASSUME VersionsHaveOneText, Seen' \subseteq Seen, raced \subseteq raced',
         \A m \in Standing' : m \in Standing /\ fn'[m].id = fn[m].id /\ fn'[m].version = fn[m].version
  PROVE  VersionsHaveOneText'
BY DEF VersionsHaveOneText

(* A new text has a version of its own.                                     *)
LEMMA VersionsHaveOneTextStep ==
  ASSUME IInv, TypeOK', [Next]_vars
  PROVE  VersionsHaveOneText'
<1>. USE DEF IInv, VersionsHaveOneText, IdsWereGiven, Seen, TypeOK, Idle, Asks, Reads, Ends, Still, Races, Standing, Holding
<1>1. ASSUME NEW c \in Clients, NEW n \in Names, NEW text \in Texts, AskPropose(c, n, text)
      PROVE  VersionsHaveOneText'
  BY <1>1 DEF AskPropose
<1>2. ASSUME NEW c \in Clients, NEW n \in Names, NEW text \in Texts, AskUpdate(c, n, text)
      PROVE  VersionsHaveOneText'
  BY <1>2 DEF AskUpdate, Editable
<1>3. ASSUME NEW c \in Clients, NEW n \in Names, AskApprove(c, n) PROVE VersionsHaveOneText'
  BY <1>3 DEF AskApprove
<1>4. ASSUME NEW c \in Clients, NEW n \in Names, AskDelete(c, n) PROVE VersionsHaveOneText'
  BY <1>4 DEF AskDelete
<1>5. ASSUME NEW c \in Clients, NEW n \in Names, NEW status \in {"rejected", "archived"}, AskSetStatus(c, n, status)
      PROVE  VersionsHaveOneText'
  BY <1>5 DEF AskSetStatus
<1>6. ASSUME NEW c \in Clients, NEW n \in Names, NEW preview \in BOOLEAN, AskRun(c, n, preview)
      PROVE  VersionsHaveOneText'
  BY <1>6 DEF AskRun, Runnable
<1>7. ASSUME NEW c \in Clients, Propose(c) PROVE VersionsHaveOneText'
  BY <1>7 DEF Propose, Row
<1>8. ASSUME NEW c \in Clients, Update(c) PROVE VersionsHaveOneText'
  <2>1. CASE ~Still(c) \/ fn[job[c].name] /= job[c].row
    <3>1. \A m \in Standing' : m \in Standing /\ fn'[m].id = fn[m].id /\ (fn'[m].id \in raced' \/ fn'[m] = fn[m])
      <4>1. CASE ~Still(c)
        BY <1>8, <4>1 DEF Update
      <4>2. CASE Still(c)
        <5>1. fn[job[c].name] /= job[c].row /\ fn[job[c].name] \in Row /\ job[c].name \in Standing
          BY <1>8, <2>1, <4>2 DEF Update
        <5>. QED BY <1>8, <4>2, <5>1 DEF Update, Row
      <4>. QED BY <4>1, <4>2
    <3>2. \A d \in Holding' : d \in Holding /\ job'[d] = job[d]
      BY <1>8 DEF Update
    <3>3. runs' = runs /\ raced \subseteq raced'
      BY <1>8 DEF Update
    <3>4. \A v \in Seen' : v.id \in raced' \/ v \in Seen
      BY <3>1, <3>2, <3>3
    <3>. HIDE DEF Standing, Seen
    <3>. QED BY <3>1, <3>3, <3>4
  <2>2. CASE Still(c) /\ fn[job[c].name] = job[c].row
    <3>. DEFINE n == job[c].name
                row == [fn[n] EXCEPT !.text = job[c].text, !.version = @ + Bump(job[c].text, job[c].row.text)]
                view == [id |-> row.id, version |-> row.version, text |-> row.text]
    <3>1. n \in Standing /\ fn[n] \in Row /\ row \in Row /\ row.id = fn[n].id /\ row.text = job[c].text
      <4>1. n \in Standing /\ fn[n] \in Row /\ job[c].text \in Texts
        BY <1>8, <2>2 DEF Update
      <4>2. Bump(job[c].text, job[c].row.text) \in {0, 1}
        BY DEF Bump
      <4>3. fn[n].version + Bump(job[c].text, job[c].row.text) \in Nat \ {0}
        BY <4>1, <4>2 DEF Row
      <4>4. row = [fn[n] EXCEPT !.text = job[c].text, !.version = fn[n].version + Bump(job[c].text, job[c].row.text)]
        BY <4>1 DEF Row
      <4>5. row \in Row
        BY <4>1, <4>3, <4>4 DEF Row
      <4>6. row.id = fn[n].id /\ row.text = job[c].text
        BY <4>1, <4>4 DEF Row
      <4>. QED BY <4>1, <4>5, <4>6
    <3>2. fn' = [fn EXCEPT ![n] = row] /\ raced' = raced /\ runs' = runs /\ Standing' \subseteq Standing
      BY <1>8, <2>2, <3>1 DEF Update, Row
    <3>3. \A d \in Holding' : d \in Holding /\ job'[d] = job[d]
      BY <1>8 DEF Update
    <3>4. Seen' \subseteq Seen \cup {view}
      BY <3>1, <3>2, <3>3
    <3>5. [id |-> fn[n].id, version |-> fn[n].version, text |-> fn[n].text] \in Seen
      BY <3>1
    <3>6. \/ row.version = fn[n].version /\ row.text = fn[n].text
          \/ row.version > fn[n].version
      BY <3>1, <2>2 DEF Bump, Row
    <3>7. \A m \in Standing' : m \in Standing /\ fn'[m] = IF m = n THEN row ELSE fn[m]
      BY <3>1, <3>2
    <3>8. \A v \in Seen : v.version \in Nat /\ v.id \in Nat
      BY DEF Row, Run
    <3>9. \A m \in Standing : fn[m].id = fn[n].id => m = n
      BY <3>1
    <3>. HIDE DEF row, Seen, Standing
    <3>. QED BY <3>1, <3>2, <3>4, <3>5, <3>6, <3>7, <3>8, <3>9 DEF Row
  <2>. QED BY <2>1, <2>2
<1>9. ASSUME NEW c \in Clients, Approve(c) PROVE VersionsHaveOneText'
  <2>1. \A m \in Standing' : /\ m \in Standing /\ fn'[m].id = fn[m].id
                            /\ fn'[m].version = fn[m].version /\ fn'[m].text = fn[m].text
    BY <1>9 DEF Approve, Row
  <2>2. \A d \in Holding' : d \in Holding /\ job'[d] = job[d]
    BY <1>9 DEF Approve
  <2>3. runs' = runs /\ raced \subseteq raced'
    BY <1>9 DEF Approve
  <2>4. Seen' \subseteq Seen
    BY <2>1, <2>2, <2>3
  <2>. HIDE DEF VersionsHaveOneText, Seen, Standing
  <2>. QED BY <2>1, <2>3, <2>4, NothingNewSeen
<1>10. ASSUME NEW c \in Clients, SetFunctionStatus(c) PROVE VersionsHaveOneText'
  <2>1. \A m \in Standing' : /\ m \in Standing /\ fn'[m].id = fn[m].id
                            /\ fn'[m].version = fn[m].version /\ fn'[m].text = fn[m].text
    BY <1>10 DEF SetFunctionStatus, Row
  <2>2. \A d \in Holding' : d \in Holding /\ job'[d] = job[d]
    BY <1>10 DEF SetFunctionStatus
  <2>3. runs' = runs /\ raced \subseteq raced'
    BY <1>10 DEF SetFunctionStatus
  <2>4. Seen' \subseteq Seen
    BY <2>1, <2>2, <2>3
  <2>. HIDE DEF VersionsHaveOneText, Seen, Standing
  <2>. QED BY <2>1, <2>3, <2>4, NothingNewSeen
<1>11. ASSUME NEW c \in Clients, DeleteFunction(c) PROVE VersionsHaveOneText'
  BY <1>11 DEF DeleteFunction
<1>12. ASSUME NEW c \in Clients, RunFunction(c) PROVE VersionsHaveOneText'
  BY <1>12 DEF RunFunction
<1>13. ASSUME NEW text \in Texts, DataChanges(text) PROVE VersionsHaveOneText'
  BY <1>13 DEF DataChanges
<1>14. CASE UNCHANGED vars
  <2>1. VersionsHaveOneText /\ fn' = fn /\ Seen' = Seen /\ raced' = raced
    BY <1>14 DEF vars
  <2>. HIDE DEF IInv, TypeOK, IdsWereGiven, Seen
  <2>. QED BY <2>1
<1>. HIDE DEF IInv, VersionsHaveOneText, IdsWereGiven, Seen, TypeOK
<1>. QED BY <1>1, <1>2, <1>3, <1>4, <1>5, <1>6, <1>7, <1>8, <1>9, <1>10, <1>11, <1>12, <1>13, <1>14 DEF Next

(* The invariant is inductive.                                               *)
LEMMA InitInv == Init => IInv
<1>. SUFFICES ASSUME Init PROVE IInv
  OBVIOUS
<1>. USE DEF Init
<1>1. Standing = {} /\ Holding = {} /\ Seen = {}
  BY DEF Standing, Holding, Seen, Idle
<1>2. TypeOK
  BY DEF TypeOK, Job, Idle
<1>3. IdsWereGiven /\ ActiveWasApproved
  BY <1>1 DEF IdsWereGiven, ActiveWasApproved, Idle
<1>4. VersionsHaveOneText
  BY <1>1 DEF VersionsHaveOneText
<1>. QED BY <1>2, <1>3, <1>4 DEF IInv

LEMMA Inductive == IInv /\ [Next]_vars => IInv'
<1>. SUFFICES ASSUME IInv, [Next]_vars PROVE IInv'
  OBVIOUS
<1>1. TypeOK'
  BY TypeStep DEF IInv
<1>2. IdsWereGiven' /\ ActiveWasApproved' /\ VersionsHaveOneText'
  BY <1>1, IdsWereGivenStep, ActiveWasApprovedStep, VersionsHaveOneTextStep
<1>. QED BY <1>1, <1>2 DEF IInv

(* A version seen as a run of it has the text of every other run of it.      *)
LEMMA WhatItMeans == IInv => RunsAreWhatWasApproved
<1>. SUFFICES ASSUME IInv, NEW r \in runs, r.id \notin raced
              PROVE  /\ ~r.preview => <<r.id, r.text>> \in approvals
                     /\ \A q \in runs : q.id = r.id /\ q.version = r.version => q.text = r.text
  BY DEF RunsAreWhatWasApproved
<1>1. ~r.preview => <<r.id, r.text>> \in approvals
  BY DEF IInv, ActiveWasApproved
<1>2. ASSUME NEW q \in runs, q.id = r.id, q.version = r.version PROVE q.text = r.text
  <2>. DEFINE View(p) == [id |-> p.id, version |-> p.version, text |-> p.text]
  <2>1. View(r) \in Seen /\ View(q) \in Seen
    BY DEF Seen
  <2>2. \A v \in Seen : v.id \notin raced => \A u \in Seen : u.id = v.id /\ u.version = v.version => u.text = v.text
    BY DEF IInv, VersionsHaveOneText
  <2>. QED BY <1>2, <2>1, <2>2
<1>. QED BY <1>1, <1>2

(* The types of the variables.                                               *)
THEOREM TypeCorrect == Spec => []TypeOK
<1>1. IInv => TypeOK
  BY DEF IInv
<1>. QED BY <1>1, InitInv, Inductive, PTL DEF Spec

(* What runs for a dashboard was approved in the very words that ran, and    *)
(* the runs filed under one version are of one text, of every function that  *)
(* no two requests wrote at once.                                            *)
THEOREM ApprovedBeforeItRuns == Spec => []RunsAreWhatWasApproved
BY InitInv, Inductive, WhatItMeans, PTL DEF Spec

---------------------------------------------------------------------------
(* Actions.                                                                *)
---------------------------------------------------------------------------

(* What the parts of the invariant say of one request.                      *)
LEMMA OfOneRequest ==
  ASSUME AC!IInv, NEW c \in Clients, call[c] # AC!Idle
  PROVE  /\ call[c] \in AC!Calls /\ AC!Row(c) \in AC!Answered /\ AC!Numbered(c)
         /\ AC!Granted(call[c]) /\ AC!Granted(AC!Row(c)) /\ (call[c].at = "target" => call[c].allowed)
<1>1. call[c] \in AC!Calls
  BY DEF AC!IInv, AC!TypeOK
<1>2. AC!Row(c) \in AC!Answered /\ (AC!Granted(call[c]) <=> AC!Granted(AC!Row(c)))
  BY <1>1 DEF AC!Row, AC!Answered, AC!Calls, AC!Granted
<1>. QED BY <1>1, <1>2 DEF AC!IInv, AC!CallsAreAllowed, AC!RequestsAreNumbered

(* A request begins, goes on or is given up: the trail and what was told    *)
(* stay, and its number is its own.                                         *)
LEMMA CallGoesOn ==
  ASSUME AC!IInv, NEW c \in Clients, NEW s \in AC!Calls \cup {AC!Idle}, call' = [call EXCEPT ![c] = s],
         action' \in AC!Declarations, UNCHANGED <<trail, told>>, asks' \in Nat, asks <= asks',
         s # AC!Idle => /\ (s.at = "target" => s.allowed) /\ AC!Granted(s) /\ s.at # "answer" /\ s.id <= asks'
                        /\ \/ s.id > asks
                           \/ call[c] # AC!Idle /\ s.id = call[c].id /\ call[c].at # "answer"
  PROVE  AC!IInv'
<1>1. \A d \in Clients : call'[d] = IF d = c THEN s ELSE call[d]
  BY DEF AC!IInv, AC!TypeOK
<1>2. AC!TrailIsWhatWasSaid'
  BY DEF AC!IInv, AC!TrailIsWhatWasSaid, AC!RowsAreAnswers, AC!RolesCameFirst, AC!Granted
<1>3. AC!TypeOK'
  BY DEF AC!IInv, AC!TypeOK, AC!Answered, AC!Statuses, AC!Declarations, AC!Calls, AC!Idle
<1>4. AC!CallsAreAllowed'
  BY <1>1 DEF AC!IInv, AC!CallsAreAllowed, AC!Granted, AC!Idle
<1>5. (\A k \in DOMAIN trail : trail[k].id <= asks) /\ (\A a \in told : a.id <= asks)
  BY DEF AC!IInv, AC!RequestsAreNumbered
<1>6. asks \in Nat /\ trail \in Seq(AC!Answered) /\ told \subseteq AC!Answered
  BY DEF AC!IInv, AC!TypeOK
<1>7. \A k \in DOMAIN trail : trail[k].id \in Nat
  <2>1. \A k \in DOMAIN trail : trail[k] \in AC!Answered
    BY <1>6
  <2>2. \A a \in AC!Answered : a.id \in Nat
    BY DEF AC!Answered
  <2>. QED BY <2>1, <2>2
<1>8. \A a \in told : a.id \in Nat
  BY <1>6 DEF AC!Answered
<1>9. (\A k \in DOMAIN trail' : trail'[k].id <= asks') /\ (\A a \in told' : a.id <= asks')
  BY <1>5, <1>6, <1>7, <1>8
<1>10. ASSUME NEW d \in Clients, call'[d] # AC!Idle PROVE AC!Numbered(d)'
  <2>1. CASE d # c
    <3>1. call'[d] = call[d] /\ call[d] # AC!Idle /\ call[d] \in AC!Calls /\ AC!Numbered(d) /\ AC!Row(d)' = AC!Row(d)
      BY <1>1, <1>10, <2>1, OfOneRequest DEF AC!Row
    <3>2. call[d].id \in Nat /\ call[d].id <= asks
      BY <3>1 DEF AC!Calls, AC!Numbered
    <3>3. ASSUME NEW e \in Clients \ {d}, call'[e] # AC!Idle PROVE call'[e].id # call'[d].id
      <4>1. CASE e # c
        BY <1>1, <3>1, <3>3, <4>1 DEF AC!Numbered
      <4>2. CASE e = c
        <5>1. call'[e] = s /\ s \in AC!Calls
          BY <1>1, <3>3, <4>2
        <5>2. CASE s.id > asks
          BY <1>6, <3>1, <3>2, <5>1, <5>2 DEF AC!Calls
        <5>3. CASE call[c] # AC!Idle /\ s.id = call[c].id
          BY <2>1, <3>1, <5>1, <5>3 DEF AC!Numbered
        <5>. QED BY <3>3, <5>1, <5>2, <5>3
      <4>. QED BY <4>1, <4>2
    <3>4. call'[d].id <= asks'
      BY <1>6, <3>1, <3>2
    <3>. QED BY <3>1, <3>3, <3>4 DEF AC!Numbered
  <2>2. CASE d = c
    <3>1. call'[d] = s /\ s \in AC!Calls /\ s # AC!Idle
      BY <1>1, <1>10, <2>2
    <3>2. CASE s.id > asks
      <4>1. s.id \in Nat /\ (\A k \in DOMAIN trail : trail[k].id # s.id) /\ (\A a \in told : a.id # s.id)
        BY <1>5, <1>6, <1>7, <1>8, <3>1, <3>2 DEF AC!Calls
      <4>2. ASSUME NEW e \in Clients \ {d}, call'[e] # AC!Idle PROVE call'[e].id # s.id
        <5>1. call'[e] = call[e] /\ call[e] \in AC!Calls /\ call[e].id <= asks
          BY <1>1, <2>2, <4>2, OfOneRequest DEF AC!Numbered
        <5>. QED BY <1>6, <3>2, <4>1, <5>1 DEF AC!Calls
      <4>. QED BY <3>1, <4>1, <4>2 DEF AC!Numbered
    <3>3. CASE call[c] # AC!Idle /\ s.id = call[c].id /\ call[c].at # "answer"
      <4>1. AC!Numbered(c)
        BY <3>3, OfOneRequest
      <4>2. \A e \in Clients \ {d} : call'[e] # AC!Idle => call'[e].id # s.id
        BY <1>1, <2>2, <3>3, <4>1 DEF AC!Numbered
      <4>. QED BY <2>2, <3>1, <3>3, <4>1, <4>2 DEF AC!Numbered
    <3>. QED BY <3>1, <3>2, <3>3
  <2>. QED BY <2>1, <2>2
<1>11. AC!RequestsAreNumbered'
  BY <1>9, <1>10 DEF AC!RequestsAreNumbered, AC!Idle
<1>. QED BY <1>2, <1>3, <1>4, <1>11 DEF AC!IInv

LEMMA ApplyKeeps ==
  ASSUME AC!IInv, NEW c \in Clients, NEW p \in AC!Parameters, NEW role \in Roles, AC!Apply(c, p, role)
  PROVE  AC!IInv'
<1>1. PICK verdict : verdict = AC!Verdict(action, p, role)
  OBVIOUS
<1>2. PICK allowed \in BOOLEAN : allowed = AC!CheckRole(action, role)
  BY DEF AC!CheckRole
<1>3. verdict \in AC!Statuses
  BY <1>1 DEF AC!Verdict, AC!Statuses
<1>4. verdict \in {"go on", "staged", "pending_approval"} => allowed
  <2>1. CASE ~allowed
    <3>1. p.valid \in BOOLEAN
      BY DEF AC!Parameters
    <3>2. CASE ~p.valid
      BY <1>1, <3>2 DEF AC!Verdict
    <3>3. CASE p.valid
      BY <1>1, <1>2, <2>1, <3>3 DEF AC!Verdict
    <3>. QED BY <3>1, <3>2, <3>3
  <2>. QED BY <2>1, <1>2
<1>5. PICK s : s = [at |-> IF verdict = "go on" THEN "target" ELSE "record", id |-> asks', names |-> p.names, status |-> verdict,
                    audited |-> action.audited, allowed |-> allowed]
  OBVIOUS
<1>6. /\ action.audited \in BOOLEAN /\ action' \in AC!Declarations /\ p.names \in {"object", "nothing"}
      /\ asks' \in Nat /\ asks' > asks /\ asks <= asks'
  <2>1. action \in AC!Declarations /\ action' = action
    BY DEF AC!Apply, AC!IInv, AC!TypeOK
  <2>2. asks \in Nat /\ asks' = asks + 1
    BY DEF AC!Apply, AC!IInv, AC!TypeOK
  <2>3. action.audited \in BOOLEAN
    BY <2>1 DEF AC!Declarations
  <2>4. p.names \in {"object", "nothing"}
    BY DEF AC!Parameters
  <2>. QED BY <2>1, <2>2, <2>3, <2>4
<1>7. /\ s \in AC!Calls /\ s.at # "answer" /\ s.id > asks /\ s.id <= asks'
      /\ (s.at = "target" => s.allowed) /\ AC!Granted(s)
  <2>1. /\ s.at = (IF verdict = "go on" THEN "target" ELSE "record") /\ s.id = asks' /\ s.status = verdict
        /\ s.allowed = allowed /\ s.names = p.names /\ s.audited = action.audited
    BY <1>5
  <2>2. (s.at = "target" => s.allowed) /\ AC!Granted(s)
    BY <1>4, <2>1 DEF AC!Granted
  <2>3. s \in AC!Calls
    BY <1>2, <1>3, <1>5, <1>6 DEF AC!Calls
  <2>4. s.at # "answer"
    BY <2>1
  <2>5. s.id > asks /\ s.id <= asks'
    <3>1. s.id = asks'
      BY <2>1
    <3>. QED BY <1>6, <3>1
  <2>. QED BY <2>2, <2>3, <2>4, <2>5
<1>8. call' = [call EXCEPT ![c] = s] /\ UNCHANGED <<trail, told>>
  BY <1>1, <1>2, <1>5 DEF AC!Apply
<1>. QED BY <1>6, <1>7, <1>8, CallGoesOn

LEMMA FindTargetKeeps ==
  ASSUME AC!IInv, NEW c \in Clients, AC!FindTarget(c)
  PROVE  AC!IInv'
<1>1. PICK j : j = call[c]
  OBVIOUS
<1>2. PICK status \in {"failed", "staged"} : call' = [call EXCEPT ![c].at = "record", ![c].status = status]
  BY DEF AC!FindTarget
<1>3. j # AC!Idle /\ j.at = "target"
  BY <1>1 DEF AC!FindTarget, AC!Idle
<1>4. j \in AC!Calls /\ j.allowed /\ j.id \in Nat /\ j.id <= asks
  BY <1>1, <1>3, OfOneRequest DEF AC!Numbered, AC!Calls
<1>5. PICK s : s = [j EXCEPT !.at = "record", !.status = status]
  OBVIOUS
<1>6. s \in AC!Calls /\ s.allowed /\ s.at = "record" /\ s.id = j.id /\ AC!Granted(s)
  BY <1>2, <1>4, <1>5 DEF AC!Calls, AC!Statuses, AC!Granted
<1>7. call' = [call EXCEPT ![c] = s] /\ action' \in AC!Declarations /\ UNCHANGED <<trail, told, asks>> /\ asks' \in Nat
  BY <1>1, <1>2, <1>5 DEF AC!FindTarget, AC!IInv, AC!TypeOK
<1>8. asks <= asks'
  BY <1>7
<1>. QED BY <1>1, <1>3, <1>4, <1>6, <1>7, <1>8, CallGoesOn

(* A row is written: of a request that had none, and was not answered. Then *)
(* the request goes on to its answer, or is given up.                       *)
LEMMA RowIsWritten ==
  ASSUME AC!IInv, NEW c \in Clients, call[c] # AC!Idle, call[c].at = "record", call[c].audited,
         trail' = Append(trail, AC!Row(c)), UNCHANGED <<told, asks, action>>,
         \/ call' = [call EXCEPT ![c].at = "answer"]
         \/ call' = [call EXCEPT ![c] = AC!Idle]
  PROVE  AC!IInv'
<1>1. PICK row : row = AC!Row(c)
  OBVIOUS
<1>2. row \in AC!Answered /\ AC!Granted(row) /\ AC!Numbered(c) /\ call[c] \in AC!Calls /\ row.id = call[c].id /\ row.audited
      /\ AC!Granted(call[c])
  BY <1>1, OfOneRequest DEF AC!Row
<1>3. PICK n \in Nat : /\ DOMAIN trail = 1..(n - 1) /\ DOMAIN trail' = 1..n /\ trail'[n] = row
                       /\ \A k \in DOMAIN trail : trail'[k] = trail[k]
  <2>1. trail \in Seq(AC!Answered)
    BY DEF AC!IInv, AC!TypeOK
  <2>. WITNESS Len(trail) + 1 \in Nat
  <2>. QED BY <1>1, <1>2, <2>1
<1>4. trail' \in Seq(AC!Answered)
  BY <1>1, <1>2 DEF AC!IInv, AC!TypeOK
<1>5. \A k \in DOMAIN trail' : k = n \/ k \in DOMAIN trail
  BY <1>3
<1>6. PICK s \in AC!Calls \cup {AC!Idle} : /\ call' = [call EXCEPT ![c] = s]
                                           /\ s # AC!Idle => s = [call[c] EXCEPT !.at = "answer"]
  <2>1. [call[c] EXCEPT !.at = "answer"] \in AC!Calls
    BY <1>2 DEF AC!Calls
  <2>2. CASE call' = [call EXCEPT ![c].at = "answer"]
    <3>1. call' = [call EXCEPT ![c] = [call[c] EXCEPT !.at = "answer"]]
      BY <2>2
    <3>. QED BY <2>1, <3>1
  <2>3. CASE call' = [call EXCEPT ![c] = AC!Idle]
    BY <2>3
  <2>. QED BY <2>2, <2>3
<1>7. \A d \in Clients : call'[d] = IF d = c THEN s ELSE call[d]
  <2>1. DOMAIN call = Clients
    BY DEF AC!IInv, AC!TypeOK
  <2>. QED BY <1>6, <2>1
<1>8. s # AC!Idle => /\ s.at = "answer" /\ s.id = call[c].id /\ s.audited /\ s.status = call[c].status
                     /\ s.allowed = call[c].allowed
  BY <1>2, <1>6 DEF AC!Calls
<1>9. \A k \in DOMAIN trail : trail[k].id # row.id
  BY <1>2 DEF AC!Numbered
<1>10. \A a \in told : a.id # row.id
  BY <1>2 DEF AC!Numbered
<1>11. AC!RowsAreAnswers /\ AC!RolesCameFirst
  BY DEF AC!IInv, AC!TrailIsWhatWasSaid
<1>12. AC!RowsAreAnswers'
  <2>1. \A k, l \in DOMAIN trail' : trail'[k].id = trail'[l].id => k = l
    BY <1>3, <1>5, <1>9, <1>11 DEF AC!RowsAreAnswers
  <2>2. \A a \in told' : a.audited => \E k \in DOMAIN trail' : trail'[k] = a
    BY <1>3, <1>11 DEF AC!RowsAreAnswers
  <2>3. \A a \in told', k \in DOMAIN trail' : trail'[k].id = a.id => trail'[k] = a /\ a.audited
    BY <1>3, <1>5, <1>10, <1>11 DEF AC!RowsAreAnswers
  <2>. QED BY <2>1, <2>2, <2>3 DEF AC!RowsAreAnswers
<1>13. AC!RolesCameFirst'
  <2>1. \A k \in DOMAIN trail' : AC!Granted(trail'[k])
    BY <1>2, <1>3, <1>5, <1>11 DEF AC!RolesCameFirst
  <2>. QED BY <1>11, <2>1 DEF AC!RolesCameFirst, AC!Granted
<1>14. AC!TypeOK'
  <2>1. call \in [Clients -> AC!Calls \cup {AC!Idle}]
    BY DEF AC!IInv, AC!TypeOK
  <2>2. call' \in [Clients -> AC!Calls \cup {AC!Idle}]
    BY <1>6, <2>1
  <2>3. action' \in AC!Declarations /\ told' \subseteq AC!Answered /\ asks' \in Nat
    BY DEF AC!IInv, AC!TypeOK
  <2>. QED BY <1>4, <2>2, <2>3 DEF AC!TypeOK, AC!Answered, AC!Statuses, AC!Declarations, AC!Calls, AC!Idle
<1>15. AC!CallsAreAllowed'
  <2>1. ASSUME NEW d \in Clients, call'[d] # AC!Idle
        PROVE  (call'[d].at = "target" => call'[d].allowed) /\ AC!Granted(call'[d])
    <3>1. CASE d = c
      BY <1>2, <1>7, <1>8, <2>1, <3>1 DEF AC!Granted
    <3>2. CASE d # c
      BY <1>7, <2>1, <3>2, OfOneRequest
    <3>. QED BY <3>1, <3>2
  <2>. QED BY <2>1 DEF AC!CallsAreAllowed, AC!Granted, AC!Idle
<1>16. ASSUME NEW d \in Clients, call'[d] # AC!Idle PROVE AC!Numbered(d)'
  <2>1. CASE d # c
    <3>1. call'[d] = call[d] /\ AC!Numbered(d) /\ AC!Row(d)' = AC!Row(d)
      BY <1>7, <1>16, <2>1, OfOneRequest DEF AC!Row
    <3>2. call[d].id # row.id
      BY <1>2, <1>7, <1>16, <2>1 DEF AC!Numbered
    <3>3. \A e \in Clients \ {d} : call'[e] # AC!Idle => call'[e].id # call'[d].id
      BY <1>2, <1>7, <1>8, <3>1, <3>2 DEF AC!Numbered
    <3>4. \A k \in DOMAIN trail' : trail'[k].id = call[d].id => k \in DOMAIN trail /\ trail'[k] = trail[k]
      BY <1>3, <1>5, <3>2
    <3>5. \A k \in DOMAIN trail' : trail'[k].id = call[d].id
                                     => call[d].at = "answer" /\ trail'[k] = AC!Row(d) /\ call[d].audited
      BY <3>1, <3>4 DEF AC!Numbered
    <3>6. call[d].at = "answer" /\ call[d].audited => \E k \in DOMAIN trail' : trail'[k] = AC!Row(d)
      BY <1>3, <3>1 DEF AC!Numbered
    <3>. QED BY <3>1, <3>3, <3>5, <3>6 DEF AC!Numbered
  <2>2. CASE d = c
    <3>1. call'[d] = s /\ AC!Row(c)' = row
      BY <1>1, <1>7, <1>8, <1>16, <2>2 DEF AC!Row
    <3>2. \A e \in Clients \ {d} : call'[e] # AC!Idle => call'[e].id # s.id
      BY <1>2, <1>7, <1>8, <1>16, <2>2 DEF AC!Numbered
    <3>3. \A k \in DOMAIN trail' : trail'[k].id = s.id => trail'[k] = row
      BY <1>2, <1>3, <1>5, <1>8, <1>9, <1>16, <3>1
    <3>4. n \in DOMAIN trail' /\ trail'[n] = row
      BY <1>3
    <3>. QED BY <1>2, <1>8, <1>10, <1>16, <2>2, <3>1, <3>2, <3>3, <3>4 DEF AC!Numbered
  <2>. QED BY <2>1, <2>2
<1>17. AC!RequestsAreNumbered'
  <2>1. asks \in Nat /\ row.id <= asks
    BY <1>2 DEF AC!Numbered, AC!IInv, AC!TypeOK
  <2>2. \A k \in DOMAIN trail' : trail'[k].id <= asks
    BY <1>3, <1>5, <2>1 DEF AC!IInv, AC!RequestsAreNumbered
  <2>. QED BY <1>16, <2>2 DEF AC!RequestsAreNumbered, AC!IInv, AC!Idle
<1>. QED BY <1>12, <1>13, <1>14, <1>15, <1>17 DEF AC!IInv, AC!TrailIsWhatWasSaid

LEMMA RecordKeeps ==
  ASSUME AC!IInv, NEW c \in Clients, AC!Record(c)
  PROVE  AC!IInv'
<1>1. call[c].at = "record" /\ call[c] # AC!Idle /\ UNCHANGED <<told, asks, action>>
      /\ call' = [call EXCEPT ![c].at = "answer"]
  BY DEF AC!Record, AC!Idle
<1>2. CASE call[c].audited
  BY <1>1, <1>2, RowIsWritten DEF AC!Record, AC!Recorded
<1>3. CASE ~call[c].audited
  <2>1. UNCHANGED trail
    BY <1>3 DEF AC!Record, AC!Recorded
  <2>2. call[c] \in AC!Calls /\ AC!Numbered(c) /\ AC!Granted(call[c])
    BY <1>1, OfOneRequest
  <2>3. PICK s \in AC!Calls : s = [call[c] EXCEPT !.at = "answer"]
    BY <2>2 DEF AC!Calls
  <2>4. s.id = call[c].id /\ ~s.audited /\ s.at = "answer" /\ AC!Granted(s) /\ s # AC!Idle
    BY <1>3, <2>2, <2>3 DEF AC!Calls, AC!Granted, AC!Idle
  <2>5. \A d \in Clients : call'[d] = IF d = c THEN s ELSE call[d]
    BY <1>1, <2>3 DEF AC!IInv, AC!TypeOK
  <2>6. AC!TrailIsWhatWasSaid'
    BY <1>1, <2>1 DEF AC!IInv, AC!TrailIsWhatWasSaid, AC!RowsAreAnswers, AC!RolesCameFirst, AC!Granted
  <2>7. AC!TypeOK'
    <3>1. call' = [call EXCEPT ![c] = s]
      BY <1>1, <2>3
    <3>. QED BY <1>1, <2>1, <2>3, <3>1 DEF AC!IInv, AC!TypeOK, AC!Answered, AC!Statuses, AC!Declarations, AC!Calls, AC!Idle
  <2>8. AC!CallsAreAllowed'
    BY <2>4, <2>5 DEF AC!IInv, AC!CallsAreAllowed, AC!Granted, AC!Idle
  <2>9. ASSUME NEW d \in Clients, call'[d] # AC!Idle PROVE AC!Numbered(d)'
    <3>1. CASE d # c
      <4>1. call'[d] = call[d] /\ AC!Numbered(d) /\ AC!Row(d)' = AC!Row(d)
        BY <2>5, <2>9, <3>1, OfOneRequest DEF AC!Row
      <4>2. \A e \in Clients \ {d} : call'[e] # AC!Idle => call'[e].id # call'[d].id
        BY <1>1, <2>4, <2>5, <4>1 DEF AC!Numbered
      <4>. QED BY <1>1, <2>1, <4>1, <4>2 DEF AC!Numbered
    <3>2. CASE d = c
      <4>1. call'[d] = s
        BY <2>5, <3>2
      <4>2. \A e \in Clients \ {d} : call'[e] # AC!Idle => call'[e].id # s.id
        BY <2>2, <2>4, <2>5, <3>2 DEF AC!Numbered
      <4>3. \A k \in DOMAIN trail : trail[k].id # s.id
        BY <1>1, <2>2, <2>4 DEF AC!Numbered
      <4>. QED BY <1>1, <2>1, <2>2, <2>4, <4>1, <4>2, <4>3 DEF AC!Numbered
    <3>. QED BY <3>1, <3>2
  <2>10. AC!RequestsAreNumbered'
    BY <1>1, <2>1, <2>9 DEF AC!RequestsAreNumbered, AC!IInv, AC!Idle
  <2>. QED BY <2>6, <2>7, <2>8, <2>10 DEF AC!IInv
<1>4. call[c].audited \in BOOLEAN
  BY <1>1, OfOneRequest DEF AC!Calls
<1>. QED BY <1>2, <1>3, <1>4

LEMMA RecordFailsKeeps ==
  ASSUME AC!IInv, NEW c \in Clients, AC!RecordFails(c)
  PROVE  AC!IInv'
<1>1. /\ call[c].at = "record" /\ call[c] # AC!Idle /\ call[c].audited /\ UNCHANGED <<told, asks, action>>
      /\ call' = [call EXCEPT ![c] = AC!Idle]
  BY DEF AC!RecordFails, AC!Idle
<1>2. CASE trail' = AC!Recorded(c)
  BY <1>1, <1>2, RowIsWritten DEF AC!Recorded
<1>3. CASE trail' = trail
  <2>1. action' \in AC!Declarations /\ asks' \in Nat /\ asks <= asks'
    BY <1>1 DEF AC!IInv, AC!TypeOK
  <2>. QED BY <1>1, <1>3, <2>1, CallGoesOn
<1>. QED BY <1>2, <1>3 DEF AC!RecordFails

LEMMA AnswerKeeps ==
  ASSUME AC!IInv, NEW c \in Clients, AC!Answer(c)
  PROVE  AC!IInv'
<1>1. PICK row : row = AC!Row(c)
  OBVIOUS
<1>2. /\ call[c].at = "answer" /\ call[c] # AC!Idle /\ told' = told \cup {row}
      /\ call' = [call EXCEPT ![c] = AC!Idle] /\ UNCHANGED <<trail, asks, action>>
  BY <1>1 DEF AC!Answer, AC!Idle
<1>3. /\ row \in AC!Answered /\ AC!Granted(row) /\ AC!Numbered(c) /\ row.id = call[c].id /\ row.audited = call[c].audited
  BY <1>1, <1>2, OfOneRequest DEF AC!Row
<1>4. \A d \in Clients : call'[d] = IF d = c THEN AC!Idle ELSE call[d]
  BY <1>2 DEF AC!IInv, AC!TypeOK
<1>5. AC!RowsAreAnswers /\ AC!RolesCameFirst
  BY DEF AC!IInv, AC!TrailIsWhatWasSaid
<1>6. AC!RowsAreAnswers'
  <2>1. row.audited => \E k \in DOMAIN trail : trail[k] = row
    BY <1>1, <1>2, <1>3 DEF AC!Numbered
  <2>2. \A k \in DOMAIN trail : trail[k].id = row.id => trail[k] = row /\ row.audited
    BY <1>1, <1>3 DEF AC!Numbered
  <2>. QED BY <1>2, <1>5, <2>1, <2>2 DEF AC!RowsAreAnswers
<1>7. AC!RolesCameFirst'
  BY <1>2, <1>3, <1>5 DEF AC!RolesCameFirst, AC!Granted
<1>8. AC!TypeOK'
  BY <1>2, <1>3 DEF AC!IInv, AC!TypeOK, AC!Answered, AC!Statuses, AC!Declarations, AC!Calls, AC!Idle
<1>9. AC!CallsAreAllowed'
  BY <1>4 DEF AC!IInv, AC!CallsAreAllowed, AC!Granted, AC!Idle
<1>10. ASSUME NEW d \in Clients, call'[d] # AC!Idle PROVE AC!Numbered(d)'
  <2>1. d # c /\ call'[d] = call[d] /\ AC!Numbered(d) /\ AC!Row(d)' = AC!Row(d)
    BY <1>4, <1>10, OfOneRequest DEF AC!Row
  <2>2. row.id # call[d].id
    BY <1>2, <1>3, <2>1 DEF AC!Numbered
  <2>3. \A e \in Clients \ {d} : call'[e] # AC!Idle => call'[e].id # call'[d].id
    BY <1>4, <2>1 DEF AC!Numbered
  <2>. QED BY <1>2, <2>1, <2>2, <2>3 DEF AC!Numbered
<1>11. AC!RequestsAreNumbered'
  <2>1. row.id <= asks
    BY <1>3 DEF AC!Numbered
  <2>. QED BY <1>2, <1>10, <2>1 DEF AC!RequestsAreNumbered, AC!IInv, AC!Idle
<1>. QED BY <1>6, <1>7, <1>8, <1>9, <1>11 DEF AC!IInv, AC!TrailIsWhatWasSaid

LEMMA ServiceStopsKeeps ==
  ASSUME AC!IInv, AC!ServiceStops
  PROVE  AC!IInv'
<1>1. call' = [c \in Clients |-> AC!Idle] /\ UNCHANGED <<trail, told, asks, action>>
  BY DEF AC!ServiceStops
<1>2. AC!TypeOK'
  BY <1>1 DEF AC!IInv, AC!TypeOK, AC!Answered, AC!Statuses, AC!Declarations, AC!Calls, AC!Idle
<1>3. AC!CallsAreAllowed' /\ AC!RequestsAreNumbered'
  BY <1>1 DEF AC!IInv, AC!CallsAreAllowed, AC!RequestsAreNumbered, AC!Idle
<1>4. AC!TrailIsWhatWasSaid'
  BY <1>1 DEF AC!IInv, AC!TrailIsWhatWasSaid, AC!RowsAreAnswers, AC!RolesCameFirst, AC!Granted
<1>. QED BY <1>2, <1>3, <1>4 DEF AC!IInv

LEMMA ActionsStep ==
  ASSUME AC!IInv, [AC!Next]_acts
  PROVE  AC!IInv'
<1>1. ASSUME NEW c \in Clients, NEW p \in AC!Parameters, NEW role \in Roles, AC!Apply(c, p, role) PROVE AC!IInv'
  BY <1>1, ApplyKeeps
<1>2. ASSUME NEW c \in Clients, AC!FindTarget(c) PROVE AC!IInv'
  BY <1>2, FindTargetKeeps
<1>3. ASSUME NEW c \in Clients, AC!Record(c) PROVE AC!IInv'
  BY <1>3, RecordKeeps
<1>4. ASSUME NEW c \in Clients, AC!RecordFails(c) PROVE AC!IInv'
  BY <1>4, RecordFailsKeeps
<1>5. ASSUME NEW c \in Clients, AC!Answer(c) PROVE AC!IInv'
  BY <1>5, AnswerKeeps
<1>6. CASE action' \in AC!Declarations /\ UNCHANGED <<call, trail, told, asks>>
  <2>1. AC!TypeOK'
    BY <1>6 DEF AC!IInv, AC!TypeOK, AC!Answered, AC!Statuses, AC!Declarations, AC!Calls, AC!Idle
  <2>2. AC!CallsAreAllowed' /\ AC!RequestsAreNumbered'
    BY <1>6 DEF AC!IInv, AC!CallsAreAllowed, AC!RequestsAreNumbered, AC!Numbered, AC!Row, AC!Granted, AC!Idle
  <2>3. AC!TrailIsWhatWasSaid'
    BY <1>6 DEF AC!IInv, AC!TrailIsWhatWasSaid, AC!RowsAreAnswers, AC!RolesCameFirst, AC!Granted
  <2>. QED BY <2>1, <2>2, <2>3 DEF AC!IInv
<1>7. ASSUME NEW d \in Declarable, AC!Declare(d) PROVE AC!IInv'
  BY <1>7, <1>6, AreDeclarations DEF AC!Declare
<1>8. ASSUME NEW rs \in SUBSET Roles, AC!DeclareRoles(rs) PROVE AC!IInv'
  BY <1>8, <1>6 DEF AC!DeclareRoles, AC!IInv, AC!TypeOK
<1>9. CASE AC!ObjectComesOrGoes
  BY <1>9, <1>6 DEF AC!ObjectComesOrGoes, AC!IInv, AC!TypeOK
<1>10. CASE UNCHANGED acts
  BY <1>10, <1>6 DEF acts, AC!IInv, AC!TypeOK
<1>. QED BY <1>1, <1>2, <1>3, <1>4, <1>5, <1>7, <1>8, <1>9, <1>10, ServiceStopsKeeps DEF AC!Next

LEMMA ActionsInit == AC!Init => AC!IInv
<1>. SUFFICES ASSUME AC!Init PROVE AC!IInv
  OBVIOUS
<1>. USE DEF AC!Init
<1>1. AC!TypeOK
  BY DEF AC!TypeOK, AC!Declarations
<1>2. AC!CallsAreAllowed /\ AC!RequestsAreNumbered
  BY DEF AC!CallsAreAllowed, AC!RequestsAreNumbered
<1>3. AC!TrailIsWhatWasSaid
  BY DEF AC!TrailIsWhatWasSaid, AC!RowsAreAnswers, AC!RolesCameFirst
<1>. QED BY <1>1, <1>2, <1>3 DEF AC!IInv

(* A request for an action leaves one row in the trail at most, whatever    *)
(* fails; the outcome of an audited action is told only with a row that     *)
(* says the same, and no row says another thing than its caller was told;   *)
(* neither shows anything queued or staged for a role that may not: however *)
(* requests overlap, wherever the service stops, and whatever becomes of    *)
(* the action, the roles and the object meanwhile.                          *)
THEOREM TrailHolds == AnswersSpec => []TrailIsWhatWasSaid
<1>1. Asked => AC!IInv
  BY ActionsInit DEF Asked
<1>2. AC!IInv /\ [Approving \/ Acting \/ Showing \/ Entering]_answers => AC!IInv'
  <2>. SUFFICES ASSUME AC!IInv, [Approving \/ Acting \/ Showing \/ Entering]_answers PROVE AC!IInv'
    OBVIOUS
  <2>1. [AC!Next]_acts
    BY DEF Approving, Acting, Showing, Entering, answers
  <2>. QED BY <2>1, ActionsStep
<1>3. AC!IInv => TrailIsWhatWasSaid
  BY DEF AC!IInv, TrailIsWhatWasSaid
<1>. QED BY <1>1, <1>2, <1>3, PTL DEF AnswersSpec

---------------------------------------------------------------------------
(* Objects.                                                                *)
---------------------------------------------------------------------------

LEMMA ObjectsStep ==
  ASSUME OB!TypeOK, [OB!Next]_objects
  PROVE  OB!TypeOK'
<1>1. CASE OB!LandOrders
  BY <1>1 DEF OB!LandOrders, OB!TypeOK
<1>2. CASE OB!LandCustomers
  BY <1>2 DEF OB!LandCustomers, OB!TypeOK
<1>3. CASE OB!DrawLink
  BY <1>3 DEF OB!DrawLink, OB!TypeOK
<1>4. CASE UNCHANGED objects
  BY <1>4 DEF objects, OB!TypeOK, OB!Values
<1>. QED BY <1>1, <1>2, <1>3, <1>4 DEF OB!Next

(* Of a filter and its opposite one is met, and only one, whatever is       *)
(* missing.                                                                 *)
LEMMA OppositesOfAValue ==
  ASSUME NEW v \in OB!Values, NEW w \in OB!Values
  PROVE  /\ (OB!Predicate(v, "eq", w) = "yes") <=> ~(OB!Predicate(v, "ne", w) = "yes")
         /\ (OB!Predicate(v, "isNull", w) = "yes") <=> ~(OB!Predicate(v, "isNotNull", w) = "yes")
<1>1. OB!Predicate(v, "isNull", w) = OB!Said(v = Null) /\ OB!Predicate(v, "isNotNull", w) = OB!Said(v # Null)
  BY DEF OB!Predicate
<1>2. OB!Predicate(v, "ne", w) = OB!Said(v # w)
  BY DEF OB!Predicate
<1>3. OB!Predicate(v, "eq", w) = IF w = Null THEN OB!Said(v = Null) ELSE OB!Compared(v, w, v = w)
  BY DEF OB!Predicate
<1>. QED BY <1>1, <1>2, <1>3 DEF OB!Said, OB!Compared

(* Objects counts as this module does.                                      *)
LEMMA SameCount == \A S : OB!Cardinality(S) = Cardinality(S)
BY DEF OB!Cardinality, Cardinality

LEMMA OppositesHold == OB!TypeOK => OB!OppositesShareOut
<1>. SUFFICES ASSUME OB!TypeOK PROVE OB!OppositesShareOut
  OBVIOUS
<1>1. \A o \in DOMAIN orders : orders[o].customer \in OB!Values
  BY DEF OB!TypeOK
<1>2. ASSUME NEW pair \in {<<"eq", "ne">>, <<"isNull", "isNotNull">>}, NEW w \in OB!Values
      PROVE  /\ OB!SearchObjects(pair[1], w) \cup OB!SearchObjects(pair[2], w) = DOMAIN orders
             /\ OB!SearchObjects(pair[1], w) \cap OB!SearchObjects(pair[2], w) = {}
  <2>1. CASE pair[1] = "eq" /\ pair[2] = "ne"
    BY <1>1, <2>1, OppositesOfAValue DEF OB!SearchObjects
  <2>2. CASE pair[1] = "isNull" /\ pair[2] = "isNotNull"
    BY <1>1, <2>2, OppositesOfAValue DEF OB!SearchObjects
  <2>. QED BY <2>1, <2>2
<1>3. ASSUME NEW answer \in OB!Aggregate, NEW group \in answer
      PROVE  Cardinality(OB!SearchObjects("eq", group.of)) = group.count
  <2>1. PICK g \in OB!GroupKeys : group.of = g /\ group.count = Cardinality(OB!GroupOf(g))
    <3>1. PICK top \in OB!Shown(OB!GroupKeys, Limit) :
                 answer = {[of |-> g, count |-> OB!Cardinality(OB!GroupOf(g)), sum |-> OB!Total(OB!GroupOf(g))] : g \in top}
      BY DEF OB!Aggregate
    <3>2. top \subseteq OB!GroupKeys
      BY DEF OB!Shown
    <3>. QED BY <3>1, <3>2, SameCount
  <2>2. g \in OB!Values
    BY <1>1, <2>1 DEF OB!GroupKeys
  <2>3. \A v \in OB!Values : (OB!Predicate(v, "eq", g) = "yes") <=> v = g
    BY <2>2 DEF OB!Predicate, OB!Said, OB!Compared
  <2>4. OB!SearchObjects("eq", g) = OB!GroupOf(g)
    BY <1>1, <2>3 DEF OB!SearchObjects, OB!GroupOf
  <2>. QED BY <2>1, <2>4
<1>. QED BY <1>2, <1>3, SameCount DEF OB!OppositesShareOut

(* A list that holds all there is shows it, and one that does not is full.  *)
LEMMA WhatIsShown ==
  ASSUME NEW all, IsFiniteSet(all), NEW most \in Nat, NEW some \in OB!Shown(all, most)
  PROVE  some \subseteq all /\ (some = all \/ (Cardinality(all) > most /\ Cardinality(some) = most))
<1>1. Cardinality(all) \in Nat /\ some \subseteq all
  BY FS_CardinalityType DEF OB!Shown
<1>2. CASE Cardinality(all) <= most
  BY <1>1, <1>2, SameCount DEF OB!Shown
<1>3. CASE Cardinality(all) > most
  BY <1>1, <1>3, SameCount DEF OB!Shown
<1>. QED BY <1>1, <1>2, <1>3

LEMMA WaysHold ==
  ASSUME OB!TypeOK, column = "key"
  PROVE  OB!WaysAgree
<1>1. \A c \in DOMAIN customers : c # Null
  BY NullIsNoKey DEF OB!TypeOK
<1>2. IsFiniteSet(DOMAIN orders) /\ IsFiniteSet(DOMAIN customers)
  BY ListsAreFinite, FS_Subset DEF OB!TypeOK
<1>3. ASSUME NEW o \in DOMAIN orders
      PROVE  OB!Forward(o) = {c \in DOMAIN customers : c = orders[o].customer}
  BY <1>1 DEF OB!Forward, OB!PointedAt
(* A key is one customer's, so the way forward shows all there is.          *)
<1>4. ASSUME NEW o \in DOMAIN orders, NEW ahead \in OB!TraverseLink(OB!Forward(o)) PROVE ahead.data = OB!Forward(o)
  <2>1. ahead.data \in OB!Shown(OB!Forward(o), Limit)
    BY DEF OB!TraverseLink
  <2>2. IsFiniteSet(OB!Forward(o)) /\ Cardinality(OB!Forward(o)) \in Nat /\ Cardinality(OB!Forward(o)) <= 1
    <3>1. CASE orders[o].customer \in DOMAIN customers
      <4>1. OB!Forward(o) = {orders[o].customer}
        BY <1>3, <3>1
      <4>2. IsFiniteSet({orders[o].customer}) /\ Cardinality({orders[o].customer}) = 1
        BY FS_Singleton
      <4>. QED BY <4>1, <4>2
    <3>2. CASE orders[o].customer \notin DOMAIN customers
      <4>1. OB!Forward(o) = {}
        BY <1>3, <3>2
      <4>. QED BY <4>1, FS_EmptySet
    <3>. QED BY <3>1, <3>2
  <2>. QED BY <2>1, <2>2, ListsAreFinite, WhatIsShown
<1>5. ASSUME NEW c \in DOMAIN customers, NEW back \in OB!TraverseLink(OB!Backward(c))
      PROVE  back.data \subseteq OB!Backward(c) /\ (back.data = OB!Backward(c) \/ back.total > Limit)
  <2>1. back.data \in OB!Shown(OB!Backward(c), Limit) /\ back.total = Cardinality(OB!Backward(c))
    BY SameCount DEF OB!TraverseLink
  <2>2. IsFiniteSet(OB!Backward(c))
    BY <1>2, FS_Subset DEF OB!Backward
  <2>. QED BY <2>1, <2>2, ListsAreFinite, WhatIsShown
<1>. SUFFICES ASSUME NEW o \in DOMAIN orders, NEW ahead \in OB!TraverseLink(OB!Forward(o))
              PROVE  /\ \A c \in ahead.data : \A back \in OB!TraverseLink(OB!Backward(c)) : o \in back.data \/ back.total > Limit
                     /\ \A c \in DOMAIN customers : \A back \in OB!TraverseLink(OB!Backward(c)) : o \in back.data => c \in ahead.data
                     /\ OB!GetObject(o).customer = {customers[c].name : c \in ahead.data}
                     /\ \A n \in OB!LinkTitle(o) : \A hits \in OB!GlobalSearch(n) : ahead.data \subseteq hits \/ Cardinality(hits) = Hits
  BY SameCount DEF OB!WaysAgree
<1>6. ASSUME NEW c \in DOMAIN customers PROVE c \in ahead.data <=> o \in OB!Backward(c)
  BY <1>3, <1>4 DEF OB!Backward
<1>7. \A c \in ahead.data : \A back \in OB!TraverseLink(OB!Backward(c)) : o \in back.data \/ back.total > Limit
  <2>1. \A c \in ahead.data : c \in DOMAIN customers
    BY <1>3, <1>4
  <2>. QED BY <1>5, <1>6, <2>1
<1>8. \A c \in DOMAIN customers : \A back \in OB!TraverseLink(OB!Backward(c)) : o \in back.data => c \in ahead.data
  BY <1>5, <1>6
<1>9. OB!GetObject(o).customer = {customers[c].name : c \in ahead.data}
  BY <1>3, <1>4 DEF OB!GetObject, OB!LinkTitle
<1>10. ASSUME NEW n \in OB!LinkTitle(o), NEW hits \in OB!GlobalSearch(n) PROVE ahead.data \subseteq hits \/ Cardinality(hits) = Hits
  <2>1. PICK c \in DOMAIN customers : c = orders[o].customer /\ n = customers[c].name
    BY <1>10 DEF OB!LinkTitle
  <2>2. ahead.data = {c}
    BY <1>3, <1>4, <2>1
  <2>. DEFINE Found == {d \in DOMAIN customers : OB!SearchPredicate(d, n)}
  <2>3. c \in Found
    BY <2>1 DEF OB!SearchPredicate
  <2>4. IsFiniteSet(Found) /\ hits \in OB!Shown(Found, Hits)
    BY <1>2, FS_Subset DEF OB!GlobalSearch
  <2>5. hits = Found \/ Cardinality(hits) = Hits
    BY <2>4, ListsAreFinite, WhatIsShown
  <2>. QED BY <2>2, <2>3, <2>5
<1>. QED BY <1>7, <1>8, <1>9, <1>10

(* A filter and its opposite share all the objects out, a group shown has   *)
(* what a filter on its value finds, and a link to the key leads back and   *)
(* to the title shown for it, as far as the lists reach: over any rows of   *)
(* both tables, whatever is missing in them.                                *)
THEOREM ObjectsHold == AnswersSpec => []ObjectsAgree
<1>1. Asked => OB!TypeOK
  BY DEF Asked, OB!Init, OB!TypeOK
<1>2. OB!TypeOK /\ [Approving \/ Acting \/ Showing \/ Entering]_answers => OB!TypeOK'
  <2>. SUFFICES ASSUME OB!TypeOK, [Approving \/ Acting \/ Showing \/ Entering]_answers PROVE OB!TypeOK'
    OBVIOUS
  <2>1. [OB!Next]_objects
    BY DEF Approving, Acting, Showing, Entering, answers
  <2>. QED BY <2>1, ObjectsStep
<1>3. OB!TypeOK => ObjectsAgree
  BY OppositesHold, WaysHold DEF ObjectsAgree, OB!BothWaysAgree
<1>. QED BY <1>1, <1>2, <1>3, PTL DEF AnswersSpec

---------------------------------------------------------------------------
(* The front door (Routes).                                                *)
---------------------------------------------------------------------------

(* A layer has an address, but for what guards every one; and of most the   *)
(* address is not below what has a number.                                  *)
IsAddress(p) == Len(p) \in Nat /\ DOMAIN p = 1..Len(p)
Addressed(l) == IsAddress(l.path) /\ (l.verb # "use" => l.path # <<>> /\ Len(l.path) > 0)
Plain(l) == Addressed(l) /\ l.path # <<>> /\ Len(l.path) > 0
                         /\ l.path[1] \notin {"resources", "syncs", "folders", ":name", ":id"}
Has(layers) == {layers[i] : i \in DOMAIN layers}
Layer == {l \in UNION {Has(RO!Public), Has(RO!Guards), Has(RO!Console), Has(RO!Ontology), Has(RO!Types), Has(RO!Objects), 
               Has(RO!Dashboards), Has(RO!Proposals), Has(RO!Actions), Has(RO!Authoring), Has(RO!Functions), Has(RO!Spaces), Has(RO!ScopedIds), 
               Has(RO!Projects), Has(RO!Connections), Has(RO!Resources), Has(RO!Docs), Has(RO!Schedules)} : Addressed(l)}
PlainLayer == {l \in Layer : Plain(l)}

LEMMA PublicIsPlain == RO!Public \in Seq(PlainLayer)
<1>1. RO!Public \in Seq(Has(RO!Public))
  BY DEF RO!Public, Has
<1>2. \A i \in DOMAIN RO!Public : Plain(RO!Public[i])
  BY DEF RO!Public, Plain, Addressed, IsAddress, RO!Get, RO!Post, RO!Put, RO!Patch, RO!Delete, RO!Use
<1>. QED BY <1>1, <1>2 DEF Layer, PlainLayer, Plain, Has

LEMMA ConsoleIsPlain == RO!Console \in Seq(PlainLayer)
<1>1. RO!Console \in Seq(Has(RO!Console))
  BY DEF RO!Console, Has
<1>2. \A i \in DOMAIN RO!Console : Plain(RO!Console[i])
  BY DEF RO!Console, Plain, Addressed, IsAddress, RO!Get, RO!Post, RO!Put, RO!Patch, RO!Delete, RO!Use
<1>. QED BY <1>1, <1>2 DEF Layer, PlainLayer, Plain, Has

LEMMA OntologyIsPlain == RO!Ontology \in Seq(PlainLayer)
<1>1. RO!Ontology \in Seq(Has(RO!Ontology))
  BY DEF RO!Ontology, Has
<1>2. \A i \in DOMAIN RO!Ontology : Plain(RO!Ontology[i])
  BY DEF RO!Ontology, Plain, Addressed, IsAddress, RO!Get, RO!Post, RO!Put, RO!Patch, RO!Delete, RO!Use
<1>. QED BY <1>1, <1>2 DEF Layer, PlainLayer, Plain, Has

LEMMA TypesIsPlain == RO!Types \in Seq(PlainLayer)
<1>1. RO!Types \in Seq(Has(RO!Types))
  BY DEF RO!Types, Has
<1>2. \A i \in DOMAIN RO!Types : Plain(RO!Types[i])
  BY DEF RO!Types, Plain, Addressed, IsAddress, RO!Get, RO!Post, RO!Put, RO!Patch, RO!Delete, RO!Use
<1>. QED BY <1>1, <1>2 DEF Layer, PlainLayer, Plain, Has

LEMMA ObjectsIsPlain == RO!Objects \in Seq(PlainLayer)
<1>1. RO!Objects \in Seq(Has(RO!Objects))
  BY DEF RO!Objects, Has
<1>2. \A i \in DOMAIN RO!Objects : Plain(RO!Objects[i])
  BY DEF RO!Objects, Plain, Addressed, IsAddress, RO!Get, RO!Post, RO!Put, RO!Patch, RO!Delete, RO!Use
<1>. QED BY <1>1, <1>2 DEF Layer, PlainLayer, Plain, Has

LEMMA DashboardsIsPlain == RO!Dashboards \in Seq(PlainLayer)
<1>1. RO!Dashboards \in Seq(Has(RO!Dashboards))
  BY DEF RO!Dashboards, Has
<1>2. \A i \in DOMAIN RO!Dashboards : Plain(RO!Dashboards[i])
  BY DEF RO!Dashboards, Plain, Addressed, IsAddress, RO!Get, RO!Post, RO!Put, RO!Patch, RO!Delete, RO!Use
<1>. QED BY <1>1, <1>2 DEF Layer, PlainLayer, Plain, Has

LEMMA ProposalsIsPlain == RO!Proposals \in Seq(PlainLayer)
<1>1. RO!Proposals \in Seq(Has(RO!Proposals))
  BY DEF RO!Proposals, Has
<1>2. \A i \in DOMAIN RO!Proposals : Plain(RO!Proposals[i])
  BY DEF RO!Proposals, Plain, Addressed, IsAddress, RO!Get, RO!Post, RO!Put, RO!Patch, RO!Delete, RO!Use
<1>. QED BY <1>1, <1>2 DEF Layer, PlainLayer, Plain, Has

LEMMA ActionsIsPlain == RO!Actions \in Seq(PlainLayer)
<1>1. RO!Actions \in Seq(Has(RO!Actions))
  BY DEF RO!Actions, Has
<1>2. \A i \in DOMAIN RO!Actions : Plain(RO!Actions[i])
  BY DEF RO!Actions, Plain, Addressed, IsAddress, RO!Get, RO!Post, RO!Put, RO!Patch, RO!Delete, RO!Use
<1>. QED BY <1>1, <1>2 DEF Layer, PlainLayer, Plain, Has

LEMMA AuthoringIsPlain == RO!Authoring \in Seq(PlainLayer)
<1>1. RO!Authoring \in Seq(Has(RO!Authoring))
  BY DEF RO!Authoring, Has
<1>2. \A i \in DOMAIN RO!Authoring : Plain(RO!Authoring[i])
  <2>1. DOMAIN RO!Authoring = 1..11
    BY DEF RO!Authoring
  <2>2. Plain(RO!Authoring[1]) /\ Plain(RO!Authoring[2]) /\ Plain(RO!Authoring[3])
    BY DEF RO!Authoring, Plain, Addressed, IsAddress, RO!Get, RO!Post, RO!Put, RO!Patch, RO!Delete, RO!Use
  <2>3. Plain(RO!Authoring[4]) /\ Plain(RO!Authoring[5]) /\ Plain(RO!Authoring[6])
    BY DEF RO!Authoring, Plain, Addressed, IsAddress, RO!Get, RO!Post, RO!Put, RO!Patch, RO!Delete, RO!Use
  <2>4. Plain(RO!Authoring[7]) /\ Plain(RO!Authoring[8]) /\ Plain(RO!Authoring[9])
    BY DEF RO!Authoring, Plain, Addressed, IsAddress, RO!Get, RO!Post, RO!Put, RO!Patch, RO!Delete, RO!Use
  <2>5. Plain(RO!Authoring[10]) /\ Plain(RO!Authoring[11])
    BY DEF RO!Authoring, Plain, Addressed, IsAddress, RO!Get, RO!Post, RO!Put, RO!Patch, RO!Delete, RO!Use
  <2>. QED BY <2>1, <2>2, <2>3, <2>4, <2>5
<1>. QED BY <1>1, <1>2 DEF Layer, PlainLayer, Plain, Has

LEMMA FunctionsIsPlain == RO!Functions \in Seq(PlainLayer)
<1>1. RO!Functions \in Seq(Has(RO!Functions))
  BY DEF RO!Functions, Has
<1>2. \A i \in DOMAIN RO!Functions : Plain(RO!Functions[i])
  <2>1. DOMAIN RO!Functions = 1..10
    BY DEF RO!Functions
  <2>2. Plain(RO!Functions[1]) /\ Plain(RO!Functions[2]) /\ Plain(RO!Functions[3])
    BY DEF RO!Functions, Plain, Addressed, IsAddress, RO!Get, RO!Post, RO!Put, RO!Patch, RO!Delete, RO!Use
  <2>3. Plain(RO!Functions[4]) /\ Plain(RO!Functions[5]) /\ Plain(RO!Functions[6])
    BY DEF RO!Functions, Plain, Addressed, IsAddress, RO!Get, RO!Post, RO!Put, RO!Patch, RO!Delete, RO!Use
  <2>4. Plain(RO!Functions[7]) /\ Plain(RO!Functions[8]) /\ Plain(RO!Functions[9])
    BY DEF RO!Functions, Plain, Addressed, IsAddress, RO!Get, RO!Post, RO!Put, RO!Patch, RO!Delete, RO!Use
  <2>5. Plain(RO!Functions[10])
    BY DEF RO!Functions, Plain, Addressed, IsAddress, RO!Get, RO!Post, RO!Put, RO!Patch, RO!Delete, RO!Use
  <2>. QED BY <2>1, <2>2, <2>3, <2>4, <2>5
<1>. QED BY <1>1, <1>2 DEF Layer, PlainLayer, Plain, Has

LEMMA SpacesIsPlain == RO!Spaces \in Seq(PlainLayer)
<1>1. RO!Spaces \in Seq(Has(RO!Spaces))
  BY DEF RO!Spaces, Has
<1>2. \A i \in DOMAIN RO!Spaces : Plain(RO!Spaces[i])
  BY DEF RO!Spaces, Plain, Addressed, IsAddress, RO!Get, RO!Post, RO!Put, RO!Patch, RO!Delete, RO!Use
<1>. QED BY <1>1, <1>2 DEF Layer, PlainLayer, Plain, Has

LEMMA GuardsAreLayers == RO!Guards \in Seq(Layer)
<1>1. RO!Guards \in Seq(Has(RO!Guards))
  BY DEF RO!Guards, Has
<1>2. \A i \in DOMAIN RO!Guards : Addressed(RO!Guards[i])
  BY DEF RO!Guards, Addressed, IsAddress, RO!Get, RO!Post, RO!Put, RO!Patch, RO!Delete, RO!Use
<1>. QED BY <1>1, <1>2 DEF Layer, Has

LEMMA ScopedIdsAreLayers == RO!ScopedIds \in Seq(Layer)
<1>1. RO!ScopedIds \in Seq(Has(RO!ScopedIds))
  BY DEF RO!ScopedIds, Has
<1>2. \A i \in DOMAIN RO!ScopedIds : Addressed(RO!ScopedIds[i])
  BY DEF RO!ScopedIds, Addressed, IsAddress, RO!Get, RO!Post, RO!Put, RO!Patch, RO!Delete, RO!Use
<1>. QED BY <1>1, <1>2 DEF Layer, Has

LEMMA ProjectsAreLayers == RO!Projects \in Seq(Layer)
<1>1. RO!Projects \in Seq(Has(RO!Projects))
  BY DEF RO!Projects, Has
<1>2. \A i \in DOMAIN RO!Projects : Addressed(RO!Projects[i])
  BY DEF RO!Projects, Addressed, IsAddress, RO!Get, RO!Post, RO!Put, RO!Patch, RO!Delete, RO!Use
<1>. QED BY <1>1, <1>2 DEF Layer, Has

LEMMA ConnectionsAreLayers == RO!Connections \in Seq(Layer)
<1>1. RO!Connections \in Seq(Has(RO!Connections))
  BY DEF RO!Connections, Has
<1>2. ASSUME NEW i \in DOMAIN RO!Connections PROVE Addressed(RO!Connections[i])
  <2>1. CASE i <= 4
    BY <2>1 DEF RO!Connections, Addressed, IsAddress, RO!Get, RO!Post, RO!Put, RO!Patch, RO!Delete, RO!Use
  <2>2. CASE i = 5
    BY <2>2 DEF RO!Connections, Addressed, IsAddress, RO!Get, RO!Post, RO!Put, RO!Patch, RO!Delete, RO!Use
  <2>3. CASE i = 6
    BY <2>3 DEF RO!Connections, Addressed, IsAddress, RO!Get, RO!Post, RO!Put, RO!Patch, RO!Delete, RO!Use
  <2>4. CASE i = 7 \/ i = 8
    BY <2>4 DEF RO!Connections, Addressed, IsAddress, RO!Get, RO!Post, RO!Put, RO!Patch, RO!Delete, RO!Use
  <2>5. CASE i > 8
    BY <2>5 DEF RO!Connections, Addressed, IsAddress, RO!Get, RO!Post, RO!Put, RO!Patch, RO!Delete, RO!Use
  <2>. QED BY <2>1, <2>2, <2>3, <2>4, <2>5 DEF RO!Connections
<1>. QED BY <1>1, <1>2 DEF Layer, Has

LEMMA ResourcesAreLayers == RO!Resources \in Seq(Layer)
<1>1. RO!Resources \in Seq(Has(RO!Resources))
  BY DEF RO!Resources, Has
<1>2. \A i \in DOMAIN RO!Resources : Addressed(RO!Resources[i])
  BY DEF RO!Resources, Addressed, IsAddress, RO!Get, RO!Post, RO!Put, RO!Patch, RO!Delete, RO!Use
<1>. QED BY <1>1, <1>2 DEF Layer, Has

LEMMA DocsAreLayers == RO!Docs \in Seq(Layer)
<1>1. RO!Docs \in Seq(Has(RO!Docs))
  BY DEF RO!Docs, Has
<1>2. \A i \in DOMAIN RO!Docs : Addressed(RO!Docs[i])
  BY DEF RO!Docs, Addressed, IsAddress, RO!Get, RO!Post, RO!Put, RO!Patch, RO!Delete, RO!Use
<1>. QED BY <1>1, <1>2 DEF Layer, Has

LEMMA SchedulesAreLayers == RO!Schedules \in Seq(Layer)
<1>1. RO!Schedules \in Seq(Has(RO!Schedules))
  BY DEF RO!Schedules, Has
<1>2. \A i \in DOMAIN RO!Schedules : Addressed(RO!Schedules[i])
  BY DEF RO!Schedules, Addressed, IsAddress, RO!Get, RO!Post, RO!Put, RO!Patch, RO!Delete, RO!Use
<1>. QED BY <1>1, <1>2 DEF Layer, Has

(* One list after another.                                                  *)
LEMMA Joined ==
  ASSUME NEW S, NEW s \in Seq(S), NEW t \in Seq(S)
  PROVE  /\ s \o t \in Seq(S)
         /\ Len(s \o t) = Len(s) + Len(t)
         /\ \A i \in 1..Len(s) : (s \o t)[i] = s[i]
         /\ \A i \in 1..(Len(s) + Len(t)) : Len(s) < i => (s \o t)[i] = t[i - Len(s)]
OBVIOUS

LEMMA BehindIsPlain ==
  /\ RO!Behind \in Seq(PlainLayer) /\ Len(RO!Behind) >= 2
  /\ RO!Behind[1] = RO!Console[1] /\ RO!Behind[2] = RO!Console[2]
<1>. DEFINE b1 == RO!Console \o RO!Ontology
            b2 == b1 \o RO!Types
            b3 == b2 \o RO!Objects
            b4 == b3 \o RO!Dashboards
            b5 == b4 \o RO!Proposals
            b6 == b5 \o RO!Actions
            b7 == b6 \o RO!Authoring
            b8 == b7 \o RO!Functions
            b9 == b8 \o RO!Spaces
            Starts(b) == b \in Seq(PlainLayer) /\ Len(b) >= 2 /\ b[1] = RO!Console[1] /\ b[2] = RO!Console[2]
<1>1. Len(RO!Console) >= 2
  BY DEF RO!Console
<1>2. ASSUME NEW b, Starts(b), NEW t \in Seq(PlainLayer) PROVE Starts(b \o t)
  <2>1. b \o t \in Seq(PlainLayer) /\ Len(b \o t) = Len(b) + Len(t) /\ \A i \in 1..Len(b) : (b \o t)[i] = b[i]
    BY <1>2, Joined
  <2>. QED BY <1>2, <2>1
<1>3. Starts(RO!Console)
  BY <1>1, ConsoleIsPlain
<1>. HIDE DEF Starts
<1>4. Starts(b1) /\ Starts(b2) /\ Starts(b3)
  BY <1>2, <1>3, OntologyIsPlain, TypesIsPlain, ObjectsIsPlain
<1>5. Starts(b4) /\ Starts(b5) /\ Starts(b6)
  BY <1>2, <1>4, DashboardsIsPlain, ProposalsIsPlain, ActionsIsPlain
<1>6. Starts(b9)
  BY <1>2, <1>5, AuthoringIsPlain, FunctionsIsPlain, SpacesIsPlain
<1>. QED BY <1>6 DEF Starts, RO!Behind

(* The order of the layers: the public routes, the guards, what has no      *)
(* number in its address, the checks of numbers, and the rest.              *)
LEMMA StackIsInOrder ==
  /\ RO!Stack \in Seq(Layer) /\ Len(RO!Stack) >= 9 + Len(RO!Behind)
  /\ \A i \in 1..3 : RO!Stack[i] = RO!Public[i]
  /\ \A i \in 4..6 : RO!Stack[i] = RO!Guards[i - 3]
  /\ \A i \in 7..(6 + Len(RO!Behind)) : RO!Stack[i] = RO!Behind[i - 6]
  /\ \A i \in (7 + Len(RO!Behind))..(9 + Len(RO!Behind)) : RO!Stack[i] = RO!ScopedIds[i - (6 + Len(RO!Behind))]
<1>. DEFINE s1 == RO!Public \o RO!Guards
            s2 == s1 \o RO!Behind
            s3 == s2 \o RO!ScopedIds
            s4 == s3 \o RO!Projects
            s5 == s4 \o RO!Connections
            s6 == s5 \o RO!Resources
            s7 == s6 \o RO!Docs
            s8 == s7 \o RO!Schedules
            Goes(s) == s \in Seq(Layer) /\ Len(s) >= Len(s3) /\ \A i \in 1..Len(s3) : s[i] = s3[i]
            n == Len(RO!Behind)
<1>1. RO!Public \in Seq(Layer) /\ RO!Guards \in Seq(Layer) /\ RO!Behind \in Seq(Layer) /\ RO!ScopedIds \in Seq(Layer)
  BY PublicIsPlain, GuardsAreLayers, BehindIsPlain, ScopedIdsAreLayers DEF PlainLayer
<1>2. Len(RO!Public) = 3 /\ Len(RO!Guards) = 3 /\ Len(RO!ScopedIds) = 3
  BY DEF RO!Public, RO!Guards, RO!ScopedIds
<1>12. Len(RO!Behind) \in Nat
  BY BehindIsPlain
<1>3. /\ s1 \in Seq(Layer)
      /\ Len(s1) = 3 + 3
      /\ \A i \in 1..3 : s1[i] = RO!Public[i]
      /\ \A i \in 1..(3 + 3) : 3 < i => s1[i] = RO!Guards[i - 3]
  <2>1. /\ RO!Public \o RO!Guards \in Seq(Layer)
        /\ Len(RO!Public \o RO!Guards) = Len(RO!Public) + Len(RO!Guards)
        /\ \A i \in 1..Len(RO!Public) : (RO!Public \o RO!Guards)[i] = RO!Public[i]
        /\ \A i \in 1..(Len(RO!Public) + Len(RO!Guards)) : Len(RO!Public) < i => (RO!Public \o RO!Guards)[i] = RO!Guards[i - Len(RO!Public)]
    BY <1>1, Joined
  <2>. QED BY <1>2, <2>1
<1>. HIDE DEF s1, n
<1>4. /\ s2 \in Seq(Layer)
      /\ Len(s2) = 6 + n
      /\ \A i \in 1..6 : s2[i] = s1[i]
      /\ \A i \in 1..(6 + n) : 6 < i => s2[i] = RO!Behind[i - 6]
  <2>1. s1 \in Seq(Layer) /\ Len(s1) = 6
    BY <1>3
  <2>2. /\ s1 \o RO!Behind \in Seq(Layer)
        /\ Len(s1 \o RO!Behind) = Len(s1) + Len(RO!Behind)
        /\ \A i \in 1..Len(s1) : (s1 \o RO!Behind)[i] = s1[i]
        /\ \A i \in 1..(Len(s1) + Len(RO!Behind)) : Len(s1) < i => (s1 \o RO!Behind)[i] = RO!Behind[i - Len(s1)]
    BY <1>1, <2>1, Joined
  <2>. QED BY <2>1, <2>2 DEF n
<1>. HIDE DEF s2
<1>5. /\ s3 \in Seq(Layer)
      /\ Len(s3) = (6 + n) + 3
      /\ \A i \in 1..(6 + n) : s3[i] = s2[i]
      /\ \A i \in 1..((6 + n) + 3) : 6 + n < i => s3[i] = RO!ScopedIds[i - (6 + n)]
  <2>1. /\ s2 \o RO!ScopedIds \in Seq(Layer)
        /\ Len(s2 \o RO!ScopedIds) = Len(s2) + Len(RO!ScopedIds)
        /\ \A i \in 1..Len(s2) : (s2 \o RO!ScopedIds)[i] = s2[i]
        /\ \A i \in 1..(Len(s2) + Len(RO!ScopedIds)) : Len(s2) < i => (s2 \o RO!ScopedIds)[i] = RO!ScopedIds[i - Len(s2)]
    BY <1>1, <1>4, Joined
  <2>. QED BY <1>2, <1>4, <2>1
<1>. HIDE DEF s3
<1>6. ASSUME NEW s, Goes(s), NEW t \in Seq(Layer) PROVE Goes(s \o t)
  <2>1. s \o t \in Seq(Layer) /\ Len(s \o t) = Len(s) + Len(t) /\ \A i \in 1..Len(s) : (s \o t)[i] = s[i]
    BY <1>6, Joined
  <2>. QED BY <1>5, <1>6, <2>1
<1>7. Goes(s3)
  BY <1>5
<1>. HIDE DEF Goes
<1>8. Goes(s4) /\ Goes(s5) /\ Goes(s6)
  BY <1>6, <1>7, ProjectsAreLayers, ConnectionsAreLayers, ResourcesAreLayers
<1>9. Goes(s8)
  BY <1>6, <1>8, DocsAreLayers, SchedulesAreLayers
<1>10. RO!Stack = s8
  BY DEF RO!Stack, s1, s2, s3
<1>11. Goes(RO!Stack)
  BY <1>9, <1>10
<1>. HIDE DEF s4, s5, s6, s7, s8
<1>. QED
  <2>1. /\ RO!Stack \in Seq(Layer) /\ Len(RO!Stack) >= Len(s3)
        /\ \A i \in 1..Len(s3) : RO!Stack[i] = s3[i]
    BY <1>11 DEF Goes
  <2>. QED BY <1>3, <1>4, <1>5, <1>12, <2>1 DEF n

(* The routes, one by one, by what tells them apart: of those with the same *)
(* verb, first word and length the last word does, or the third of a        *)
(* deletion four words long.                                                *)
Word(l) == l.path[1]
Size(l) == Len(l.path)
Told(l) == IF l.verb = "DELETE" /\ Size(l) = 4 THEN l.path[3] ELSE l.path[Size(l)]
Is(l, v, w, n, t) == l.verb = v /\ Word(l) = w /\ Size(l) = n /\ Told(l) = t

LEMMA One ==
  ASSUME NEW v, NEW a
  PROVE  LET l == [verb |-> v, path |-> <<a>>] IN Is(l, v, a, 1, a)
BY DEF Is, Word, Size, Told

LEMMA Two ==
  ASSUME NEW v, NEW a, NEW b
  PROVE  LET l == [verb |-> v, path |-> <<a, b>>] IN Is(l, v, a, 2, b)
BY DEF Is, Word, Size, Told

LEMMA Three ==
  ASSUME NEW v, NEW a, NEW b, NEW c
  PROVE  LET l == [verb |-> v, path |-> <<a, b, c>>] IN Is(l, v, a, 3, c)
BY DEF Is, Word, Size, Told

LEMMA Four ==
  ASSUME NEW v, NEW a, NEW b, NEW c, NEW d, v # "DELETE"
  PROVE  LET l == [verb |-> v, path |-> <<a, b, c, d>>] IN Is(l, v, a, 4, d)
BY DEF Is, Word, Size, Told

LEMMA DeleteFour ==
  ASSUME NEW v, NEW a, NEW b, NEW c, NEW d, v = "DELETE"
  PROVE  LET l == [verb |-> v, path |-> <<a, b, c, d>>] IN Is(l, v, a, 4, c)
BY DEF Is, Word, Size, Told

LEMMA Five ==
  ASSUME NEW v, NEW a, NEW b, NEW c, NEW d, NEW e
  PROVE  LET l == [verb |-> v, path |-> <<a, b, c, d, e>>] IN Is(l, v, a, 5, e)
BY DEF Is, Word, Size, Told

PublicRoute(l) ==
    \/ l = RO!Public[1] /\ Is(l, "POST", "auth", 2, "login")
    \/ l = RO!Public[2] /\ Is(l, "GET", "auth", 2, "config")
    \/ l = RO!Public[3] /\ Is(l, "POST", "auth", 2, "register")
LEMMA PublicAre ==
  ASSUME NEW i \in DOMAIN RO!Public
  PROVE  PublicRoute(RO!Public[i])
BY Two
   DEF RO!Public, PublicRoute, RO!Get, RO!Post

ConsoleRoute(l) ==
    \/ l = RO!Console[1] /\ Is(l, "GET", "auth", 2, "me")
    \/ l = RO!Console[3] /\ Is(l, "GET", "admin", 2, "overview")
    \/ l = RO!Console[4] /\ Is(l, "GET", "admin", 2, "users")
    \/ l = RO!Console[5] /\ Is(l, "POST", "admin", 2, "users")
    \/ l = RO!Console[6] /\ Is(l, "PATCH", "admin", 3, ":id")
    \/ l = RO!Console[7] /\ Is(l, "POST", "admin", 4, "password")
    \/ l = RO!Console[8] /\ Is(l, "POST", "admin", 4, "revoke")
    \/ l = RO!Console[9] /\ Is(l, "DELETE", "admin", 3, ":id")
    \/ l = RO!Console[10] /\ Is(l, "GET", "admin", 2, "settings")
    \/ l = RO!Console[11] /\ Is(l, "PUT", "admin", 2, "settings")
    \/ l = RO!Console[12] /\ Is(l, "GET", "admin", 2, "events")
    \/ l = RO!Console[13] /\ Is(l, "POST", "registry", 2, "reload")
    \/ l = RO!Console[14] /\ Is(l, "GET", "stats", 1, "stats")
LEMMA ConsoleAre ==
  ASSUME NEW i \in DOMAIN RO!Console, RO!Console[i].verb # "use"
  PROVE  ConsoleRoute(RO!Console[i])
<1>1. /\ Is(RO!Console[1], "GET", "auth", 2, "me")
      /\ RO!Console[2].verb = "use"
      /\ Is(RO!Console[3], "GET", "admin", 2, "overview")
      /\ Is(RO!Console[4], "GET", "admin", 2, "users")
      /\ Is(RO!Console[5], "POST", "admin", 2, "users")
      /\ Is(RO!Console[6], "PATCH", "admin", 3, ":id")
      /\ Is(RO!Console[7], "POST", "admin", 4, "password")
      /\ Is(RO!Console[8], "POST", "admin", 4, "revoke")
      /\ Is(RO!Console[9], "DELETE", "admin", 3, ":id")
      /\ Is(RO!Console[10], "GET", "admin", 2, "settings")
      /\ Is(RO!Console[11], "PUT", "admin", 2, "settings")
      /\ Is(RO!Console[12], "GET", "admin", 2, "events")
      /\ Is(RO!Console[13], "POST", "registry", 2, "reload")
      /\ Is(RO!Console[14], "GET", "stats", 1, "stats")
  BY One, Two, Three, Four
     DEF RO!Console, RO!Get, RO!Post, RO!Put, RO!Patch, RO!Delete, RO!Use
<1>. QED BY <1>1 DEF RO!Console, ConsoleRoute

OntologyRoute(l) ==
    \/ l = RO!Ontology[1] /\ Is(l, "GET", "ontology", 1, "ontology")
    \/ l = RO!Ontology[2] /\ Is(l, "GET", "ontology", 2, "versions")
    \/ l = RO!Ontology[3] /\ Is(l, "GET", "ontology", 2, "validate")
    \/ l = RO!Ontology[4] /\ Is(l, "GET", "ontology", 3, ":name")
LEMMA OntologyAre ==
  ASSUME NEW i \in DOMAIN RO!Ontology
  PROVE  OntologyRoute(RO!Ontology[i])
BY One, Two, Three
   DEF RO!Ontology, OntologyRoute, RO!Get

TypesRoute(l) ==
    \/ l = RO!Types[1] /\ Is(l, "GET", "object-types", 1, "object-types")
    \/ l = RO!Types[2] /\ Is(l, "GET", "object-types", 2, ":name")
    \/ l = RO!Types[3] /\ Is(l, "GET", "link-types", 1, "link-types")
    \/ l = RO!Types[4] /\ Is(l, "GET", "action-types", 1, "action-types")
    \/ l = RO!Types[5] /\ Is(l, "GET", "interfaces", 1, "interfaces")
    \/ l = RO!Types[6] /\ Is(l, "GET", "roles", 1, "roles")
LEMMA TypesAre ==
  ASSUME NEW i \in DOMAIN RO!Types
  PROVE  TypesRoute(RO!Types[i])
BY One, Two
   DEF RO!Types, TypesRoute, RO!Get

ObjectsRoute(l) ==
    \/ l = RO!Objects[1] /\ Is(l, "POST", "objects", 3, "search")
    \/ l = RO!Objects[2] /\ Is(l, "POST", "objects", 3, "aggregate")
    \/ l = RO!Objects[3] /\ Is(l, "GET", "objects", 3, ":name")
    \/ l = RO!Objects[4] /\ Is(l, "GET", "objects", 5, ":name")
    \/ l = RO!Objects[5] /\ Is(l, "GET", "search", 1, "search")
    \/ l = RO!Objects[6] /\ Is(l, "GET", "kpis", 1, "kpis")
    \/ l = RO!Objects[7] /\ Is(l, "GET", "kpis", 2, "catalogue")
    \/ l = RO!Objects[8] /\ Is(l, "GET", "kpis", 2, ":name")
    \/ l = RO!Objects[9] /\ Is(l, "POST", "kpis", 3, "execute")
    \/ l = RO!Objects[10] /\ Is(l, "GET", "kpis", 4, ":name")
LEMMA ObjectsAre ==
  ASSUME NEW i \in DOMAIN RO!Objects
  PROVE  ObjectsRoute(RO!Objects[i])
<1>1. /\ Is(RO!Objects[1], "POST", "objects", 3, "search")
      /\ Is(RO!Objects[2], "POST", "objects", 3, "aggregate")
      /\ Is(RO!Objects[3], "GET", "objects", 3, ":name")
      /\ Is(RO!Objects[4], "GET", "objects", 5, ":name")
      /\ Is(RO!Objects[5], "GET", "search", 1, "search")
      /\ Is(RO!Objects[6], "GET", "kpis", 1, "kpis")
      /\ Is(RO!Objects[7], "GET", "kpis", 2, "catalogue")
      /\ Is(RO!Objects[8], "GET", "kpis", 2, ":name")
      /\ Is(RO!Objects[9], "POST", "kpis", 3, "execute")
      /\ Is(RO!Objects[10], "GET", "kpis", 4, ":name")
  BY One, Two, Three, Four, Five
     DEF RO!Objects, RO!Get, RO!Post
<1>. QED BY <1>1 DEF RO!Objects, ObjectsRoute

DashboardsRoute(l) ==
    \/ l = RO!Dashboards[1] /\ Is(l, "GET", "dashboards", 1, "dashboards")
    \/ l = RO!Dashboards[2] /\ Is(l, "GET", "dashboards", 2, "history")
    \/ l = RO!Dashboards[3] /\ Is(l, "GET", "dashboards", 2, "export")
    \/ l = RO!Dashboards[4] /\ Is(l, "POST", "dashboards", 2, "import")
    \/ l = RO!Dashboards[5] /\ Is(l, "POST", "dashboards", 3, "rename")
    \/ l = RO!Dashboards[6] /\ Is(l, "GET", "dashboards", 2, ":name")
    \/ l = RO!Dashboards[7] /\ Is(l, "GET", "dashboards", 3, "filters")
    \/ l = RO!Dashboards[8] /\ Is(l, "POST", "dashboards", 1, "dashboards")
    \/ l = RO!Dashboards[9] /\ Is(l, "POST", "workspace", 2, "auto-dashboard")
LEMMA DashboardsAre ==
  ASSUME NEW i \in DOMAIN RO!Dashboards
  PROVE  DashboardsRoute(RO!Dashboards[i])
<1>1. /\ Is(RO!Dashboards[1], "GET", "dashboards", 1, "dashboards")
      /\ Is(RO!Dashboards[2], "GET", "dashboards", 2, "history")
      /\ Is(RO!Dashboards[3], "GET", "dashboards", 2, "export")
      /\ Is(RO!Dashboards[4], "POST", "dashboards", 2, "import")
      /\ Is(RO!Dashboards[5], "POST", "dashboards", 3, "rename")
      /\ Is(RO!Dashboards[6], "GET", "dashboards", 2, ":name")
      /\ Is(RO!Dashboards[7], "GET", "dashboards", 3, "filters")
      /\ Is(RO!Dashboards[8], "POST", "dashboards", 1, "dashboards")
      /\ Is(RO!Dashboards[9], "POST", "workspace", 2, "auto-dashboard")
  BY One, Two, Three
     DEF RO!Dashboards, RO!Get, RO!Post
<1>. QED BY <1>1 DEF RO!Dashboards, DashboardsRoute

ProposalsRoute(l) ==
    \/ l = RO!Proposals[1] /\ Is(l, "POST", "feasibility", 1, "feasibility")
    \/ l = RO!Proposals[2] /\ Is(l, "GET", "proposals", 1, "proposals")
    \/ l = RO!Proposals[3] /\ Is(l, "GET", "proposals", 2, ":id")
    \/ l = RO!Proposals[4] /\ Is(l, "POST", "proposals", 1, "proposals")
    \/ l = RO!Proposals[5] /\ Is(l, "POST", "proposals", 3, "approve")
    \/ l = RO!Proposals[6] /\ Is(l, "POST", "proposals", 3, "reject")
    \/ l = RO!Proposals[7] /\ Is(l, "POST", "dashboards", 2, "validate")
    \/ l = RO!Proposals[8] /\ Is(l, "DELETE", "dashboards", 2, ":name")
LEMMA ProposalsAre ==
  ASSUME NEW i \in DOMAIN RO!Proposals
  PROVE  ProposalsRoute(RO!Proposals[i])
<1>1. /\ Is(RO!Proposals[1], "POST", "feasibility", 1, "feasibility")
      /\ Is(RO!Proposals[2], "GET", "proposals", 1, "proposals")
      /\ Is(RO!Proposals[3], "GET", "proposals", 2, ":id")
      /\ Is(RO!Proposals[4], "POST", "proposals", 1, "proposals")
      /\ Is(RO!Proposals[5], "POST", "proposals", 3, "approve")
      /\ Is(RO!Proposals[6], "POST", "proposals", 3, "reject")
      /\ Is(RO!Proposals[7], "POST", "dashboards", 2, "validate")
      /\ Is(RO!Proposals[8], "DELETE", "dashboards", 2, ":name")
  BY One, Two, Three
     DEF RO!Proposals, RO!Get, RO!Post, RO!Delete
<1>. QED BY <1>1 DEF RO!Proposals, ProposalsRoute

ActionsRoute(l) ==
    \/ l = RO!Actions[1] /\ Is(l, "POST", "actions", 3, "validate")
    \/ l = RO!Actions[2] /\ Is(l, "POST", "actions", 3, "apply")
    \/ l = RO!Actions[3] /\ Is(l, "GET", "actions", 2, "audit")
LEMMA ActionsAre ==
  ASSUME NEW i \in DOMAIN RO!Actions
  PROVE  ActionsRoute(RO!Actions[i])
BY Two, Three
   DEF RO!Actions, ActionsRoute, RO!Get, RO!Post

AuthoringRoute(l) ==
    \/ l = RO!Authoring[1] /\ Is(l, "GET", "datasets", 1, "datasets")
    \/ l = RO!Authoring[2] /\ Is(l, "GET", "datasets", 3, "profile")
    \/ l = RO!Authoring[3] /\ Is(l, "POST", "ontology", 2, "object-types")
    \/ l = RO!Authoring[4] /\ Is(l, "GET", "ontology", 2, "link-suggestions")
    \/ l = RO!Authoring[5] /\ Is(l, "POST", "ontology", 2, "action-types")
    \/ l = RO!Authoring[6] /\ Is(l, "POST", "ontology", 2, "metrics")
    \/ l = RO!Authoring[7] /\ Is(l, "PATCH", "ontology", 3, ":name")
    \/ l = RO!Authoring[8] /\ Is(l, "POST", "ontology", 2, "link-types")
    \/ l = RO!Authoring[9] /\ Is(l, "DELETE", "ontology", 3, ":name")
    \/ l = RO!Authoring[10] /\ Is(l, "GET", "ontology", 2, "edits")
    \/ l = RO!Authoring[11] /\ Is(l, "POST", "ontology", 4, "undo")
LEMMA AuthoringAre ==
  ASSUME NEW i \in DOMAIN RO!Authoring
  PROVE  AuthoringRoute(RO!Authoring[i])
<1>1. /\ Is(RO!Authoring[1], "GET", "datasets", 1, "datasets")
      /\ Is(RO!Authoring[2], "GET", "datasets", 3, "profile")
      /\ Is(RO!Authoring[3], "POST", "ontology", 2, "object-types")
      /\ Is(RO!Authoring[4], "GET", "ontology", 2, "link-suggestions")
      /\ Is(RO!Authoring[5], "POST", "ontology", 2, "action-types")
      /\ Is(RO!Authoring[6], "POST", "ontology", 2, "metrics")
      /\ Is(RO!Authoring[7], "PATCH", "ontology", 3, ":name")
      /\ Is(RO!Authoring[8], "POST", "ontology", 2, "link-types")
      /\ Is(RO!Authoring[9], "DELETE", "ontology", 3, ":name")
      /\ Is(RO!Authoring[10], "GET", "ontology", 2, "edits")
      /\ Is(RO!Authoring[11], "POST", "ontology", 4, "undo")
  BY One, Two, Three, Four
     DEF RO!Authoring, RO!Get, RO!Post, RO!Patch, RO!Delete
<1>. QED BY <1>1 DEF RO!Authoring, AuthoringRoute

FunctionsRoute(l) ==
    \/ l = RO!Functions[1] /\ Is(l, "GET", "functions", 1, "functions")
    \/ l = RO!Functions[2] /\ Is(l, "GET", "functions", 2, ":name")
    \/ l = RO!Functions[3] /\ Is(l, "GET", "functions", 3, "runs")
    \/ l = RO!Functions[4] /\ Is(l, "POST", "functions", 2, "validate")
    \/ l = RO!Functions[5] /\ Is(l, "POST", "functions", 1, "functions")
    \/ l = RO!Functions[6] /\ Is(l, "PATCH", "functions", 2, ":name")
    \/ l = RO!Functions[7] /\ Is(l, "POST", "functions", 3, "approve")
    \/ l = RO!Functions[8] /\ Is(l, "POST", "functions", 3, "reject")
    \/ l = RO!Functions[9] /\ Is(l, "POST", "functions", 3, "archive")
    \/ l = RO!Functions[10] /\ Is(l, "POST", "functions", 3, "run")
LEMMA FunctionsAre ==
  ASSUME NEW i \in DOMAIN RO!Functions
  PROVE  FunctionsRoute(RO!Functions[i])
<1>1. /\ Is(RO!Functions[1], "GET", "functions", 1, "functions")
      /\ Is(RO!Functions[2], "GET", "functions", 2, ":name")
      /\ Is(RO!Functions[3], "GET", "functions", 3, "runs")
      /\ Is(RO!Functions[4], "POST", "functions", 2, "validate")
      /\ Is(RO!Functions[5], "POST", "functions", 1, "functions")
      /\ Is(RO!Functions[6], "PATCH", "functions", 2, ":name")
      /\ Is(RO!Functions[7], "POST", "functions", 3, "approve")
      /\ Is(RO!Functions[8], "POST", "functions", 3, "reject")
      /\ Is(RO!Functions[9], "POST", "functions", 3, "archive")
      /\ Is(RO!Functions[10], "POST", "functions", 3, "run")
  BY One, Two, Three
     DEF RO!Functions, RO!Get, RO!Post, RO!Patch
<1>. QED BY <1>1 DEF RO!Functions, FunctionsRoute

SpacesRoute(l) ==
    \/ l = RO!Spaces[1] /\ Is(l, "GET", "spaces", 1, "spaces")
    \/ l = RO!Spaces[2] /\ Is(l, "GET", "spaces", 3, "members")
    \/ l = RO!Spaces[3] /\ Is(l, "POST", "spaces", 3, "members")
    \/ l = RO!Spaces[4] /\ Is(l, "DELETE", "spaces", 4, "members")
    \/ l = RO!Spaces[5] /\ Is(l, "GET", "workspace", 2, "summary")
    \/ l = RO!Spaces[6] /\ Is(l, "GET", "spaces", 2, "database")
    \/ l = RO!Spaces[7] /\ Is(l, "POST", "spaces", 3, "seed")
LEMMA SpacesAre ==
  ASSUME NEW i \in DOMAIN RO!Spaces
  PROVE  SpacesRoute(RO!Spaces[i])
<1>1. /\ Is(RO!Spaces[1], "GET", "spaces", 1, "spaces")
      /\ Is(RO!Spaces[2], "GET", "spaces", 3, "members")
      /\ Is(RO!Spaces[3], "POST", "spaces", 3, "members")
      /\ Is(RO!Spaces[4], "DELETE", "spaces", 4, "members")
      /\ Is(RO!Spaces[5], "GET", "workspace", 2, "summary")
      /\ Is(RO!Spaces[6], "GET", "spaces", 2, "database")
      /\ Is(RO!Spaces[7], "POST", "spaces", 3, "seed")
  BY One, Two, Three, DeleteFour
     DEF RO!Spaces, RO!Get, RO!Post, RO!Delete
<1>. QED BY <1>1 DEF RO!Spaces, SpacesRoute

ProjectsRoute(l) ==
    \/ l = RO!Projects[1] /\ Is(l, "GET", "spaces", 3, "projects")
    \/ l = RO!Projects[2] /\ Is(l, "POST", "spaces", 3, "projects")
    \/ l = RO!Projects[3] /\ Is(l, "DELETE", "spaces", 4, "projects")
    \/ l = RO!Projects[4] /\ Is(l, "GET", "spaces", 5, "tree")
    \/ l = RO!Projects[5] /\ Is(l, "POST", "spaces", 5, "folders")
    \/ l = RO!Projects[6] /\ Is(l, "POST", "spaces", 5, "resources")
    \/ l = RO!Projects[7] /\ Is(l, "POST", "spaces", 3, "test")
    \/ l = RO!Projects[8] /\ Is(l, "POST", "spaces", 5, "connections")
LEMMA ProjectsAre ==
  ASSUME NEW i \in DOMAIN RO!Projects
  PROVE  ProjectsRoute(RO!Projects[i])
<1>1. /\ Is(RO!Projects[1], "GET", "spaces", 3, "projects")
      /\ Is(RO!Projects[2], "POST", "spaces", 3, "projects")
      /\ Is(RO!Projects[3], "DELETE", "spaces", 4, "projects")
      /\ Is(RO!Projects[4], "GET", "spaces", 5, "tree")
      /\ Is(RO!Projects[5], "POST", "spaces", 5, "folders")
      /\ Is(RO!Projects[6], "POST", "spaces", 5, "resources")
      /\ Is(RO!Projects[7], "POST", "spaces", 3, "test")
      /\ Is(RO!Projects[8], "POST", "spaces", 5, "connections")
  BY Three, DeleteFour, Five
     DEF RO!Projects, RO!Get, RO!Post, RO!Delete
<1>. QED BY <1>1 DEF RO!Projects, ProjectsRoute

ConnectionsRoute(l) ==
    \/ l = RO!Connections[1] /\ Is(l, "POST", "resources", 3, "import")
    \/ l = RO!Connections[2] /\ Is(l, "POST", "resources", 3, "model")
    \/ l = RO!Connections[3] /\ Is(l, "DELETE", "object-types", 2, ":name")
    \/ l = RO!Connections[4] /\ Is(l, "POST", "resources", 3, "test")
    \/ l = RO!Connections[5] /\ Is(l, "GET", "connections", 1, "connections")
    \/ l = RO!Connections[6] /\ Is(l, "GET", "resources", 3, "catalog")
    \/ l = RO!Connections[7] /\ Is(l, "GET", "resources", 3, "syncs")
    \/ l = RO!Connections[8] /\ Is(l, "POST", "resources", 3, "syncs")
    \/ l = RO!Connections[9] /\ Is(l, "POST", "syncs", 3, "run")
    \/ l = RO!Connections[10] /\ Is(l, "GET", "syncs", 3, "runs")
    \/ l = RO!Connections[11] /\ Is(l, "DELETE", "syncs", 2, ":id")
    \/ l = RO!Connections[12] /\ Is(l, "GET", "resources", 2, "lookup")
LEMMA ConnectionsAre ==
  ASSUME NEW i \in DOMAIN RO!Connections
  PROVE  ConnectionsRoute(RO!Connections[i])
<1>1. /\ Is(RO!Connections[1], "POST", "resources", 3, "import")
      /\ Is(RO!Connections[2], "POST", "resources", 3, "model")
      /\ Is(RO!Connections[3], "DELETE", "object-types", 2, ":name")
      /\ Is(RO!Connections[4], "POST", "resources", 3, "test")
      /\ Is(RO!Connections[5], "GET", "connections", 1, "connections")
      /\ Is(RO!Connections[6], "GET", "resources", 3, "catalog")
      /\ Is(RO!Connections[7], "GET", "resources", 3, "syncs")
      /\ Is(RO!Connections[8], "POST", "resources", 3, "syncs")
      /\ Is(RO!Connections[9], "POST", "syncs", 3, "run")
      /\ Is(RO!Connections[10], "GET", "syncs", 3, "runs")
      /\ Is(RO!Connections[11], "DELETE", "syncs", 2, ":id")
      /\ Is(RO!Connections[12], "GET", "resources", 2, "lookup")
  BY One, Two, Three
     DEF RO!Connections, RO!Get, RO!Post, RO!Delete
<1>. QED BY <1>1 DEF RO!Connections, ConnectionsRoute

ResourcesRoute(l) ==
    \/ l = RO!Resources[1] /\ Is(l, "GET", "resources", 3, "preview")
    \/ l = RO!Resources[2] /\ Is(l, "GET", "resources", 3, "data")
    \/ l = RO!Resources[3] /\ Is(l, "POST", "resources", 3, "rename")
    \/ l = RO!Resources[4] /\ Is(l, "GET", "resources", 3, "removal")
    \/ l = RO!Resources[5] /\ Is(l, "DELETE", "resources", 2, ":id")
    \/ l = RO!Resources[6] /\ Is(l, "GET", "removal", 3, ":name")
    \/ l = RO!Resources[7] /\ Is(l, "DELETE", "removal", 3, ":name")
    \/ l = RO!Resources[8] /\ Is(l, "DELETE", "folders", 2, ":id")
LEMMA ResourcesAre ==
  ASSUME NEW i \in DOMAIN RO!Resources
  PROVE  ResourcesRoute(RO!Resources[i])
<1>1. /\ Is(RO!Resources[1], "GET", "resources", 3, "preview")
      /\ Is(RO!Resources[2], "GET", "resources", 3, "data")
      /\ Is(RO!Resources[3], "POST", "resources", 3, "rename")
      /\ Is(RO!Resources[4], "GET", "resources", 3, "removal")
      /\ Is(RO!Resources[5], "DELETE", "resources", 2, ":id")
      /\ Is(RO!Resources[6], "GET", "removal", 3, ":name")
      /\ Is(RO!Resources[7], "DELETE", "removal", 3, ":name")
      /\ Is(RO!Resources[8], "DELETE", "folders", 2, ":id")
  BY Two, Three
     DEF RO!Resources, RO!Get, RO!Post, RO!Delete
<1>. QED BY <1>1 DEF RO!Resources, ResourcesRoute

DocsRoute(l) ==
    \/ l = RO!Docs[1] /\ Is(l, "GET", "docs", 2, "search")
    \/ l = RO!Docs[2] /\ Is(l, "GET", "docs", 1, "docs")
    \/ l = RO!Docs[3] /\ Is(l, "GET", "docs", 3, ":name")
LEMMA DocsAre ==
  ASSUME NEW i \in DOMAIN RO!Docs
  PROVE  DocsRoute(RO!Docs[i])
BY One, Two, Three
   DEF RO!Docs, DocsRoute, RO!Get

SchedulesRoute(l) ==
    \/ l = RO!Schedules[1] /\ Is(l, "GET", "syncs", 1, "syncs")
    \/ l = RO!Schedules[2] /\ Is(l, "POST", "syncs", 3, "schedule")
    \/ l = RO!Schedules[3] /\ Is(l, "GET", "schedules", 1, "schedules")
    \/ l = RO!Schedules[4] /\ Is(l, "POST", "schedules", 1, "schedules")
    \/ l = RO!Schedules[5] /\ Is(l, "GET", "schedules", 2, ":id")
    \/ l = RO!Schedules[6] /\ Is(l, "PATCH", "schedules", 2, ":id")
    \/ l = RO!Schedules[7] /\ Is(l, "DELETE", "schedules", 2, ":id")
    \/ l = RO!Schedules[8] /\ Is(l, "GET", "schedules", 3, "runs")
    \/ l = RO!Schedules[9] /\ Is(l, "POST", "schedules", 3, "run")
LEMMA SchedulesAre ==
  ASSUME NEW i \in DOMAIN RO!Schedules
  PROVE  SchedulesRoute(RO!Schedules[i])
<1>1. /\ Is(RO!Schedules[1], "GET", "syncs", 1, "syncs")
      /\ Is(RO!Schedules[2], "POST", "syncs", 3, "schedule")
      /\ Is(RO!Schedules[3], "GET", "schedules", 1, "schedules")
      /\ Is(RO!Schedules[4], "POST", "schedules", 1, "schedules")
      /\ Is(RO!Schedules[5], "GET", "schedules", 2, ":id")
      /\ Is(RO!Schedules[6], "PATCH", "schedules", 2, ":id")
      /\ Is(RO!Schedules[7], "DELETE", "schedules", 2, ":id")
      /\ Is(RO!Schedules[8], "GET", "schedules", 3, "runs")
      /\ Is(RO!Schedules[9], "POST", "schedules", 3, "run")
  BY One, Two, Three
     DEF RO!Schedules, RO!Get, RO!Post, RO!Patch, RO!Delete
<1>. QED BY <1>1 DEF RO!Schedules, SchedulesRoute

Listed(l) ==
    \/ PublicRoute(l) \/ ConsoleRoute(l) \/ OntologyRoute(l) \/ TypesRoute(l) \/ ObjectsRoute(l)
    \/ DashboardsRoute(l) \/ ProposalsRoute(l) \/ ActionsRoute(l) \/ AuthoringRoute(l) \/ FunctionsRoute(l)
    \/ SpacesRoute(l) \/ ProjectsRoute(l) \/ ConnectionsRoute(l) \/ ResourcesRoute(l) \/ DocsRoute(l)
    \/ SchedulesRoute(l)

(* What is mounted and guards nothing is listed.                            *)
LEMMA RoutesAreListed ==
  ASSUME NEW l \in Layer, l.verb # "use"
  PROVE  Listed(l)
<1>1. l \in Has(RO!Public) => Listed(l)
  BY PublicAre DEF Has, Listed
<1>2. l \in Has(RO!Console) => Listed(l)
  BY ConsoleAre DEF Has, Listed
<1>3. l \in Has(RO!Ontology) => Listed(l)
  BY OntologyAre DEF Has, Listed
<1>4. l \in Has(RO!Types) => Listed(l)
  BY TypesAre DEF Has, Listed
<1>5. l \in Has(RO!Objects) => Listed(l)
  BY ObjectsAre DEF Has, Listed
<1>6. l \in Has(RO!Dashboards) => Listed(l)
  BY DashboardsAre DEF Has, Listed
<1>7. l \in Has(RO!Proposals) => Listed(l)
  BY ProposalsAre DEF Has, Listed
<1>8. l \in Has(RO!Actions) => Listed(l)
  BY ActionsAre DEF Has, Listed
<1>9. l \in Has(RO!Authoring) => Listed(l)
  BY AuthoringAre DEF Has, Listed
<1>10. l \in Has(RO!Functions) => Listed(l)
  BY FunctionsAre DEF Has, Listed
<1>11. l \in Has(RO!Spaces) => Listed(l)
  BY SpacesAre DEF Has, Listed
<1>12. l \in Has(RO!Projects) => Listed(l)
  BY ProjectsAre DEF Has, Listed
<1>13. l \in Has(RO!Connections) => Listed(l)
  BY ConnectionsAre DEF Has, Listed
<1>14. l \in Has(RO!Resources) => Listed(l)
  BY ResourcesAre DEF Has, Listed
<1>15. l \in Has(RO!Docs) => Listed(l)
  BY DocsAre DEF Has, Listed
<1>16. l \in Has(RO!Schedules) => Listed(l)
  BY SchedulesAre DEF Has, Listed
<1>17. l \notin Has(RO!Guards)
  BY DEF RO!Guards, RO!Use, Has
<1>18. l \notin Has(RO!ScopedIds)
  BY DEF RO!ScopedIds, RO!Use, Has
<1>. QED BY <1>1, <1>2, <1>3, <1>4, <1>5, <1>6, <1>7, <1>8, <1>9, <1>10, <1>11, <1>12, <1>13,
   <1>14, <1>15, <1>16, <1>17, <1>18
   DEF Layer

(* Two routes that are told alike are one; and one that is told by no word  *)
(* of its own has none like it, but for the board's and the metric's.       *)
Alike(l, m) == l.verb = m.verb /\ Word(l) = Word(m) /\ Size(l) = Size(m)
Params == {":name", ":id"}
Shadows(l) == l.verb = "GET" /\ Size(l) = 2 /\ Word(l) \in {"kpis", "dashboards"}

LEMMA ToldApart ==
  ASSUME NEW l, Listed(l), NEW m, Listed(m), Alike(l, m), Told(l) = Told(m)
  PROVE  l = m
BY SMTT(30)
   DEF Listed, PublicRoute, ConsoleRoute, OntologyRoute, TypesRoute, ObjectsRoute,
       DashboardsRoute, ProposalsRoute, ActionsRoute, AuthoringRoute, FunctionsRoute,
       SpacesRoute, ProjectsRoute, ConnectionsRoute, ResourcesRoute, DocsRoute,
       SchedulesRoute, Is, Alike

LEMMA AloneOfItsKind ==
  ASSUME NEW l, Listed(l), NEW m, Listed(m), Alike(l, m), Told(l) \in Params, ~Shadows(l)
  PROVE  l = m
BY SMTT(30)
   DEF Listed, PublicRoute, ConsoleRoute, OntologyRoute, TypesRoute, ObjectsRoute,
       DashboardsRoute, ProposalsRoute, ActionsRoute, AuthoringRoute, FunctionsRoute,
       SpacesRoute, ProjectsRoute, ConnectionsRoute, ResourcesRoute, DocsRoute,
       SchedulesRoute, Is, Alike, Params, Shadows

(* The board's and the metric's own addresses, and those they would shadow. *)
LEMMA MetricsAre ==
  ASSUME NEW l, Listed(l), l.verb = "GET", Size(l) = 2, Word(l) = "kpis"
  PROVE  \/ l = RO!Objects[7] /\ Told(l) = "catalogue"
         \/ l = RO!Objects[8] /\ Told(l) = ":name"
BY SMTT(30)
   DEF Listed, PublicRoute, ConsoleRoute, OntologyRoute, TypesRoute, ObjectsRoute,
       DashboardsRoute, ProposalsRoute, ActionsRoute, AuthoringRoute, FunctionsRoute,
       SpacesRoute, ProjectsRoute, ConnectionsRoute, ResourcesRoute, DocsRoute,
       SchedulesRoute, Is

LEMMA BoardsAre ==
  ASSUME NEW l, Listed(l), l.verb = "GET", Size(l) = 2, Word(l) = "dashboards"
  PROVE  \/ l = RO!Dashboards[2] /\ Told(l) = "history"
         \/ l = RO!Dashboards[3] /\ Told(l) = "export"
         \/ l = RO!Dashboards[6] /\ Told(l) = ":name"
BY SMTT(30)
   DEF Listed, PublicRoute, ConsoleRoute, OntologyRoute, TypesRoute, ObjectsRoute,
       DashboardsRoute, ProposalsRoute, ActionsRoute, AuthoringRoute, FunctionsRoute,
       SpacesRoute, ProjectsRoute, ConnectionsRoute, ResourcesRoute, DocsRoute,
       SchedulesRoute, Is

LEMMA RoutesBeginWithWords ==
  ASSUME NEW l, Listed(l)
  PROVE  l.verb # "use" /\ Word(l) \notin Params /\ Size(l) \in 1..5
BY SMTT(30)
   DEF Listed, PublicRoute, ConsoleRoute, OntologyRoute, TypesRoute, ObjectsRoute,
       DashboardsRoute, ProposalsRoute, ActionsRoute, AuthoringRoute, FunctionsRoute,
       SpacesRoute, ProjectsRoute, ConnectionsRoute, ResourcesRoute, DocsRoute,
       SchedulesRoute, Is, Params

(* What no route answers: the rename is the only one of its kind.           *)
LEMMA NoRouteIsNone ==
  ASSUME NEW l, Listed(l), l.verb = "POST", Word(l) = "dashboards", Size(l) = 3
  PROVE  Told(l) = "rename"
BY SMTT(30)
   DEF Listed, PublicRoute, ConsoleRoute, OntologyRoute, TypesRoute, ObjectsRoute,
       DashboardsRoute, ProposalsRoute, ActionsRoute, AuthoringRoute, FunctionsRoute,
       SpacesRoute, ProjectsRoute, ConnectionsRoute, ResourcesRoute, DocsRoute,
       SchedulesRoute, Is

(* What an address that names a metric or a board would be taken for is     *)
(* mounted before it, in every group of routes and in all of them together. *)
Rival(l, m) == Listed(l) /\ Alike(l, m) /\ Shadows(m) /\ Told(m) = ":name" /\ Told(l) # ":name"
RivalsFirst(s) == \A i \in DOMAIN s : \A l : Rival(l, s[i]) => \E c \in DOMAIN s : c < i /\ s[c] = l
InOrder(s) == s \in Seq(Layer) /\ RivalsFirst(s)

LEMMA StillInOrder ==
  ASSUME NEW s, InOrder(s), NEW t, InOrder(t)
  PROVE  InOrder(s \o t)
<1>1. /\ s \o t \in Seq(Layer)
      /\ Len(s \o t) = Len(s) + Len(t)
      /\ \A i \in 1..Len(s) : (s \o t)[i] = s[i]
      /\ \A i \in 1..(Len(s) + Len(t)) : Len(s) < i => (s \o t)[i] = t[i - Len(s)]
  BY Joined DEF InOrder
<1>2. DOMAIN s = 1..Len(s) /\ DOMAIN t = 1..Len(t) /\ DOMAIN (s \o t) = 1..(Len(s) + Len(t)) /\ Len(s) \in Nat /\ Len(t) \in Nat
  BY <1>1 DEF InOrder
<1>3. ASSUME NEW i \in 1..(Len(s) + Len(t)), NEW l, Rival(l, (s \o t)[i])
      PROVE  \E c \in 1..(Len(s) + Len(t)) : c < i /\ (s \o t)[c] = l
  <2>1. CASE i <= Len(s)
    <3>1. PICK c \in DOMAIN s : c < i /\ s[c] = l
      BY <1>1, <1>2, <1>3, <2>1 DEF InOrder, RivalsFirst
    <3>. QED BY <1>1, <1>2, <3>1
  <2>2. CASE i > Len(s)
    <3>1. i - Len(s) \in DOMAIN t /\ (s \o t)[i] = t[i - Len(s)]
      BY <1>1, <1>2, <2>2
    <3>2. PICK c \in DOMAIN t : c < i - Len(s) /\ t[c] = l
      BY <1>3, <3>1 DEF InOrder, RivalsFirst
    <3>3. Len(s) + c \in 1..(Len(s) + Len(t)) /\ Len(s) + c < i
      BY <1>2, <3>2
    <3>4. (s \o t)[Len(s) + c] = t[c]
      BY <1>1, <1>2, <3>2, <3>3
    <3>. QED BY <3>2, <3>3, <3>4
  <2>. QED BY <1>2, <2>1, <2>2
<1>. QED BY <1>1, <1>2, <1>3 DEF InOrder, RivalsFirst

LEMMA RivalsComeFirst == RivalsFirst(RO!Stack)
<1>1. InOrder(RO!Public)
  BY PublicIsPlain, PublicAre DEF InOrder, RivalsFirst, Rival, Shadows, PublicRoute, Is, PlainLayer
<1>2. InOrder(RO!Guards)
  BY GuardsAreLayers DEF InOrder, RivalsFirst, Rival, Shadows, RO!Guards, RO!Use
<1>3. InOrder(RO!Console)
  BY ConsoleIsPlain, ConsoleAre DEF InOrder, RivalsFirst, Rival, Shadows, ConsoleRoute, Is, PlainLayer
<1>4. InOrder(RO!Ontology)
  BY OntologyIsPlain, OntologyAre DEF InOrder, RivalsFirst, Rival, Shadows, OntologyRoute, Is, PlainLayer
<1>5. InOrder(RO!Types)
  BY TypesIsPlain, TypesAre DEF InOrder, RivalsFirst, Rival, Shadows, TypesRoute, Is, PlainLayer
<1>6. InOrder(RO!Objects)
  <2>1. ASSUME NEW i \in DOMAIN RO!Objects, NEW l, Rival(l, RO!Objects[i]) PROVE i = 8 /\ l = RO!Objects[7]
    <3>1. ObjectsRoute(RO!Objects[i])
      BY ObjectsAre
    <3>2. RO!Objects[i].verb = "GET" /\ Size(RO!Objects[i]) = 2 /\ Word(RO!Objects[i]) = "kpis" /\ RO!Objects[i] = RO!Objects[8]
      BY <2>1, <3>1 DEF ObjectsRoute, Is, Rival, Shadows
    <3>3. l = RO!Objects[7]
      BY <2>1, <3>2, MetricsAre DEF Rival, Alike
    <3>4. i = 8
      BY <3>2 DEF RO!Objects, RO!Get, RO!Post
    <3>. QED BY <3>3, <3>4
  <2>2. DOMAIN RO!Objects = 1..10
    BY DEF RO!Objects
  <2>. QED BY <2>1, <2>2, ObjectsIsPlain DEF InOrder, RivalsFirst, PlainLayer
<1>7. InOrder(RO!Dashboards)
  <2>1. ASSUME NEW i \in DOMAIN RO!Dashboards, NEW l, Rival(l, RO!Dashboards[i]) PROVE i = 6 /\ (l = RO!Dashboards[2] \/ l = RO!Dashboards[3])
    <3>1. DashboardsRoute(RO!Dashboards[i])
      BY DashboardsAre
    <3>2. RO!Dashboards[i].verb = "GET" /\ Size(RO!Dashboards[i]) = 2 /\ Word(RO!Dashboards[i]) = "dashboards" /\ RO!Dashboards[i] = RO!Dashboards[6]
      BY <2>1, <3>1 DEF DashboardsRoute, Is, Rival, Shadows
    <3>3. l = RO!Dashboards[2] \/ l = RO!Dashboards[3]
      BY <2>1, <3>2, BoardsAre DEF Rival, Alike
    <3>4. i = 6
      BY <3>2 DEF RO!Dashboards, RO!Get, RO!Post
    <3>. QED BY <3>3, <3>4
  <2>2. DOMAIN RO!Dashboards = 1..9
    BY DEF RO!Dashboards
  <2>. QED BY <2>1, <2>2, DashboardsIsPlain DEF InOrder, RivalsFirst, PlainLayer
<1>8. InOrder(RO!Proposals)
  BY ProposalsIsPlain, ProposalsAre DEF InOrder, RivalsFirst, Rival, Shadows, ProposalsRoute, Is, PlainLayer
<1>9. InOrder(RO!Actions)
  BY ActionsIsPlain, ActionsAre DEF InOrder, RivalsFirst, Rival, Shadows, ActionsRoute, Is, PlainLayer
<1>10. InOrder(RO!Authoring)
  BY AuthoringIsPlain, AuthoringAre DEF InOrder, RivalsFirst, Rival, Shadows, AuthoringRoute, Is, PlainLayer
<1>11. InOrder(RO!Functions)
  BY FunctionsIsPlain, FunctionsAre DEF InOrder, RivalsFirst, Rival, Shadows, FunctionsRoute, Is, PlainLayer
<1>12. InOrder(RO!Spaces)
  BY SpacesIsPlain, SpacesAre DEF InOrder, RivalsFirst, Rival, Shadows, SpacesRoute, Is, PlainLayer
<1>13. InOrder(RO!ScopedIds)
  BY ScopedIdsAreLayers DEF InOrder, RivalsFirst, Rival, Shadows, RO!ScopedIds, RO!Use
<1>14. InOrder(RO!Projects)
  BY ProjectsAreLayers, ProjectsAre DEF InOrder, RivalsFirst, Rival, Shadows, ProjectsRoute, Is, PlainLayer
<1>15. InOrder(RO!Connections)
  BY ConnectionsAreLayers, ConnectionsAre DEF InOrder, RivalsFirst, Rival, Shadows, ConnectionsRoute, Is, PlainLayer
<1>16. InOrder(RO!Resources)
  BY ResourcesAreLayers, ResourcesAre DEF InOrder, RivalsFirst, Rival, Shadows, ResourcesRoute, Is, PlainLayer
<1>17. InOrder(RO!Docs)
  BY DocsAreLayers, DocsAre DEF InOrder, RivalsFirst, Rival, Shadows, DocsRoute, Is, PlainLayer
<1>18. InOrder(RO!Schedules)
  BY SchedulesAreLayers, SchedulesAre DEF InOrder, RivalsFirst, Rival, Shadows, SchedulesRoute, Is, PlainLayer
<1>19. InOrder(RO!Behind)
  BY <1>3, <1>4, <1>5, <1>6, <1>7, <1>8, <1>9, <1>10, <1>11, <1>12, StillInOrder DEF RO!Behind
<1>20. InOrder(RO!Stack)
  BY <1>1, <1>2, <1>13, <1>14, <1>15, <1>16, <1>17, <1>18, <1>19, StillInOrder DEF RO!Stack
<1>. QED BY <1>20 DEF InOrder

(* An address written for a route fits it.                                  *)
LEMMA WrittenFits ==
  ASSUME NEW l \in Layer, l.verb # "use", NEW p \in RO!Written(l), NEW r, r.verb = l.verb, r.path = p
  PROVE  /\ RO!Takes(l, r) /\ IsAddress(p) /\ Len(p) = Len(l.path) /\ IsAddress(l.path) /\ Len(p) > 0
         /\ \A i \in 1..Len(p) : p[i] \in RO!Values(l.path[i])
<1>1. IsAddress(l.path) /\ Len(l.path) > 0
  BY DEF Layer, Addressed
<1>2. PICK S : p \in [DOMAIN l.path -> S]
  BY DEF RO!Written
<1>3. PICK k \in Nat : k = Len(l.path) /\ DOMAIN l.path = 1..k
  BY <1>1 DEF IsAddress
<1>4. p \in Seq(S) /\ Len(p) = k /\ DOMAIN p = 1..k
  BY <1>2, <1>3
<1>5. \A i \in 1..k : p[i] \in RO!Values(l.path[i])
  BY <1>4 DEF RO!Written
<1>6. \A i \in 1..k : RO!Fits(l.path[i], p[i])
  BY <1>5 DEF RO!Values, RO!Fits
<1>. QED BY <1>1, <1>3, <1>4, <1>5, <1>6 DEF RO!Takes, RO!FitsAll, IsAddress

(* An address fits the one route it was written for; or a metric's or a     *)
(* board's own as well, when it was written for a rival of that; or names   *)
(* one of the rivals.                                                       *)
LEMMA OneRouteFits ==
  ASSUME NEW l \in RO!RouteTable, NEW m \in RO!RouteTable,
         NEW p \in RO!Written(m), NEW r, r.verb = m.verb, r.path = p, RO!Takes(l, r)
  PROVE  l = m \/ Rival(m, l) \/ (p \in RO!Taken /\ p # m.path)
<1>1. l \in Layer /\ m \in Layer /\ l.verb # "use" /\ m.verb # "use"
  BY StackIsInOrder DEF RO!RouteTable
<1>2. Listed(l) /\ Listed(m)
  BY <1>1, RoutesAreListed
<1>3. /\ Word(l) \notin Params /\ Size(l) \in 1..5
      /\ Word(m) \notin Params /\ Size(m) \in 1..5
  BY <1>2, RoutesBeginWithWords
<1>4. /\ l.verb = m.verb /\ Size(l) = Size(m) /\ Len(p) = Size(m)
      /\ DOMAIN l.path = 1..Size(l)
      /\ \A i \in 1..Size(l) : RO!Fits(l.path[i], p[i]) /\ p[i] \in RO!Values(m.path[i])
  BY <1>1, <1>3, WrittenFits DEF RO!Takes, RO!FitsAll, Size, Layer, Addressed, IsAddress
<1>5. Word(l) = Word(m)
  BY <1>3, <1>4 DEF Word, Params, RO!Fits, RO!Values
<1>6. Alike(l, m) /\ Alike(m, l)
  BY <1>4, <1>5 DEF Alike
<1>7. PICK k \in 1..Size(l) : Told(l) = l.path[k] /\ Told(m) = m.path[k]
  BY <1>3, <1>4 DEF Told
<1>8. RO!Fits(Told(l), p[k]) /\ p[k] \in RO!Values(Told(m))
  BY <1>4, <1>7
<1>9. ASSUME NEW x \in {l, m}, Shadows(x), Told(x) \in Params PROVE Told(x) = ":name"
  BY <1>2, <1>9, MetricsAre, BoardsAre DEF Shadows, Params
<1>10. CASE ~Shadows(l) /\ Told(l) \in Params
  BY <1>2, <1>6, <1>10, AloneOfItsKind
<1>11. CASE ~Shadows(m) /\ Told(m) \in Params
  BY <1>2, <1>6, <1>11, AloneOfItsKind
<1>12. CASE Told(l) = Told(m)
  BY <1>2, <1>6, <1>12, ToldApart
<1>13. CASE Told(l) \notin Params /\ Told(m) \notin Params
  <2>1. Told(l) = Told(m)
    BY <1>8, <1>13 DEF RO!Fits, RO!Values, Params
  <2>. QED BY <1>12, <2>1
<1>14. CASE Shadows(l) /\ Told(l) = ":name" /\ Told(m) # ":name"
  BY <1>2, <1>6, <1>14 DEF Rival
<1>15. CASE Told(l) \notin Params /\ Told(m) = ":name" /\ Shadows(m)
  <2>1. p[k] = Told(l)
    BY <1>8, <1>15 DEF RO!Fits, Params
  <2>2. Size(l) = 2 /\ <<Word(l), Told(l)>> \in RO!Taken
    BY <1>2, <1>6, <1>15, MetricsAre, BoardsAre DEF Alike, Shadows, Params, RO!Taken
  <2>3. Told(m) = m.path[2] /\ Told(l) = l.path[2] /\ l.verb = "GET"
    BY <1>4, <1>15, <2>2 DEF Told, Shadows
  <2>4. p[1] = Word(l) /\ p[2] = Told(l)
    BY <1>3, <1>4, <1>5, <1>15, <2>2, <2>3 DEF RO!Fits, Word, Params, RO!Values
  <2>5. PICK S : p \in [DOMAIN m.path -> S]
    BY DEF RO!Written
  <2>6. p \in [1..2 -> S]
    BY <1>1, <1>4, <2>2, <2>5, WrittenFits DEF IsAddress
  <2>7. p = <<Word(l), Told(l)>>
    BY <2>4, <2>6
  <2>. QED BY <1>15, <2>2, <2>3, <2>4, <2>7 DEF Params
<1>. QED BY <1>6, <1>9, <1>10, <1>11, <1>12, <1>13, <1>14, <1>15 DEF Alike, Shadows, Params

(* What auth.ts has a rule for and no route answers, no route fits.         *)
LEMMA NoRouteFits ==
  ASSUME NEW l \in RO!RouteTable
  PROVE  ~RO!Takes(l, RO!NoRoute)
<1>. SUFFICES ASSUME RO!Takes(l, RO!NoRoute) PROVE FALSE
  OBVIOUS
<1>1. l \in Layer /\ l.verb # "use"
  BY StackIsInOrder DEF RO!RouteTable
<1>2. Listed(l)
  BY <1>1, RoutesAreListed
<1>3. DOMAIN l.path = 1..Len(l.path)
  BY <1>1 DEF Layer, Addressed, IsAddress
<1>4. l.verb = "POST" /\ Size(l) = 3 /\ RO!Fits(l.path[1], "dashboards") /\ RO!Fits(l.path[3], "widgets")
  BY <1>1, <1>3 DEF RO!Takes, RO!FitsAll, RO!NoRoute, Size
<1>5. Word(l) = "dashboards"
  BY <1>2, <1>4, RoutesBeginWithWords DEF RO!Fits, Word, Params
<1>6. Told(l) = "rename"
  BY <1>2, <1>4, <1>5, NoRouteIsNone
<1>. QED BY <1>4, <1>6 DEF Told, RO!Fits

(* Every address fits the guards, one of the console its second lock, and   *)
(* one with a number the check of that.                                     *)
LEMMA GuardsTakeAll ==
  ASSUME IsAddress(request.path)
  PROVE  \A i \in 4..6 : RO!Stack[i].verb = "use" /\ RO!Takes(RO!Stack[i], request)
<1>1. \A k \in 1..3 : RO!Guards[k].verb = "use" /\ RO!Guards[k].path = <<>>
  BY DEF RO!Guards, RO!Use
<1>2. \A i \in 4..6 : RO!Stack[i] = RO!Guards[i - 3]
  BY StackIsInOrder
<1>3. \A i \in 4..6 : RO!Stack[i].verb = "use" /\ RO!Stack[i].path = <<>>
  BY <1>1, <1>2
<1>. QED BY <1>3 DEF RO!Takes, RO!FitsAll, IsAddress

LEMMA GuardsAre ==
  RO!Stack[4].guard = "authenticate" /\ RO!Stack[5].guard = "spaceScope" /\ RO!Stack[6].guard = "authorizeRoute"
<1>1. \A i \in 4..6 : RO!Stack[i] = RO!Guards[i - 3]
  BY StackIsInOrder
<1>2. RO!Guards[1].guard = "authenticate" /\ RO!Guards[2].guard = "spaceScope" /\ RO!Guards[3].guard = "authorizeRoute"
  BY DEF RO!Guards, RO!Use
<1>3. RO!Stack[4] = RO!Guards[1] /\ RO!Stack[5] = RO!Guards[2] /\ RO!Stack[6] = RO!Guards[3]
  BY <1>1
<1>. QED BY <1>2, <1>3

LEMMA ConsoleHasALock ==
  /\ RO!Stack[7].path[1] = "auth" /\ RO!Stack[7].verb # "use" /\ Len(RO!Stack[7].path) > 0
  /\ RO!Stack[8] = RO!Use(<<"admin">>, "admin")
<1>1. Len(RO!Behind) >= 2 /\ RO!Behind[1] = RO!Console[1] /\ RO!Behind[2] = RO!Console[2]
  BY BehindIsPlain
<1>2. Len(RO!Behind) \in Nat /\ \A i \in 7..(6 + Len(RO!Behind)) : RO!Stack[i] = RO!Behind[i - 6]
  BY BehindIsPlain, StackIsInOrder
<1>3. RO!Stack[7] = RO!Console[1] /\ RO!Stack[8] = RO!Console[2]
  BY <1>1, <1>2
<1>4. /\ RO!Console[1].path[1] = "auth" /\ RO!Console[1].verb # "use" /\ Len(RO!Console[1].path) > 0
      /\ RO!Console[2] = RO!Use(<<"admin">>, "admin")
  BY DEF RO!Console, RO!Get
<1>. QED BY <1>3, <1>4

LEMMA ConsoleLockTakes ==
  ASSUME IsAddress(request.path), Len(request.path) > 0, request.path[1] = "admin"
  PROVE  RO!Stack[8].verb = "use" /\ RO!Stack[8].guard = "admin" /\ RO!Takes(RO!Stack[8], request)
BY ConsoleHasALock DEF RO!Use, RO!Takes, RO!FitsAll, RO!Fits, IsAddress

LEMMA NumbersAreChecked ==
  ASSUME IsAddress(request.path), Len(request.path) > 1, request.path[1] \in {"resources", "syncs", "folders"},
         request.path[2] \in RO!Ids
  PROVE  \E i \in 1..(9 + Len(RO!Behind)) :
             i \in DOMAIN RO!Stack /\ RO!Stack[i].verb = "use" /\ RO!Stack[i].guard = "inScope" /\ RO!Takes(RO!Stack[i], request)
<1>. DEFINE n == Len(RO!Behind)
<1>1. PICK k \in 1..3 : RO!ScopedIds[k] = RO!Use(<<request.path[1], ":id">>, "inScope")
  BY DEF RO!ScopedIds
<1>0. n \in Nat
  BY BehindIsPlain
<1>2. /\ RO!Stack \in Seq(Layer) /\ Len(RO!Stack) >= 9 + n
      /\ \A i \in (7 + n)..(9 + n) : RO!Stack[i] = RO!ScopedIds[i - (6 + n)]
  BY StackIsInOrder
<1>. HIDE DEF n
<1>3. RO!Stack[6 + n + k] = RO!ScopedIds[k] /\ 6 + n + k \in 1..(9 + n) /\ 6 + n + k \in DOMAIN RO!Stack
  BY <1>0, <1>2
<1>4. PICK l : l = RO!Use(<<request.path[1], ":id">>, "inScope")
  OBVIOUS
<1>5. l.verb = "use" /\ l.guard = "inScope" /\ l.path = <<request.path[1], ":id">>
  BY <1>4 DEF RO!Use
<1>6. RO!Takes(l, request)
  BY <1>5 DEF RO!Takes, RO!FitsAll, RO!Fits, IsAddress
<1>. QED BY <1>1, <1>3, <1>4, <1>5, <1>6 DEF n

(* What is not public is mounted behind the guards: behind all three, and   *)
(* what such an address may come to behind the other two as well.           *)
LEMMA HandlersAreBehind ==
  ASSUME IsAddress(request.path), NEW j \in DOMAIN RO!Stack, RO!Stack[j].verb # "use", RO!Takes(RO!Stack[j], request),
         RO!Stack[j].path \notin {RO!Public[i].path : i \in DOMAIN RO!Public}
  PROVE  /\ j > 6
         /\ request.path[1] = "admin" => j > 8
         /\ request.path[1] \in {"resources", "syncs", "folders"} => j > 9 + Len(RO!Behind)
<1>. DEFINE n == Len(RO!Behind)
<1>1. /\ n \in Nat /\ n >= 2 /\ RO!Stack \in Seq(Layer) /\ RO!Behind \in Seq(PlainLayer)
      /\ \A i \in 1..3 : RO!Stack[i] = RO!Public[i]
      /\ \A i \in 7..(6 + n) : RO!Stack[i] = RO!Behind[i - 6]
      /\ \A i \in (7 + n)..(9 + n) : RO!Stack[i] = RO!ScopedIds[i - (6 + n)]
  BY BehindIsPlain, StackIsInOrder
<1>2. j \in Nat \ {0}
  BY <1>1
<1>. HIDE DEF n
<1>3. j \notin 1..3
  <2>1. DOMAIN RO!Public = 1..3
    BY DEF RO!Public
  <2>. QED BY <1>1, <2>1
<1>4. j \notin 4..6
  BY GuardsTakeAll
<1>5. j \notin (7 + n)..(9 + n)
  <2>1. \A k \in 1..3 : RO!ScopedIds[k].verb = "use"
    BY DEF RO!ScopedIds, RO!Use
  <2>. QED BY <1>1, <1>2, <2>1
<1>6. CASE j \in 7..(6 + n)
  <2>1. Plain(RO!Stack[j])
    <3>1. j - 6 \in DOMAIN RO!Behind
      BY <1>1, <1>2, <1>6 DEF n
    <3>. QED BY <1>1, <1>6, <3>1 DEF PlainLayer
  <2>2. /\ RO!Stack[j].path[1] \notin {"resources", "syncs", "folders", ":name", ":id"}
        /\ Len(RO!Stack[j].path) > 0 /\ IsAddress(RO!Stack[j].path)
    BY <2>1 DEF Plain, Addressed
  <2>3. RO!Fits(RO!Stack[j].path[1], request.path[1])
    BY <2>2 DEF RO!Takes, RO!FitsAll, IsAddress
  <2>4. request.path[1] = RO!Stack[j].path[1]
    BY <2>2, <2>3 DEF RO!Fits
  <2>5. request.path[1] = "admin" => j # 7 /\ j # 8
    <3>1. RO!Stack[8].verb = "use"
      BY ConsoleHasALock DEF RO!Use
    <3>2. j = 7 => request.path[1] = "auth"
      BY <2>4, ConsoleHasALock
    <3>. QED BY <3>1, <3>2
  <2>. QED BY <1>2, <1>6, <2>2, <2>4, <2>5
<1>. QED BY <1>1, <1>2, <1>3, <1>4, <1>5, <1>6 DEF n

(* Inductive: what was passed, what did not fit, and who answers; and every *)
(* address was written for a route, but one.                                *)
DoorHolds == /\ at \in Nat \ {0} /\ IsAddress(request.path) /\ Len(request.path) > 0
             /\ RO!WasWritten(request)
             /\ RO!GuardsWerePassed /\ RO!RoutesDidNotFit /\ RO!AnswersHere

LEMMA DoorInit == RO!Init => DoorHolds
<1>. SUFFICES ASSUME RO!Init PROVE DoorHolds
  OBVIOUS
<1>1. IsAddress(request.path) /\ Len(request.path) > 0
  <2>1. CASE request = RO!NoRoute
    BY <2>1 DEF RO!NoRoute, IsAddress
  <2>2. CASE request # RO!NoRoute
    <3>1. PICK j \in DOMAIN RO!Stack : /\ RO!Stack[j].verb # "use"
                                      /\ \E p \in RO!Written(RO!Stack[j]) : request.path = p
      BY <2>2 DEF RO!Init, RO!RouteTable
    <3>2. IsAddress(RO!Stack[j].path) /\ Len(RO!Stack[j].path) > 0
      <4>1. RO!Stack[j] \in Layer
        BY StackIsInOrder
      <4>. QED BY <3>1, <4>1 DEF Layer, Addressed
    <3>3. PICK S : request.path \in [DOMAIN RO!Stack[j].path -> S]
      BY <3>1 DEF RO!Written
    <3>4. PICK k \in Nat : k = Len(RO!Stack[j].path) /\ DOMAIN RO!Stack[j].path = 1..k
      BY <3>2 DEF IsAddress
    <3>5. request.path \in Seq(S) /\ Len(request.path) = k
      BY <3>3, <3>4
    <3>. QED BY <3>2, <3>4, <3>5 DEF IsAddress
  <2>. QED BY <2>1, <2>2
<1>2. at = 1 /\ reply.how = "none"
  BY DEF RO!Init, RO!Unanswered
<1>3. RO!GuardsWerePassed
  <2>1. \A i \in DOMAIN RO!Stack : i \in Nat /\ i >= 1
    BY StackIsInOrder
  <2>. QED BY <1>2, <2>1 DEF RO!GuardsWerePassed
<1>4. RO!AnswersHere
  BY <1>2 DEF RO!AnswersHere, RO!Refused
<1>5. RO!RoutesDidNotFit
  <2>1. \A i \in DOMAIN RO!Stack : i \in Nat /\ i >= 1
    BY StackIsInOrder
  <2>. QED BY <1>2, <2>1 DEF RO!RoutesDidNotFit
<1>6. RO!WasWritten(request)
  BY DEF RO!Init, RO!WasWritten
<1>. QED BY <1>1, <1>2, <1>3, <1>4, <1>5, <1>6 DEF DoorHolds

LEMMA DoorStep ==
  ASSUME DoorHolds, [RO!Next]_address
  PROVE  DoorHolds'
<1>0. DOMAIN RO!Stack = 1..Len(RO!Stack) /\ Len(RO!Stack) \in Nat
  BY StackIsInOrder
<1>1. CASE RO!StepOver
  <2>1. at' = at + 1 /\ UNCHANGED <<request, passed, reply>> /\ reply = RO!Unanswered /\ ~RO!Takes(RO!Stack[at], request)
    BY <1>1 DEF RO!StepOver, RO!Open
  <2>2. RO!GuardsWerePassed'
    BY <1>0, <2>1 DEF DoorHolds, RO!GuardsWerePassed
  <2>3. RO!AnswersHere'
    BY <2>1 DEF RO!AnswersHere, RO!Refused, RO!Unanswered
  <2>4. RO!RoutesDidNotFit'
    BY <1>0, <2>1 DEF DoorHolds, RO!RoutesDidNotFit
  <2>. QED BY <2>1, <2>2, <2>3, <2>4 DEF DoorHolds, RO!WasWritten
<1>2. CASE RO!Guard
  <2>1. CASE at' = at + 1 /\ passed' = passed \cup {RO!Stack[at].guard} /\ UNCHANGED <<request, reply>>
    <3>1. reply = RO!Unanswered
      BY <1>2 DEF RO!Guard, RO!Open
    <3>2. RO!GuardsWerePassed'
      BY <1>0, <2>1 DEF DoorHolds, RO!GuardsWerePassed
    <3>3. RO!AnswersHere'
      BY <2>1, <3>1 DEF RO!AnswersHere, RO!Refused, RO!Unanswered
    <3>4. RO!RoutesDidNotFit'
      BY <1>0, <1>2, <2>1 DEF RO!Guard, DoorHolds, RO!RoutesDidNotFit
    <3>. QED BY <2>1, <3>2, <3>3, <3>4 DEF DoorHolds, RO!WasWritten
  <2>2. CASE RO!Answer(<<RO!Stack[at].guard>>, "refused")
    <3>1. RO!AnswersHere'
      BY <2>2 DEF RO!Answer, RO!AnswersHere, RO!Refused
    <3>. QED BY <2>2, <3>1 DEF RO!Answer, DoorHolds, RO!WasWritten, RO!GuardsWerePassed, RO!RoutesDidNotFit
  <2>. QED BY <1>2, <2>1, <2>2 DEF RO!Guard
<1>3. CASE RO!Handle
  <2>1. PICK how : reply' = [by |-> RO!Stack[at].path, how |-> how] /\ UNCHANGED <<request, at, passed>>
    BY <1>3 DEF RO!Handle, RO!Answer
  <2>2. at <= Len(RO!Stack) /\ RO!Stack[at].verb # "use" /\ RO!Takes(RO!Stack[at], request)
    BY <1>3 DEF RO!Handle, RO!Open
  <2>3. RO!AnswersHere'
    BY <2>1, <2>2 DEF RO!AnswersHere
  <2>. QED BY <2>1, <2>3 DEF DoorHolds, RO!WasWritten, RO!GuardsWerePassed, RO!RoutesDidNotFit
<1>4. CASE RO!NoSuchEndpoint
  <2>1. RO!AnswersHere'
    BY <1>4 DEF RO!NoSuchEndpoint, RO!Answer, RO!AnswersHere
  <2>. QED BY <1>4, <2>1 DEF RO!NoSuchEndpoint, RO!Answer, DoorHolds, RO!WasWritten, RO!GuardsWerePassed, RO!RoutesDidNotFit
<1>5. CASE UNCHANGED address
  BY <1>5 DEF address, DoorHolds, RO!WasWritten, RO!GuardsWerePassed, RO!RoutesDidNotFit, RO!AnswersHere, RO!Refused
<1>. QED BY <1>1, <1>2, <1>3, <1>4, <1>5 DEF RO!Next

LEMMA DoorShows == DoorHolds => RO!GuardsComeFirst
<1>. SUFFICES ASSUME DoorHolds, ~RO!Refused, reply.by \notin {RO!Public[i].path : i \in DOMAIN RO!Public}
              PROVE  /\ {"authenticate", "spaceScope", "authorizeRoute"} \subseteq passed
                     /\ request.path[1] = "admin" => "admin" \in passed
                     /\ request.path[1] \in {"resources", "syncs", "folders"} /\ Len(request.path) > 1 /\ request.path[2] \in RO!Ids
                            => "inScope" \in passed
  BY DEF RO!GuardsComeFirst
<1>1. /\ DOMAIN RO!Stack = 1..Len(RO!Stack) /\ Len(RO!Stack) \in Nat /\ Len(RO!Behind) \in Nat
      /\ Len(RO!Stack) >= 9 + Len(RO!Behind)
  BY StackIsInOrder, BehindIsPlain
<1>2. IsAddress(request.path) /\ Len(request.path) > 0 /\ at \in Nat
  BY DEF DoorHolds
<1>3. /\ at > 6
      /\ request.path[1] = "admin" => at > 8
      /\ request.path[1] \in {"resources", "syncs", "folders"} => at > 9 + Len(RO!Behind)
  <2>1. CASE at > Len(RO!Stack)
    BY <1>1, <1>2, <2>1
  <2>2. CASE at <= Len(RO!Stack)
    <3>1. at \in DOMAIN RO!Stack
      BY <1>1, <2>2 DEF DoorHolds
    <3>2. RO!Stack[at].verb # "use" /\ RO!Takes(RO!Stack[at], request) /\ reply.by = RO!Stack[at].path
      BY <1>1, <1>2, <2>2 DEF DoorHolds, RO!AnswersHere
    <3>. QED BY <1>2, <3>1, <3>2, HandlersAreBehind
  <2>. QED BY <1>1, <1>2, <2>1, <2>2
<1>4. \A i \in DOMAIN RO!Stack : i < at /\ RO!Stack[i].verb = "use" /\ RO!Takes(RO!Stack[i], request) => RO!Stack[i].guard \in passed
  BY DEF DoorHolds, RO!GuardsWerePassed
<1>5. {"authenticate", "spaceScope", "authorizeRoute"} \subseteq passed
  <2>1. \A i \in 4..6 : i \in DOMAIN RO!Stack /\ i < at
    BY <1>1, <1>2, <1>3
  <2>2. \A i \in 4..6 : RO!Stack[i].guard \in passed
    BY <1>2, <1>4, <2>1, GuardsTakeAll
  <2>. QED BY <2>2, GuardsAre
<1>6. ASSUME request.path[1] = "admin" PROVE "admin" \in passed
  <2>1. 8 \in DOMAIN RO!Stack /\ 8 < at
    BY <1>1, <1>2, <1>3, <1>6
  <2>. QED BY <1>2, <1>4, <1>6, <2>1, ConsoleLockTakes
<1>7. ASSUME request.path[1] \in {"resources", "syncs", "folders"}, Len(request.path) > 1, request.path[2] \in RO!Ids
      PROVE  "inScope" \in passed
  <2>1. PICK i \in 1..(9 + Len(RO!Behind)) :
             i \in DOMAIN RO!Stack /\ RO!Stack[i].verb = "use" /\ RO!Stack[i].guard = "inScope" /\ RO!Takes(RO!Stack[i], request)
    BY <1>2, <1>7, NumbersAreChecked
  <2>2. i < at
    BY <1>1, <1>2, <1>3, <1>7
  <2>. QED BY <1>4, <2>1, <2>2
<1>. QED BY <1>5, <1>6, <1>7

LEMMA DoorReaches == DoorHolds => RO!ReachesItsRoute
<1>. SUFFICES ASSUME DoorHolds, ~RO!Refused, request.path \notin RO!Taken \/ request.path = request.meant
              PROVE  reply.by = request.meant
  BY DEF RO!ReachesItsRoute
<1>1. DOMAIN RO!Stack = 1..Len(RO!Stack) /\ Len(RO!Stack) \in Nat /\ at \in Nat \ {0}
  BY StackIsInOrder DEF DoorHolds
<1>2. \A i \in DOMAIN RO!Stack : RO!Stack[i].verb # "use" => RO!Stack[i] \in RO!RouteTable /\ RO!Stack[i] \in Layer
  BY StackIsInOrder DEF RO!RouteTable
<1>3. \A i \in DOMAIN RO!Stack : i < at /\ RO!Stack[i].verb # "use" => ~RO!Takes(RO!Stack[i], request)
  BY DEF DoorHolds, RO!RoutesDidNotFit
<1>4. \/ at > Len(RO!Stack) /\ reply.by = <<>>
      \/ /\ at \in DOMAIN RO!Stack /\ RO!Stack[at].verb # "use"
         /\ RO!Takes(RO!Stack[at], request) /\ reply.by = RO!Stack[at].path
  BY <1>1 DEF DoorHolds, RO!AnswersHere
<1>5. CASE request = RO!NoRoute
  <2>1. at > Len(RO!Stack) /\ reply.by = <<>>
    BY <1>2, <1>4, <1>5, NoRouteFits
  <2>. QED BY <1>5, <2>1 DEF RO!NoRoute
<1>6. CASE request # RO!NoRoute
  <2>1. PICK j \in DOMAIN RO!Stack : RO!Stack[j].verb # "use" /\ \E p \in RO!Written(RO!Stack[j]) :
             request = [verb |-> RO!Stack[j].verb, path |-> p, meant |-> RO!Stack[j].path]
    BY <1>6 DEF DoorHolds, RO!WasWritten, RO!RouteTable
  <2>2. /\ request.path \in RO!Written(RO!Stack[j]) /\ request.verb = RO!Stack[j].verb
        /\ request.meant = RO!Stack[j].path /\ RO!Stack[j] \in RO!RouteTable /\ RO!Stack[j] \in Layer
    BY <1>2, <2>1
  <2>3. RO!Takes(RO!Stack[j], request)
    BY <2>1, <2>2, WrittenFits
  <2>4. j >= at
    BY <1>1, <1>3, <2>1, <2>3
  <2>5. /\ at \in DOMAIN RO!Stack /\ RO!Stack[at].verb # "use"
        /\ RO!Takes(RO!Stack[at], request) /\ reply.by = RO!Stack[at].path
    BY <1>1, <1>4, <2>4
  <2>6. RO!Stack[at] = RO!Stack[j] \/ Rival(RO!Stack[j], RO!Stack[at])
    BY <1>2, <2>2, <2>5, OneRouteFits
  <2>7. ASSUME Rival(RO!Stack[j], RO!Stack[at]) PROVE FALSE
    <3>1. PICK c \in DOMAIN RO!Stack : c < at /\ RO!Stack[c] = RO!Stack[j]
      BY <2>5, <2>7, RivalsComeFirst DEF RivalsFirst
    <3>. QED BY <1>3, <2>1, <2>3, <3>1
  <2>. QED BY <2>2, <2>5, <2>6, <2>7
<1>. QED BY <1>5, <1>6

(* Every address comes to the route it was written for, whatever names      *)
(* stand in it, but for the three names that are taken. And nothing but the *)
(* three public routes is answered, and no address refused as unknown,      *)
(* before the caller is known, the space is, and the route is allowed; the  *)
(* console's lock and the check of a number come first as well.             *)
THEOREM AddressesHold == AnswersSpec => []AddressesArrive
<1>1. Asked => DoorHolds
  BY DoorInit DEF Asked
<1>2. DoorHolds /\ [Approving \/ Acting \/ Showing \/ Entering]_answers => DoorHolds'
  <2>. SUFFICES ASSUME DoorHolds, [Approving \/ Acting \/ Showing \/ Entering]_answers PROVE DoorHolds'
    OBVIOUS
  <2>1. [RO!Next]_address
    BY DEF Approving, Acting, Showing, Entering, answers
  <2>. QED BY <2>1, DoorStep
<1>3. DoorHolds => AddressesArrive
  BY DoorShows, DoorReaches DEF AddressesArrive
<1>. QED BY <1>1, <1>2, <1>3, PTL DEF AnswersSpec
=============================================================================
