-------------------------- MODULE Accounts_proofs --------------------------
(* What Accounts promises, for every set of names, clients, instances and   *)
(* routes and every limit.  The actions are reduced to thirteen effects of  *)
(* one request each, over which the parts of IInv are kept one by one.      *)
EXTENDS Accounts, FiniteSetTheorems, SequenceTheorems, TLAPS

USE NoOneIsNoRow, FoundersAssumption, RoutesAssumption, ClientsAssumption, KindsAssumption

(* UidOf gives the row of a name, or 0 where there is none.                 *)
LEMMA UidOfIsAnId ==
  ASSUME NEW n \in Names
  PROVE  /\ UidOf(n) \in 0..MaxUid
         /\ UidOf(n) /= 0 => Exists(UidOf(n)) /\ users[UidOf(n)].name = n
         /\ UidOf(n) = 0 => \A u \in Uids : Exists(u) => users[u].name /= n
<1>1. 0 \notin Uids
  BY DEF Uids
<1>2. CASE \E u \in Uids : Exists(u) /\ users[u].name = n
  <2>1. PICK u \in Uids : Exists(u) /\ users[u].name = n
    BY <1>2
  <2>2. UidOf(n) \in Uids /\ Exists(UidOf(n)) /\ users[UidOf(n)].name = n
    BY <1>2 DEF UidOf
  <2>. QED BY <1>1, <2>2 DEF Uids
<1>3. CASE ~\E u \in Uids : Exists(u) /\ users[u].name = n
  BY <1>3 DEF UidOf
<1>. QED BY <1>2, <1>3

(* An idle client, and a request at each of its steps, is well formed.      *)
LEMMA IdleIsAJob == Idle \in Job
<1>1. (CHOOSE i \in Instances : TRUE) \in Instances /\ (CHOOSE n \in Names : TRUE) \in Names
  OBVIOUS
<1>2. Own \in Int /\ 0 \in 0..MaxUid /\ <<>> \in Seq(Labels)
  BY DEF Own
<1>. QED BY <1>1, <1>2 DEF Idle, Job, Phases, Changes, Standings

(* An instance that keeps no map of spaces.                                 *)
LEMMA NoMapFits == NoMap \in [known: BOOLEAN, owners: Seq(Labels), at: Nat]
<1>1. <<>> \in Seq(Labels)
  OBVIOUS
<1>. QED BY <1>1 DEF NoMap

(* A request with other values in the fields that a step changes: the       *)
(* combinations the steps change.                                           *)
LEMMA JobWith1 ==
  ASSUME NEW j \in Job, NEW p \in Phases
  PROVE  [j EXCEPT !.pc = p] \in Job
BY DEF Job

LEMMA JobWith2 ==
  ASSUME NEW j \in Job, NEW p \in Phases, NEW n \in Names
  PROVE  [j EXCEPT !.pc = p, !.name = n] \in Job
BY DEF Job

LEMMA JobWith3 ==
  ASSUME NEW j \in Job, NEW p \in Phases, NEW u \in 0..MaxUid, NEW r \in Rows \cup {NoOne}
  PROVE  [j EXCEPT !.pc = p, !.uid = u, !.row = r] \in Job
BY DEF Job

LEMMA JobWith4 ==
  ASSUME NEW j \in Job, NEW p \in Phases, NEW k \in BOOLEAN
  PROVE  [j EXCEPT !.pc = p, !.known = k] \in Job
BY DEF Job

LEMMA JobWith5 ==
  ASSUME NEW j \in Job, NEW i \in Instances, NEW n \in Names, NEW p \in Phases
  PROVE  [j EXCEPT !.at = i, !.name = n, !.pc = p] \in Job
BY DEF Job

LEMMA JobWith6 ==
  ASSUME NEW j \in Job, NEW p \in Phases, NEW r \in Rows \cup {NoOne}
  PROVE  [j EXCEPT !.pc = p, !.row = r] \in Job
BY DEF Job

LEMMA JobWith7 ==
  ASSUME NEW j \in Job, NEW r \in Rows \cup {NoOne}, NEW p \in Phases
  PROVE  [j EXCEPT !.seen = r, !.pc = p] \in Job
BY DEF Job

LEMMA JobWith8 ==
  ASSUME NEW j \in Job, NEW p \in Phases, NEW n \in Names, NEW u \in 0..MaxUid, NEW r \in Rows \cup {NoOne}
  PROVE  [j EXCEPT !.pc = p, !.scope = Own, !.name = n, !.uid = u, !.row = r] \in Job
<1>1. Own \in Int
  BY DEF Own
<1>. QED BY <1>1 DEF Job

LEMMA JobWith9 ==
  ASSUME NEW j \in Job, NEW p \in Phases, NEW o \in Seq(Labels)
  PROVE  [j EXCEPT !.pc = p, !.owners = o] \in Job
BY DEF Job

LEMMA JobWith10 ==
  ASSUME NEW j \in Job, NEW p \in Phases, NEW o \in Seq(Labels), NEW a \in Standings
  PROVE  [j EXCEPT !.pc = p, !.owners = o, !.access = a] \in Job
BY DEF Job

LEMMA JobWith11 ==
  ASSUME NEW j \in Job, NEW p \in Phases, NEW k \in Int, NEW o \in Seq(Labels), NEW a \in Standings
  PROVE  [j EXCEPT !.pc = p, !.scope = k, !.owners = o, !.access = a] \in Job
BY DEF Job

LEMMA JobWith12 ==
  ASSUME NEW j \in Job, NEW p \in Phases, NEW k \in Int
  PROVE  [j EXCEPT !.pc = p, !.scope = k] \in Job
BY DEF Job

(* The owners read from the rows, and those of a map, are labels.            *)
LEMMA OwnersAreLabels ==
  ASSUME TypeOK
  PROVE  /\ Owners \in Seq(Labels) /\ <<>> \in Seq(Labels) /\ Len(Owners) = Len(spaces)
         /\ \A k \in 1..Len(spaces) : Owners[k] = spaces[k].owner
         /\ \A i \in Instances : spaceCache[i].owners \in Seq(Labels)
<1>. DEFINE S == [owner: Labels, by: Uids, late: BOOLEAN]
<1>1. Len(spaces) \in Nat /\ \A k \in 1..Len(spaces) : spaces[k] \in S
  BY LenProperties, ElementOfSeq DEF TypeOK
<1>2. Owners \in [1..Len(spaces) -> Labels]
  BY <1>1 DEF Owners
<1>3. Owners \in Seq(Labels) /\ Len(Owners) = Len(spaces)
  BY <1>1, <1>2
<1>. QED BY <1>1, <1>3 DEF Owners, TypeOK

(* What an administrator's change makes of a row.                            *)
LEMMA WrittenIsARow ==
  ASSUME NEW r \in Rows, NEW h \in {"demote", "promote", "disable", "enable", "reset", "revoke"}, NEW seen
  PROVE  LET w == Written(r, h, seen)
         IN  /\ w \in Rows /\ w.name = r.name
             /\ w.tv > r.tv \/ (w.tv = r.tv /\ w.pw = r.pw)
             /\ h \notin {"demote", "disable"} /\ r.role = "admin" /\ r.active => w.role = "admin" /\ w.active
<1>1. r.tv + 1 \in Nat /\ r.pw + 1 \in Nat /\ r.tv + 1 > r.tv
  BY DEF Rows
<1>2. CASE h = "demote"
  <2>1. Written(r, h, seen) = [r EXCEPT !.role = "viewer"]
    BY <1>2 DEF Written
  <2>. QED BY <1>2, <2>1 DEF Rows, Roles
<1>3. CASE h = "promote"
  <2>1. Written(r, h, seen) = [r EXCEPT !.role = "admin"]
    BY <1>3 DEF Written
  <2>. QED BY <1>3, <2>1 DEF Rows, Roles
<1>4. CASE h = "enable"
  <2>1. Written(r, h, seen) = [r EXCEPT !.active = TRUE]
    BY <1>4 DEF Written
  <2>. QED BY <1>4, <2>1 DEF Rows
<1>5. CASE h = "reset"
  <2>1. Written(r, h, seen) = [r EXCEPT !.pw = r.pw + 1, !.tv = r.tv + 1]
    BY <1>5 DEF Written, Rows
  <2>. QED BY <1>1, <1>5, <2>1 DEF Rows
<1>6. CASE h = "revoke"
  <2>1. Written(r, h, seen) = [r EXCEPT !.tv = r.tv + 1]
    BY <1>6 DEF Written, Rows
  <2>. QED BY <1>1, <1>6, <2>1 DEF Rows
<1>7. CASE h = "disable"
  <2>. DEFINE tv == IF seen.active THEN r.tv + 1 ELSE r.tv
  <2>1. tv \in Nat /\ tv >= r.tv
    BY <1>1 DEF Rows
  <2>2. Written(r, h, seen) = [r EXCEPT !.active = FALSE, !.tv = tv]
    BY <1>7 DEF Written, Rows
  <2>3. tv > r.tv \/ tv = r.tv
    BY <1>1
  <2>. HIDE DEF tv
  <2>4. Written(r, h, seen) \in Rows
    BY <2>1, <2>2 DEF Rows
  <2>5. /\ Written(r, h, seen).name = r.name /\ Written(r, h, seen).tv = tv
        /\ Written(r, h, seen).pw = r.pw
    BY <2>2 DEF Rows
  <2>. QED BY <1>7, <2>3, <2>4, <2>5
<1>. QED BY <1>2, <1>3, <1>4, <1>5, <1>6, <1>7

(* A request that goes on leaves every client's request well formed.        *)
LEMMA GoesOn ==
  ASSUME NEW c \in Clients, NEW j \in Job, job \in [Clients -> Job], Goes(c, j)
  PROVE  job' \in [Clients -> Job]
BY DEF Goes

LEMMA GoesTo ==
  ASSUME NEW c \in Clients, NEW p \in Phases, job \in [Clients -> Job], To(c, p)
  PROVE  job' \in [Clients -> Job]
BY JobWith1, GoesOn DEF To

LEMMA GoesIdle ==
  ASSUME NEW c \in Clients, job \in [Clients -> Job], Ends(c)
  PROVE  job' \in [Clients -> Job]
BY IdleIsAJob, GoesOn DEF Ends

(* A request that consults the map goes on, with its owners or to read them.*)
LEMMA ConsultsIsAJob ==
  ASSUME TypeOK, NEW c \in Clients, NEW p \in Phases, Consults(c, job[c], p)
  PROVE  job' \in [Clients -> Job]
<1>1. job \in [Clients -> Job] /\ job[c] \in Job
  BY DEF TypeOK
<1>2. job[c].at \in Instances
  BY <1>1 DEF Job
<1>3. spaceCache[job[c].at].owners \in Seq(Labels)
  BY <1>2, OwnersAreLabels
<1>4. CASE Mapped(job[c].at)
  BY <1>1, <1>3, <1>4, JobWith9, GoesOn DEF Consults
<1>5. CASE ~Mapped(job[c].at)
  <2>1. "spacesRead" \in Phases
    BY DEF Phases
  <2>. QED BY <1>1, <1>5, <2>1, JobWith1, GoesOn DEF Consults
<1>. QED BY <1>4, <1>5

(* A request that has its caller's workspace goes on, or ends with a token. *)
LEMMA ArrivesTyped ==
  ASSUME TypeOK, NEW c \in Clients, NEW k \in Int, Arrives(c, k), job[c].row \in Rows, job[c].uid \in Uids
  PROVE  job' \in [Clients -> Job] /\ tokens' \subseteq TokenType
<1>. DEFINE j == [job[c] EXCEPT !.pc = "authorize", !.scope = k, !.owners = <<>>, !.access = "owner"]
<1>1. job \in [Clients -> Job] /\ job[c] \in Job
  BY DEF TypeOK
<1>2. j \in Job
  <2>1. "authorize" \in Phases /\ "owner" \in Standings /\ <<>> \in Seq(Labels)
    BY DEF Phases, Standings
  <2>. QED BY <1>1, <2>1, JobWith11
<1>. HIDE DEF j
<1>3. Ends(c) \/ Goes(c, j)
  <2>1. CASE job[c].route = "none"
    BY <2>1, Zenon DEF Arrives
  <2>2. CASE job[c].route /= "none" /\ job[c].change = "create" /\ job[c].access /= "none"
    BY <2>2, Zenon DEF Arrives
  <2>3. CASE job[c].route /= "none" /\ ~(job[c].change = "create" /\ job[c].access /= "none")
    BY <2>3, Zenon DEF Arrives, j
  <2>. QED BY <2>1, <2>2, <2>3
<1>4. SignToken(job[c].uid, job[c].row) \/ UNCHANGED tokens
  <2>1. CASE job[c].route = "none"
    BY <2>1, Zenon DEF Arrives
  <2>2. CASE job[c].route /= "none" /\ job[c].change = "create" /\ job[c].access /= "none"
    BY <2>2, Zenon DEF Arrives
  <2>3. CASE job[c].route /= "none" /\ ~(job[c].change = "create" /\ job[c].access /= "none")
    BY <2>3, Zenon DEF Arrives
  <2>. QED BY <2>1, <2>2, <2>3
<1>5. tokens' \subseteq TokenType
  BY <1>4 DEF SignToken, TypeOK, TokenType, Rows
<1>. QED BY <1>1, <1>2, <1>3, <1>5, GoesOn, GoesIdle

(* Every step keeps every variable's type.                                  *)
LEMMA TypeStep ==
  ASSUME TypeOK, JobsHold, [Next]_vars
  PROVE  TypeOK'
<1>1. job \in [Clients -> Job] /\ users \in [Uids -> Rows \cup {NoOne}] /\ open \in BOOLEAN
  BY DEF TypeOK
<1>2. /\ cache \in [Instances -> [Uids -> Cached]] /\ openCache \in [Instances -> [known: BOOLEAN, open: BOOLEAN, at: Nat]]
      /\ spaceCache \in [Instances -> [known: BOOLEAN, owners: Seq(Labels), at: Nat]]
  BY DEF TypeOK
<1>3. ASSUME NEW c \in Clients, NEW n \in Names, AskLogin(c, n) PROVE TypeOK'
  <2>1. job' \in [Clients -> Job]
    <3>1. [Idle EXCEPT !.pc = "lookup", !.name = n] \in Job
      BY IdleIsAJob, JobWith2 DEF Phases
    <3>. QED BY <1>3, <1>1, <3>1, GoesOn DEF AskLogin, Asks
  <2>. QED BY <1>3, <2>1 DEF TypeOK, AskLogin, Asks, stored
<1>4. ASSUME NEW c \in Clients, LoginReads(c) PROVE TypeOK'
  <2>1. job' \in [Clients -> Job]
    <3>. DEFINE u == UidOf(job[c].name)
               r == IF u = 0 THEN NoOne ELSE users[u]
    <3>1. job[c] \in Job /\ job[c].name \in Names
      BY <1>1 DEF Job
    <3>2. u \in 0..MaxUid /\ r \in Rows \cup {NoOne}
      BY <1>1, <3>1, UidOfIsAnId DEF Uids
    <3>. HIDE DEF u, r
    <3>3. [job[c] EXCEPT !.pc = "verify", !.uid = u, !.row = r] \in Job
      BY <3>1, <3>2, JobWith3 DEF Phases
    <3>. QED BY <1>4, <1>1, <3>3, GoesOn DEF LoginReads, u, r
  <2>. QED BY <1>4, <2>1 DEF TypeOK, LoginReads, stored
<1>5. ASSUME NEW c \in Clients, NEW right \in BOOLEAN, LoginAnswers(c, right) PROVE TypeOK'
  <2>1. job' \in [Clients -> Job]
    BY <1>5, <1>1, GoesIdle DEF LoginAnswers
  <2>2. tokens' \subseteq TokenType
    <3>1. job[c] \in Job /\ (job[c].row /= NoOne => job[c].row \in Rows /\ job[c].uid \in Uids)
      BY <1>5, <1>1 DEF LoginAnswers, JobsHold, Job
    <3>. QED BY <1>5, <3>1 DEF LoginAnswers, SignToken, TypeOK, TokenType, Rows
  <2>3. failures' \in [Names -> Nat]
    <3>1. failures \in [Names -> Nat] /\ (failures' = failures \/ failures' = [failures EXCEPT ![job[c].name] = @ + 1])
      BY <1>5 DEF LoginAnswers, TypeOK
    <3>2. job[c].name \in Names
      BY <1>1 DEF Job
    <3>. QED BY <3>1, <3>2
  <2>. QED BY <1>5, <2>1, <2>2, <2>3 DEF TypeOK, LoginAnswers, stored
<1>6. ASSUME NEW n \in Names, WindowPasses(n) PROVE TypeOK'
  BY <1>6 DEF TypeOK, WindowPasses
<1>7. ASSUME HourPasses \/ TimePasses PROVE TypeOK'
  BY <1>7 DEF TypeOK, HourPasses, TimePasses, stored
<1>8. ASSUME NEW c \in Clients, NEW i \in Instances, NEW n \in Names, AskRegister(c, i, n)
      PROVE  TypeOK'
  <2>1. job' \in [Clients -> Job]
    <3>. DEFINE p == IF openCache[i].known /\ Fresh(openCache[i].at) THEN IF openCache[i].open THEN "signups" ELSE "idle"
                    ELSE "policy"
    <3>1. p \in Phases
      BY DEF Phases
    <3>. HIDE DEF p
    <3>2. [Idle EXCEPT !.at = i, !.name = n, !.pc = p] \in Job
      BY <3>1, IdleIsAJob, JobWith5
    <3>. QED BY <1>8, <1>1, <3>2, GoesOn DEF AskRegister, Asks, p
  <2>. QED BY <1>8, <2>1 DEF TypeOK, AskRegister, Asks, stored
<1>9. ASSUME NEW c \in Clients, ReadPolicy(c) \/ FillPolicy(c) \/ CountSignups(c) PROVE TypeOK'
  <2>1. job' \in [Clients -> Job]
    <3>1. [job[c] EXCEPT !.pc = "policyFill", !.known = open] \in Job
      BY <1>1, JobWith4 DEF Phases
    <3>2. CASE ReadPolicy(c)
      BY <1>1, <3>1, <3>2, GoesOn DEF ReadPolicy
    <3>3. CASE FillPolicy(c) \/ CountSignups(c)
      <4>1. PICK p \in Phases : To(c, p)
        BY <3>3 DEF FillPolicy, CountSignups, Phases
      <4>. QED BY <1>1, <4>1, GoesTo
    <3>. QED BY <1>9, <3>2, <3>3
  <2>2. openCache' \in [Instances -> [known: BOOLEAN, open: BOOLEAN, at: Nat]]
    <3>1. job[c].known \in BOOLEAN /\ now \in Nat
      BY <1>1 DEF Job, TypeOK
    <3>2. CASE FillPolicy(c)
      BY <1>2, <3>1, <3>2 DEF FillPolicy
    <3>. QED BY <1>9, <1>2, <3>2 DEF ReadPolicy, CountSignups
  <2>. QED BY <1>9, <2>1, <2>2 DEF TypeOK, ReadPolicy, FillPolicy, CountSignups, stored
<1>10. ASSUME NEW c \in Clients, RegisterInserts(c) PROVE TypeOK'
  <2>1. job' \in [Clients -> Job]
    <3>. DEFINE r == NewRow(job[c].name, "analyst", "self")
    <3>1. job[c] \in Job /\ job[c].name \in Names
      BY <1>1 DEF Job
    <3>2. r \in Rows /\ (nextUid \in Uids => nextUid \in 0..MaxUid)
      BY <3>1 DEF NewRow, Rows, Roles, Uids
    <3>. HIDE DEF r
    <3>3. nextUid \in Uids => [job[c] EXCEPT !.pc = "record", !.uid = nextUid, !.row = r] \in Job
      BY <3>1, <3>2, JobWith3 DEF Phases
    <3>. QED BY <1>10, <1>1, <3>3, GoesOn, GoesIdle DEF RegisterInserts, r
  <2>2. users' \in [Uids -> Rows \cup {NoOne}] /\ nextUid' \in Nat
    <3>1. job[c].name \in Names
      BY <1>1 DEF Job
    <3>2. NewRow(job[c].name, "analyst", "self") \in Rows
      BY <3>1 DEF NewRow, Rows, Roles
    <3>3. nextUid \in Nat
      BY DEF TypeOK
    <3>. QED BY <1>10, <1>1, <3>2, <3>3 DEF RegisterInserts
  <2>. QED BY <1>10, <2>1, <2>2 DEF TypeOK, RegisterInserts
<1>11. ASSUME NEW c \in Clients, RecordSignup(c) PROVE TypeOK'
  <2>1. job' \in [Clients -> Job]
    <3>1. To(c, "open") /\ "open" \in Phases
      BY <1>11 DEF RecordSignup, Phases
    <3>. QED BY <1>1, <3>1, GoesTo
  <2>. QED BY <1>11, <2>1 DEF TypeOK, RecordSignup
<1>12. ASSUME NEW c \in Clients, NEW i \in Instances, NEW t \in tokens, NEW route \in Routes,
             NEW s \in ScopesOf(route), NEW h \in ChangesOf(route), NEW u \in TargetsOf(h),
             AskRoute(c, i, t, route, s, h, u)
      PROVE  TypeOK'
  <2>1. job' \in [Clients -> Job]
    <3>. DEFINE hit == cache[i][t.uid]
               cached == hit.row /= NoOne /\ Fresh(hit.at)
               r == IF cached THEN hit.row ELSE NoOne
               p == IF ~cached THEN "read" ELSE IF hit.row.active /\ hit.row.tv = t.tv THEN "scope" ELSE "idle"
    <3>1. t \in TokenType /\ t.uid \in 0..MaxUid
      BY DEF TypeOK, TokenType, Uids
    <3>2. p \in Phases /\ cache[i][t.uid] \in Cached
      BY <1>2, <3>1 DEF TokenType, Phases
    <3>5. r \in Rows \cup {NoOne}
      BY <3>2 DEF Cached
    <3>3. s \in Int /\ h \in Changes /\ u \in 0..MaxUid
      <4>1. Len(spaces) \in Nat
        BY DEF TypeOK
      <4>2. s \in Int
        BY <4>1 DEF ScopesOf, Own, Shared
      <4>. QED BY <4>2 DEF ChangesOf, TargetsOf, Changes, Uids
    <3>. HIDE DEF r, p
    <3>4. [Idle EXCEPT !.at = i, !.uid = t.uid, !.name = t.name, !.tv = t.tv, !.route = route, !.scope = s, !.change = h,
                       !.target = u, !.row = r, !.pc = p] \in Job
      BY <3>1, <3>2, <3>3, <3>5, IdleIsAJob DEF Job, TokenType
    <3>. QED BY <1>12, <1>1, <3>4, GoesOn DEF AskRoute, Asks, r, p
  <2>. QED BY <1>12, <2>1 DEF TypeOK, AskRoute, Asks, stored
<1>13. ASSUME NEW c \in Clients, ReadUser(c) PROVE TypeOK'
  <2>1. job' \in [Clients -> Job]
    <3>1. job[c] \in Job /\ users[job[c].uid] \in Rows \cup {NoOne}
      BY <1>13, <1>1 DEF ReadUser, JobsHold, Known, Resolving
    <3>2. [job[c] EXCEPT !.pc = "fill", !.row = users[job[c].uid]] \in Job
      BY <3>1, JobWith6 DEF Phases
    <3>. QED BY <1>13, <1>1, <3>2, GoesOn DEF ReadUser
  <2>. QED BY <1>13, <2>1 DEF TypeOK, ReadUser, stored
<1>14. ASSUME NEW c \in Clients, FillCache(c) PROVE TypeOK'
  <2>1. job' \in [Clients -> Job]
    <3>1. {"scope"} \subseteq Phases
      BY DEF Phases
    <3>2. To(c, "scope") \/ Ends(c)
      BY <1>14 DEF FillCache
    <3>. QED BY <1>1, <3>1, <3>2, GoesTo, GoesIdle
  <2>2. cache' \in [Instances -> [Uids -> Cached]]
    <3>1. job[c].row \in Rows \cup {NoOne} /\ now \in Nat
      BY <1>1 DEF Job, TypeOK
    <3>. QED BY <1>14, <1>2, <3>1 DEF FillCache, Nothing, Cached
  <2>. QED BY <1>14, <2>1, <2>2 DEF TypeOK, FillCache, stored
<1>15. ASSUME NEW c \in Clients, Scope(c) PROVE TypeOK'
  <2>1. {"open", "enter"} \subseteq Phases
    BY DEF Phases
  <2>2. To(c, "open") \/ Consults(c, job[c], "enter")
    BY <1>15 DEF Scope
  <2>3. job' \in [Clients -> Job]
    BY <1>1, <2>1, <2>2, GoesTo, ConsultsIsAJob
  <2>. QED BY <1>15, <2>3 DEF TypeOK, Scope, stored
<1>27. ASSUME NEW c \in Clients, ReadSpaces(c) PROVE TypeOK'
  <2>1. "spacesFill" \in Phases
    BY DEF Phases
  <2>2. job' \in [Clients -> Job]
    BY <1>1, <1>27, <2>1, OwnersAreLabels, JobWith9, GoesOn DEF ReadSpaces
  <2>. QED BY <1>27, <2>2 DEF TypeOK, ReadSpaces, stored
<1>28. ASSUME NEW c \in Clients, FillSpaces(c) PROVE TypeOK'
  <2>1. {"make", "enter"} \subseteq Phases
    BY DEF Phases
  <2>2. To(c, "make") \/ To(c, "enter")
    BY <1>28 DEF FillSpaces
  <2>3. job' \in [Clients -> Job]
    BY <1>1, <2>1, <2>2, GoesTo
  <2>4. job[c].owners \in Seq(Labels) /\ now \in Nat
    BY <1>1 DEF Job, TypeOK
  <2>5. spaceCache' \in [Instances -> [known: BOOLEAN, owners: Seq(Labels), at: Nat]]
    BY <1>2, <1>28, <2>4 DEF FillSpaces
  <2>. QED BY <1>28, <2>3, <2>5 DEF TypeOK, FillSpaces, stored
<1>29. ASSUME NEW c \in Clients, Enter(c) PROVE TypeOK'
  <2>. DEFINE listed == job[c].scope \in {Shared} \cup 1..Len(job[c].owners)
              access == Standing(job[c], IF listed THEN job[c].owners ELSE Owners)
  <2>1. job[c] \in Job /\ members[job[c].name] \in {"none", "editor"}
    BY <1>1 DEF Job, TypeOK
  <2>2. access \in Standings /\ "authorize" \in Phases /\ <<>> \in Seq(Labels)
    BY <2>1 DEF Standing, Standings, Phases
  <2>3. \/ Ends(c)
        \/ Goes(c, [job[c] EXCEPT !.pc = "authorize", !.owners = <<>>, !.access = access])
    BY <1>29 DEF Enter
  <2>4. spaceCache' = spaceCache \/ spaceCache' = [spaceCache EXCEPT ![job[c].at] = NoMap]
    BY <1>29 DEF Enter
  <2>. HIDE DEF access
  <2>5. job' \in [Clients -> Job]
    BY <1>1, <2>1, <2>2, <2>3, JobWith10, GoesOn, GoesIdle
  <2>6. spaceCache' \in [Instances -> [known: BOOLEAN, owners: Seq(Labels), at: Nat]]
    BY <1>2, <2>4, NoMapFits
  <2>. QED BY <1>29, <2>5, <2>6 DEF TypeOK, Enter, stored
<1>16. ASSUME NEW c \in Clients, OpenSpace(c) PROVE TypeOK'
  <2>. DEFINE found == SpaceOf(Live(job[c].name))
              k == CHOOSE m \in found : TRUE
  <2>1. job[c].row \in Rows /\ job[c].uid \in Uids
    BY <1>16 DEF OpenSpace, JobsHold, Known, Resolving
  <2>2. CASE found = {}
    <3>1. Consults(c, job[c], "make") /\ UNCHANGED tokens
      BY <1>16, <2>2 DEF OpenSpace
    <3>2. "make" \in Phases
      BY DEF Phases
    <3>. QED BY <1>16, <3>1, <3>2, ConsultsIsAJob DEF TypeOK, OpenSpace, stored
  <2>3. CASE found /= {}
    <3>1. Arrives(c, k)
      BY <1>16, <2>3 DEF OpenSpace
    <3>2. k \in Int
      <4>1. k \in found
        BY <2>3
      <4>. QED BY <4>1 DEF SpaceOf
    <3>. HIDE DEF k
    <3>3. job' \in [Clients -> Job] /\ tokens' \subseteq TokenType
      BY <2>1, <3>1, <3>2, ArrivesTyped
    <3>. QED BY <1>16, <3>3 DEF TypeOK, OpenSpace, stored
  <2>. QED BY <2>2, <2>3
<1>30. ASSUME NEW c \in Clients, MakeSpace(c) PROVE TypeOK'
  <2>. DEFINE s == [owner |-> Live(job[c].name), by |-> job[c].uid, late |-> ~Exists(job[c].uid)]
              k == IF SpaceOf(Live(job[c].name)) = {} THEN Len(spaces) + 1
                   ELSE CHOOSE m \in SpaceOf(Live(job[c].name)) : TRUE
              S == [owner: Labels, by: Uids, late: BOOLEAN]
  <2>1. \/ /\ spaceCache' = [spaceCache EXCEPT ![job[c].at] = NoMap]
           /\ To(c, "spacesRead") /\ UNCHANGED spaces
        \/ /\ spaces' = Append(spaces, s) \/ spaces' = spaces
           /\ Goes(c, [job[c] EXCEPT !.pc = "made", !.scope = k]) /\ UNCHANGED spaceCache
    BY <1>30 DEF MakeSpace
  <2>2. job[c] \in Job /\ job[c].uid \in Uids /\ job[c].name \in Names
    BY <1>30, <1>1 DEF MakeSpace, JobsHold, Known, Resolving, Job
  <2>3. k \in Int
    <3>1. Len(spaces) \in Nat
      BY DEF TypeOK
    <3>2. SpaceOf(Live(job[c].name)) /= {} => (CHOOSE m \in SpaceOf(Live(job[c].name)) : TRUE) \in SpaceOf(Live(job[c].name))
      OBVIOUS
    <3>. QED BY <3>1, <3>2 DEF SpaceOf
  <2>. HIDE DEF k
  <2>4. job' \in [Clients -> Job]
    <3>1. {"spacesRead", "made"} \subseteq Phases
      BY DEF Phases
    <3>. QED BY <1>1, <2>1, <2>2, <2>3, <3>1, JobWith12, GoesOn, GoesTo
  <2>5. s \in S
    BY <2>2 DEF Labels, Live
  <2>. HIDE DEF s
  <2>6. spaces' \in Seq([owner: Labels, by: Uids, late: BOOLEAN])
    <3>1. spaces \in Seq(S)
      BY DEF TypeOK
    <3>. HIDE DEF S
    <3>2. spaces' \in Seq(S)
      BY <2>1, <2>5, <3>1, AppendProperties
    <3>. QED BY <3>2 DEF S
  <2>7. spaceCache' \in [Instances -> [known: BOOLEAN, owners: Seq(Labels), at: Nat]]
    BY <1>2, <2>1, NoMapFits
  <2>. QED BY <1>30, <2>4, <2>6, <2>7 DEF TypeOK, MakeSpace
<1>31. ASSUME NEW c \in Clients, SpaceMade(c) PROVE TypeOK'
  <2>1. job[c].row \in Rows /\ job[c].uid \in Uids /\ job[c].scope \in Int
    BY <1>31, <1>1 DEF SpaceMade, JobsHold, Known, Resolving, Job
  <2>2. Arrives(c, job[c].scope)
    BY <1>31 DEF SpaceMade
  <2>3. job' \in [Clients -> Job] /\ tokens' \subseteq TokenType
    BY <2>1, <2>2, ArrivesTyped
  <2>4. spaceCache' \in [Instances -> [known: BOOLEAN, owners: Seq(Labels), at: Nat]]
    BY <1>2, <1>31, OwnersAreLabels DEF NoMap, SpaceMade
  <2>. QED BY <1>31, <2>3, <2>4 DEF TypeOK, SpaceMade, stored
<1>17. ASSUME NEW c \in Clients, Authorize(c) PROVE TypeOK'
  <2>1. job' \in [Clients -> Job]
    <3>1. {"handle"} \subseteq Phases
      BY DEF Phases
    <3>2. To(c, "handle") \/ Ends(c)
      BY <1>17 DEF Authorize
    <3>. QED BY <1>1, <3>1, <3>2, GoesTo, GoesIdle
  <2>. QED BY <1>17, <2>1 DEF TypeOK, Authorize, stored
<1>18. ASSUME NEW c \in Clients, ReadTarget(c) PROVE TypeOK'
  <2>1. job' \in [Clients -> Job]
    <3>. DEFINE p == IF Removes(job[c].change, users[job[c].target]) THEN "count" ELSE "write"
    <3>1. p \in Phases /\ job[c] \in Job
      BY <1>1 DEF Phases
    <3>. HIDE DEF p
    <3>2. Exists(job[c].target) => [job[c] EXCEPT !.seen = users[job[c].target], !.pc = p] \in Job
      BY <1>1, <3>1, JobWith7 DEF Exists
    <3>. QED BY <1>18, <1>1, <3>2, GoesOn, GoesIdle DEF ReadTarget, p
  <2>. QED BY <1>18, <2>1 DEF TypeOK, ReadTarget, stored
<1>19. ASSUME NEW c \in Clients, CountAdmins(c) PROVE TypeOK'
  <2>1. job' \in [Clients -> Job]
    <3>1. {"write"} \subseteq Phases
      BY DEF Phases
    <3>2. To(c, "write") \/ Ends(c)
      BY <1>19 DEF CountAdmins
    <3>. QED BY <1>1, <3>1, <3>2, GoesTo, GoesIdle
  <2>. QED BY <1>19, <2>1 DEF TypeOK, CountAdmins, stored
<1>20. ASSUME NEW c \in Clients, UpdateUser(c) PROVE TypeOK'
  <2>1. job' \in [Clients -> Job]
    <3>1. To(c, "clear") /\ "clear" \in Phases
      BY <1>20 DEF UpdateUser, Phases
    <3>. QED BY <1>1, <3>1, GoesTo
  <2>2. users' \in [Uids -> Rows \cup {NoOne}]
    <3>. DEFINE h == job[c].change
    <3>1. h \in {"demote", "promote", "disable", "enable", "reset", "revoke"}
      BY <1>20 DEF UpdateUser, JobsHold, Known, Resolving
    <3>. HIDE DEF h
    <3>2. \A r \in Rows : Written(r, h, job[c].seen) \in Rows
      BY <3>1, WrittenIsARow
    <3>. QED BY <1>20, <1>1, <3>2 DEF UpdateUser, Exists, h
  <2>. QED BY <1>20, <2>1, <2>2 DEF TypeOK, UpdateUser
<1>21. ASSUME NEW c \in Clients, DeleteUser(c) PROVE TypeOK'
  <2>1. job' \in [Clients -> Job]
    <3>1. To(c, "clear") /\ "clear" \in Phases
      BY <1>21 DEF DeleteUser, Phases
    <3>. QED BY <1>1, <3>1, GoesTo
  <2>2. job[c].target \in Uids /\ job[c].seen \in Rows
    BY <1>21 DEF DeleteUser, JobsHold, Known, Resolving
  <2>3. users' \in [Uids -> Rows \cup {NoOne}] /\ members' \in [Names -> {"none", "editor"}]
    BY <1>21, <2>2 DEF DeleteUser, TypeOK
  <2>4. spaces' \in Seq([owner: Labels, by: Uids, late: BOOLEAN])
    <3>. DEFINE S == [owner: Labels, by: Uids, late: BOOLEAN]
                R(s) == Relabelled(s, job[c].seen.name, job[c].target)
    <3>1. \A s \in S : R(s) \in S
      BY <2>2 DEF Relabelled, Tombstone, Live, Labels, Rows, Uids
    <3>. HIDE DEF S
    <3>0. spaces \in Seq(S)
      BY DEF TypeOK, S
    <3>2. Len(spaces) \in Nat /\ \A k \in 1..Len(spaces) : spaces[k] \in S
      BY <3>0
    <3>3. spaces' = [k \in 1..Len(spaces) |-> R(spaces[k])]
      BY <1>21 DEF DeleteUser
    <3>. HIDE DEF R
    <3>4. spaces' \in [1..Len(spaces) -> S]
      BY <3>1, <3>2, <3>3
    <3>5. spaces' \in Seq(S)
      BY <3>2, <3>4
    <3>. QED BY <3>5 DEF S
  <2>. QED BY <1>21, <2>1, <2>3, <2>4 DEF TypeOK, DeleteUser
<1>22. ASSUME NEW c \in Clients, ClearUserCache(c) PROVE TypeOK'
  <2>1. job' \in [Clients -> Job]
    BY <1>22, <1>1, GoesIdle DEF ClearUserCache
  <2>2. cache' \in [Instances -> [Uids -> Cached]]
    BY <1>22, <1>2 DEF ClearUserCache, Nothing, Cached
  <2>3. spaceCache' \in [Instances -> [known: BOOLEAN, owners: Seq(Labels), at: Nat]]
    BY <1>22, <1>2, OwnersAreLabels DEF ClearUserCache, NoMap
  <2>. QED BY <1>22, <2>1, <2>2, <2>3 DEF TypeOK, ClearUserCache, stored
<1>23. ASSUME NEW c \in Clients, NEW n \in Names, CreateUser(c, n) PROVE TypeOK'
  <2>1. job' \in [Clients -> Job]
    <3>. DEFINE r == NewRow(n, "viewer", "admin")
    <3>2. r \in Rows /\ (nextUid \in Uids => nextUid \in 0..MaxUid)
      BY DEF NewRow, Rows, Roles, Uids
    <3>. HIDE DEF r
    <3>3. nextUid \in Uids => [job[c] EXCEPT !.pc = "open", !.scope = Own, !.name = n, !.uid = nextUid, !.row = r] \in Job
      BY <1>1, <3>2, JobWith8 DEF Phases
    <3>. QED BY <1>23, <1>1, <3>3, GoesOn, GoesIdle DEF CreateUser, r
  <2>2. users' \in [Uids -> Rows \cup {NoOne}] /\ nextUid' \in Nat
    <3>1. NewRow(n, "viewer", "admin") \in Rows
      BY DEF NewRow, Rows, Roles
    <3>2. nextUid \in Nat
      BY DEF TypeOK
    <3>. QED BY <1>23, <1>1, <3>1, <3>2 DEF CreateUser
  <2>. QED BY <1>23, <2>1, <2>2 DEF TypeOK, CreateUser
<1>24. ASSUME NEW c \in Clients, UpdateSettings(c) PROVE TypeOK'
  <2>1. job' \in [Clients -> Job]
    BY <1>24, <1>1, GoesIdle DEF UpdateSettings
  <2>. QED BY <1>24, <2>1 DEF TypeOK, UpdateSettings
<1>25. ASSUME NEW c \in Clients, NEW n \in Names, RemoveMember(c, n) PROVE TypeOK'
  <2>1. job' \in [Clients -> Job]
    BY <1>25, <1>1, GoesIdle DEF RemoveMember
  <2>. QED BY <1>25, <2>1 DEF TypeOK, RemoveMember
<1>32. ASSUME NEW c \in Clients, NEW n \in Names, FindMember(c, n) PROVE TypeOK'
  <2>1. job' \in [Clients -> Job]
    <3>1. UidOf(n) /= 0 => users[UidOf(n)] \in Rows
      BY <1>1, UidOfIsAnId DEF Exists
    <3>2. "enroll" \in Phases /\ job[c] \in Job
      BY <1>1 DEF Phases
    <3>3. UidOf(n) /= 0 => [job[c] EXCEPT !.pc = "enroll", !.seen = users[UidOf(n)]] \in Job
      BY <3>1, <3>2 DEF Job
    <3>. QED BY <1>32, <1>1, <3>3, GoesOn, GoesIdle DEF FindMember
  <2>. QED BY <1>32, <2>1 DEF TypeOK, FindMember, stored
<1>33. ASSUME NEW c \in Clients, AddMember(c) PROVE TypeOK'
  <2>1. job' \in [Clients -> Job]
    BY <1>33, <1>1, GoesIdle DEF AddMember
  <2>2. job[c].seen \in Rows
    BY <1>33 DEF AddMember, JobsHold, Known, Resolving
  <2>3. members' \in [Names -> {"none", "editor"}]
    BY <1>33, <2>2 DEF AddMember, TypeOK, Rows
  <2>. QED BY <1>33, <2>1, <2>3 DEF TypeOK, AddMember
<1>26. ASSUME UNCHANGED vars PROVE TypeOK'
  BY <1>26 DEF TypeOK, vars, stored
<1>. QED BY <1>3, <1>4, <1>5, <1>6, <1>7, <1>8, <1>9, <1>10, <1>11, <1>12, <1>13, <1>14, <1>15, <1>16, <1>17, <1>18, <1>19, <1>20, <1>21, <1>22, <1>23, <1>24, <1>25, <1>26, <1>27, <1>28, <1>29, <1>30, <1>31, <1>32, <1>33 DEF Next


---------------------------------------------------------------------------
(* What the actions do to accounts, workspaces, tokens, failures and jobs:   *)
(* thirteen effects, of one job each, that the invariants are proved over.   *)

Quiet == UNCHANGED <<users, spaces, tokens, nextUid, failures, overlapped>>
Others(c) == \A d \in Clients : d /= c => job'[d] = job[d]
Same(c) == /\ Others(c)
           /\ job'[c].uid = job[c].uid /\ job'[c].name = job[c].name /\ job'[c].row = job[c].row
           /\ job'[c].route = job[c].route /\ job'[c].change = job[c].change
           /\ job'[c].target = job[c].target /\ job'[c].seen = job[c].seen
Moves(c, p) == Same(c) /\ job'[c].pc = p
Stops(c) == /\ Others(c)
            /\ job'[c].pc = "idle" /\ job'[c].uid = 0 /\ job'[c].row = NoOne
            /\ job'[c].route = "none" /\ job'[c].change = "none" /\ job'[c].target = 0

Waits == /\ UNCHANGED <<users, spaces, tokens, nextUid, overlapped, job>>
         /\ \A n \in Names : failures'[n] = failures[n] \/ failures'[n] = 0
Quits(c) == Stops(c) /\ Quiet
Begins(c) ==
    /\ Others(c) /\ Quiet
    /\ job[c].pc = "idle" /\ job'[c].pc \in {"lookup", "policy", "signups", "idle"}
    /\ job'[c].uid = 0 /\ job'[c].row = NoOne /\ job'[c].target = 0 /\ job'[c].change = "none" /\ job'[c].route = "none"
    /\ job'[c].pc = "lookup" => failures[job'[c].name] < MaxFailures
Requests(c) ==
    /\ Others(c) /\ Quiet
    /\ job[c].pc = "idle" /\ job'[c].pc \in {"read", "scope", "idle"}
    /\ \E t \in tokens : job'[c].uid = t.uid /\ job'[c].name = t.name
    /\ job'[c].row \in Rows \cup {NoOne} /\ (job'[c].pc = "scope" => job'[c].row /= NoOne)
    /\ job'[c].route \in Routes /\ (job'[c].change = "none" \/ job'[c].route \in PlatformAdminOnly)
    /\ job'[c].target \in 0..MaxUid
Looks(c) ==
    /\ Others(c) /\ Quiet
    /\ job[c].pc = "lookup" /\ job'[c].pc = "verify"
    /\ job'[c].uid = UidOf(job[c].name)
    /\ job'[c].row = IF job'[c].uid = 0 THEN NoOne ELSE users[job'[c].uid]
    /\ job'[c].name = job[c].name /\ job'[c].route = job[c].route /\ job'[c].change = job[c].change
    /\ job'[c].target = job[c].target
Answers(c) ==
    /\ Stops(c) /\ UNCHANGED <<users, spaces, nextUid, overlapped>>
    /\ job[c].pc = "verify"
    /\ \/ job[c].row /= NoOne /\ SignToken(job[c].uid, job[c].row) /\ UNCHANGED failures
       \/ failures' = [failures EXCEPT ![job[c].name] = @ + 1] /\ UNCHANGED tokens
Adds(c) ==
    /\ Others(c) /\ UNCHANGED <<spaces, tokens, failures, overlapped>>
    /\ <<job[c].pc, job'[c].pc>> \in {<<"insert", "record">>, <<"handle", "open">>}
    /\ nextUid \in Uids /\ nextUid' = nextUid + 1 /\ job'[c].uid = nextUid
    /\ UidOf(job'[c].name) = 0
    /\ users'[nextUid] = job'[c].row /\ \A u \in Uids : u /= nextUid => users'[u] = users[u]
    /\ job'[c].row \in Rows /\ job'[c].row.name = job'[c].name /\ job'[c].row.tv = 0 /\ job'[c].row.pw = 0
    /\ job'[c].route = job[c].route /\ job'[c].change = job[c].change /\ job'[c].target = job[c].target
Walk == {<<"policy", "policyFill">>, <<"policyFill", "signups">>, <<"policyFill", "idle">>, <<"signups", "insert">>,
         <<"signups", "idle">>, <<"record", "open">>, <<"fill", "scope">>, <<"scope", "open">>, <<"scope", "enter">>,
         <<"scope", "spacesRead">>, <<"spacesRead", "spacesFill">>, <<"spacesFill", "make">>, <<"spacesFill", "enter">>,
         <<"enter", "authorize">>, <<"open", "make">>, <<"open", "spacesRead">>, <<"make", "spacesRead">>,
         <<"authorize", "handle">>}
Walks(c) ==
    /\ Same(c) /\ Quiet /\ <<job[c].pc, job'[c].pc>> \in Walk
    /\ job'[c].pc = "scope" => job[c].row /= NoOne
    /\ job'[c].pc = "handle" => job[c].change /= "none" /\ (job[c].route \in PlatformAdminOnly => job[c].row.role = "admin")
Rereads(c) ==
    /\ Others(c) /\ Quiet
    /\ job[c].pc = "read" /\ job'[c].pc = "fill"
    /\ job'[c].row = users[job[c].uid] /\ job'[c].uid = job[c].uid /\ job'[c].name = job[c].name
    /\ job'[c].route = job[c].route /\ job'[c].change = job[c].change /\ job'[c].target = job[c].target
Opens(c) ==
    /\ UNCHANGED <<users, nextUid, failures, overlapped>>
    /\ job[c].pc \in {"open", "make", "made"}
    /\ \/ job[c].route = "none" /\ SignToken(job[c].uid, job[c].row) /\ Stops(c)
       \/ UNCHANGED tokens /\ Stops(c)
       \/ UNCHANGED tokens /\ (Moves(c, "authorize") \/ Moves(c, "made"))
    /\ \/ UNCHANGED spaces
       \/ /\ Len(spaces') = Len(spaces) + 1 /\ \A k \in 1..Len(spaces) : spaces'[k] = spaces[k]
          /\ spaces'[Len(spaces) + 1] = [owner |-> Live(job[c].name), by |-> job[c].uid, late |-> ~Exists(job[c].uid)]
Aims(c) ==
    /\ Others(c) /\ Quiet
    /\ job[c].pc = "handle"
    /\ \/ job'[c].pc = "enroll" /\ job'[c].seen \in Rows
       \/ /\ Exists(job[c].target) /\ job'[c].seen = users[job[c].target]
          /\ job'[c].pc \in {"count", "write"} /\ (job'[c].pc = "write" => ~Removes(job[c].change, users[job[c].target]))
          /\ job[c].change \in {"demote", "promote", "disable", "enable", "reset", "revoke", "delete"}
    /\ job'[c].uid = job[c].uid /\ job'[c].name = job[c].name /\ job'[c].row = job[c].row
    /\ job'[c].route = job[c].route /\ job'[c].change = job[c].change /\ job'[c].target = job[c].target
Counts(c) ==
    /\ UNCHANGED <<users, spaces, tokens, nextUid, failures>>
    /\ job[c].pc = "count"
    /\ overlapped' = (overlapped \/ \E d \in Clients \ {c} : Removing(d))
    /\ \/ Stops(c)
       \/ Moves(c, "write") /\ ~(TargetIsActiveAdmin(job[c].seen) /\ Cardinality(ActiveAdmins) <= 1)
Updates(c) ==
    /\ Moves(c, "clear") /\ UNCHANGED <<spaces, tokens, nextUid, failures, overlapped>>
    /\ job[c].pc = "write" /\ job[c].change \in {"demote", "promote", "disable", "enable", "reset", "revoke"}
    /\ \A u \in Uids : u /= job[c].target => users'[u] = users[u]
    /\ ~Exists(job[c].target) => users'[job[c].target] = users[job[c].target]
    /\ Exists(job[c].target) =>
         LET r == users[job[c].target]
             w == users'[job[c].target]
         IN  /\ r \in Rows /\ w \in Rows /\ w.name = r.name
             /\ w.tv > r.tv \/ (w.tv = r.tv /\ w.pw = r.pw)
             /\ job[c].change \notin {"demote", "disable"} /\ r.role = "admin" /\ r.active => w.role = "admin" /\ w.active
Deletes(c) ==
    /\ Moves(c, "clear") /\ UNCHANGED <<tokens, nextUid, failures, overlapped>>
    /\ job[c].pc = "write" /\ job[c].change = "delete"
    /\ users'[job[c].target] = NoOne /\ \A u \in Uids : u /= job[c].target => users'[u] = users[u]
    /\ Len(spaces') = Len(spaces)
    /\ \A k \in 1..Len(spaces) :
         /\ spaces'[k].by = spaces[k].by /\ spaces'[k].late = spaces[k].late
         /\ spaces'[k].owner = IF spaces[k].owner = Live(job[c].seen.name)
                               THEN Tombstone(job[c].seen.name, job[c].target) ELSE spaces[k].owner

Effect == \/ Waits
          \/ \E c \in Clients : \/ Quits(c) \/ Begins(c) \/ Requests(c) \/ Looks(c) \/ Answers(c) \/ Adds(c) \/ Walks(c)
                                \/ Rereads(c) \/ Opens(c) \/ Aims(c) \/ Counts(c) \/ Updates(c) \/ Deletes(c)

---------------------------------------------------------------------------
(* Every step has one of the effects.                                        *)

(* What an idle client holds.                                               *)
LEMMA IdleFields ==
  /\ Idle.pc = "idle" /\ Idle.uid = 0 /\ Idle.row = NoOne
  /\ Idle.target = 0 /\ Idle.change = "none" /\ Idle.route = "none"
  /\ Idle.owners = <<>> /\ Idle.access = "none"
BY DEF Idle

(* A request that changes its step changes nothing else of itself.          *)
LEMMA ToMoves ==
  ASSUME job \in [Clients -> Job], NEW c \in Clients, NEW p, To(c, p)
  PROVE  Moves(c, p)
<1>1. job[c] \in Job
  OBVIOUS
<1>. QED BY <1>1 DEF To, Goes, Job, Moves, Same, Others

(* A request that ends holds nothing.                                       *)
LEMMA EndsStops ==
  ASSUME job \in [Clients -> Job], NEW c \in Clients, Ends(c)
  PROVE  Stops(c)
<1>1. job'[c] = Idle
  BY DEF Ends, Goes
<1>. QED BY <1>1, IdleFields DEF Ends, Goes, Stops, Others

(* A sign-in begins only below the limit on failures.                       *)
LEMMA AskLoginBegins ==
  ASSUME job \in [Clients -> Job], NEW c \in Clients, NEW n \in Names, AskLogin(c, n), failures \in [Names -> Nat]
  PROVE  Begins(c)
<1>1. Idle \in Job /\ MaxFailures \in Nat
  BY IdleIsAJob, ClientsAssumption
<1>2. /\ Others(c) /\ Quiet /\ job[c].pc = "idle" /\ job'[c].pc = "lookup" /\ job'[c].name = n
      /\ job'[c].uid = 0 /\ job'[c].row = NoOne /\ job'[c].target = 0 /\ job'[c].change = "none" /\ job'[c].route = "none"
  BY <1>1, IdleFields DEF AskLogin, Asks, stored, Goes, Job, Others, Quiet
<1>3. failures[n] < MaxFailures
  BY <1>1 DEF AskLogin, TooManyFailures
<1>. QED BY <1>2, <1>3 DEF Begins

(* A registration begins with no account and no rights.                     *)
LEMMA AskRegisterBegins ==
  ASSUME job \in [Clients -> Job], NEW c \in Clients, NEW i, NEW n, AskRegister(c, i, n)
  PROVE  Begins(c)
<1>1. Idle \in Job
  BY IdleIsAJob
<1>2. /\ Others(c) /\ Quiet /\ job[c].pc = "idle" /\ job'[c].pc \in {"policy", "signups", "idle"}
      /\ job'[c].uid = 0 /\ job'[c].row = NoOne /\ job'[c].target = 0 /\ job'[c].change = "none" /\ job'[c].route = "none"
  BY <1>1, IdleFields DEF AskRegister, Asks, stored, Goes, Job, Others, Quiet
<1>. QED BY <1>2 DEF Begins

(* A sign-in reads the row its name has.                                    *)
LEMMA LoginReadsLooks ==
  ASSUME job \in [Clients -> Job], NEW c \in Clients, LoginReads(c)
  PROVE  Looks(c)
<1>1. job[c] \in Job
  OBVIOUS
<1>. QED BY <1>1 DEF LoginReads, stored, Goes, Job, Looks, Others, Quiet

(* The policy on registrations is read.                                     *)
LEMMA ReadPolicyWalks ==
  ASSUME job \in [Clients -> Job], NEW c \in Clients, ReadPolicy(c)
  PROVE  Walks(c)
<1>1. job[c] \in Job
  OBVIOUS
<1>2. Same(c) /\ Quiet /\ job[c].pc = "policy" /\ job'[c].pc = "policyFill"
  BY <1>1 DEF ReadPolicy, stored, Goes, Job, Same, Others, Quiet
<1>. QED BY <1>2 DEF Walks, Walk

(* A request reads the row of its token's account.                          *)
LEMMA ReadUserRereads ==
  ASSUME job \in [Clients -> Job], NEW c \in Clients, ReadUser(c)
  PROVE  Rereads(c)
<1>1. job[c] \in Job
  OBVIOUS
<1>. QED BY <1>1 DEF ReadUser, stored, Goes, Job, Rereads, Others, Quiet

(* What a request with a token may ask for.                                 *)
LEMMA RouteAsks ==
  ASSUME tokens \subseteq TokenType,
         NEW t \in tokens, NEW route \in Routes, NEW h \in ChangesOf(route), NEW u \in TargetsOf(h)
  PROVE  /\ t.uid \in Uids /\ t.name \in Names /\ t.tv \in Nat /\ u \in 0..MaxUid
         /\ h = "none" \/ route \in PlatformAdminOnly
<1>1. t.uid \in Uids /\ t.name \in Names /\ t.tv \in Nat
  BY DEF TokenType
<1>2. h = "none" \/ route \in PlatformAdminOnly
  BY DEF ChangesOf, PlatformAdminOnly
<1>3. u \in 0..MaxUid
  BY DEF TargetsOf, Uids
<1>. QED BY <1>1, <1>2, <1>3

(* A request with a token holds no row, or the cached one.                  *)
LEMMA AskRouteRequests ==
  ASSUME job \in [Clients -> Job], tokens \subseteq TokenType, cache \in [Instances -> [Uids -> Cached]],
         NEW c \in Clients, NEW i \in Instances, NEW t \in tokens, NEW route \in Routes,
         NEW s, NEW h \in ChangesOf(route), NEW u \in TargetsOf(h), AskRoute(c, i, t, route, s, h, u)
  PROVE  Requests(c)
<1>. DEFINE hit == cache[i][t.uid]
            cached == hit.row /= NoOne /\ Fresh(hit.at)
            r == IF cached THEN hit.row ELSE NoOne
            p == IF ~cached THEN "read" ELSE IF hit.row.active /\ hit.row.tv = t.tv THEN "scope" ELSE "idle"
            j == [Idle EXCEPT !.at = i, !.uid = t.uid, !.name = t.name, !.tv = t.tv, !.route = route, !.scope = s,
                              !.change = h, !.target = u, !.row = r, !.pc = p]
<1>1. /\ Goes(c, j) /\ job[c].pc = "idle" /\ Quiet
  BY DEF AskRoute, Asks, Quiet, stored
<1>2. p \in {"read", "scope", "idle"} /\ r \in {NoOne, hit.row} /\ (p = "scope" => r /= NoOne)
  OBVIOUS
<1>3. hit.row \in Rows \cup {NoOne}
  BY RouteAsks DEF Cached
<1>4. u \in 0..MaxUid /\ (h = "none" \/ route \in PlatformAdminOnly)
  BY RouteAsks
<1>. HIDE DEF r, p, hit
<1>5. j.pc = p /\ j.uid = t.uid /\ j.name = t.name /\ j.route = route /\ j.change = h /\ j.target = u /\ j.row = r
  BY IdleIsAJob DEF Job
<1>. HIDE DEF j
<1>6. job'[c] = j /\ Others(c)
  BY <1>1 DEF Goes, Others
<1>. QED BY <1>1, <1>2, <1>3, <1>4, <1>5, <1>6 DEF Requests

(* A new row.                                                               *)
LEMMA NewRowFields ==
  ASSUME NEW n \in Names, NEW role \in Roles, NEW source \in {"admin", "self"}
  PROVE  LET r == NewRow(n, role, source)
         IN  r \in Rows /\ r.name = n /\ r.tv = 0 /\ r.pw = 0
<1>1. NewRow(n, role, source) \in Rows
  BY DEF NewRow, Rows
<1>. QED BY <1>1 DEF NewRow

(* A registration adds the next row, under a name that has none.            *)
LEMMA RegisterInsertsAdds ==
  ASSUME job \in [Clients -> Job], users \in [Uids -> Rows \cup {NoOne}], NEW c \in Clients, RegisterInserts(c)
  PROVE  Quits(c) \/ Adds(c)
<1>. DEFINE r == NewRow(job[c].name, "analyst", "self")
            j == [job[c] EXCEPT !.pc = "record", !.uid = nextUid, !.row = r]
<1>1. job[c] \in Job /\ job[c].name \in Names
  BY DEF Job
<1>2. r \in Rows /\ r.name = job[c].name /\ r.tv = 0 /\ r.pw = 0
  BY <1>1, NewRowFields DEF Roles
<1>3. CASE UidOf(job[c].name) = 0
  <2>1. /\ Goes(c, j) /\ users' = [users EXCEPT ![nextUid] = r] /\ nextUid' = nextUid + 1 /\ nextUid \in Uids
        /\ job[c].pc = "insert" /\ UNCHANGED <<spaces, tokens, failures, overlapped>>
    BY <1>3 DEF RegisterInserts
  <2>. HIDE DEF r
  <2>2. /\ j.pc = "record" /\ j.uid = nextUid /\ j.row = r /\ j.name = job[c].name
        /\ j.route = job[c].route /\ j.change = job[c].change /\ j.target = job[c].target
    BY <1>1 DEF Job
  <2>. HIDE DEF j
  <2>3. job'[c] = j /\ Others(c)
    BY <2>1 DEF Goes, Others
  <2>4. users'[nextUid] = r /\ \A u \in Uids : u /= nextUid => users'[u] = users[u]
    BY <2>1
  <2>5. UidOf(job'[c].name) = 0
    BY <1>3, <2>2, <2>3
  <2>. QED BY <1>2, <2>1, <2>2, <2>3, <2>4, <2>5 DEF Adds
<1>4. CASE UidOf(job[c].name) /= 0
  <2>1. Ends(c) /\ Quiet
    BY <1>4 DEF RegisterInserts, Quiet
  <2>. QED BY <2>1, EndsStops DEF Quits
<1>. QED BY <1>3, <1>4

(* An administrator adds the next row, under a name that has none.          *)
LEMMA CreateUserAdds ==
  ASSUME job \in [Clients -> Job], users \in [Uids -> Rows \cup {NoOne}], NEW c \in Clients, NEW n \in Names, CreateUser(c, n)
  PROVE  Quits(c) \/ Adds(c)
<1>. DEFINE r == NewRow(n, "viewer", "admin")
            j == [job[c] EXCEPT !.pc = "open", !.scope = Own, !.name = n, !.uid = nextUid, !.row = r]
<1>1. job[c] \in Job
  OBVIOUS
<1>2. r \in Rows /\ r.name = n /\ r.tv = 0 /\ r.pw = 0
  BY NewRowFields DEF Roles
<1>3. CASE UidOf(n) = 0
  <2>1. /\ Goes(c, j) /\ users' = [users EXCEPT ![nextUid] = r] /\ nextUid' = nextUid + 1 /\ nextUid \in Uids
        /\ job[c].pc = "handle" /\ UNCHANGED <<spaces, tokens, failures, overlapped>>
    BY <1>3 DEF CreateUser
  <2>. HIDE DEF r
  <2>2. /\ j.pc = "open" /\ j.uid = nextUid /\ j.row = r /\ j.name = n
        /\ j.route = job[c].route /\ j.change = job[c].change /\ j.target = job[c].target
    BY <1>1 DEF Job
  <2>. HIDE DEF j
  <2>3. job'[c] = j /\ Others(c)
    BY <2>1 DEF Goes, Others
  <2>4. users'[nextUid] = r /\ \A u \in Uids : u /= nextUid => users'[u] = users[u]
    BY <2>1
  <2>. QED BY <1>2, <1>3, <2>1, <2>2, <2>3, <2>4 DEF Adds
<1>4. CASE UidOf(n) /= 0
  <2>1. Ends(c) /\ Quiet
    BY <1>4 DEF CreateUser, Quiet
  <2>. QED BY <2>1, EndsStops DEF Quits
<1>. QED BY <1>3, <1>4

(* The row to be changed is read; only a removal goes on to the count.      *)
LEMMA ReadTargetAims ==
  ASSUME job \in [Clients -> Job], NEW c \in Clients, ReadTarget(c)
  PROVE  Quits(c) \/ Aims(c)
<1>. DEFINE p == IF Removes(job[c].change, users[job[c].target]) THEN "count" ELSE "write"
            j == [job[c] EXCEPT !.seen = users[job[c].target], !.pc = p]
<1>1. job[c] \in Job
  OBVIOUS
<1>2. /\ job[c].pc = "handle" /\ Quiet
      /\ job[c].change \in {"demote", "promote", "disable", "enable", "reset", "revoke", "delete"}
  BY DEF ReadTarget, Quiet, stored
<1>3. CASE Exists(job[c].target)
  <2>1. Goes(c, j)
    BY <1>3 DEF ReadTarget
  <2>4. p \in {"count", "write"} /\ (p = "write" => ~Removes(job[c].change, users[job[c].target]))
    OBVIOUS
  <2>. HIDE DEF p
  <2>2. /\ j.seen = users[job[c].target] /\ j.pc = p /\ j.uid = job[c].uid /\ j.name = job[c].name /\ j.row = job[c].row
        /\ j.route = job[c].route /\ j.change = job[c].change /\ j.target = job[c].target
    BY <1>1 DEF Job
  <2>. HIDE DEF j
  <2>3. job'[c] = j /\ Others(c)
    BY <2>1 DEF Goes, Others
  <2>. QED BY <1>2, <1>3, <2>2, <2>3, <2>4 DEF Aims
<1>4. CASE ~Exists(job[c].target)
  BY <1>2, <1>4, EndsStops DEF ReadTarget, Quits
<1>. QED BY <1>3, <1>4

(* A counted removal is refused where the last administrator is its target. *)
LEMMA CountAdminsCounts ==
  ASSUME job \in [Clients -> Job], NEW c \in Clients, CountAdmins(c)
  PROVE  Counts(c)
<1>1. /\ job[c].pc = "count" /\ UNCHANGED <<users, spaces, tokens, nextUid, failures>>
      /\ overlapped' = (overlapped \/ \E d \in Clients \ {c} : Removing(d))
  BY DEF CountAdmins, stored
<1>2. Ends(c) \/ (To(c, "write") /\ ~(TargetIsActiveAdmin(job[c].seen) /\ Cardinality(ActiveAdmins) <= 1))
  BY DEF CountAdmins, LockoutProblem
<1>. QED BY <1>1, <1>2, ToMoves, EndsStops DEF Counts

(* An update is of the target's row, and keeps its name.                    *)
LEMMA UpdateUserUpdates ==
  ASSUME job \in [Clients -> Job], users \in [Uids -> Rows \cup {NoOne}], JobsHold, NEW c \in Clients, UpdateUser(c)
  PROVE  Updates(c)
<1>. DEFINE j == job[c]
            r == users[job[c].target]
            w == Written(r, j.change, j.seen)
<1>1. /\ j.pc = "write" /\ j.change \in {"demote", "promote", "disable", "enable", "reset", "revoke"}
      /\ j.target \in Uids /\ j.seen \in Rows
  BY DEF UpdateUser, JobsHold, Known, Resolving
<1>2. /\ To(c, "clear") /\ UNCHANGED <<spaces, members, failures, signups, open, nextUid>>
      /\ UNCHANGED <<cache, openCache, spaceCache, tokens, now, overlapped>>
  BY DEF UpdateUser
<1>3. CASE ~Exists(j.target)
  <2>1. users' = users
    BY <1>3 DEF UpdateUser
  <2>. QED BY <1>1, <1>2, <1>3, <2>1, ToMoves DEF Updates
<1>4. CASE Exists(j.target)
  <2>1. users' = [users EXCEPT ![j.target] = w]
    BY <1>4 DEF UpdateUser
  <2>2. r \in Rows
    BY <1>1, <1>4 DEF Exists
  <2>3. /\ w \in Rows /\ w.name = r.name
        /\ w.tv > r.tv \/ (w.tv = r.tv /\ w.pw = r.pw)
        /\ j.change \notin {"demote", "disable"} /\ r.role = "admin" /\ r.active => w.role = "admin" /\ w.active
    BY <1>1, <2>2, WrittenIsARow
  <2>. HIDE DEF w
  <2>4. users'[j.target] = w /\ \A u \in Uids : u /= j.target => users'[u] = users[u]
    BY <1>1, <2>1
  <2>5. w /= NoOne
    BY <2>3
  <2>. HIDE DEF r
  <2>. QED BY <1>1, <1>2, <1>4, <2>2, <2>3, <2>4, <2>5, ToMoves DEF Updates, r
<1>. QED BY <1>3, <1>4

(* A deletion clears the target's row and relabels its workspaces.          *)
LEMMA DeleteUserDeletes ==
  ASSUME job \in [Clients -> Job], users \in [Uids -> Rows \cup {NoOne}], JobsHold, NEW c \in Clients, DeleteUser(c),
         spaces \in Seq([owner: Labels, by: Uids, late: BOOLEAN])
  PROVE  Deletes(c)
<1>. DEFINE n == job[c].seen.name
            u == job[c].target
<1>1. /\ job[c].pc = "write" /\ job[c].change = "delete" /\ u \in Uids /\ job[c].seen \in Rows
      /\ To(c, "clear") /\ UNCHANGED <<failures, signups, open, nextUid>>
      /\ UNCHANGED <<cache, openCache, spaceCache, tokens, now, overlapped>>
  BY DEF DeleteUser, JobsHold, Known, Resolving
<1>2. users' = [users EXCEPT ![u] = NoOne] /\ spaces' = [k \in 1..Len(spaces) |-> Relabelled(spaces[k], n, u)]
  BY DEF DeleteUser
<1>3. Len(spaces) \in Nat /\ \A k \in 1..Len(spaces) : spaces[k] \in [owner: Labels, by: Uids, late: BOOLEAN]
  BY LenProperties, ElementOfSeq
<1>4. Len(spaces') = Len(spaces) /\ \A k \in 1..Len(spaces) : spaces'[k] = Relabelled(spaces[k], n, u)
  BY <1>2, <1>3
<1>5. ASSUME NEW k \in 1..Len(spaces)
      PROVE  LET s == Relabelled(spaces[k], n, u)
             IN  /\ s.by = spaces[k].by /\ s.late = spaces[k].late
                 /\ s.owner = IF spaces[k].owner = Live(n) THEN Tombstone(n, u) ELSE spaces[k].owner
  BY <1>3 DEF Relabelled
<1>6. users'[u] = NoOne /\ \A v \in Uids : v /= u => users'[v] = users[v]
  BY <1>1, <1>2
<1>. QED BY <1>1, <1>4, <1>5, <1>6, ToMoves DEF Deletes

(* The member is looked up, or there is no such account.                    *)
LEMMA FindMemberAims ==
  ASSUME job \in [Clients -> Job], users \in [Uids -> Rows \cup {NoOne}], NEW c \in Clients, NEW n \in Names, FindMember(c, n)
  PROVE  Quits(c) \/ Aims(c)
<1>. DEFINE r == users[UidOf(n)]
            j == [job[c] EXCEPT !.pc = "enroll", !.seen = r]
<1>1. job[c] \in Job /\ job[c].pc = "handle" /\ Quiet
  BY DEF FindMember, Quiet, stored
<1>2. CASE job[c].scope /= Shared \/ UidOf(n) = 0
  BY <1>1, <1>2, EndsStops DEF FindMember, Quits
<1>3. CASE job[c].scope = Shared /\ UidOf(n) /= 0
  <2>1. Goes(c, j)
    BY <1>3 DEF FindMember
  <2>2. r \in Rows
    BY <1>3, UidOfIsAnId DEF Exists
  <2>. HIDE DEF r
  <2>3. /\ j.seen = r /\ j.pc = "enroll" /\ j.uid = job[c].uid /\ j.name = job[c].name /\ j.row = job[c].row
        /\ j.route = job[c].route /\ j.change = job[c].change /\ j.target = job[c].target
    BY <1>1 DEF Job
  <2>. HIDE DEF j
  <2>4. job'[c] = j /\ Others(c)
    BY <2>1 DEF Goes, Others
  <2>. QED BY <1>1, <2>2, <2>3, <2>4 DEF Aims
<1>. QED BY <1>2, <1>3

(* Consulting the map is a step of the request alone.                       *)
LEMMA ConsultsMoves ==
  ASSUME job \in [Clients -> Job], NEW c \in Clients, NEW p, Consults(c, job[c], p)
  PROVE  Moves(c, p) \/ Moves(c, "spacesRead")
<1>1. job[c] \in Job
  OBVIOUS
<1>2. CASE Mapped(job[c].at)
  BY <1>1, <1>2 DEF Consults, Goes, Job, Moves, Same, Others
<1>3. CASE ~Mapped(job[c].at)
  BY <1>1, <1>3 DEF Consults, Goes, Job, Moves, Same, Others
<1>. QED BY <1>2, <1>3

(* A request that has its caller's workspace goes on, or ends with a token. *)
LEMMA ArrivesMoves ==
  ASSUME job \in [Clients -> Job], NEW c \in Clients, NEW k, Arrives(c, k)
  PROVE  \/ job[c].route = "none" /\ SignToken(job[c].uid, job[c].row) /\ Stops(c)
         \/ UNCHANGED tokens /\ (Stops(c) \/ Moves(c, "authorize"))
<1>. DEFINE j == [job[c] EXCEPT !.pc = "authorize", !.scope = k, !.owners = <<>>, !.access = "owner"]
<1>1. \/ job[c].route = "none" /\ SignToken(job[c].uid, job[c].row) /\ Ends(c)
      \/ UNCHANGED tokens /\ (Ends(c) \/ Goes(c, j))
  <2>1. CASE job[c].route = "none"
    BY <2>1, Zenon DEF Arrives
  <2>2. CASE job[c].route /= "none" /\ job[c].change = "create" /\ job[c].access /= "none"
    BY <2>2, Zenon DEF Arrives
  <2>3. CASE job[c].route /= "none" /\ ~(job[c].change = "create" /\ job[c].access /= "none")
    BY <2>3, Zenon DEF Arrives, j
  <2>. QED BY <2>1, <2>2, <2>3
<1>2. Goes(c, j) => Moves(c, "authorize")
  <2>1. job[c] \in Job
    OBVIOUS
  <2>. QED BY <2>1 DEF Goes, Job, Moves, Same, Others
<1>. HIDE DEF j
<1>. QED BY <1>1, <1>2, EndsStops

(* A caller's workspace is there, or the map is consulted for a free slug.  *)
LEMMA OpenSpaceOpens ==
  ASSUME job \in [Clients -> Job], NEW c \in Clients, OpenSpace(c)
  PROVE  Walks(c) \/ Opens(c)
<1>. DEFINE found == SpaceOf(Live(job[c].name))
<1>1. job[c].pc = "open" /\ UNCHANGED <<users, spaces, nextUid, failures, overlapped>>
  BY DEF OpenSpace, stored
<1>2. CASE found = {}
  <2>1. Consults(c, job[c], "make") /\ Quiet
    BY <1>1, <1>2 DEF OpenSpace, Quiet
  <2>2. Moves(c, "make") \/ Moves(c, "spacesRead")
    BY <2>1, ConsultsMoves
  <2>. QED BY <1>1, <2>1, <2>2 DEF Walks, Walk, Moves
<1>3. CASE found /= {}
  <2>1. Arrives(c, CHOOSE k \in found : TRUE)
    BY <1>3 DEF OpenSpace
  <2>. QED BY <1>1, <2>1, ArrivesMoves DEF Opens
<1>. QED BY <1>2, <1>3

(* A workspace is made where its label has none.                            *)
LEMMA MakeSpaceOpens ==
  ASSUME job \in [Clients -> Job], NEW c \in Clients, MakeSpace(c),
         spaces \in Seq([owner: Labels, by: Uids, late: BOOLEAN])
  PROVE  Walks(c) \/ Opens(c)
<1>. DEFINE s == [owner |-> Live(job[c].name), by |-> job[c].uid, late |-> ~Exists(job[c].uid)]
            k == IF SpaceOf(Live(job[c].name)) = {} THEN Len(spaces) + 1
                 ELSE CHOOSE m \in SpaceOf(Live(job[c].name)) : TRUE
<1>1. /\ job[c] \in Job /\ job[c].pc = "make" /\ UNCHANGED <<users, tokens, nextUid, failures, overlapped>>
      /\ \/ To(c, "spacesRead") /\ UNCHANGED spaces
         \/ /\ spaces' = spaces \/ spaces' = Append(spaces, s)
            /\ Goes(c, [job[c] EXCEPT !.pc = "made", !.scope = k])
  BY DEF MakeSpace
<1>. HIDE DEF s, k
<1>2. CASE To(c, "spacesRead") /\ UNCHANGED spaces
  BY <1>1, <1>2, ToMoves DEF Walks, Walk, Moves, Quiet
<1>3. CASE (spaces' = spaces \/ spaces' = Append(spaces, s)) /\ Goes(c, [job[c] EXCEPT !.pc = "made", !.scope = k])
  <2>1. Moves(c, "made")
    BY <1>1, <1>3 DEF Goes, Job, Moves, Same, Others
  <2>2. spaces' = Append(spaces, s) => /\ Len(spaces') = Len(spaces) + 1 /\ \A m \in 1..Len(spaces) : spaces'[m] = spaces[m]
                                       /\ spaces'[Len(spaces) + 1] = s
    OBVIOUS
  <2>. QED BY <1>1, <1>3, <2>1, <2>2 DEF Opens, s
<1>. QED BY <1>1, <1>2, <1>3

(* A workspace that was made is arrived in.                                 *)
LEMMA SpaceMadeOpens ==
  ASSUME job \in [Clients -> Job], NEW c \in Clients, SpaceMade(c)
  PROVE  Opens(c)
<1>1. job[c].pc = "made" /\ UNCHANGED <<users, spaces, nextUid, failures, overlapped>> /\ Arrives(c, job[c].scope)
  BY DEF SpaceMade, stored
<1>. QED BY <1>1, ArrivesMoves DEF Opens

(* Each action has one of the thirteen effects, or waits.                   *)
LEMMA Effects ==
  ASSUME TypeOK, JobsHold, [Next]_vars
  PROVE  Effect
<1>1. /\ job \in [Clients -> Job] /\ users \in [Uids -> Rows \cup {NoOne}] /\ tokens \subseteq TokenType
      /\ cache \in [Instances -> [Uids -> Cached]] /\ failures \in [Names -> Nat]
      /\ spaces \in Seq([owner: Labels, by: Uids, late: BOOLEAN])
  BY DEF TypeOK
<1>2. ASSUME NEW n \in Names, WindowPasses(n) PROVE Waits
  BY <1>1, <1>2 DEF WindowPasses, Waits
<1>3. ASSUME HourPasses \/ TimePasses \/ UNCHANGED vars PROVE Waits
  BY <1>3 DEF HourPasses, TimePasses, Waits, vars, stored
<1>4. ASSUME NEW c \in Clients, NEW n \in Names, AskLogin(c, n) PROVE Begins(c)
  BY <1>1, <1>4, AskLoginBegins
<1>5. ASSUME NEW c \in Clients, NEW i \in Instances, NEW n \in Names, AskRegister(c, i, n) PROVE Begins(c)
  BY <1>1, <1>5, AskRegisterBegins
<1>6. ASSUME NEW c \in Clients, NEW i \in Instances, NEW t \in tokens, NEW route \in Routes,
             NEW s \in ScopesOf(route), NEW h \in ChangesOf(route), NEW u \in TargetsOf(h),
             AskRoute(c, i, t, route, s, h, u)
      PROVE  Requests(c)
  BY <1>1, <1>6, AskRouteRequests
<1>7. ASSUME NEW c \in Clients, LoginReads(c) PROVE Looks(c)
  BY <1>1, <1>7, LoginReadsLooks
<1>8. ASSUME NEW c \in Clients, NEW right \in BOOLEAN, LoginAnswers(c, right) PROVE Answers(c)
  BY <1>1, <1>8, EndsStops DEF LoginAnswers, Answers
<1>9. ASSUME NEW c \in Clients, RegisterInserts(c) PROVE Quits(c) \/ Adds(c)
  BY <1>1, <1>9, RegisterInsertsAdds
<1>10. ASSUME NEW c \in Clients, NEW n \in Names, CreateUser(c, n) PROVE Quits(c) \/ Adds(c)
  BY <1>1, <1>10, CreateUserAdds
<1>11. ASSUME NEW c \in Clients, ReadPolicy(c) PROVE Walks(c)
  BY <1>1, <1>11, ReadPolicyWalks
<1>12. ASSUME NEW c \in Clients, FillPolicy(c) \/ CountSignups(c) PROVE Walks(c)
  <2>1. Quiet /\ (\/ job[c].pc = "policyFill" /\ (To(c, "signups") \/ To(c, "idle"))
                  \/ job[c].pc = "signups" /\ (To(c, "insert") \/ To(c, "idle")))
    BY <1>12 DEF FillPolicy, CountSignups, Quiet, stored
  <2>. QED BY <1>1, <2>1, ToMoves DEF Walks, Walk, Moves
<1>13. ASSUME NEW c \in Clients, RecordSignup(c) PROVE Walks(c)
  <2>1. Quiet /\ job[c].pc = "record" /\ To(c, "open")
    BY <1>13 DEF RecordSignup, Quiet
  <2>. QED BY <1>1, <2>1, ToMoves DEF Walks, Walk, Moves
<1>14. ASSUME NEW c \in Clients, ReadUser(c) PROVE Rereads(c)
  BY <1>1, <1>14, ReadUserRereads
<1>15. ASSUME NEW c \in Clients, FillCache(c) PROVE Quits(c) \/ Walks(c)
  <2>1. Quiet /\ job[c].pc = "fill" /\ (Ends(c) \/ (To(c, "scope") /\ job[c].row /= NoOne))
    BY <1>15 DEF FillCache, Quiet, stored
  <2>. QED BY <1>1, <2>1, ToMoves, EndsStops DEF Quits, Walks, Walk, Moves
<1>16. ASSUME NEW c \in Clients, Scope(c) PROVE Walks(c)
  <2>1. Quiet /\ job[c].pc = "scope" /\ (To(c, "open") \/ Consults(c, job[c], "enter"))
    BY <1>16 DEF Scope, Quiet, stored
  <2>2. Moves(c, "open") \/ Moves(c, "enter") \/ Moves(c, "spacesRead")
    BY <1>1, <2>1, ToMoves, ConsultsMoves
  <2>. QED BY <2>1, <2>2 DEF Walks, Walk, Moves
<1>25. ASSUME NEW c \in Clients, ReadSpaces(c) PROVE Walks(c)
  <2>1. Quiet /\ job[c].pc = "spacesRead" /\ Goes(c, [job[c] EXCEPT !.pc = "spacesFill", !.owners = Owners])
    BY <1>25 DEF ReadSpaces, Quiet, stored
  <2>2. Moves(c, "spacesFill")
    BY <1>1, <2>1 DEF Goes, Job, Moves, Same, Others
  <2>. QED BY <2>1, <2>2 DEF Walks, Walk, Moves
<1>26. ASSUME NEW c \in Clients, FillSpaces(c) PROVE Walks(c)
  <2>1. Quiet /\ job[c].pc = "spacesFill" /\ (To(c, "make") \/ To(c, "enter"))
    BY <1>26 DEF FillSpaces, Quiet, stored
  <2>. QED BY <1>1, <2>1, ToMoves DEF Walks, Walk, Moves
<1>27. ASSUME NEW c \in Clients, Enter(c) PROVE Quits(c) \/ Walks(c)
  <2>1. PICK a : /\ Quiet /\ job[c].pc = "enter"
                 /\ Ends(c) \/ Goes(c, [job[c] EXCEPT !.pc = "authorize", !.owners = <<>>, !.access = a])
    BY <1>27 DEF Enter, Quiet, stored
  <2>2. Goes(c, [job[c] EXCEPT !.pc = "authorize", !.owners = <<>>, !.access = a]) => Moves(c, "authorize")
    <3>1. job[c] \in Job
      BY <1>1
    <3>. QED BY <1>1, <3>1 DEF Goes, Job, Moves, Same, Others
  <2>. QED BY <1>1, <2>1, <2>2, EndsStops DEF Quits, Walks, Walk, Moves
<1>17. ASSUME NEW c \in Clients, OpenSpace(c) \/ MakeSpace(c) \/ SpaceMade(c) PROVE Walks(c) \/ Opens(c)
  BY <1>1, <1>17, OpenSpaceOpens, MakeSpaceOpens, SpaceMadeOpens
<1>18. ASSUME NEW c \in Clients, Authorize(c) PROVE Quits(c) \/ Walks(c)
  <2>1. /\ Quiet /\ job[c].pc = "authorize"
        /\ \/ Ends(c)
           \/ /\ To(c, "handle") /\ job[c].change /= "none"
              /\ job[c].route \in PlatformAdminOnly => job[c].row.role = "admin"
    BY <1>18 DEF Authorize, Allowed, Quiet, stored
  <2>. QED BY <1>1, <2>1, ToMoves, EndsStops DEF Quits, Walks, Walk, Moves
<1>19. ASSUME NEW c \in Clients, ReadTarget(c) PROVE Quits(c) \/ Aims(c)
  BY <1>1, <1>19, ReadTargetAims
<1>20. ASSUME NEW c \in Clients, CountAdmins(c) PROVE Counts(c)
  BY <1>1, <1>20, CountAdminsCounts
<1>21. ASSUME NEW c \in Clients, UpdateUser(c) PROVE Updates(c)
  BY <1>1, <1>21, UpdateUserUpdates
<1>22. ASSUME NEW c \in Clients, DeleteUser(c) PROVE Deletes(c)
  BY <1>1, <1>22, DeleteUserDeletes
<1>23. ASSUME NEW c \in Clients, ClearUserCache(c) \/ UpdateSettings(c) PROVE Quits(c)
  BY <1>1, <1>23, EndsStops DEF ClearUserCache, UpdateSettings, Quits, Quiet, stored
<1>24. ASSUME NEW c \in Clients, NEW n \in Names, RemoveMember(c, n) PROVE Quits(c)
  BY <1>1, <1>24, EndsStops DEF RemoveMember, Quits, Quiet
<1>28. ASSUME NEW c \in Clients, NEW n \in Names, FindMember(c, n) PROVE Quits(c) \/ Aims(c)
  BY <1>1, <1>28, FindMemberAims
<1>29. ASSUME NEW c \in Clients, AddMember(c) PROVE Quits(c)
  BY <1>1, <1>29, EndsStops DEF AddMember, Quits, Quiet
<1>. QED BY <1>2, <1>3, <1>4, <1>5, <1>6, <1>7, <1>8, <1>9, <1>10, <1>11, <1>12, <1>13, <1>14, <1>15, <1>16, <1>17, <1>18,
            <1>19, <1>20, <1>21, <1>22, <1>23, <1>24, <1>25, <1>26, <1>27, <1>28, <1>29, Zenon DEF Next, Effect

---------------------------------------------------------------------------
(* Each part of the invariant goes on over every effect.                     *)

(* What the types say of each row, token, request and workspace.            *)
LEMMA Typed ==
  ASSUME TypeOK
  PROVE  /\ users \in [Uids -> Rows \cup {NoOne}] /\ nextUid \in Nat /\ failures \in [Names -> Nat]
         /\ \A t \in tokens : t.uid \in Uids /\ t.uid \in Nat /\ t.name \in Names /\ t.tv \in Nat
         /\ \A d \in Clients : /\ job[d].uid \in Nat /\ job[d].target \in Nat
                               /\ job[d].uid \in 0..MaxUid /\ job[d].name \in Names /\ job[d].target \in 0..MaxUid
                               /\ job[d].row \in Rows \cup {NoOne} /\ job[d].seen \in Rows \cup {NoOne}
         /\ Len(spaces) \in Nat /\ \A k \in 1..Len(spaces) : spaces[k].by \in Uids
         /\ 0 \notin Uids /\ Uids \subseteq Nat /\ MaxUid \in Nat
<1>1. ASSUME NEW d \in Clients
      PROVE  /\ job[d].uid \in Nat /\ job[d].target \in Nat
             /\ job[d].uid \in 0..MaxUid /\ job[d].name \in Names /\ job[d].target \in 0..MaxUid
             /\ job[d].row \in Rows \cup {NoOne} /\ job[d].seen \in Rows \cup {NoOne}
  <2>1. job[d] \in Job
    BY DEF TypeOK
  <2>. QED BY <2>1 DEF Job
<1>2. \A t \in tokens : t.uid \in Uids /\ t.uid \in Nat /\ t.name \in Names /\ t.tv \in Nat
  BY DEF TypeOK, TokenType, Uids
<1>3. Len(spaces) \in Nat /\ \A k \in 1..Len(spaces) : spaces[k] \in [owner: Labels, by: Uids, late: BOOLEAN]
  BY LenProperties, ElementOfSeq DEF TypeOK
<1>4. 0 \notin Uids /\ Uids \subseteq Nat /\ MaxUid \in Nat
  BY DEF Uids
<1>. QED BY <1>1, <1>2, <1>3, <1>4 DEF TypeOK

(* A new id is nobody's.                                                     *)
LEMMA NewId ==
  ASSUME TypeOK, RowIds, TokenIds, JobIds
  PROVE  /\ nextUid \in Uids => users[nextUid] = NoOne
         /\ \A t \in tokens : t.uid /= nextUid
         /\ \A d \in Clients : job[d].uid /= nextUid /\ (job[d].pc \in {"count", "write"} => job[d].target /= nextUid)
<1>1. nextUid \in Nat
  BY DEF RowIds
<1>2. \A t \in tokens : t.uid \in Nat
  BY Typed
<1>3. \A d \in Clients : job[d].uid \in Nat /\ job[d].target \in Nat
  BY Typed
<1>4. nextUid \in Uids => users[nextUid] = NoOne
  BY <1>1 DEF RowIds, Exists
<1>5. ASSUME NEW t \in tokens PROVE t.uid /= nextUid
  BY <1>1, <1>2 DEF TokenIds
<1>6. ASSUME NEW d \in Clients
      PROVE  job[d].uid /= nextUid /\ (job[d].pc \in {"count", "write"} => job[d].target /= nextUid)
  <2>1. job[d].uid \in Nat /\ job[d].target \in Nat
    BY <1>3
  <2>2. job[d].uid < nextUid /\ (job[d].pc \in {"count", "write"} => job[d].target < nextUid)
    BY <1>1, <2>1 DEF JobIds
  <2>. QED BY <1>1, <2>1, <2>2
<1>. QED BY <1>4, <1>5, <1>6

(* An update keeps every row and its name, and a version its password.       *)
LEMMA RowsGoOn ==
  ASSUME TypeOK, NEW c \in Clients, Updates(c), NEW u \in Uids
  PROVE  /\ users[u] = NoOne <=> users'[u] = NoOne
         /\ users[u] /= NoOne =>
              /\ users'[u].name = users[u].name /\ users[u].tv \in Nat /\ users'[u].tv \in Nat
              /\ users'[u].tv > users[u].tv \/ (users'[u].tv = users[u].tv /\ users'[u].pw = users[u].pw)
<1>1. users[u] \in Rows \cup {NoOne}
  BY DEF TypeOK
<1>2. CASE u /= job[c].target \/ users[u] = NoOne
  <2>1. users'[u] = users[u]
    BY <1>2 DEF Updates, Exists
  <2>. QED BY <1>1, <2>1 DEF Rows
<1>3. CASE u = job[c].target /\ users[u] /= NoOne
  <2>1. users'[u] \in Rows /\ users'[u].name = users[u].name
        /\ (users'[u].tv > users[u].tv \/ (users'[u].tv = users[u].tv /\ users'[u].pw = users[u].pw))
    BY <1>3 DEF Updates, Exists
  <2>. QED BY <1>1, <1>3, <2>1, NoOneIsNoRow DEF Rows
<1>. QED BY <1>2, <1>3

(* What a request holds at each of its steps.                                *)
LEMMA JobsHoldStep ==
  ASSUME TypeOK, JobsHold, Effect
  PROVE  JobsHold'
<1>0. /\ users \in [Uids -> Rows \cup {NoOne}]
      /\ \A t \in tokens : t.uid \in Uids /\ t.uid \in Nat /\ t.name \in Names
      /\ \A d \in Clients : job[d].uid \in Nat /\ job[d].target \in Nat /\ job[d].uid \in 0..MaxUid /\ job[d].name \in Names /\ job[d].target \in 0..MaxUid
      /\ \A d \in Clients : job[d].row \in Rows \cup {NoOne} /\ job[d].seen \in Rows \cup {NoOne}
  BY Typed
<1>. USE DEF JobsHold, Known, Resolving
<1>1. CASE Waits
  BY <1>0, <1>1 DEF Waits
<1>2. ASSUME NEW c \in Clients, Quits(c) PROVE JobsHold'
  BY <1>0, <1>2 DEF Quits, Stops, Others, Quiet
<1>3. ASSUME NEW c \in Clients, Begins(c) PROVE JobsHold'
  BY <1>0, <1>3 DEF Begins, Others, Quiet
<1>4. ASSUME NEW c \in Clients, Requests(c) PROVE JobsHold'
  BY <1>0, <1>4 DEF Requests, Others, Quiet
<1>5. ASSUME NEW c \in Clients, Looks(c) PROVE JobsHold'
  BY <1>0, <1>5, UidOfIsAnId DEF Looks, Others, Quiet, Exists
<1>6. ASSUME NEW c \in Clients, Answers(c) PROVE JobsHold'
  BY <1>0, <1>6 DEF Answers, SignToken, Stops, Others
<1>7. ASSUME NEW c \in Clients, Adds(c) PROVE JobsHold'
  BY <1>0, <1>7 DEF Adds, Others
<1>8. ASSUME NEW c \in Clients, Walks(c) PROVE JobsHold'
  BY <1>0, <1>8 DEF Walks, Walk, Same, Others, Quiet
<1>9. ASSUME NEW c \in Clients, Rereads(c) PROVE JobsHold'
  BY <1>0, <1>9 DEF Rereads, Others, Quiet
<1>10. ASSUME NEW c \in Clients, Opens(c) PROVE JobsHold'
  BY <1>0, <1>10 DEF Opens, SignToken, Stops, Moves, Same, Others
<1>11. ASSUME NEW c \in Clients, Aims(c) PROVE JobsHold'
  BY <1>0, <1>11 DEF Aims, Others, Quiet, Exists
<1>12. ASSUME NEW c \in Clients, Counts(c) PROVE JobsHold'
  BY <1>0, <1>12 DEF Counts, Stops, Moves, Same, Others
<1>13. ASSUME NEW c \in Clients, Updates(c) PROVE JobsHold'
  BY <1>0, <1>13 DEF Updates, Moves, Same, Others
<1>14. ASSUME NEW c \in Clients, Deletes(c) PROVE JobsHold'
  BY <1>0, <1>14 DEF Deletes, Moves, Same, Others
<1>. QED BY <1>1, <1>2, <1>3, <1>4, <1>5, <1>6, <1>7, <1>8, <1>9, <1>10, <1>11, <1>12, <1>13, <1>14 DEF Effect

(* Only an administrator's request comes to a change.                        *)
LEMMA AdminsActStep ==
  ASSUME TypeOK, AdminsAct, Effect
  PROVE  AdminsAct'
<1>0. /\ \A d \in Clients : job[d].uid \in Nat /\ job[d].target \in Nat /\ job[d].uid \in 0..MaxUid /\ job[d].name \in Names /\ job[d].target \in 0..MaxUid
  BY Typed
<1>. USE DEF AdminsAct
<1>1. CASE Waits
  BY <1>0, <1>1 DEF Waits
<1>2. ASSUME NEW c \in Clients, Quits(c) PROVE AdminsAct'
  BY <1>0, <1>2 DEF Quits, Stops, Others, Quiet
<1>3. ASSUME NEW c \in Clients, Begins(c) PROVE AdminsAct'
  BY <1>0, <1>3 DEF Begins, Others, Quiet
<1>4. ASSUME NEW c \in Clients, Requests(c) PROVE AdminsAct'
  BY <1>0, <1>4, RoutesAssumption DEF Requests, Others, Quiet
<1>5. ASSUME NEW c \in Clients, Looks(c) PROVE AdminsAct'
  BY <1>0, <1>5 DEF Looks, Others, Quiet
<1>6. ASSUME NEW c \in Clients, Answers(c) PROVE AdminsAct'
  BY <1>0, <1>6 DEF Answers, SignToken, Stops, Others
<1>7. ASSUME NEW c \in Clients, Adds(c) PROVE AdminsAct'
  BY <1>0, <1>7 DEF Adds, Others
<1>8. ASSUME NEW c \in Clients, Walks(c) PROVE AdminsAct'
  BY <1>0, <1>8 DEF Walks, Walk, Same, Others, Quiet
<1>9. ASSUME NEW c \in Clients, Rereads(c) PROVE AdminsAct'
  BY <1>0, <1>9 DEF Rereads, Others, Quiet
<1>10. ASSUME NEW c \in Clients, Opens(c) PROVE AdminsAct'
  BY <1>0, <1>10 DEF Opens, SignToken, Stops, Moves, Same, Others
<1>11. ASSUME NEW c \in Clients, Aims(c) PROVE AdminsAct'
  BY <1>0, <1>11 DEF Aims, Others, Quiet
<1>12. ASSUME NEW c \in Clients, Counts(c) PROVE AdminsAct'
  BY <1>0, <1>12 DEF Counts, Stops, Moves, Same, Others
<1>13. ASSUME NEW c \in Clients, Updates(c) PROVE AdminsAct'
  BY <1>0, <1>13 DEF Updates, Moves, Same, Others
<1>14. ASSUME NEW c \in Clients, Deletes(c) PROVE AdminsAct'
  BY <1>0, <1>14 DEF Deletes, Moves, Same, Others
<1>. QED BY <1>1, <1>2, <1>3, <1>4, <1>5, <1>6, <1>7, <1>8, <1>9, <1>10, <1>11, <1>12, <1>13, <1>14 DEF Effect

(* An id is given once.                                                      *)
LEMMA RowIdsStep ==
  ASSUME TypeOK, RowIds, Effect
  PROVE  RowIds'
<1>0. /\ nextUid \in Nat
      /\ 0 \notin Uids /\ Uids \subseteq Nat
  BY Typed
<1>. USE DEF RowIds, Exists
<1>1. CASE Waits
  BY <1>0, <1>1 DEF Waits
<1>2. ASSUME NEW c \in Clients, Quits(c) PROVE RowIds'
  BY <1>0, <1>2 DEF Quits, Stops, Others, Quiet
<1>3. ASSUME NEW c \in Clients, Begins(c) PROVE RowIds'
  BY <1>0, <1>3 DEF Begins, Others, Quiet
<1>4. ASSUME NEW c \in Clients, Requests(c) PROVE RowIds'
  BY <1>0, <1>4 DEF Requests, Others, Quiet
<1>5. ASSUME NEW c \in Clients, Looks(c) PROVE RowIds'
  BY <1>0, <1>5 DEF Looks, Others, Quiet
<1>6. ASSUME NEW c \in Clients, Answers(c) PROVE RowIds'
  BY <1>0, <1>6 DEF Answers, SignToken, Stops, Others
<1>7. ASSUME NEW c \in Clients, Adds(c) PROVE RowIds'
  BY <1>0, <1>7 DEF Adds, Others
<1>8. ASSUME NEW c \in Clients, Walks(c) PROVE RowIds'
  BY <1>0, <1>8 DEF Walks, Walk, Same, Others, Quiet
<1>9. ASSUME NEW c \in Clients, Rereads(c) PROVE RowIds'
  BY <1>0, <1>9 DEF Rereads, Others, Quiet
<1>10. ASSUME NEW c \in Clients, Opens(c) PROVE RowIds'
  BY <1>0, <1>10 DEF Opens, SignToken, Stops, Moves, Same, Others
<1>11. ASSUME NEW c \in Clients, Aims(c) PROVE RowIds'
  BY <1>0, <1>11 DEF Aims, Others, Quiet
<1>12. ASSUME NEW c \in Clients, Counts(c) PROVE RowIds'
  BY <1>0, <1>12 DEF Counts, Stops, Moves, Same, Others
<1>13. ASSUME NEW c \in Clients, Updates(c) PROVE RowIds'
  BY <1>0, <1>13 DEF Updates, Moves, Same, Others
<1>14. ASSUME NEW c \in Clients, Deletes(c) PROVE RowIds'
  BY <1>0, <1>14 DEF Deletes, Moves, Same, Others
<1>. QED BY <1>1, <1>2, <1>3, <1>4, <1>5, <1>6, <1>7, <1>8, <1>9, <1>10, <1>11, <1>12, <1>13, <1>14 DEF Effect

(* A token is of an id that has been given.                                 *)
LEMMA TokenIdsStep ==
  ASSUME TypeOK, TokenIds, JobIds, JobsHold, Effect
  PROVE  TokenIds'
<1>0. /\ nextUid \in Nat
      /\ \A t \in tokens : t.uid \in Uids /\ t.uid \in Nat /\ t.name \in Names
      /\ 0 \notin Uids /\ Uids \subseteq Nat
      /\ \A d \in Clients : job[d].uid \in Nat /\ job[d].target \in Nat /\ job[d].uid \in 0..MaxUid /\ job[d].name \in Names /\ job[d].target \in 0..MaxUid
  BY Typed
<1>. USE DEF TokenIds
<1>1. CASE Waits
  BY <1>0, <1>1 DEF Waits
<1>2. ASSUME NEW c \in Clients, Quits(c) PROVE TokenIds'
  BY <1>0, <1>2 DEF Quits, Stops, Others, Quiet
<1>3. ASSUME NEW c \in Clients, Begins(c) PROVE TokenIds'
  BY <1>0, <1>3 DEF Begins, Others, Quiet
<1>4. ASSUME NEW c \in Clients, Requests(c) PROVE TokenIds'
  BY <1>0, <1>4 DEF Requests, Others, Quiet
<1>5. ASSUME NEW c \in Clients, Looks(c) PROVE TokenIds'
  BY <1>0, <1>5 DEF Looks, Others, Quiet
<1>6. ASSUME NEW c \in Clients, Answers(c) PROVE TokenIds'
  <2>1. /\ UNCHANGED nextUid /\ job[c].pc = "verify"
        /\ \/ tokens' = tokens
           \/ job[c].row /= NoOne /\ tokens' = tokens \cup {[uid |-> job[c].uid, name |-> job[c].row.name, tv |-> job[c].row.tv, pw |-> job[c].row.pw]}
    BY <1>6, NoOneIsNoRow DEF Answers, SignToken, JobsHold, Known, Resolving
  <2>2. job[c].uid < nextUid
    BY <1>0 DEF JobIds
  <2>3. ASSUME NEW t \in tokens' PROVE t \in tokens \/ t.uid = job[c].uid
    BY <2>1
  <2>. QED BY <2>1, <2>2, <2>3
<1>7. ASSUME NEW c \in Clients, Adds(c) PROVE TokenIds'
  <2>1. UNCHANGED tokens /\ nextUid' = nextUid + 1 /\ \A u \in Uids : u /= nextUid => users'[u] = users[u]
    BY <1>7 DEF Adds
  <2>. QED BY <1>0, <2>1
<1>8. ASSUME NEW c \in Clients, Walks(c) PROVE TokenIds'
  BY <1>0, <1>8 DEF Walks, Walk, Same, Others, Quiet
<1>9. ASSUME NEW c \in Clients, Rereads(c) PROVE TokenIds'
  BY <1>0, <1>9 DEF Rereads, Others, Quiet
<1>10. ASSUME NEW c \in Clients, Opens(c) PROVE TokenIds'
  <2>1. /\ UNCHANGED nextUid /\ job[c].pc \in {"open", "make", "made"}
        /\ \/ tokens' = tokens
           \/ job[c].row /= NoOne /\ job[c].route = "none" /\ tokens' = tokens \cup {[uid |-> job[c].uid, name |-> job[c].row.name, tv |-> job[c].row.tv, pw |-> job[c].row.pw]}
    BY <1>10, NoOneIsNoRow DEF Opens, SignToken, JobsHold, Known, Resolving
  <2>2. job[c].uid < nextUid
    BY <1>0 DEF JobIds
  <2>3. ASSUME NEW t \in tokens' PROVE t \in tokens \/ t.uid = job[c].uid
    BY <2>1
  <2>. QED BY <2>1, <2>2, <2>3
<1>11. ASSUME NEW c \in Clients, Aims(c) PROVE TokenIds'
  BY <1>0, <1>11 DEF Aims, Others, Quiet
<1>12. ASSUME NEW c \in Clients, Counts(c) PROVE TokenIds'
  BY <1>0, <1>12 DEF Counts, Stops, Moves, Same, Others
<1>13. ASSUME NEW c \in Clients, Updates(c) PROVE TokenIds'
  BY <1>0, <1>13 DEF Updates, Moves, Same, Others
<1>14. ASSUME NEW c \in Clients, Deletes(c) PROVE TokenIds'
  BY <1>0, <1>14 DEF Deletes, Moves, Same, Others
<1>. QED BY <1>1, <1>2, <1>3, <1>4, <1>5, <1>6, <1>7, <1>8, <1>9, <1>10, <1>11, <1>12, <1>13, <1>14 DEF Effect

(* A request is of, and about, ids that have been given.                    *)
LEMMA JobIdsStep ==
  ASSUME TypeOK, JobIds, RowIds, TokenIds, Effect
  PROVE  JobIds'
<1>0. /\ nextUid \in Nat
      /\ \A t \in tokens : t.uid \in Uids /\ t.uid \in Nat /\ t.name \in Names
      /\ 0 \notin Uids /\ Uids \subseteq Nat
      /\ \A d \in Clients : job[d].uid \in Nat /\ job[d].target \in Nat /\ job[d].uid \in 0..MaxUid /\ job[d].name \in Names /\ job[d].target \in 0..MaxUid
  BY Typed
<1>. USE DEF JobIds
<1>1. CASE Waits
  BY <1>0, <1>1 DEF Waits
<1>2. ASSUME NEW c \in Clients, Quits(c) PROVE JobIds'
  BY <1>0, <1>2 DEF Quits, Stops, Others, Quiet
<1>3. ASSUME NEW c \in Clients, Begins(c) PROVE JobIds'
  BY <1>0, <1>3 DEF Begins, Others, Quiet
<1>4. ASSUME NEW c \in Clients, Requests(c) PROVE JobIds'
  BY <1>0, <1>4 DEF Requests, Others, Quiet, TokenIds
<1>5. ASSUME NEW c \in Clients, Looks(c) PROVE JobIds'
  BY <1>0, <1>5, UidOfIsAnId DEF Looks, Others, Quiet, Exists, RowIds
<1>6. ASSUME NEW c \in Clients, Answers(c) PROVE JobIds'
  BY <1>0, <1>6 DEF Answers, SignToken, Stops, Others
<1>7. ASSUME NEW c \in Clients, Adds(c) PROVE JobIds'
  <2>1. /\ Others(c) /\ nextUid \in Uids /\ nextUid' = nextUid + 1 /\ job'[c].uid = nextUid
        /\ job'[c].pc \in {"record", "open"}
    BY <1>7 DEF Adds
  <2>2. ASSUME NEW d \in Clients, d /= c
        PROVE  job'[d].uid < nextUid' /\ (job'[d].pc \in {"count", "write"} => job'[d].target < nextUid')
    <3>1. job'[d] = job[d] /\ job[d].uid \in Nat /\ job[d].target \in Nat
      BY <1>0, <2>1, <2>2 DEF Others
    <3>2. job[d].uid < nextUid /\ (job[d].pc \in {"count", "write"} => job[d].target < nextUid)
      BY <1>0, <3>1
    <3>. QED BY <1>0, <2>1, <3>1, <3>2
  <2>3. job'[c].uid < nextUid' /\ job'[c].pc \notin {"count", "write"}
    BY <1>0, <2>1
  <2>. QED BY <2>2, <2>3
<1>8. ASSUME NEW c \in Clients, Walks(c) PROVE JobIds'
  BY <1>0, <1>8 DEF Walks, Walk, Same, Others, Quiet
<1>9. ASSUME NEW c \in Clients, Rereads(c) PROVE JobIds'
  BY <1>0, <1>9 DEF Rereads, Others, Quiet
<1>10. ASSUME NEW c \in Clients, Opens(c) PROVE JobIds'
  BY <1>0, <1>10 DEF Opens, SignToken, Stops, Moves, Same, Others
<1>11. ASSUME NEW c \in Clients, Aims(c) PROVE JobIds'
  BY <1>0, <1>11 DEF Aims, Others, Quiet, Exists, RowIds
<1>12. ASSUME NEW c \in Clients, Counts(c) PROVE JobIds'
  BY <1>0, <1>12 DEF Counts, Stops, Moves, Same, Others
<1>13. ASSUME NEW c \in Clients, Updates(c) PROVE JobIds'
  BY <1>0, <1>13 DEF Updates, Moves, Same, Others
<1>14. ASSUME NEW c \in Clients, Deletes(c) PROVE JobIds'
  BY <1>0, <1>14 DEF Deletes, Moves, Same, Others
<1>. QED BY <1>1, <1>2, <1>3, <1>4, <1>5, <1>6, <1>7, <1>8, <1>9, <1>10, <1>11, <1>12, <1>13, <1>14 DEF Effect

(* A name has one row: a new row's name had none.                           *)
LEMMA OneRowPerNameStep ==
  ASSUME TypeOK, OneRowPerName, Effect
  PROVE  OneRowPerName'
<1>0. /\ users \in [Uids -> Rows \cup {NoOne}]
      /\ 0 \notin Uids
      /\ \A d \in Clients : job[d].name \in Names
  BY Typed
<1>. USE DEF OneRowPerName, Exists
<1>1. CASE Waits
  BY <1>0, <1>1 DEF Waits
<1>2. ASSUME NEW c \in Clients, Quits(c) PROVE OneRowPerName'
  BY <1>0, <1>2 DEF Quits, Stops, Others, Quiet
<1>3. ASSUME NEW c \in Clients, Begins(c) PROVE OneRowPerName'
  BY <1>0, <1>3 DEF Begins, Others, Quiet
<1>4. ASSUME NEW c \in Clients, Requests(c) PROVE OneRowPerName'
  BY <1>0, <1>4 DEF Requests, Others, Quiet
<1>5. ASSUME NEW c \in Clients, Looks(c) PROVE OneRowPerName'
  BY <1>0, <1>5 DEF Looks, Others, Quiet
<1>6. ASSUME NEW c \in Clients, Answers(c) PROVE OneRowPerName'
  BY <1>0, <1>6 DEF Answers, SignToken, Stops, Others
<1>7. ASSUME NEW c \in Clients, Adds(c) PROVE OneRowPerName'
  <2>1. /\ nextUid \in Uids /\ users'[nextUid] = job'[c].row /\ job'[c].row \in Rows /\ job'[c].row.name = job'[c].name
        /\ UidOf(job'[c].name) = 0 /\ \A u \in Uids : u /= nextUid => users'[u] = users[u]
    BY <1>7 DEF Adds
  <2>2. job'[c].name \in Names
    BY <2>1 DEF Rows
  <2>3. \A u \in Uids : users[u] /= NoOne => users[u].name /= job'[c].name
    BY <2>1, <2>2, UidOfIsAnId
  <2>. QED BY <2>1, <2>3
<1>8. ASSUME NEW c \in Clients, Walks(c) PROVE OneRowPerName'
  BY <1>0, <1>8 DEF Walks, Walk, Same, Others, Quiet
<1>9. ASSUME NEW c \in Clients, Rereads(c) PROVE OneRowPerName'
  BY <1>0, <1>9 DEF Rereads, Others, Quiet
<1>10. ASSUME NEW c \in Clients, Opens(c) PROVE OneRowPerName'
  BY <1>0, <1>10 DEF Opens, SignToken, Stops, Moves, Same, Others
<1>11. ASSUME NEW c \in Clients, Aims(c) PROVE OneRowPerName'
  BY <1>0, <1>11 DEF Aims, Others, Quiet
<1>12. ASSUME NEW c \in Clients, Counts(c) PROVE OneRowPerName'
  BY <1>0, <1>12 DEF Counts, Stops, Moves, Same, Others
<1>13. ASSUME NEW c \in Clients, Updates(c) PROVE OneRowPerName'
  <2>1. UNCHANGED <<tokens, nextUid, spaces>> /\ Moves(c, "clear")
    BY <1>13 DEF Updates
  <2>. QED BY <1>0, <2>1, <1>13, RowsGoOn DEF Moves, Same, Others
<1>14. ASSUME NEW c \in Clients, Deletes(c) PROVE OneRowPerName'
  BY <1>0, <1>14 DEF Deletes, Moves, Same, Others
<1>. QED BY <1>1, <1>2, <1>3, <1>4, <1>5, <1>6, <1>7, <1>8, <1>9, <1>10, <1>11, <1>12, <1>13, <1>14 DEF Effect

(* A token goes by the name of its account's row.                           *)
LEMMA TokenNamesStep ==
  ASSUME TypeOK, TokenNames, RowIds, TokenIds, JobIds, JobNames, HeldNames, JobsHold, Effect
  PROVE  TokenNames'
<1>0. /\ users \in [Uids -> Rows \cup {NoOne}]
      /\ \A t \in tokens : t.uid \in Uids /\ t.uid \in Nat /\ t.name \in Names
      /\ 0 \notin Uids /\ Uids \subseteq Nat
      /\ nextUid \in Nat
  BY Typed
<1>. USE DEF TokenNames, Exists
<1>1. CASE Waits
  BY <1>0, <1>1 DEF Waits
<1>2. ASSUME NEW c \in Clients, Quits(c) PROVE TokenNames'
  BY <1>0, <1>2 DEF Quits, Stops, Others, Quiet
<1>3. ASSUME NEW c \in Clients, Begins(c) PROVE TokenNames'
  BY <1>0, <1>3 DEF Begins, Others, Quiet
<1>4. ASSUME NEW c \in Clients, Requests(c) PROVE TokenNames'
  BY <1>0, <1>4 DEF Requests, Others, Quiet
<1>5. ASSUME NEW c \in Clients, Looks(c) PROVE TokenNames'
  BY <1>0, <1>5 DEF Looks, Others, Quiet
<1>6. ASSUME NEW c \in Clients, Answers(c) PROVE TokenNames'
  BY <1>0, <1>6 DEF Answers, SignToken, Stops, Others, JobNames, HeldNames, WillSign, Resolving
<1>7. ASSUME NEW c \in Clients, Adds(c) PROVE TokenNames'
  BY <1>0, <1>7, NewId DEF Adds, Others
<1>8. ASSUME NEW c \in Clients, Walks(c) PROVE TokenNames'
  BY <1>0, <1>8 DEF Walks, Walk, Same, Others, Quiet
<1>9. ASSUME NEW c \in Clients, Rereads(c) PROVE TokenNames'
  BY <1>0, <1>9 DEF Rereads, Others, Quiet
<1>10. ASSUME NEW c \in Clients, Opens(c) PROVE TokenNames'
  BY <1>0, <1>10 DEF Opens, SignToken, Stops, Moves, Same, Others, JobNames, HeldNames, WillSign, Resolving
<1>11. ASSUME NEW c \in Clients, Aims(c) PROVE TokenNames'
  BY <1>0, <1>11 DEF Aims, Others, Quiet
<1>12. ASSUME NEW c \in Clients, Counts(c) PROVE TokenNames'
  BY <1>0, <1>12 DEF Counts, Stops, Moves, Same, Others
<1>13. ASSUME NEW c \in Clients, Updates(c) PROVE TokenNames'
  <2>1. UNCHANGED <<tokens, nextUid, spaces>> /\ Moves(c, "clear")
    BY <1>13 DEF Updates
  <2>. QED BY <1>0, <2>1, <1>13, RowsGoOn DEF Moves, Same, Others
<1>14. ASSUME NEW c \in Clients, Deletes(c) PROVE TokenNames'
  BY <1>0, <1>14 DEF Deletes, Moves, Same, Others
<1>. QED BY <1>1, <1>2, <1>3, <1>4, <1>5, <1>6, <1>7, <1>8, <1>9, <1>10, <1>11, <1>12, <1>13, <1>14 DEF Effect

(* A request goes by the name of its account's row.                         *)
LEMMA JobNamesStep ==
  ASSUME TypeOK, JobNames, TokenNames, RowIds, TokenIds, JobIds, Effect
  PROVE  JobNames'
<1>0. /\ users \in [Uids -> Rows \cup {NoOne}]
      /\ 0 \notin Uids /\ Uids \subseteq Nat
      /\ \A d \in Clients : job[d].uid \in Nat /\ job[d].target \in Nat /\ job[d].uid \in 0..MaxUid /\ job[d].name \in Names /\ job[d].target \in 0..MaxUid
      /\ nextUid \in Nat
  BY Typed
<1>. USE DEF JobNames, Exists
<1>1. CASE Waits
  BY <1>0, <1>1 DEF Waits
<1>2. ASSUME NEW c \in Clients, Quits(c) PROVE JobNames'
  BY <1>0, <1>2 DEF Quits, Stops, Others, Quiet
<1>3. ASSUME NEW c \in Clients, Begins(c) PROVE JobNames'
  BY <1>0, <1>3 DEF Begins, Others, Quiet
<1>4. ASSUME NEW c \in Clients, Requests(c) PROVE JobNames'
  BY <1>0, <1>4 DEF Requests, Others, Quiet, TokenNames
<1>5. ASSUME NEW c \in Clients, Looks(c) PROVE JobNames'
  BY <1>0, <1>5, UidOfIsAnId DEF Looks, Others, Quiet
<1>6. ASSUME NEW c \in Clients, Answers(c) PROVE JobNames'
  BY <1>0, <1>6 DEF Answers, SignToken, Stops, Others
<1>7. ASSUME NEW c \in Clients, Adds(c) PROVE JobNames'
  BY <1>0, <1>7, NewId DEF Adds, Others
<1>8. ASSUME NEW c \in Clients, Walks(c) PROVE JobNames'
  BY <1>0, <1>8 DEF Walks, Walk, Same, Others, Quiet
<1>9. ASSUME NEW c \in Clients, Rereads(c) PROVE JobNames'
  BY <1>0, <1>9 DEF Rereads, Others, Quiet
<1>10. ASSUME NEW c \in Clients, Opens(c) PROVE JobNames'
  BY <1>0, <1>10 DEF Opens, SignToken, Stops, Moves, Same, Others
<1>11. ASSUME NEW c \in Clients, Aims(c) PROVE JobNames'
  BY <1>0, <1>11 DEF Aims, Others, Quiet
<1>12. ASSUME NEW c \in Clients, Counts(c) PROVE JobNames'
  BY <1>0, <1>12 DEF Counts, Stops, Moves, Same, Others
<1>13. ASSUME NEW c \in Clients, Updates(c) PROVE JobNames'
  <2>1. UNCHANGED <<tokens, nextUid, spaces>> /\ Moves(c, "clear")
    BY <1>13 DEF Updates
  <2>. QED BY <1>0, <2>1, <1>13, RowsGoOn DEF Moves, Same, Others
<1>14. ASSUME NEW c \in Clients, Deletes(c) PROVE JobNames'
  BY <1>0, <1>14 DEF Deletes, Moves, Same, Others
<1>. QED BY <1>1, <1>2, <1>3, <1>4, <1>5, <1>6, <1>7, <1>8, <1>9, <1>10, <1>11, <1>12, <1>13, <1>14 DEF Effect

(* The row a sign-in holds is of the name it was asked with.                *)
LEMMA HeldNamesStep ==
  ASSUME TypeOK, HeldNames, AdminsAct, Effect
  PROVE  HeldNames'
<1>0. /\ users \in [Uids -> Rows \cup {NoOne}]
      /\ \A d \in Clients : job[d].name \in Names
  BY Typed
<1>. USE DEF HeldNames, WillSign, Resolving
<1>1. CASE Waits
  BY <1>0, <1>1 DEF Waits
<1>2. ASSUME NEW c \in Clients, Quits(c) PROVE HeldNames'
  BY <1>0, <1>2 DEF Quits, Stops, Others, Quiet
<1>3. ASSUME NEW c \in Clients, Begins(c) PROVE HeldNames'
  BY <1>0, <1>3 DEF Begins, Others, Quiet
<1>4. ASSUME NEW c \in Clients, Requests(c) PROVE HeldNames'
  BY <1>0, <1>4 DEF Requests, Others, Quiet
<1>5. ASSUME NEW c \in Clients, Looks(c) PROVE HeldNames'
  BY <1>0, <1>5, UidOfIsAnId DEF Looks, Others, Quiet, Exists
<1>6. ASSUME NEW c \in Clients, Answers(c) PROVE HeldNames'
  BY <1>0, <1>6 DEF Answers, SignToken, Stops, Others
<1>7. ASSUME NEW c \in Clients, Adds(c) PROVE HeldNames'
  BY <1>0, <1>7 DEF Adds, Others
<1>8. ASSUME NEW c \in Clients, Walks(c) PROVE HeldNames'
  BY <1>0, <1>8 DEF Walks, Walk, Same, Others, Quiet, AdminsAct
<1>9. ASSUME NEW c \in Clients, Rereads(c) PROVE HeldNames'
  BY <1>0, <1>9 DEF Rereads, Others, Quiet
<1>10. ASSUME NEW c \in Clients, Opens(c) PROVE HeldNames'
  BY <1>0, <1>10 DEF Opens, SignToken, Stops, Moves, Same, Others
<1>11. ASSUME NEW c \in Clients, Aims(c) PROVE HeldNames'
  BY <1>0, <1>11 DEF Aims, Others, Quiet
<1>12. ASSUME NEW c \in Clients, Counts(c) PROVE HeldNames'
  BY <1>0, <1>12 DEF Counts, Stops, Moves, Same, Others
<1>13. ASSUME NEW c \in Clients, Updates(c) PROVE HeldNames'
  BY <1>0, <1>13 DEF Updates, Moves, Same, Others
<1>14. ASSUME NEW c \in Clients, Deletes(c) PROVE HeldNames'
  BY <1>0, <1>14 DEF Deletes, Moves, Same, Others
<1>. QED BY <1>1, <1>2, <1>3, <1>4, <1>5, <1>6, <1>7, <1>8, <1>9, <1>10, <1>11, <1>12, <1>13, <1>14 DEF Effect

(* A change is still about the account whose row it read.                   *)
LEMMA TargetNamesStep ==
  ASSUME TypeOK, TargetNames, JobsHold, RowIds, TokenIds, JobIds, Effect
  PROVE  TargetNames'
<1>0. /\ users \in [Uids -> Rows \cup {NoOne}]
      /\ nextUid \in Nat
  BY Typed
<1>. USE DEF TargetNames, Exists
<1>1. CASE Waits
  BY <1>0, <1>1 DEF Waits
<1>2. ASSUME NEW c \in Clients, Quits(c) PROVE TargetNames'
  BY <1>0, <1>2 DEF Quits, Stops, Others, Quiet
<1>3. ASSUME NEW c \in Clients, Begins(c) PROVE TargetNames'
  BY <1>0, <1>3 DEF Begins, Others, Quiet
<1>4. ASSUME NEW c \in Clients, Requests(c) PROVE TargetNames'
  BY <1>0, <1>4 DEF Requests, Others, Quiet
<1>5. ASSUME NEW c \in Clients, Looks(c) PROVE TargetNames'
  BY <1>0, <1>5 DEF Looks, Others, Quiet
<1>6. ASSUME NEW c \in Clients, Answers(c) PROVE TargetNames'
  BY <1>0, <1>6 DEF Answers, SignToken, Stops, Others
<1>7. ASSUME NEW c \in Clients, Adds(c) PROVE TargetNames'
  <2>1. /\ \A u \in Uids : u /= nextUid => users'[u] = users[u]
        /\ job'[c].pc \in {"record", "open"} /\ \A d \in Clients : d /= c => job'[d] = job[d]
    BY <1>7 DEF Adds, Others
  <2>2. \A d \in Clients : job[d].pc \in {"count", "write"} => job[d].target /= nextUid
    BY NewId
  <2>. QED BY <2>1, <2>2
<1>8. ASSUME NEW c \in Clients, Walks(c) PROVE TargetNames'
  BY <1>0, <1>8 DEF Walks, Walk, Same, Others, Quiet
<1>9. ASSUME NEW c \in Clients, Rereads(c) PROVE TargetNames'
  BY <1>0, <1>9 DEF Rereads, Others, Quiet
<1>10. ASSUME NEW c \in Clients, Opens(c) PROVE TargetNames'
  BY <1>0, <1>10 DEF Opens, SignToken, Stops, Moves, Same, Others
<1>11. ASSUME NEW c \in Clients, Aims(c) PROVE TargetNames'
  BY <1>0, <1>11 DEF Aims, Others, Quiet
<1>12. ASSUME NEW c \in Clients, Counts(c) PROVE TargetNames'
  BY <1>0, <1>12 DEF Counts, Stops, Moves, Same, Others
<1>13. ASSUME NEW c \in Clients, Updates(c) PROVE TargetNames'
  <2>1. UNCHANGED <<tokens, nextUid, spaces>> /\ Moves(c, "clear")
    BY <1>13 DEF Updates
  <2>. QED BY <1>0, <2>1, <1>13, RowsGoOn DEF Moves, Same, Others
<1>14. ASSUME NEW c \in Clients, Deletes(c) PROVE TargetNames'
  BY <1>0, <1>14 DEF Deletes, Moves, Same, Others
<1>. QED BY <1>1, <1>2, <1>3, <1>4, <1>5, <1>6, <1>7, <1>8, <1>9, <1>10, <1>11, <1>12, <1>13, <1>14 DEF Effect

(* A token is of an earlier version of its row, or of its password.         *)
LEMMA TokensMatchStep ==
  ASSUME TypeOK, TokensMatch, RowIds, TokenIds, JobIds, JobsMatch, JobsHold, Effect
  PROVE  TokensMatch'
<1>0. /\ users \in [Uids -> Rows \cup {NoOne}]
      /\ \A t \in tokens : t.uid \in Uids /\ t.tv \in Nat
      /\ nextUid \in Nat
  BY Typed
<1>. USE DEF TokensMatch, Matches, Exists
<1>1. CASE Waits
  BY <1>0, <1>1 DEF Waits
<1>2. ASSUME NEW c \in Clients, Quits(c) PROVE TokensMatch'
  BY <1>0, <1>2 DEF Quits, Stops, Others, Quiet
<1>3. ASSUME NEW c \in Clients, Begins(c) PROVE TokensMatch'
  BY <1>0, <1>3 DEF Begins, Others, Quiet
<1>4. ASSUME NEW c \in Clients, Requests(c) PROVE TokensMatch'
  BY <1>0, <1>4 DEF Requests, Others, Quiet
<1>5. ASSUME NEW c \in Clients, Looks(c) PROVE TokensMatch'
  BY <1>0, <1>5 DEF Looks, Others, Quiet
<1>6. ASSUME NEW c \in Clients, Answers(c) PROVE TokensMatch'
  BY <1>0, <1>6 DEF Answers, SignToken, Stops, Others, JobsMatch, WillSign, Resolving
<1>7. ASSUME NEW c \in Clients, Adds(c) PROVE TokensMatch'
  BY <1>0, <1>7, NewId DEF Adds, Others
<1>8. ASSUME NEW c \in Clients, Walks(c) PROVE TokensMatch'
  BY <1>0, <1>8 DEF Walks, Walk, Same, Others, Quiet
<1>9. ASSUME NEW c \in Clients, Rereads(c) PROVE TokensMatch'
  BY <1>0, <1>9 DEF Rereads, Others, Quiet
<1>10. ASSUME NEW c \in Clients, Opens(c) PROVE TokensMatch'
  BY <1>0, <1>10 DEF Opens, SignToken, Stops, Moves, Same, Others, JobsMatch, WillSign, Resolving
<1>11. ASSUME NEW c \in Clients, Aims(c) PROVE TokensMatch'
  BY <1>0, <1>11 DEF Aims, Others, Quiet
<1>12. ASSUME NEW c \in Clients, Counts(c) PROVE TokensMatch'
  BY <1>0, <1>12 DEF Counts, Stops, Moves, Same, Others
<1>13. ASSUME NEW c \in Clients, Updates(c) PROVE TokensMatch'
  <2>1. UNCHANGED <<tokens, nextUid, spaces>> /\ Moves(c, "clear")
    BY <1>13 DEF Updates
  <2>. QED BY <1>0, <2>1, <1>13, RowsGoOn DEF Moves, Same, Others
<1>14. ASSUME NEW c \in Clients, Deletes(c) PROVE TokensMatch'
  BY <1>0, <1>14 DEF Deletes, Moves, Same, Others
<1>. QED BY <1>1, <1>2, <1>3, <1>4, <1>5, <1>6, <1>7, <1>8, <1>9, <1>10, <1>11, <1>12, <1>13, <1>14 DEF Effect

(* So is the row that a login or a registration will sign.                  *)
LEMMA JobsMatchStep ==
  ASSUME TypeOK, JobsMatch, RowIds, TokenIds, JobIds, JobsHold, AdminsAct, Effect
  PROVE  JobsMatch'
<1>0. /\ users \in [Uids -> Rows \cup {NoOne}]
      /\ \A d \in Clients : job[d].row \in Rows \cup {NoOne} /\ job[d].seen \in Rows \cup {NoOne}
      /\ nextUid \in Nat
  BY Typed
<1>. USE DEF JobsMatch, Matches, Exists, WillSign, Resolving
<1>1. CASE Waits
  BY <1>0, <1>1 DEF Waits
<1>2. ASSUME NEW c \in Clients, Quits(c) PROVE JobsMatch'
  BY <1>0, <1>2 DEF Quits, Stops, Others, Quiet
<1>3. ASSUME NEW c \in Clients, Begins(c) PROVE JobsMatch'
  BY <1>0, <1>3 DEF Begins, Others, Quiet
<1>4. ASSUME NEW c \in Clients, Requests(c) PROVE JobsMatch'
  BY <1>0, <1>4 DEF Requests, Others, Quiet
<1>5. ASSUME NEW c \in Clients, Looks(c) PROVE JobsMatch'
  BY <1>0, <1>5, UidOfIsAnId DEF Looks, Others, Quiet
<1>6. ASSUME NEW c \in Clients, Answers(c) PROVE JobsMatch'
  BY <1>0, <1>6 DEF Answers, SignToken, Stops, Others
<1>7. ASSUME NEW c \in Clients, Adds(c) PROVE JobsMatch'
  <2>1. /\ nextUid \in Uids /\ job'[c].row.tv = 0 /\ job'[c].row.pw = 0 /\ users'[nextUid] = job'[c].row /\ job'[c].uid = nextUid
        /\ \A u \in Uids : u /= nextUid => users'[u] = users[u]
        /\ \A d \in Clients : d /= c => job'[d] = job[d]
    BY <1>7 DEF Adds, Others
  <2>2. \A d \in Clients : job[d].uid /= nextUid
    BY NewId
  <2>. QED BY <2>1, <2>2
<1>8. ASSUME NEW c \in Clients, Walks(c) PROVE JobsMatch'
  BY <1>0, <1>8 DEF Walks, Walk, Same, Others, Quiet, AdminsAct
<1>9. ASSUME NEW c \in Clients, Rereads(c) PROVE JobsMatch'
  BY <1>0, <1>9 DEF Rereads, Others, Quiet
<1>10. ASSUME NEW c \in Clients, Opens(c) PROVE JobsMatch'
  BY <1>0, <1>10 DEF Opens, SignToken, Stops, Moves, Same, Others
<1>11. ASSUME NEW c \in Clients, Aims(c) PROVE JobsMatch'
  BY <1>0, <1>11 DEF Aims, Others, Quiet
<1>12. ASSUME NEW c \in Clients, Counts(c) PROVE JobsMatch'
  BY <1>0, <1>12 DEF Counts, Stops, Moves, Same, Others
<1>13. ASSUME NEW c \in Clients, Updates(c) PROVE JobsMatch'
  <2>1. UNCHANGED nextUid /\ Moves(c, "clear")
    BY <1>13 DEF Updates
  <2>2. SUFFICES ASSUME NEW d \in Clients, WillSign(d)', job'[d].uid \in Uids, users'[job'[d].uid] /= NoOne
                 PROVE  LET r == job'[d].row
                            w == users'[job'[d].uid]
                        IN  r.tv < w.tv \/ (r.tv = w.tv /\ r.pw = w.pw)
    OBVIOUS
  <2>3. d /= c /\ job'[d] = job[d] /\ WillSign(d)
    BY <2>1, <2>2 DEF Moves, Same, Others
  <2>4. job[d].row \in Rows
    BY <1>0, <2>3 DEF JobsHold, Known, Resolving
  <2>5. job[d].row.tv \in Nat
    BY <2>4 DEF Rows
  <2>. DEFINE u == job[d].uid
  <2>6. u \in Uids /\ users[u] /= NoOne /\ users'[u].tv \in Nat /\ users[u].tv \in Nat
        /\ (users'[u].tv > users[u].tv \/ (users'[u].tv = users[u].tv /\ users'[u].pw = users[u].pw))
    BY <2>2, <2>3, <1>13, RowsGoOn
  <2>7. job[d].row.tv < users[u].tv \/ (job[d].row.tv = users[u].tv /\ job[d].row.pw = users[u].pw)
    BY <2>3, <2>6
  <2>. QED BY <2>3, <2>5, <2>6, <2>7
<1>14. ASSUME NEW c \in Clients, Deletes(c) PROVE JobsMatch'
  BY <1>0, <1>14 DEF Deletes, Moves, Same, Others
<1>. QED BY <1>1, <1>2, <1>3, <1>4, <1>5, <1>6, <1>7, <1>8, <1>9, <1>10, <1>11, <1>12, <1>13, <1>14 DEF Effect

(* A workspace goes by its account's name while there is that account.      *)
LEMMA SpacesKeepOwnersStep ==
  ASSUME TypeOK, SpacesKeepOwners, JobNames, RowIds, TokenIds, JobIds, TargetNames, JobsHold, Effect
  PROVE  SpacesKeepOwners'
<1>0. /\ users \in [Uids -> Rows \cup {NoOne}]
      /\ Len(spaces) \in Nat /\ \A k \in 1..Len(spaces) : spaces[k].by \in Uids
      /\ 0 \notin Uids /\ Uids \subseteq Nat
      /\ nextUid \in Nat
  BY Typed
<1>. USE DEF SpacesKeepOwners, Exists
<1>1. CASE Waits
  BY <1>0, <1>1 DEF Waits
<1>2. ASSUME NEW c \in Clients, Quits(c) PROVE SpacesKeepOwners'
  BY <1>0, <1>2 DEF Quits, Stops, Others, Quiet
<1>3. ASSUME NEW c \in Clients, Begins(c) PROVE SpacesKeepOwners'
  BY <1>0, <1>3 DEF Begins, Others, Quiet
<1>4. ASSUME NEW c \in Clients, Requests(c) PROVE SpacesKeepOwners'
  BY <1>0, <1>4 DEF Requests, Others, Quiet
<1>5. ASSUME NEW c \in Clients, Looks(c) PROVE SpacesKeepOwners'
  BY <1>0, <1>5 DEF Looks, Others, Quiet
<1>6. ASSUME NEW c \in Clients, Answers(c) PROVE SpacesKeepOwners'
  BY <1>0, <1>6 DEF Answers, SignToken, Stops, Others
<1>7. ASSUME NEW c \in Clients, Adds(c) PROVE SpacesKeepOwners'
  <2>1. /\ UNCHANGED spaces /\ nextUid \in Uids
        /\ \A u \in Uids : u /= nextUid => users'[u] = users[u]
    BY <1>7 DEF Adds
  <2>2. SUFFICES ASSUME NEW k \in 1..Len(spaces'), NEW n \in Names, spaces'[k].owner = Live(n), ~spaces'[k].late
                 PROVE  spaces'[k].by \in Uids /\ users'[spaces'[k].by] /= NoOne /\ users'[spaces'[k].by].name = n
    OBVIOUS
  <2>3. users[nextUid] = NoOne
    BY <2>1, NewId
  <2>4. spaces[k].by \in Uids /\ users[spaces[k].by] /= NoOne /\ users[spaces[k].by].name = n
    BY <2>1, <2>2
  <2>. QED BY <2>1, <2>3, <2>4
<1>8. ASSUME NEW c \in Clients, Walks(c) PROVE SpacesKeepOwners'
  BY <1>0, <1>8 DEF Walks, Walk, Same, Others, Quiet
<1>9. ASSUME NEW c \in Clients, Rereads(c) PROVE SpacesKeepOwners'
  BY <1>0, <1>9 DEF Rereads, Others, Quiet
<1>10. ASSUME NEW c \in Clients, Opens(c) PROVE SpacesKeepOwners'
  <2>. DEFINE gone == ~Exists(job[c].uid)
              s == [owner |-> Live(job[c].name), by |-> job[c].uid, late |-> gone]
  <2>1. /\ UNCHANGED users
        /\ \/ UNCHANGED spaces
           \/ /\ Len(spaces') = Len(spaces) + 1 /\ \A k \in 1..Len(spaces) : spaces'[k] = spaces[k]
              /\ spaces'[Len(spaces) + 1] = s
    BY <1>10 DEF Opens
  <2>2. SUFFICES ASSUME NEW k \in 1..Len(spaces'), NEW n \in Names, spaces'[k].owner = Live(n), ~spaces'[k].late
                 PROVE  spaces'[k].by \in Uids /\ users'[spaces'[k].by] /= NoOne /\ users'[spaces'[k].by].name = n
    OBVIOUS
  <2>3. CASE k \in 1..Len(spaces) /\ spaces'[k] = spaces[k]
    BY <2>1, <2>2, <2>3
  <2>4. CASE k = Len(spaces) + 1 /\ spaces'[k] = s
    <3>. HIDE DEF gone
    <3>3. spaces'[k].owner = Live(job[c].name) /\ spaces'[k].by = job[c].uid /\ spaces'[k].late = gone
      BY <2>4
    <3>4. ~gone
      BY <2>2, <3>3, Zenon
    <3>5. job[c].uid \in Uids /\ users[job[c].uid] /= NoOne
      BY <3>4 DEF gone
    <3>1. n = job[c].name /\ Exists(job[c].uid) /\ spaces'[k].by = job[c].uid
      BY <2>2, <3>3, <3>5 DEF Live
    <3>2. users[job[c].uid].name = n
      BY <3>1 DEF JobNames
    <3>. QED BY <2>1, <3>1, <3>2
  <2>. QED BY <1>0, <2>1, <2>2, <2>3, <2>4
<1>11. ASSUME NEW c \in Clients, Aims(c) PROVE SpacesKeepOwners'
  BY <1>0, <1>11 DEF Aims, Others, Quiet
<1>12. ASSUME NEW c \in Clients, Counts(c) PROVE SpacesKeepOwners'
  BY <1>0, <1>12 DEF Counts, Stops, Moves, Same, Others
<1>13. ASSUME NEW c \in Clients, Updates(c) PROVE SpacesKeepOwners'
  <2>1. UNCHANGED <<tokens, nextUid, spaces>> /\ Moves(c, "clear")
    BY <1>13 DEF Updates
  <2>. QED BY <1>0, <2>1, <1>13, RowsGoOn DEF Moves, Same, Others
<1>14. ASSUME NEW c \in Clients, Deletes(c) PROVE SpacesKeepOwners'
  <2>1. /\ Len(spaces') = Len(spaces)
        /\ job[c].pc = "write" /\ \A u \in Uids : u /= job[c].target => users'[u] = users[u]
        /\ \A k \in 1..Len(spaces) :
             /\ spaces'[k].by = spaces[k].by /\ spaces'[k].late = spaces[k].late
             /\ spaces'[k].owner = IF spaces[k].owner = Live(job[c].seen.name)
                                   THEN Tombstone(job[c].seen.name, job[c].target) ELSE spaces[k].owner
    BY <1>14 DEF Deletes
  <2>2. SUFFICES ASSUME NEW k \in 1..Len(spaces'), NEW n \in Names, spaces'[k].owner = Live(n), ~spaces'[k].late
                 PROVE  spaces'[k].by \in Uids /\ users'[spaces'[k].by] /= NoOne /\ users'[spaces'[k].by].name = n
    OBVIOUS
  <2>3. job[c].target /= 0
    BY <1>0, <2>1 DEF JobsHold, Known, Resolving
  <2>4. spaces[k].owner = Live(n) /\ n /= job[c].seen.name
    BY <2>1, <2>2, <2>3 DEF Live, Tombstone
  <2>5. Exists(spaces[k].by) /\ users[spaces[k].by].name = n
    BY <2>1, <2>2, <2>4
  <2>6. spaces[k].by /= job[c].target
    BY <2>1, <2>4, <2>5 DEF TargetNames
  <2>. QED BY <2>1, <2>2, <2>5, <2>6
<1>. QED BY <1>1, <1>2, <1>3, <1>4, <1>5, <1>6, <1>7, <1>8, <1>9, <1>10, <1>11, <1>12, <1>13, <1>14 DEF Effect

(* One administrator is no target of those past their count.                 *)
LEMMA AdminBesidesStep ==
  ASSUME TypeOK, AdminBesides, JobsHold, RowIds, TokenIds, JobIds, Effect
  PROVE  AdminBesides'
<1>0. /\ users \in [Uids -> Rows \cup {NoOne}]
  BY Typed
<1>. USE DEF AdminBesides, Armed, Removing, TargetIsActiveAdmin, ActiveAdmins, Exists
<1>1. CASE Waits
  BY <1>0, <1>1 DEF Waits
<1>2. ASSUME NEW c \in Clients, Quits(c) PROVE AdminBesides'
  BY <1>0, <1>2 DEF Quits, Stops, Others, Quiet
<1>3. ASSUME NEW c \in Clients, Begins(c) PROVE AdminBesides'
  BY <1>0, <1>3 DEF Begins, Others, Quiet
<1>4. ASSUME NEW c \in Clients, Requests(c) PROVE AdminBesides'
  BY <1>0, <1>4 DEF Requests, Others, Quiet
<1>5. ASSUME NEW c \in Clients, Looks(c) PROVE AdminBesides'
  BY <1>0, <1>5 DEF Looks, Others, Quiet
<1>6. ASSUME NEW c \in Clients, Answers(c) PROVE AdminBesides'
  BY <1>0, <1>6 DEF Answers, SignToken, Stops, Others
<1>7. ASSUME NEW c \in Clients, Adds(c) PROVE AdminBesides'
  BY <1>0, <1>7, NewId DEF Adds, Others
<1>8. ASSUME NEW c \in Clients, Walks(c) PROVE AdminBesides'
  BY <1>0, <1>8 DEF Walks, Walk, Same, Others, Quiet
<1>9. ASSUME NEW c \in Clients, Rereads(c) PROVE AdminBesides'
  BY <1>0, <1>9 DEF Rereads, Others, Quiet
<1>10. ASSUME NEW c \in Clients, Opens(c) PROVE AdminBesides'
  BY <1>0, <1>10 DEF Opens, SignToken, Stops, Moves, Same, Others
<1>11. ASSUME NEW c \in Clients, Aims(c) PROVE AdminBesides'
  <2>1. /\ Others(c) /\ UNCHANGED <<users, overlapped>> /\ job'[c].change = job[c].change
        /\ job'[c].target = job[c].target
        /\ \/ job'[c].pc = "enroll"
           \/ job'[c].seen = users[job[c].target] /\ (job'[c].pc = "write" => ~Removes(job[c].change, users[job[c].target]))
    BY <1>11 DEF Aims, Quiet
  <2>2. Armed(c)' => job[c].target \notin ActiveAdmins
    BY <2>1 DEF Removes
  <2>. QED BY <2>1, <2>2 DEF Others
<1>12. ASSUME NEW c \in Clients, Counts(c) PROVE AdminBesides'
  <2>1. /\ UNCHANGED users /\ overlapped' = (overlapped \/ \E d \in Clients \ {c} : Removing(d))
        /\ job[c].pc = "count"
        /\ \/ Stops(c)
           \/ Moves(c, "write") /\ ~(TargetIsActiveAdmin(job[c].seen) /\ Cardinality(ActiveAdmins) <= 1)
    BY <1>12 DEF Counts
  <2>2. CASE overlapped' \/ (Stops(c) /\ ~overlapped')
    <3>1. CASE overlapped'
      BY <3>1
    <3>2. CASE Stops(c) /\ ~overlapped'
      <4>1. PICK u \in ActiveAdmins : \A d \in Clients : Armed(d) => job[d].target /= u
        BY <2>1, <3>2
      <4>2. \A d \in Clients : Armed(d)' => Armed(d) /\ job'[d] = job[d]
        BY <3>2 DEF Stops, Others
      <4>. QED BY <2>1, <4>1, <4>2
    <3>. QED BY <2>2, <3>1, <3>2
  <2>3. CASE Moves(c, "write") /\ ~overlapped'
    <3>1. ~overlapped /\ \A d \in Clients : d /= c => ~Removing(d)
      BY <2>1, <2>3
    <3>2. \A d \in Clients : d /= c => ~Armed(d)'
      BY <3>1, <2>3 DEF Moves, Same, Others
    <3>3. PICK u \in ActiveAdmins : \A d \in Clients : Armed(d) => job[d].target /= u
      BY <3>1
    <3>4. \E v \in ActiveAdmins : Armed(c)' => job[c].target /= v
      <4>1. CASE ~TargetIsActiveAdmin(job[c].seen)
        <5>1. Armed(c)' => Armed(c)
          BY <2>1, <2>3, <4>1 DEF Moves, Same
        <5>. QED BY <3>3, <5>1
      <4>2. CASE TargetIsActiveAdmin(job[c].seen)
        <5>. DEFINE A == ActiveAdmins
                    t == job[c].target
        <5>1. ~(Cardinality(A) <= 1)
          BY <2>1, <2>3, <4>2, <1>12 DEF Stops, Moves
        <5>2. Cardinality({t}) = 1 /\ IsFiniteSet({t})
          BY FS_Singleton
        <5>. HIDE DEF A
        <5>3. ~(A \subseteq {t})
          BY <5>1, <5>2, FS_Subset
        <5>. QED BY <5>3 DEF A
      <4>. QED BY <4>1, <4>2
    <3>5. PICK v \in ActiveAdmins : Armed(c)' => job[c].target /= v
      BY <3>4
    <3>6. v \in ActiveAdmins' /\ (Armed(c)' => job'[c].target /= v)
      BY <2>1, <2>3, <3>5 DEF Moves, Same
    <3>. QED BY <3>2, <3>6
  <2>. QED BY <2>1, <2>2, <2>3
<1>13. ASSUME NEW c \in Clients, Updates(c) PROVE AdminBesides'
  BY <1>0, <1>13 DEF Updates, Moves, Same, Others
<1>14. ASSUME NEW c \in Clients, Deletes(c) PROVE AdminBesides'
  BY <1>0, <1>14 DEF Deletes, Moves, Same, Others
<1>. QED BY <1>1, <1>2, <1>3, <1>4, <1>5, <1>6, <1>7, <1>8, <1>9, <1>10, <1>11, <1>12, <1>13, <1>14 DEF Effect

(* Fewer attempts and no more failures keep the bound.                       *)
LEMMA FewerAttempts ==
  ASSUME TypeOK, AttemptsBounded,
         \A n \in Names : /\ Attempts(n)' \subseteq Attempts(n)
                          /\ failures'[n] \in Nat /\ failures'[n] <= failures[n]
  PROVE  AttemptsBounded'
<1>. SUFFICES ASSUME NEW n \in Names
              PROVE  failures'[n] + Cardinality(Attempts(n)') < MaxFailures + Cardinality(Clients)
  BY DEF AttemptsBounded
<1>1. Attempts(n) \subseteq Clients
  BY DEF Attempts
<1>2. IsFiniteSet(Attempts(n)) /\ Cardinality(Attempts(n)) \in Nat /\ Cardinality(Clients) \in Nat
  BY <1>1, FS_Subset, FS_CardinalityType, ClientsAssumption
<1>3. Cardinality(Attempts(n)') \in Nat /\ Cardinality(Attempts(n)') <= Cardinality(Attempts(n))
  BY <1>2, FS_Subset, FS_CardinalityType
<1>4. failures[n] + Cardinality(Attempts(n)) < MaxFailures + Cardinality(Clients)
  BY DEF AttemptsBounded
<1>5. failures[n] \in Nat /\ MaxFailures \in Nat
  BY ClientsAssumption DEF TypeOK
<1>. QED BY <1>2, <1>3, <1>4, <1>5

(* Failed attempts and those under way stay within the limit and one each.   *)
LEMMA AttemptsBoundedStep ==
  ASSUME TypeOK, AttemptsBounded, Effect
  PROVE  AttemptsBounded'
<1>. DEFINE Fewer == \A n \in Names : /\ Attempts(n)' \subseteq Attempts(n)
                                      /\ failures'[n] \in Nat /\ failures'[n] <= failures[n]
<1>1. failures \in [Names -> Nat] /\ MaxFailures \in Nat /\ Cardinality(Clients) \in Nat
  BY ClientsAssumption, FS_CardinalityType DEF TypeOK
<1>2. \A n \in Names : failures[n] \in Nat /\ failures[n] <= failures[n]
  BY <1>1
<1>3. CASE Waits
  <2>1. Fewer
    BY <1>2, <1>3 DEF Waits, Attempts
  <2>. QED BY <2>1, FewerAttempts
<1>4. ASSUME NEW c \in Clients, Begins(c) PROVE AttemptsBounded'
  <2>1. /\ UNCHANGED failures /\ Others(c) /\ job'[c].pc \in {"lookup", "policy", "signups", "idle"}
        /\ job'[c].pc = "lookup" => failures[job'[c].name] < MaxFailures
    BY <1>4 DEF Begins, Quiet
  <2>. SUFFICES ASSUME NEW n \in Names
                PROVE  failures'[n] + Cardinality(Attempts(n)') < MaxFailures + Cardinality(Clients)
    BY DEF AttemptsBounded
  <2>2. CASE job'[c].pc = "lookup" /\ job'[c].name = n
    <3>1. Attempts(n)' \subseteq Clients
      BY DEF Attempts
    <3>2. Cardinality(Attempts(n)') \in Nat /\ Cardinality(Attempts(n)') <= Cardinality(Clients)
      BY <3>1, FS_Subset, FS_CardinalityType, ClientsAssumption
    <3>. QED BY <1>1, <2>1, <2>2, <3>2
  <2>3. CASE ~(job'[c].pc = "lookup" /\ job'[c].name = n)
    <3>1. Attempts(n)' \subseteq Attempts(n)
      BY <2>1, <2>3 DEF Attempts, Others
    <3>2. Attempts(n) \subseteq Clients
      BY DEF Attempts
    <3>3. IsFiniteSet(Attempts(n)) /\ Cardinality(Attempts(n)) \in Nat
      BY <3>2, FS_Subset, FS_CardinalityType, ClientsAssumption
    <3>4. Cardinality(Attempts(n)') \in Nat /\ Cardinality(Attempts(n)') <= Cardinality(Attempts(n))
      BY <3>1, <3>3, FS_Subset, FS_CardinalityType
    <3>5. failures[n] + Cardinality(Attempts(n)) < MaxFailures + Cardinality(Clients)
      BY DEF AttemptsBounded
    <3>. QED BY <1>1, <2>1, <3>3, <3>4, <3>5
  <2>. QED BY <2>2, <2>3
<1>5. ASSUME NEW c \in Clients, Answers(c) PROVE AttemptsBounded'
  <2>1. /\ job[c].pc = "verify" /\ job'[c].pc = "idle" /\ Others(c)
        /\ UNCHANGED failures \/ failures' = [failures EXCEPT ![job[c].name] = @ + 1]
    BY <1>5 DEF Answers, Stops
  <2>2. \A n \in Names : Attempts(n)' = Attempts(n) \ {c}
    BY <2>1 DEF Attempts, Others
  <2>3. CASE UNCHANGED failures
    <3>1. Fewer
      BY <1>2, <2>2, <2>3
    <3>. QED BY <3>1, FewerAttempts
  <2>4. CASE failures' = [failures EXCEPT ![job[c].name] = @ + 1]
    <3>. SUFFICES ASSUME NEW n \in Names
                  PROVE  failures'[n] + Cardinality(Attempts(n)') < MaxFailures + Cardinality(Clients)
      BY DEF AttemptsBounded
    <3>1. Attempts(n) \subseteq Clients
      BY DEF Attempts
    <3>2. IsFiniteSet(Attempts(n)) /\ Cardinality(Attempts(n)) \in Nat
      BY <3>1, FS_Subset, FS_CardinalityType, ClientsAssumption
    <3>3. Cardinality(Attempts(n)') = IF c \in Attempts(n) THEN Cardinality(Attempts(n)) - 1 ELSE Cardinality(Attempts(n))
      BY <2>2, <3>2, FS_RemoveElement
    <3>4. failures[n] + Cardinality(Attempts(n)) < MaxFailures + Cardinality(Clients)
      BY DEF AttemptsBounded
    <3>5. failures'[n] = IF n = job[c].name THEN failures[n] + 1 ELSE failures[n]
      BY <1>1, <2>4
    <3>6. n = job[c].name => c \in Attempts(n)
      BY <2>1 DEF Attempts
    <3>. QED BY <1>1, <3>2, <3>3, <3>4, <3>5, <3>6
  <2>. QED BY <2>1, <2>3, <2>4
<1>6. ASSUME NEW c \in Clients, Looks(c) \/ Quits(c) \/ Requests(c) PROVE AttemptsBounded'
  <2>1. /\ UNCHANGED failures /\ Others(c)
        /\ \/ job'[c].pc \notin {"lookup", "verify"}
           \/ job[c].pc = "lookup" /\ job'[c].name = job[c].name
    BY <1>6 DEF Looks, Quits, Requests, Quiet, Stops
  <2>2. Fewer
    BY <1>2, <2>1 DEF Attempts, Others
  <2>. QED BY <2>2, FewerAttempts
<1>7. ASSUME NEW c \in Clients, Adds(c) \/ Walks(c) \/ Rereads(c) \/ Opens(c) PROVE AttemptsBounded'
  <2>1. UNCHANGED failures /\ Others(c) /\ job'[c].pc \notin {"lookup", "verify"}
    BY <1>7 DEF Adds, Walks, Walk, Rereads, Opens, Quiet, Stops, Moves, Same
  <2>2. Fewer
    BY <1>2, <2>1 DEF Attempts, Others
  <2>. QED BY <2>2, FewerAttempts
<1>8. ASSUME NEW c \in Clients, Aims(c) \/ Counts(c) \/ Updates(c) \/ Deletes(c) PROVE AttemptsBounded'
  <2>1. UNCHANGED failures /\ Others(c) /\ job'[c].pc \notin {"lookup", "verify"}
    BY <1>8 DEF Aims, Counts, Updates, Deletes, Quiet, Stops, Moves, Same
  <2>2. Fewer
    BY <1>2, <2>1 DEF Attempts, Others
  <2>. QED BY <2>2, FewerAttempts
<1>. QED BY <1>3, <1>4, <1>5, <1>6, <1>7, <1>8 DEF Effect


---------------------------------------------------------------------------
(* The maps of spaces, over the actions themselves.                          *)

(* Workspaces are never fewer, nor go by a name of another account.         *)
SpacesGoOn == /\ Len(spaces) <= Len(spaces')
              /\ \A k \in 1..Len(spaces) : spaces'[k].owner[1] = spaces[k].owner[1]
(* A request is where it was, and has the map it had or none.               *)
Near(j, k) == /\ j.owners \in {k.owners, <<>>}
              /\ At(j) => At(k) /\ j.scope = k.scope /\ j.name = k.name
(* What a step does to workspaces, maps and requests.                       *)
Plain(c) == /\ UNCHANGED spaces /\ Others(c) /\ Near(job'[c], job[c])
            /\ \A i \in Instances : spaceCache'[i].owners \in {spaceCache[i].owners, <<>>, job[c].owners}
Relabels(c) == SpacesGoOn /\ Others(c) /\ Near(job'[c], job[c]) /\ UNCHANGED spaceCache
Reads(c) == /\ UNCHANGED <<spaces, spaceCache>> /\ Others(c)
            /\ job'[c].owners \in {Owners} \cup {spaceCache[i].owners : i \in Instances}
            /\ At(job'[c]) => At(job[c]) /\ job'[c].scope = job[c].scope /\ job'[c].name = job[c].name
Places(c) == /\ SpacesGoOn /\ Others(c) /\ job'[c].owners \in {job[c].owners, <<>>}
             /\ job'[c].scope \in 1..Len(spaces') /\ spaces'[job'[c].scope].owner[1] = job'[c].name
             /\ \A i \in Instances : spaceCache'[i].owners \in {spaceCache[i].owners, <<>>}
MapEffect == \/ UNCHANGED <<spaces, spaceCache, job>>
             \/ \E c \in Clients : Plain(c) \/ Relabels(c) \/ Reads(c) \/ Places(c)

(* A request that ends, or only changes its step, is near where it was.     *)
LEMMA Nearby ==
  ASSUME job \in [Clients -> Job], NEW c \in Clients
  PROVE  /\ Ends(c) => Others(c) /\ Near(job'[c], job[c])
         /\ \A p : p /= "made" /\ To(c, p) => Others(c) /\ Near(job'[c], job[c])
         /\ \A j : Goes(c, j) => Others(c) /\ job'[c] = j
<1>1. \A j : Goes(c, j) => Others(c) /\ job'[c] = j
  BY DEF Goes, Others
<1>2. Near(Idle, job[c])
  BY IdleFields DEF Near, At
<1>3. ASSUME NEW p, p /= "made" PROVE Near([job[c] EXCEPT !.pc = p], job[c])
  <2>1. job[c] \in Job
    OBVIOUS
  <2>. QED BY <1>3, <2>1 DEF Near, At, Job
<1>. QED BY <1>1, <1>2, <1>3 DEF Ends, To

(* A request that consults the map has the one there is, or goes to read it.*)
LEMMA ConsultsReads ==
  ASSUME job \in [Clients -> Job], NEW c \in Clients, NEW p, p /= "made", Consults(c, job[c], p),
         UNCHANGED <<spaces, spaceCache>>
  PROVE  Plain(c) \/ Reads(c)
<1>1. job[c] \in Job /\ job[c].at \in Instances
  BY DEF Job
<1>2. CASE Mapped(job[c].at)
  <2>. DEFINE o == spaceCache[job[c].at].owners
              j == [job[c] EXCEPT !.pc = p, !.owners = o]
  <2>1. Goes(c, j)
    BY <1>2 DEF Consults
  <2>2. j.owners = o /\ j.pc = p /\ j.access = job[c].access /\ j.scope = job[c].scope /\ j.name = job[c].name
    BY <1>1 DEF Job
  <2>. HIDE DEF j
  <2>. QED BY <1>1, <2>1, <2>2, Nearby DEF Reads, At
<1>3. CASE ~Mapped(job[c].at)
  <2>1. To(c, "spacesRead")
    BY <1>3 DEF Consults, To
  <2>. QED BY <2>1, Nearby DEF Plain
<1>. QED BY <1>2, <1>3

(* A request arrives in a workspace of its account's name, or is over.      *)
LEMMA ArrivesPlaces ==
  ASSUME job \in [Clients -> Job], NEW c \in Clients, NEW k \in 1..Len(spaces), Arrives(c, k), UNCHANGED spaces,
         spaces[k].owner[1] = job[c].name,
         \A i \in Instances : spaceCache'[i].owners \in {spaceCache[i].owners, <<>>},
         Len(spaces) \in Nat
  PROVE  Plain(c) \/ Places(c)
<1>. DEFINE j == [job[c] EXCEPT !.pc = "authorize", !.scope = k, !.owners = <<>>, !.access = "owner"]
<1>1. Ends(c) \/ Goes(c, j)
  <2>1. CASE job[c].route = "none"
    BY <2>1, Zenon DEF Arrives
  <2>2. CASE job[c].route /= "none" /\ job[c].change = "create" /\ job[c].access /= "none"
    BY <2>2, Zenon DEF Arrives
  <2>3. CASE job[c].route /= "none" /\ ~(job[c].change = "create" /\ job[c].access /= "none")
    BY <2>3, Zenon DEF Arrives, j
  <2>. QED BY <2>1, <2>2, <2>3
<1>2. job[c] \in Job
  OBVIOUS
<1>3. j.scope = k /\ j.owners = <<>> /\ j.name = job[c].name
  BY <1>2 DEF Job
<1>. HIDE DEF j
<1>4. CASE Ends(c)
  BY <1>4, Nearby DEF Plain
<1>5. CASE Goes(c, j)
  <2>1. SpacesGoOn
    BY DEF SpacesGoOn
  <2>. QED BY <1>3, <1>5, <2>1, Nearby DEF Places
<1>. QED BY <1>1, <1>4, <1>5

(* OpenSpace finds a workspace of the name, or consults the map.            *)
LEMMA OpenSpaceMaps ==
  ASSUME TypeOK, NEW c \in Clients, OpenSpace(c)
  PROVE  Plain(c) \/ Reads(c) \/ Places(c)
<1>. DEFINE found == SpaceOf(Live(job[c].name))
<1>1. job \in [Clients -> Job] /\ Len(spaces) \in Nat
  BY Typed DEF TypeOK
<1>2. UNCHANGED <<spaces, spaceCache>>
  BY DEF OpenSpace, stored
<1>3. CASE found = {}
  <2>1. Consults(c, job[c], "make")
    BY <1>3 DEF OpenSpace
  <2>. QED BY <1>1, <1>2, <2>1, ConsultsReads
<1>4. CASE found /= {}
  <2>. DEFINE k == CHOOSE m \in found : TRUE
  <2>1. Arrives(c, k)
    BY <1>4 DEF OpenSpace
  <2>2. k \in 1..Len(spaces) /\ spaces[k].owner = Live(job[c].name)
    BY <1>4 DEF SpaceOf
  <2>. HIDE DEF k
  <2>3. spaces[k].owner[1] = job[c].name
    BY <2>2 DEF Live
  <2>. QED BY <1>1, <1>2, <2>1, <2>2, <2>3, ArrivesPlaces
<1>. QED BY <1>3, <1>4

(* MakeSpace drops a map it finds old, or has a workspace of the name.      *)
LEMMA MakeSpaceMaps ==
  ASSUME TypeOK, NEW c \in Clients, MakeSpace(c)
  PROVE  Plain(c) \/ Places(c)
<1>. DEFINE label == Live(job[c].name)
            s == [owner |-> label, by |-> job[c].uid, late |-> ~Exists(job[c].uid)]
            none == SpaceOf(label) = {}
            k == IF none THEN Len(spaces) + 1 ELSE CHOOSE m \in SpaceOf(label) : TRUE
            j == [job[c] EXCEPT !.pc = "made", !.scope = k]
<1>1. /\ job \in [Clients -> Job] /\ Len(spaces) \in Nat /\ spaces \in Seq([owner: Labels, by: Uids, late: BOOLEAN])
      /\ DOMAIN spaceCache = Instances
  BY Typed DEF TypeOK
<1>2. \/ /\ To(c, "spacesRead") /\ UNCHANGED spaces
         /\ spaceCache' = [spaceCache EXCEPT ![job[c].at] = NoMap]
      \/ /\ spaces' = IF none THEN Append(spaces, s) ELSE spaces
         /\ Goes(c, j) /\ UNCHANGED spaceCache
  BY DEF MakeSpace
<1>3. label[1] = job[c].name
  BY DEF Live
<1>4. j.scope = k /\ j.owners = job[c].owners /\ j.name = job[c].name
  <2>1. job[c] \in Job
    BY <1>1
  <2>. HIDE DEF k
  <2>. QED BY <2>1 DEF Job
<1>5. CASE /\ To(c, "spacesRead") /\ UNCHANGED spaces
           /\ spaceCache' = [spaceCache EXCEPT ![job[c].at] = NoMap]
  BY <1>1, <1>5, Nearby DEF Plain, NoMap
<1>6. CASE /\ spaces' = IF none THEN Append(spaces, s) ELSE spaces
           /\ Goes(c, j) /\ UNCHANGED spaceCache
  <2>1. CASE none
    <3>1. k = Len(spaces) + 1 /\ spaces' = Append(spaces, s)
      BY <1>6, <2>1
    <3>2. s.owner = label
      OBVIOUS
    <3>. HIDE DEF s, label, k, j
    <3>3. /\ Len(spaces') = Len(spaces) + 1 /\ spaces'[Len(spaces) + 1] = s
          /\ \A m \in 1..Len(spaces) : spaces'[m] = spaces[m]
      BY <1>1, <3>1
    <3>4. SpacesGoOn
      BY <1>1, <3>3 DEF SpacesGoOn
    <3>5. Others(c) /\ job'[c] = j
      BY <1>1, <1>6, Nearby
    <3>6. k \in 1..Len(spaces') /\ spaces'[k].owner[1] = job[c].name
      BY <1>1, <1>3, <3>1, <3>2, <3>3
    <3>. QED BY <1>4, <1>6, <3>4, <3>5, <3>6 DEF Places
  <2>2. CASE ~none
    <3>1. UNCHANGED spaces /\ k \in SpaceOf(label)
      BY <1>6, <2>2
    <3>. HIDE DEF s, k, j
    <3>2. k \in 1..Len(spaces) /\ spaces[k].owner = label
      BY <3>1 DEF SpaceOf
    <3>. HIDE DEF label
    <3>3. SpacesGoOn
      BY <1>1, <3>1 DEF SpacesGoOn
    <3>4. Others(c) /\ job'[c] = j
      BY <1>1, <1>6, Nearby
    <3>. QED BY <1>3, <1>4, <1>6, <3>1, <3>2, <3>3, <3>4 DEF Places
  <2>. QED BY <2>1, <2>2
<1>. HIDE DEF none, s, j, k, label
<1>. QED BY <1>2, <1>5, <1>6

(* Whoever is let in as the owner has the name of the map, and of the row.  *)
LEMMA EnterMaps ==
  ASSUME TypeOK, MapsAgree, NEW c \in Clients, Enter(c)
  PROVE  Plain(c) \/ Places(c)
<1>. DEFINE m == job[c]
            listed == m.scope \in {Shared} \cup 1..Len(m.owners)
            o == IF listed THEN m.owners ELSE Owners
            a == Standing(m, o)
            j == [m EXCEPT !.pc = "authorize", !.owners = <<>>, !.access = a]
<1>1. /\ job \in [Clients -> Job] /\ Len(spaces) \in Nat /\ DOMAIN spaceCache = Instances
  BY Typed DEF TypeOK
<1>2. /\ UNCHANGED spaces
      /\ spaceCache' = spaceCache \/ spaceCache' = [spaceCache EXCEPT ![m.at] = NoMap]
      /\ Ends(c) \/ ((listed \/ m.scope \in 1..Len(spaces)) /\ Goes(c, j))
  BY DEF Enter, stored
<1>3. \A i \in Instances : spaceCache'[i].owners \in {spaceCache[i].owners, <<>>}
  BY <1>1, <1>2 DEF NoMap
<1>4. CASE Ends(c)
  BY <1>1, <1>2, <1>3, <1>4, Nearby DEF Plain
<1>5. CASE (listed \/ m.scope \in 1..Len(spaces)) /\ Goes(c, j)
  <2>1. m \in Job /\ m.scope \in Int
    BY <1>1 DEF Job
  <2>2. j.scope = m.scope /\ j.owners = <<>> /\ j.name = m.name /\ j.access = a /\ j.pc = "authorize"
    <3>. HIDE DEF a
    <3>. QED BY <2>1 DEF Job
  <2>3. Others(c) /\ job'[c] = j
    BY <1>1, <1>5, Nearby
  <2>4. CASE a = "owner"
    <3>1. m.scope /= Shared /\ o[m.scope] = Live(m.name)
      <4>1. m.scope = Shared => a \in {"none", "editor"}
        <5>1. members[m.name] \in {"none", "editor"}
          BY <2>1 DEF TypeOK, Job
        <5>2. CASE m.scope = Shared
          <6>1. a = IF m.row.source = "self" THEN members[m.name] ELSE "none"
            BY <5>2, Zenon DEF Standing
          <6>. QED BY <5>1, <6>1
        <5>. QED BY <5>2
      <4>2. CASE m.scope /= Shared
        <5>1. a = IF Owns(m.name, o[m.scope]) THEN "owner" ELSE "none"
          BY <4>2, Zenon DEF Standing
        <5>. HIDE DEF a, o
        <5>. QED BY <2>4, <4>2, <5>1 DEF Owns
      <4>3. m.scope /= Shared
        BY <2>4, <4>1, Zenon
      <4>. QED BY <4>2, <4>3
    <3>2. o[m.scope][1] = m.name
      BY <3>1 DEF Live
    <3>3. m.scope \in 1..Len(spaces) /\ spaces[m.scope].owner[1] = m.name
      <4>1. CASE listed
        <5>1. Agrees(m.owners) /\ m.scope \in 1..Len(m.owners) /\ Len(m.owners) \in Nat
          BY <2>1, <3>1, <4>1 DEF MapsAgree, Job
        <5>. QED BY <1>1, <3>2, <4>1, <5>1 DEF Agrees
      <4>2. CASE ~listed
        BY <1>5, <3>2, <4>2 DEF Owners
      <4>. QED BY <4>1, <4>2
    <3>4. SpacesGoOn
      BY <1>1, <1>2 DEF SpacesGoOn
    <3>. QED BY <1>2, <1>3, <2>2, <2>3, <3>3, <3>4 DEF Places
  <2>5. CASE a /= "owner"
    <3>. HIDE DEF a, j
    <3>. QED BY <1>2, <1>3, <2>2, <2>3, <2>5 DEF Plain, Near, At
  <2>. QED BY <2>4, <2>5
<1>. HIDE DEF listed, j
<1>. QED BY <1>2, <1>4, <1>5

(* A deletion renames a workspace, but not from the name it was made under. *)
LEMMA DeleteUserMaps ==
  ASSUME TypeOK, NEW c \in Clients, DeleteUser(c)
  PROVE  Relabels(c)
<1>. DEFINE n == job[c].seen.name
            u == job[c].target
<1>1. /\ job \in [Clients -> Job] /\ Len(spaces) \in Nat /\ spaces \in Seq([owner: Labels, by: Uids, late: BOOLEAN])
  BY Typed DEF TypeOK
<1>2. /\ spaces' = [k \in 1..Len(spaces) |-> Relabelled(spaces[k], n, u)]
      /\ To(c, "clear") /\ UNCHANGED spaceCache
  BY DEF DeleteUser
<1>3. \A k \in 1..Len(spaces) : spaces[k] \in [owner: Labels, by: Uids, late: BOOLEAN]
  BY <1>1, ElementOfSeq
<1>4. Len(spaces') = Len(spaces) /\ \A k \in 1..Len(spaces) : spaces'[k] = Relabelled(spaces[k], n, u)
  BY <1>1, <1>2
<1>5. ASSUME NEW k \in 1..Len(spaces) PROVE Relabelled(spaces[k], n, u).owner[1] = spaces[k].owner[1]
  BY <1>3 DEF Relabelled, Live, Tombstone
<1>6. SpacesGoOn
  BY <1>1, <1>4, <1>5 DEF SpacesGoOn
<1>. QED BY <1>1, <1>2, <1>6, Nearby DEF Relabels

(* What a new request is holds no place and no map.                         *)
LEMMA AskedAnew ==
  ASSUME job \in [Clients -> Job], NEW c \in Clients, UNCHANGED <<spaces, spaceCache>>,
         \/ \E n \in Names : AskLogin(c, n)
         \/ \E i \in Instances, n \in Names : AskRegister(c, i, n)
         \/ \E i \in Instances, t \in tokens, route \in Routes : \E s \in ScopesOf(route), h \in ChangesOf(route) :
              \E u \in TargetsOf(h) : AskRoute(c, i, t, route, s, h, u)
  PROVE  Plain(c)
<1>. DEFINE Anew(j) == j.pc /= "made" /\ j.access = "none" /\ j.owners = <<>>
<1>0. Idle \in Job /\ Anew(Idle)
  BY IdleIsAJob, IdleFields
<1>1. \E j : Goes(c, j) /\ j.pc /= "made" /\ j.access = "none" /\ j.owners = <<>>
  <2>1. ASSUME NEW n \in Names, AskLogin(c, n) PROVE \E j : Goes(c, j) /\ j.pc /= "made" /\ j.access = "none" /\ j.owners = <<>>
    <3>1. Goes(c, [Idle EXCEPT !.pc = "lookup", !.name = n])
      BY <2>1 DEF AskLogin, Asks
    <3>2. Anew([Idle EXCEPT !.pc = "lookup", !.name = n])
      BY <1>0 DEF Job
    <3>. QED BY <3>1, <3>2
  <2>2. ASSUME NEW i \in Instances, NEW n \in Names, AskRegister(c, i, n)
        PROVE  \E j : Goes(c, j) /\ j.pc /= "made" /\ j.access = "none" /\ j.owners = <<>>
    <3>1. PICK p : p /= "made" /\ Goes(c, [Idle EXCEPT !.at = i, !.name = n, !.pc = p])
      BY <2>2 DEF AskRegister, Asks
    <3>2. Anew([Idle EXCEPT !.at = i, !.name = n, !.pc = p])
      BY <1>0, <3>1 DEF Job
    <3>. QED BY <3>1, <3>2
  <2>3. ASSUME NEW i \in Instances, NEW t \in tokens, NEW route \in Routes, NEW s \in ScopesOf(route),
               NEW h \in ChangesOf(route), NEW u \in TargetsOf(h), AskRoute(c, i, t, route, s, h, u)
        PROVE  \E j : Goes(c, j) /\ j.pc /= "made" /\ j.access = "none" /\ j.owners = <<>>
    <3>1. PICK p, r : p /= "made" /\ Goes(c, [Idle EXCEPT !.at = i, !.uid = t.uid, !.name = t.name, !.tv = t.tv, !.route = route,
                                                  !.scope = s, !.change = h, !.target = u, !.row = r, !.pc = p])
      BY <2>3 DEF AskRoute, Asks
    <3>2. Anew([Idle EXCEPT !.at = i, !.uid = t.uid, !.name = t.name, !.tv = t.tv, !.route = route,
                              !.scope = s, !.change = h, !.target = u, !.row = r, !.pc = p])
      BY <1>0, <3>1 DEF Job
    <3>. QED BY <3>1, <3>2
  <2>. QED BY <2>1, <2>2, <2>3
<1>. QED BY <1>1, Nearby DEF Plain, Near, At

(* What any action does to workspaces, maps and places.                     *)
LEMMA MapEffects ==
  ASSUME TypeOK, MapsAgree, OwnersNamed, [Next]_vars
  PROVE  MapEffect
<1>1. job \in [Clients -> Job] /\ Len(spaces) \in Nat /\ DOMAIN spaceCache = Instances
  BY Typed DEF TypeOK
<1>2. ASSUME NEW c \in Clients, UNCHANGED <<spaces, spaceCache>>,
             \E j : Goes(c, j) /\ Near(j, job[c])
      PROVE  Plain(c)
  BY <1>1, <1>2, Nearby DEF Plain
<1>3. ASSUME NEW c \in Clients, UNCHANGED <<spaces, spaceCache>>,
             Ends(c) \/ \E p : p /= "made" /\ To(c, p)
      PROVE  Plain(c)
  BY <1>1, <1>3, Nearby DEF Plain
<1>4. ASSUME NEW c \in Clients,
             \/ \E n \in Names : AskLogin(c, n)
             \/ \E i \in Instances, n \in Names : AskRegister(c, i, n)
             \/ \E i \in Instances, t \in tokens, route \in Routes : \E s \in ScopesOf(route), h \in ChangesOf(route) :
                  \E u \in TargetsOf(h) : AskRoute(c, i, t, route, s, h, u)
      PROVE  Plain(c)
  <2>1. UNCHANGED <<spaces, spaceCache>>
    BY <1>4 DEF AskLogin, AskRegister, AskRoute, stored
  <2>. QED BY <1>1, <1>4, <2>1, AskedAnew
<1>5. ASSUME NEW c \in Clients, LoginReads(c) \/ ReadPolicy(c) \/ ReadUser(c) \/ (\E n \in Names : FindMember(c, n) \/ CreateUser(c, n))
                                \/ RegisterInserts(c) \/ ReadTarget(c)
      PROVE  Plain(c)
  <2>1. job[c] \in Job
    BY <1>1
  <2>2. UNCHANGED <<spaces, spaceCache>>
    BY <1>5 DEF LoginReads, ReadPolicy, ReadUser, FindMember, CreateUser, RegisterInserts, ReadTarget, stored
  <2>3. CASE LoginReads(c)
    <3>1. PICK u, r : Goes(c, [job[c] EXCEPT !.pc = "verify", !.uid = u, !.row = r])
      BY <2>3 DEF LoginReads
    <3>2. Near([job[c] EXCEPT !.pc = "verify", !.uid = u, !.row = r], job[c])
      BY <2>1 DEF Near, At, Job
    <3>. QED BY <1>2, <2>2, <3>1, <3>2
  <2>4. CASE ReadPolicy(c)
    <3>1. PICK k : Goes(c, [job[c] EXCEPT !.pc = "policyFill", !.known = k])
      BY <2>4 DEF ReadPolicy
    <3>2. Near([job[c] EXCEPT !.pc = "policyFill", !.known = k], job[c])
      BY <2>1 DEF Near, At, Job
    <3>. QED BY <1>2, <2>2, <3>1, <3>2
  <2>5. CASE ReadUser(c)
    <3>1. PICK r : Goes(c, [job[c] EXCEPT !.pc = "fill", !.row = r])
      BY <2>5 DEF ReadUser
    <3>2. Near([job[c] EXCEPT !.pc = "fill", !.row = r], job[c])
      BY <2>1 DEF Near, At, Job
    <3>. QED BY <1>2, <2>2, <3>1, <3>2
  <2>6. ASSUME NEW n \in Names, FindMember(c, n) PROVE Plain(c)
    <3>1. PICK r : Ends(c) \/ Goes(c, [job[c] EXCEPT !.pc = "enroll", !.seen = r])
      BY <2>6 DEF FindMember
    <3>2. Near([job[c] EXCEPT !.pc = "enroll", !.seen = r], job[c])
      BY <2>1 DEF Near, At, Job
    <3>. QED BY <1>2, <1>3, <2>2, <3>1, <3>2
  <2>7. ASSUME NEW n \in Names, CreateUser(c, n) PROVE Plain(c)
    <3>1. PICK r, u : Ends(c) \/ Goes(c, [job[c] EXCEPT !.pc = "open", !.scope = Own, !.name = n, !.uid = u, !.row = r])
      BY <2>7 DEF CreateUser
    <3>2. Near([job[c] EXCEPT !.pc = "open", !.scope = Own, !.name = n, !.uid = u, !.row = r], job[c])
      BY <2>1 DEF Near, At, Job
    <3>. QED BY <1>2, <1>3, <2>2, <3>1, <3>2
  <2>8. CASE RegisterInserts(c)
    <3>1. PICK r, u : Ends(c) \/ Goes(c, [job[c] EXCEPT !.pc = "record", !.uid = u, !.row = r])
      BY <2>8 DEF RegisterInserts
    <3>2. Near([job[c] EXCEPT !.pc = "record", !.uid = u, !.row = r], job[c])
      BY <2>1 DEF Near, At, Job
    <3>. QED BY <1>2, <1>3, <2>2, <3>1, <3>2
  <2>9. CASE ReadTarget(c)
    <3>1. PICK r, p : p /= "made" /\ (Ends(c) \/ Goes(c, [job[c] EXCEPT !.seen = r, !.pc = p]))
      BY <2>9 DEF ReadTarget
    <3>2. Near([job[c] EXCEPT !.seen = r, !.pc = p], job[c])
      BY <2>1, <3>1 DEF Near, At, Job
    <3>. QED BY <1>2, <1>3, <2>2, <3>1, <3>2
  <2>. QED BY <1>5, <2>3, <2>4, <2>5, <2>6, <2>7, <2>8, <2>9
<1>6. ASSUME NEW c \in Clients,
             \/ \E right \in BOOLEAN : LoginAnswers(c, right)
             \/ \E n \in Names : RemoveMember(c, n)
             \/ FillPolicy(c) \/ CountSignups(c) \/ RecordSignup(c) \/ FillCache(c) \/ Authorize(c) \/ AddMember(c)
             \/ CountAdmins(c) \/ UpdateUser(c) \/ UpdateSettings(c)
      PROVE  Plain(c)
  <2>1. /\ UNCHANGED <<spaces, spaceCache>>
        /\ Ends(c) \/ \E p : p /= "made" /\ To(c, p)
    <3>1. CASE (\E right \in BOOLEAN : LoginAnswers(c, right)) \/ (\E n \in Names : RemoveMember(c, n)) \/ AddMember(c)
      BY <3>1 DEF LoginAnswers, RemoveMember, AddMember
    <3>2. CASE FillPolicy(c) \/ CountSignups(c) \/ RecordSignup(c) \/ FillCache(c)
      <4>1. UNCHANGED <<spaces, spaceCache>>
        BY <3>2 DEF FillPolicy, CountSignups, RecordSignup, FillCache, stored
      <4>2. Ends(c) \/ To(c, "signups") \/ To(c, "idle") \/ To(c, "insert") \/ To(c, "open") \/ To(c, "scope")
        BY <3>2 DEF FillPolicy, CountSignups, RecordSignup, FillCache
      <4>. QED BY <4>1, <4>2
    <3>3. CASE Authorize(c) \/ CountAdmins(c) \/ UpdateUser(c) \/ UpdateSettings(c)
      <4>1. UNCHANGED <<spaces, spaceCache>>
        BY <3>3 DEF Authorize, CountAdmins, UpdateUser, UpdateSettings, stored
      <4>2. Ends(c) \/ To(c, "handle") \/ To(c, "write") \/ To(c, "clear")
        BY <3>3 DEF Authorize, CountAdmins, UpdateUser, UpdateSettings
      <4>. QED BY <4>1, <4>2
    <3>. QED BY <1>6, <3>1, <3>2, <3>3
  <2>. QED BY <1>3, <2>1
<1>7. ASSUME NEW c \in Clients, Scope(c) PROVE Plain(c) \/ Reads(c)
  <2>1. UNCHANGED <<spaces, spaceCache>> /\ (To(c, "open") \/ Consults(c, job[c], "enter"))
    BY <1>7 DEF Scope, stored
  <2>. QED BY <1>1, <1>3, <2>1, ConsultsReads
<1>8. ASSUME NEW c \in Clients, ReadSpaces(c) PROVE Reads(c)
  <2>. DEFINE j == [job[c] EXCEPT !.pc = "spacesFill", !.owners = Owners]
  <2>1. UNCHANGED <<spaces, spaceCache>> /\ Goes(c, j)
    BY <1>8 DEF ReadSpaces, stored
  <2>2. j.owners = Owners /\ j.pc = "spacesFill" /\ j.access = job[c].access /\ j.scope = job[c].scope /\ j.name = job[c].name
    BY <1>1 DEF Job
  <2>. HIDE DEF j
  <2>. QED BY <1>1, <2>1, <2>2, Nearby DEF Reads, At
<1>9. ASSUME NEW c \in Clients, FillSpaces(c) PROVE Plain(c)
  <2>1. /\ UNCHANGED spaces /\ (To(c, "make") \/ To(c, "enter"))
        /\ \A i \in Instances : spaceCache'[i].owners \in {spaceCache[i].owners, job[c].owners}
    BY <1>1, <1>9 DEF FillSpaces, stored
  <2>. QED BY <1>1, <2>1, Nearby DEF Plain
<1>10. ASSUME NEW c \in Clients, SpaceMade(c) PROVE Plain(c) \/ Places(c)
  <2>1. /\ UNCHANGED spaces /\ job[c].pc = "made" /\ Arrives(c, job[c].scope)
        /\ \A i \in Instances : spaceCache'[i].owners \in {spaceCache[i].owners, <<>>}
    BY <1>1, <1>10 DEF SpaceMade, stored, NoMap
  <2>2. Named(job[c])
    BY <2>1 DEF OwnersNamed, At
  <2>. QED BY <1>1, <2>1, <2>2, ArrivesPlaces DEF Named
<1>11. ASSUME NEW c \in Clients, ClearUserCache(c) PROVE Plain(c)
  <2>1. /\ UNCHANGED spaces /\ Ends(c)
        /\ \A i \in Instances : spaceCache'[i].owners \in {spaceCache[i].owners, <<>>}
    BY <1>1, <1>11 DEF ClearUserCache, stored, NoMap
  <2>. QED BY <1>1, <2>1, Nearby DEF Plain
<1>12. ASSUME NEW c \in Clients, OpenSpace(c) \/ MakeSpace(c) \/ Enter(c) \/ DeleteUser(c)
      PROVE  Plain(c) \/ Reads(c) \/ Places(c) \/ Relabels(c)
  BY <1>12, OpenSpaceMaps, MakeSpaceMaps, EnterMaps, DeleteUserMaps
<1>13. ASSUME (\E n \in Names : WindowPasses(n)) \/ HourPasses \/ TimePasses \/ UNCHANGED vars
       PROVE  UNCHANGED <<spaces, spaceCache, job>>
  BY <1>13 DEF WindowPasses, HourPasses, TimePasses, vars, stored
<1>. QED BY <1>4, <1>5, <1>6, <1>7, <1>8, <1>9, <1>10, <1>11, <1>12, <1>13, Zenon DEF Next, MapEffect

(* A map that agreed with the workspaces still does.                        *)
LEMMA AgreesGoesOn ==
  ASSUME Len(spaces) \in Nat, Len(spaces') \in Nat, SpacesGoOn, NEW o, Len(o) \in Nat, Agrees(o)
  PROVE  Len(o) <= Len(spaces') /\ \A k \in 1..Len(o) : o[k][1] = spaces'[k].owner[1]
BY DEF SpacesGoOn, Agrees

(* Maps agree with the workspaces, whenever they were read.                 *)
LEMMA MapsAgreeStep ==
  ASSUME TypeOK, TypeOK', MapsAgree, OwnersNamed, [Next]_vars
  PROVE  MapsAgree'
<1>. DEFINE Fits(o) == Len(o) <= Len(spaces') /\ \A k \in 1..Len(o) : o[k][1] = spaces'[k].owner[1]
<1>1. /\ Len(spaces) \in Nat /\ Len(spaces') \in Nat /\ MapEffect
      /\ \A i \in Instances : spaceCache[i].owners \in Seq(Labels)
      /\ \A d \in Clients : job[d].owners \in Seq(Labels)
  <2>1. \A d \in Clients : job[d] \in Job
    BY DEF TypeOK
  <2>. QED BY <2>1, MapEffects, LenProperties DEF TypeOK, Job
<1>2. SpacesGoOn
  BY <1>1 DEF MapEffect, Plain, Relabels, Reads, Places, SpacesGoOn
<1>3. /\ \A i \in Instances : Fits(spaceCache[i].owners)
      /\ \A d \in Clients : Fits(job[d].owners)
      /\ Fits(<<>>) /\ Fits(Owners)
  <2>1. Owners \in Seq(Labels) /\ Len(Owners) = Len(spaces) /\ Agrees(Owners)
    BY OwnersAreLabels DEF TypeOK, Agrees, Owners
  <2>2. Agrees(<<>>) /\ Len(<<>>) \in Nat
    BY <1>1 DEF Agrees
  <2>. QED BY <1>1, <1>2, <2>1, <2>2, AgreesGoesOn, LenProperties DEF MapsAgree
<1>. HIDE DEF Fits
<1>4. /\ \A i \in Instances : Fits(spaceCache'[i].owners)
      /\ \A d \in Clients : Fits(job'[d].owners)
  <2>1. CASE UNCHANGED <<spaces, spaceCache, job>>
    BY <1>3, <2>1
  <2>2. ASSUME NEW c \in Clients, Plain(c) \/ Relabels(c) \/ Reads(c) \/ Places(c)
        PROVE  /\ \A i \in Instances : Fits(spaceCache'[i].owners)
               /\ \A d \in Clients : Fits(job'[d].owners)
    BY <1>3, <2>2 DEF Plain, Relabels, Reads, Places, Others, Near
  <2>. QED BY <1>1, <2>1, <2>2 DEF MapEffect
<1>. QED BY <1>4 DEF Fits, MapsAgree, Agrees

(* Whoever is in a workspace as its owner has the name it was made under.   *)
LEMMA OwnersNamedStep ==
  ASSUME TypeOK, TypeOK', MapsAgree, OwnersNamed, [Next]_vars
  PROVE  OwnersNamed'
<1>1. Len(spaces) \in Nat /\ Len(spaces') \in Nat /\ MapEffect
  BY MapEffects, LenProperties DEF TypeOK
<1>2. SpacesGoOn
  BY <1>1 DEF MapEffect, Plain, Relabels, Reads, Places, SpacesGoOn
<1>. SUFFICES ASSUME NEW d \in Clients, At(job'[d])
              PROVE  job'[d].scope \in 1..Len(spaces') /\ spaces'[job'[d].scope].owner[1] = job'[d].name
  BY DEF OwnersNamed, Named, At
<1>3. CASE At(job[d]) /\ job'[d].scope = job[d].scope /\ job'[d].name = job[d].name
  BY <1>1, <1>2, <1>3 DEF OwnersNamed, Named, SpacesGoOn
<1>4. CASE job'[d] = job[d]
  BY <1>3, <1>4
<1>5. ASSUME NEW c \in Clients, Plain(c) \/ Relabels(c) \/ Reads(c), d = c PROVE At(job[d]) /\ job'[d].scope = job[d].scope /\ job'[d].name = job[d].name
  BY <1>5 DEF Plain, Relabels, Reads, Near
<1>6. ASSUME NEW c \in Clients, Places(c), d = c
      PROVE  job'[d].scope \in 1..Len(spaces') /\ spaces'[job'[d].scope].owner[1] = job'[d].name
  BY <1>6 DEF Places
<1>7. ASSUME NEW c \in Clients, Plain(c) \/ Relabels(c) \/ Reads(c) \/ Places(c), d /= c PROVE job'[d] = job[d]
  BY <1>7 DEF Plain, Relabels, Reads, Places, Others
<1>. QED BY <1>1, <1>3, <1>4, <1>5, <1>6, <1>7 DEF MapEffect

---------------------------------------------------------------------------
(* The start.                                                                *)

(* There is a founder of each number, and no two have the same.              *)
LEMMA FoundersAreNumbered ==
  /\ FounderOf \in [FounderIds -> Founders]
  /\ \A u, v \in FounderIds : FounderOf[u] = FounderOf[v] => u = v
  /\ Cardinality(Founders) \in Nat /\ 1 \in FounderIds /\ FounderIds \subseteq Uids
<1>1. Cardinality(Founders) \in Nat /\ ExistsBijection(FounderIds, Founders)
  BY FS_CardinalityType DEF FounderIds
<1>2. PICK f : f \in Bijection(FounderIds, Founders)
  BY <1>1 DEF ExistsBijection
<1>3. f \in [FounderIds -> Founders] /\ \A u, v \in FounderIds : f[u] = f[v] => u = v
  BY <1>2 DEF Bijection, Injection, IsInjective
<1>4. /\ FounderOf \in [FounderIds -> Founders]
      /\ \A u, v \in FounderIds : FounderOf[u] = FounderOf[v] => u = v
  BY <1>3, Zenon DEF FounderOf, FounderIds
<1>5. Cardinality(Founders) /= 0
  BY FS_EmptySet
<1>. QED BY <1>1, <1>4, <1>5 DEF FounderIds, Uids

(* At first there is a row of an administrator for each founder, of their    *)
(* name, with their workspace and a token, and no other.                     *)
LEMMA FoundersRows ==
  ASSUME Init
  PROVE  /\ users \in [Uids -> Rows \cup {NoOne}]
         /\ \A u \in FounderIds : /\ u \in Uids /\ FounderOf[u] \in Names
                                  /\ users[u] \in Rows /\ users[u] /= NoOne /\ users[u].name = FounderOf[u]
                                  /\ users[u].role = "admin" /\ users[u].active /\ users[u].tv = 0 /\ users[u].pw = 0
         /\ \A u \in Uids \ FounderIds : users[u] = NoOne
         /\ spaces \in Seq([owner: Labels, by: Uids, late: BOOLEAN]) /\ Len(spaces) = Cardinality(Founders)
         /\ \A u \in FounderIds : spaces[u] = [owner |-> Live(FounderOf[u]), by |-> u, late |-> FALSE]
<1>1. FounderIds \subseteq Uids /\ \A u \in FounderIds : FounderOf[u] \in Names
  BY FoundersAreNumbered
<1>2. users = [u \in Uids |-> IF u \in FounderIds THEN NewRow(FounderOf[u], "admin", "admin") ELSE NoOne]
  BY DEF Init
<1>3. ASSUME NEW u \in FounderIds
      PROVE  /\ u \in Uids /\ FounderOf[u] \in Names
             /\ users[u] \in Rows /\ users[u] /= NoOne /\ users[u].name = FounderOf[u]
             /\ users[u].role = "admin" /\ users[u].active /\ users[u].tv = 0 /\ users[u].pw = 0
  <2>1. users[u] = NewRow(FounderOf[u], "admin", "admin")
    BY <1>1, <1>2
  <2>2. NewRow(FounderOf[u], "admin", "admin") \in Rows
    BY <1>1, NewRowFields DEF Roles
  <2>3. users[u].name = FounderOf[u] /\ users[u].role = "admin" /\ users[u].active /\ users[u].tv = 0 /\ users[u].pw = 0
    BY <2>1 DEF NewRow
  <2>. QED BY <1>1, <2>1, <2>2, <2>3
<1>4. \A u \in Uids \ FounderIds : users[u] = NoOne
  BY <1>2
<1>5. users \in [Uids -> Rows \cup {NoOne}]
  <2>1. \A u \in Uids : users[u] \in Rows \cup {NoOne}
    BY <1>3, <1>4
  <2>2. DOMAIN users = Uids /\ users = [u \in Uids |-> users[u]]
    BY <1>2
  <2>. QED BY <2>1, <2>2
<1>6. spaces = [u \in FounderIds |-> [owner |-> Live(FounderOf[u]), by |-> u, late |-> FALSE]]
  BY DEF Init
<1>7. \A u \in FounderIds : spaces[u] = [owner |-> Live(FounderOf[u]), by |-> u, late |-> FALSE]
  BY <1>6
<1>8. spaces \in Seq([owner: Labels, by: Uids, late: BOOLEAN]) /\ Len(spaces) = Cardinality(Founders)
  <2>1. MaxUid \in Nat /\ 0 \in 0..MaxUid
    OBVIOUS
  <2>2. \A u \in FounderIds : Live(FounderOf[u]) \in Labels
    BY <1>1, <2>1 DEF Live, Labels
  <2>3. \A u \in FounderIds : [owner |-> Live(FounderOf[u]), by |-> u, late |-> FALSE] \in [owner: Labels, by: Uids, late: BOOLEAN]
    BY <1>1, <2>2
  <2>. DEFINE N == Cardinality(Founders)
              S == [owner: Labels, by: Uids, late: BOOLEAN]
              w(u) == [owner |-> Live(FounderOf[u]), by |-> u, late |-> FALSE]
  <2>4. N \in Nat /\ spaces = [u \in 1..N |-> w(u)] /\ \A u \in 1..N : w(u) \in S
    BY <1>6, <2>3, FoundersAreNumbered DEF FounderIds
  <2>. HIDE DEF N, S, w
  <2>5. spaces \in [1..N -> S]
    BY <2>4
  <2>6. spaces \in Seq(S)
    BY <2>4, <2>5, IsASeq
  <2>7. Len(spaces) = N
    BY <2>4, <2>5, <2>6, LenProperties
  <2>. QED BY <2>6, <2>7 DEF N, S
<1>. QED BY <1>3, <1>4, <1>5, <1>7, <1>8

(* At the start every variable has its type.                                *)
LEMMA InitTypeOK ==
  ASSUME Init
  PROVE  TypeOK
<1>1. users \in [Uids -> Rows \cup {NoOne}] /\ spaces \in Seq([owner: Labels, by: Uids, late: BOOLEAN])
  BY FoundersRows
<1>2. tokens \subseteq TokenType
  <2>1. \A u \in FounderIds : u \in Uids /\ FounderOf[u] \in Names
    BY FoundersRows
  <2>. QED BY <2>1 DEF Init, TokenType
<1>3. job \in [Clients -> Job]
  BY IdleIsAJob DEF Init
<1>4. cache \in [Instances -> [Uids -> Cached]]
  BY DEF Init, Cached, Nothing
<1>5. spaceCache \in [Instances -> [known: BOOLEAN, owners: Seq(Labels), at: Nat]]
  <2>1. <<>> \in Seq(Labels)
    OBVIOUS
  <2>. QED BY <2>1 DEF Init, NoMap
<1>6. nextUid \in Nat
  BY FoundersAreNumbered DEF Init
<1>. QED BY <1>1, <1>2, <1>3, <1>4, <1>5, <1>6 DEF Init, TypeOK

(* The invariant holds at the start.                                         *)
LEMMA InitInvariant ==
  ASSUME Init
  PROVE  IInv
<1>1. TypeOK
  BY InitTypeOK
<1>2. /\ \A d \in Clients : /\ job[d].pc = "idle" /\ job[d].uid = 0 /\ job[d].row = NoOne
                            /\ job[d].change = "none" /\ job[d].target = 0
                            /\ job[d].owners = <<>> /\ job[d].access = "none"
      /\ nextUid = Cardinality(Founders) + 1
      /\ \A n \in Names : failures[n] = 0
  BY IdleFields DEF Init
<1>3. \A t \in tokens : \E u \in FounderIds : t.uid = u /\ t.name = FounderOf[u] /\ t.tv = 0 /\ t.pw = 0
  BY DEF Init
<1>4. 0 \notin Uids /\ \A u \in FounderIds : u \in Uids /\ u < nextUid
  BY <1>2, FoundersAreNumbered DEF Uids, FounderIds
<1>5. JobsHold /\ AdminsAct
  BY <1>2 DEF JobsHold, Known, Resolving, AdminsAct
<1>6. RowIds /\ TokenIds /\ JobIds
  <2>1. nextUid \in Nat \ {0}
    BY <1>2, FoundersAreNumbered
  <2>2. \A u \in Uids : Exists(u) => u < nextUid
    BY <1>4, FoundersRows DEF Exists
  <2>3. \A t \in tokens : t.uid < nextUid
    BY <1>3, <1>4
  <2>4. \A d \in Clients : job[d].uid < nextUid /\ job[d].pc \notin {"count", "write"}
    BY <1>2, <2>1
  <2>. QED BY <2>1, <2>2, <2>3, <2>4 DEF RowIds, TokenIds, JobIds
<1>7. OneRowPerName
  <2>. SUFFICES ASSUME NEW u \in Uids, NEW v \in Uids, users[u] /= NoOne, users[v] /= NoOne, users[u].name = users[v].name
                PROVE  u = v
    BY DEF OneRowPerName, Exists
  <2>1. u \in FounderIds /\ v \in FounderIds
    BY FoundersRows
  <2>2. FounderOf[u] = FounderOf[v]
    BY <2>1, FoundersRows
  <2>. QED BY <2>1, <2>2, FoundersAreNumbered
<1>8. TokenNames /\ TokensMatch
  <2>. SUFFICES ASSUME NEW t \in tokens, Exists(t.uid)
                PROVE  users[t.uid].name = t.name /\ t.tv = users[t.uid].tv /\ t.pw = users[t.uid].pw
    BY DEF TokenNames, TokensMatch, Matches
  <2>1. PICK u \in FounderIds : t.uid = u /\ t.name = FounderOf[u] /\ t.tv = 0 /\ t.pw = 0
    BY <1>3
  <2>. QED BY <2>1, FoundersRows
<1>9. JobNames /\ HeldNames /\ TargetNames /\ JobsMatch
  BY <1>2, <1>4 DEF JobNames, HeldNames, TargetNames, JobsMatch, WillSign, Resolving, Exists
<1>10. SpacesKeepOwners
  <2>. SUFFICES ASSUME NEW k \in 1..Len(spaces), NEW n \in Names, spaces[k].owner = Live(n)
                PROVE  Exists(spaces[k].by) /\ users[spaces[k].by].name = n
    BY DEF SpacesKeepOwners
  <2>1. k \in FounderIds
    BY FoundersRows DEF FounderIds
  <2>4. spaces[k] = [owner |-> Live(FounderOf[k]), by |-> k, late |-> FALSE]
    BY <2>1, FoundersRows, Zenon
  <2>2. spaces[k].owner = Live(FounderOf[k]) /\ spaces[k].by = k
    BY <2>4
  <2>3. n = FounderOf[k]
    BY <2>2 DEF Live
  <2>. QED BY <2>1, <2>2, <2>3, FoundersRows DEF Exists
<1>11. AdminBesides
  <2>1. 1 \in ActiveAdmins
    BY FoundersAreNumbered, FoundersRows DEF ActiveAdmins, Exists
  <2>. QED BY <1>2, <2>1 DEF AdminBesides, Armed, Removing
<1>12. AttemptsBounded
  <2>. SUFFICES ASSUME NEW n \in Names
                PROVE  failures[n] + Cardinality(Attempts(n)) < MaxFailures + Cardinality(Clients)
    BY DEF AttemptsBounded
  <2>1. Attempts(n) = {}
    BY <1>2 DEF Attempts
  <2>. QED BY <1>2, <2>1, FS_EmptySet, FS_CardinalityType, ClientsAssumption
<1>13. MapsAgree /\ OwnersNamed
  <2>1. Agrees(<<>>)
    BY FoundersRows, FoundersAreNumbered DEF Agrees
  <2>2. \A i \in Instances : spaceCache[i].owners = <<>>
    BY DEF Init, NoMap
  <2>. QED BY <1>2, <2>1, <2>2 DEF MapsAgree, OwnersNamed, At
<1>. QED BY <1>1, <1>5, <1>6, <1>7, <1>8, <1>9, <1>10, <1>11, <1>12, <1>13 DEF IInv

---------------------------------------------------------------------------
(* Every step keeps the invariant.                                           *)
LEMMA Inductive ==
  ASSUME IInv, [Next]_vars
  PROVE  IInv'
<1>1. /\ TypeOK /\ JobsHold /\ AdminsAct /\ RowIds /\ TokenIds /\ JobIds
      /\ OneRowPerName /\ TokenNames /\ JobNames /\ HeldNames /\ TargetNames
      /\ TokensMatch /\ JobsMatch /\ SpacesKeepOwners /\ MapsAgree /\ OwnersNamed
      /\ AdminBesides /\ AttemptsBounded
  BY DEF IInv
<1>2. Effect
  BY <1>1, Effects
<1>3. TypeOK'
  BY <1>1, TypeStep
<1>4. JobsHold' /\ AdminsAct'
  BY <1>1, <1>2, JobsHoldStep, AdminsActStep
<1>5. RowIds' /\ TokenIds' /\ JobIds'
  BY <1>1, <1>2, RowIdsStep, TokenIdsStep, JobIdsStep
<1>6. OneRowPerName' /\ TokenNames' /\ JobNames' /\ HeldNames' /\ TargetNames'
  BY <1>1, <1>2, OneRowPerNameStep, TokenNamesStep, JobNamesStep, HeldNamesStep, TargetNamesStep
<1>7. TokensMatch' /\ JobsMatch'
  BY <1>1, <1>2, TokensMatchStep, JobsMatchStep
<1>8. SpacesKeepOwners' /\ AdminBesides' /\ AttemptsBounded'
  BY <1>1, <1>2, SpacesKeepOwnersStep, AdminBesidesStep, AttemptsBoundedStep
<1>9. MapsAgree' /\ OwnersNamed'
  BY <1>1, <1>3, MapsAgreeStep, OwnersNamedStep
<1>. QED BY <1>3, <1>4, <1>5, <1>6, <1>7, <1>8, <1>9 DEF IInv

(* The invariant of every reachable state.                                  *)
LEMMA Invariance == Spec => []IInv
<1>1. Init => IInv
  BY InitInvariant
<1>2. IInv /\ [Next]_vars => IInv'
  BY Inductive
<1>. QED BY <1>1, <1>2, PTL DEF Spec

---------------------------------------------------------------------------
(* Accounts, workspaces, members, caches, tokens and requests keep their     *)
(* types.                                                                    *)
THEOREM TypeCorrect == Spec => []TypeOK
<1>1. IInv => TypeOK
  BY DEF IInv
<1>. QED BY <1>1, Invariance, PTL

(* A token the row still accepts was given for the password the row has now, *)
(* however many logins, resets and revocations overlap (auth.ts login,       *)
(* admin.ts resetPassword): what a login has read is of an earlier version   *)
(* of the row, or of this one and of its password, and so is every token.    *)
THEOREM PasswordsOpenSessions == Spec => []PasswordOpensSession
<1>1. ASSUME IInv PROVE PasswordOpensSession
  <2>. SUFFICES ASSUME NEW t \in tokens, Exists(t.uid), users[t.uid].tv = t.tv
                PROVE  users[t.uid].pw = t.pw
    BY DEF PasswordOpensSession
  <2>1. TypeOK /\ TokensMatch
    BY <1>1 DEF IInv
  <2>2. t.tv \in Nat
    BY <2>1, Typed
  <2>. QED BY <2>1, <2>2 DEF TokensMatch, Matches
<1>. QED BY <1>1, Invariance, PTL

(* Attempts in parallel exceed the limit on failures by at most those under  *)
(* way (auth.ts tooManyFailures, recordAttempt): each of them may still fail.*)
THEOREM FailuresAreBounded == Spec => []FailuresBounded
<1>1. ASSUME IInv PROVE FailuresBounded
  <2>. SUFFICES ASSUME NEW n \in Names
                PROVE  failures[n] < MaxFailures + Cardinality(Clients)
    BY DEF FailuresBounded
  <2>1. Attempts(n) \subseteq Clients
    BY DEF Attempts
  <2>2. Cardinality(Attempts(n)) \in Nat /\ Cardinality(Clients) \in Nat
    BY <2>1, FS_Subset, FS_CardinalityType, ClientsAssumption
  <2>3. failures[n] \in Nat /\ MaxFailures \in Nat
    BY <1>1, ClientsAssumption DEF IInv, TypeOK
  <2>4. failures[n] + Cardinality(Attempts(n)) < MaxFailures + Cardinality(Clients)
    BY <1>1 DEF IInv, AttemptsBounded
  <2>. QED BY <2>2, <2>3, <2>4
<1>. QED BY <1>1, Invariance, PTL

(* Unless a removal is counted while another change that may remove is under *)
(* way, an active administrator is left (admin.ts lockoutProblem): one is    *)
(* no target of those past their count.                                      *)
THEOREM AnAdminRemains == Spec => []AdminRemains
<1>1. IInv => AdminRemains
  BY DEF IInv, AdminBesides, AdminRemains
<1>. QED BY <1>1, Invariance, PTL

(* An action changes accounts or memberships only under a request whose      *)
(* account is an administrator, or makes a new account that is none.         *)
LEMMA AdministeredStep ==
  ASSUME IInv, [Next]_vars
  PROVE  \/ UNCHANGED <<users, members>>
         \/ \E c \in Clients : job'[c] /= job[c] /\ job[c].row /= NoOne /\ job[c].row.role = "admin"
         \/ /\ members' = members
            /\ \A u \in Uids : users'[u] /= users[u] =>
                 users[u] = NoOne /\ users'[u].source = "self" /\ users'[u].role /= "admin"
<1>. DEFINE Goal == \/ UNCHANGED <<users, members>>
                    \/ \E c \in Clients : job'[c] /= job[c] /\ job[c].row /= NoOne /\ job[c].row.role = "admin"
                    \/ /\ members' = members
                       /\ \A u \in Uids : users'[u] /= users[u] =>
                            users[u] = NoOne /\ users'[u].source = "self" /\ users'[u].role /= "admin"
<1>1. /\ TypeOK /\ users \in [Uids -> Rows \cup {NoOne}] /\ job \in [Clients -> Job]
      /\ JobsHold /\ AdminsAct /\ RowIds /\ TokenIds /\ JobIds
  BY DEF IInv, TypeOK
<1>2. ASSUME NEW c \in Clients, job[c].pc \in {"handle", "enroll", "count", "write"},
             \/ \E p : p /= job[c].pc /\ To(c, p)
             \/ Ends(c)
             \/ \E j : j.pc /= job[c].pc /\ Goes(c, j)
      PROVE  Goal
  <2>1. job'[c].pc /= job[c].pc
    <3>1. ASSUME NEW p, p /= job[c].pc, To(c, p) PROVE job'[c].pc /= job[c].pc
      BY <1>1, <3>1, ToMoves DEF Moves
    <3>2. ASSUME Ends(c) PROVE job'[c].pc /= job[c].pc
      BY <1>1, <1>2, <3>2, EndsStops DEF Stops
    <3>3. ASSUME NEW j, j.pc /= job[c].pc, Goes(c, j) PROVE job'[c].pc /= job[c].pc
      BY <1>1, <3>3 DEF Goes
    <3>. QED BY <1>2, <3>1, <3>2, <3>3
  <2>2. job[c].row \in Rows /\ job[c].row.role = "admin"
    BY <1>1, <1>2 DEF JobsHold, Known, AdminsAct
  <2>. QED BY <2>1, <2>2, NoOneIsNoRow
<1>3. ASSUME NEW c \in Clients, RegisterInserts(c) PROVE Goal
  <2>1. CASE UidOf(job[c].name) = 0
    <3>. DEFINE r == NewRow(job[c].name, "analyst", "self")
    <3>1. /\ UNCHANGED members /\ nextUid \in Uids /\ users' = [users EXCEPT ![nextUid] = r]
      BY <1>3, <2>1 DEF RegisterInserts
    <3>2. r.source = "self" /\ r.role /= "admin"
      BY DEF NewRow
    <3>3. users[nextUid] = NoOne
      BY <1>1, <3>1, NewId
    <3>. HIDE DEF r
    <3>. QED BY <1>1, <3>1, <3>2, <3>3
  <2>2. CASE UidOf(job[c].name) /= 0
    BY <1>3, <2>2 DEF RegisterInserts
  <2>. QED BY <2>1, <2>2
<1>4. ASSUME NEW c \in Clients, UpdateUser(c) \/ DeleteUser(c) PROVE Goal
  <2>1. job[c].pc = "write" /\ To(c, "clear")
    BY <1>4 DEF UpdateUser, DeleteUser
  <2>. QED BY <1>2, <2>1
<1>5. ASSUME NEW c \in Clients, NEW n \in Names, CreateUser(c, n) \/ RemoveMember(c, n) PROVE Goal
  <2>1. ASSUME RemoveMember(c, n) PROVE Goal
    <3>1. job[c].pc = "handle" /\ Ends(c)
      BY <2>1 DEF RemoveMember
    <3>. QED BY <1>2, <3>1
  <2>2. ASSUME CreateUser(c, n) PROVE Goal
    <3>. DEFINE j == [job[c] EXCEPT !.pc = "open", !.scope = Own, !.name = n, !.uid = nextUid, !.row = NewRow(n, "viewer", "admin")]
    <3>1. job[c].pc = "handle" /\ (Ends(c) \/ Goes(c, j))
      BY <2>2 DEF CreateUser
    <3>2. j.pc /= job[c].pc
      BY <1>1, <3>1 DEF Job
    <3>. HIDE DEF j
    <3>. QED BY <1>2, <3>1, <3>2
  <2>. QED BY <1>5, <2>1, <2>2
<1>12. ASSUME NEW c \in Clients, AddMember(c) PROVE Goal
  <2>1. job[c].pc = "enroll" /\ Ends(c)
    BY <1>12 DEF AddMember
  <2>. QED BY <1>2, <2>1
<1>6. ASSUME NEW c \in Clients,
             \/ \E n \in Names : AskLogin(c, n)
             \/ \E right \in BOOLEAN : LoginAnswers(c, right)
             \/ \E i \in Instances, n \in Names : AskRegister(c, i, n)
             \/ LoginReads(c) \/ ReadPolicy(c) \/ FillPolicy(c) \/ CountSignups(c) \/ RecordSignup(c)
      PROVE  UNCHANGED <<users, members>>
  <2>1. ASSUME NEW n \in Names, NEW i \in Instances, AskLogin(c, n) \/ AskRegister(c, i, n)
        PROVE  UNCHANGED <<users, members>>
    BY <2>1 DEF AskLogin, AskRegister, stored
  <2>2. ASSUME NEW right \in BOOLEAN, LoginAnswers(c, right) PROVE UNCHANGED <<users, members>>
    BY <2>2 DEF LoginAnswers
  <2>3. ASSUME LoginReads(c) \/ ReadPolicy(c) \/ FillPolicy(c) \/ CountSignups(c) \/ RecordSignup(c)
        PROVE  UNCHANGED <<users, members>>
    BY <2>3 DEF LoginReads, ReadPolicy, FillPolicy, CountSignups, RecordSignup, stored
  <2>. QED BY <1>6, <2>1, <2>2, <2>3, ClientsAssumption
<1>7. ASSUME NEW c \in Clients, NEW i \in Instances, NEW t \in tokens, NEW route \in Routes,
             NEW s \in ScopesOf(route), NEW h \in ChangesOf(route), NEW u \in TargetsOf(h),
             AskRoute(c, i, t, route, s, h, u)
      PROVE  UNCHANGED <<users, members>>
  BY <1>7 DEF AskRoute, stored
<1>8. ASSUME NEW c \in Clients,
             \/ ReadUser(c) \/ FillCache(c) \/ Scope(c) \/ ReadSpaces(c) \/ FillSpaces(c) \/ Enter(c)
             \/ OpenSpace(c) \/ MakeSpace(c) \/ SpaceMade(c) \/ Authorize(c) \/ (\E n \in Names : FindMember(c, n))
             \/ ReadTarget(c) \/ CountAdmins(c) \/ ClearUserCache(c) \/ UpdateSettings(c)
      PROVE  UNCHANGED <<users, members>>
  <2>1. ASSUME ReadUser(c) \/ FillCache(c) \/ Scope(c) \/ ReadSpaces(c) \/ FillSpaces(c) \/ Enter(c)
        PROVE  UNCHANGED <<users, members>>
    BY <2>1 DEF ReadUser, FillCache, Scope, ReadSpaces, FillSpaces, Enter, stored
  <2>2. ASSUME OpenSpace(c) \/ MakeSpace(c) \/ SpaceMade(c) \/ Authorize(c) \/ (\E n \in Names : FindMember(c, n))
        PROVE  UNCHANGED <<users, members>>
    BY <2>2 DEF OpenSpace, MakeSpace, SpaceMade, Authorize, FindMember, stored
  <2>3. ASSUME ReadTarget(c) \/ CountAdmins(c) \/ ClearUserCache(c) \/ UpdateSettings(c)
        PROVE  UNCHANGED <<users, members>>
    BY <2>3 DEF ReadTarget, CountAdmins, ClearUserCache, UpdateSettings, stored
  <2>. QED BY <1>8, <2>1, <2>2, <2>3
<1>9. ASSUME \/ \E n \in Names : WindowPasses(n)
             \/ HourPasses \/ TimePasses \/ UNCHANGED vars
      PROVE  UNCHANGED <<users, members>>
  BY <1>9 DEF WindowPasses, HourPasses, TimePasses, vars, stored
<1>. HIDE DEF Goal
<1>10. (UNCHANGED <<users, members>>) => Goal
  BY DEF Goal
<1>11. Goal
  BY <1>3, <1>4, <1>5, <1>6, <1>7, <1>8, <1>9, <1>10, <1>12, Zenon DEF Next
<1>. QED BY <1>11 DEF Goal

(* Nobody acts by another's account: a workspace whose label is a name is of *)
(* the account of that name, or was made after its account had gone; whoever *)
(* is let in as an owner, by a map however old, has the name it was made     *)
(* under; and owning one makes no administrator (tombstone, accessFor,       *)
(* authorizeRoute).  Not proved, because it is not so: that the account let  *)
(* in is the one it was made for (OwnersOnly).                               *)
THEOREM NobodyBorrowsRights == Spec => NoBorrowedRights
<1>1. ASSUME IInv PROVE NoInheritance /\ OwnersInside
  <2>1. TypeOK /\ SpacesKeepOwners /\ OneRowPerName /\ JobNames /\ OwnersNamed
    BY <1>1 DEF IInv
  <2>2. ASSUME NEW k \in 1..Len(spaces), NEW u \in Uids, Exists(u), spaces[k].owner = Live(users[u].name),
               ~spaces[k].late
        PROVE  spaces[k].by = u
    <3>1. users[u] \in Rows
      BY <2>1, <2>2 DEF TypeOK, Exists
    <3>2. users[u].name \in Names
      BY <3>1 DEF Rows
    <3>3. Exists(spaces[k].by) /\ users[spaces[k].by].name = users[u].name
      BY <2>1, <2>2, <3>2 DEF SpacesKeepOwners
    <3>. QED BY <2>1, <2>2, <3>3 DEF OneRowPerName, Exists
  <2>3. NoInheritance
    BY <2>2 DEF NoInheritance
  <2>4. ASSUME NEW c \in Clients, NEW k \in 1..Len(spaces), job[c].access = "owner", job[c].scope = k
        PROVE  /\ spaces[k].owner[1] = job[c].name
               /\ spaces[k].owner = Live(job[c].name) /\ Exists(job[c].uid) =>
                      spaces[k].by = job[c].uid \/ spaces[k].late
    <3>1. spaces[k].owner[1] = job[c].name
      BY <2>1, <2>4 DEF OwnersNamed, At, Named, Own
    <3>2. ASSUME spaces[k].owner = Live(job[c].name), Exists(job[c].uid), ~spaces[k].late
          PROVE  spaces[k].by = job[c].uid
      <4>1. job[c].uid \in Uids /\ users[job[c].uid].name = job[c].name
        BY <2>1, <3>2 DEF JobNames, Exists
      <4>. QED BY <2>2, <3>2, <4>1
    <3>. QED BY <3>1, <3>2
  <2>5. OwnersInside
    BY <2>4 DEF OwnersInside
  <2>. QED BY <2>3, <2>5
<1>2. ASSUME IInv, [Next]_vars
      PROVE  [\/ \E c \in Clients : job'[c] /= job[c] /\ job[c].row /= NoOne /\ job[c].row.role = "admin"
              \/ /\ members' = members
                 /\ \A u \in Uids : users'[u] /= users[u] =>
                      users[u] = NoOne /\ users'[u].source = "self" /\ users'[u].role /= "admin"]_<<users, members>>
  BY <1>2, AdministeredStep
<1>3. Spec => [](NoInheritance /\ OwnersInside)
  BY <1>1, Invariance, PTL
<1>4. Spec => OnlyAdminsAdminister
  BY <1>2, Invariance, PTL DEF Spec, OnlyAdminsAdminister
<1>. QED BY <1>3, <1>4, PTL DEF NoBorrowedRights
=============================================================================
