------------------------------- MODULE Actions -------------------------------
(* Running a declared action (actions.ts executeAction): its parameters,    *)
(* the caller's role, approval, then the gate that computes or stages - and *)
(* one row in the audit trail that says which. No action is implemented as  *)
(* read-only; a staged one changes nothing but the trail. Actions are       *)
(* edited, and the objects they name come and go, while requests run. The   *)
(* row is written before the caller is answered, in a statement of its own, *)
(* and the service may stop between the two.                                *)
EXTENDS Naturals, Sequences

CONSTANTS Roles,       \* the ontology's roles, whether declared or not
          Clients,
          Declarable,  \* the ways the action may be declared, some of Declarations
          MaxAsks      \* bound

VARIABLES declared,    \* the roles the ontology declares
          action,      \* the action as it is declared now
          there,       \* whether the object the parameters name is there
          call,        \* what each request is doing
          trail,       \* the audit rows
          told,        \* what was answered
          asks         \* history: the requests made, which number them

vars == <<declared, action, there, call, trail, told, asks>>

Declarations == [readOnly : BOOLEAN, allowed : SUBSET Roles, audited : BOOLEAN,
                 approval : {"none", "always", "unless small"}]
(* A parameter is of the right type or not; an amount is small or large.    *)
Parameters == [valid : BOOLEAN, amount : {"small", "large"}, names : {"object", "nothing"}]
Idle == [at |-> "idle"]

Init == /\ declared = Roles /\ action = [readOnly |-> FALSE, allowed |-> Roles, audited |-> TRUE, approval |-> "none"]
        /\ there = TRUE /\ call = [c \in Clients |-> Idle] /\ trail = <<>> /\ told = {} /\ asks = 0

(* With no roles declared anyone may; else a declared role a rule allows.   *)
CheckRole(meta, role) == declared = {} \/ (role \in declared /\ role \in meta.allowed)
(* A condition that cannot be read as a comparison is not met: such an      *)
(* action always asks.                                                      *)
IsAutoApproved(meta, p) == meta.approval = "unless small" /\ p.amount = "small"
Waits(meta, p) == meta.approval # "none" /\ ~IsAutoApproved(meta, p)
(* Mutant: approval is looked at before the role.                           *)
Verdict_ApprovalFirst(meta, p, role) ==
    IF ~p.valid THEN "failed"
    ELSE IF Waits(meta, p) THEN "pending_approval"
    ELSE IF ~CheckRole(meta, role) THEN "rejected"
    ELSE IF meta.readOnly THEN "failed" ELSE "go on"
(* What is decided without asking the database, in this order.              *)
Verdict(meta, p, role) ==
    IF ~p.valid THEN "failed"
    ELSE IF ~CheckRole(meta, role) THEN "rejected"
    ELSE IF Waits(meta, p) THEN "pending_approval"
    ELSE IF meta.readOnly THEN "failed" ELSE "go on"

Apply(c, p, role) ==
    LET verdict == Verdict(action, p, role) IN
    /\ call[c] = Idle /\ asks < MaxAsks /\ asks' = asks + 1
    /\ call' = [call EXCEPT ![c] = [at |-> IF verdict = "go on" THEN "target" ELSE "record", id |-> asks',
                                    names |-> p.names, status |-> verdict, audited |-> action.audited,
                                    allowed |-> CheckRole(action, role)]]
    /\ UNCHANGED <<declared, action, there, trail, told>>
(* stageMutation: a key parameter has to name an object that is there. A    *)
(* lookup that fails is swallowed, and the action staged without a target.  *)
FindTarget(c) ==
    /\ call[c].at = "target"
    /\ \E looked \in BOOLEAN :
          call' = [call EXCEPT ![c].at = "record",
                               ![c].status = IF call[c].names = "object" /\ looked /\ ~there THEN "failed" ELSE "staged"]
    /\ UNCHANGED <<declared, action, there, trail, told, asks>>
Row(c) == [id |-> call[c].id, client |-> c, status |-> call[c].status, allowed |-> call[c].allowed, audited |-> call[c].audited]
(* record: one row, unless the action is declared to leave none.            *)
Recorded(c) == IF call[c].audited THEN Append(trail, Row(c)) ELSE trail
Record(c) ==
    /\ call[c].at = "record"
    /\ trail' = Recorded(c)
    /\ call' = [call EXCEPT ![c].at = "answer"]
    /\ UNCHANGED <<declared, action, there, told, asks>>
(* Mutant: the record of a staged action is awaited inside the try, and the *)
(* catch records a failure of the same request.                             *)
RecordFails_CaughtAgain(c) ==
    /\ call[c].at = "record" /\ call[c].audited
    /\ trail' \in {trail, Recorded(c)}
    /\ call' = [call EXCEPT ![c] = IF @.status = "staged" THEN [@ EXCEPT !.status = "failed"] ELSE Idle]
    /\ UNCHANGED <<declared, action, there, told, asks>>
(* The INSERT fails, or its answer is lost: the caller gets an error, never *)
(* an outcome.                                                              *)
RecordFails(c) ==
    /\ call[c].at = "record" /\ call[c].audited
    /\ trail' \in {trail, Recorded(c)}
    /\ call' = [call EXCEPT ![c] = Idle]
    /\ UNCHANGED <<declared, action, there, told, asks>>
Answer(c) ==
    /\ call[c].at = "answer"
    /\ told' = told \cup {Row(c)}
    /\ call' = [call EXCEPT ![c] = Idle]
    /\ UNCHANGED <<declared, action, there, trail, asks>>
(* The service stops: what was under way is never answered.                 *)
ServiceStops == /\ call' = [c \in Clients |-> Idle]
                /\ UNCHANGED <<declared, action, there, trail, told, asks>>

Declare(d) == action' = d /\ UNCHANGED <<declared, there, call, trail, told, asks>>
DeclareRoles(rs) == declared' = rs /\ UNCHANGED <<action, there, call, trail, told, asks>>
ObjectComesOrGoes == there' = ~there /\ UNCHANGED <<declared, action, call, trail, told, asks>>

Next == \/ \E c \in Clients : \/ \E p \in Parameters, r \in Roles : Apply(c, p, r)
                              \/ FindTarget(c) \/ Record(c) \/ RecordFails(c) \/ Answer(c)
        \/ (\E d \in Declarable : Declare(d)) \/ (\E rs \in SUBSET Roles : DeclareRoles(rs)) \/ ObjectComesOrGoes \/ ServiceStops
Spec == Init /\ [][Next]_vars

------------------------------------------------------------------------------
(* The trail tells what callers were told, refusals and failures as well: a *)
(* request leaves one row at most, whatever fails; whoever was told the     *)
(* outcome of an audited action finds the row that says the same, and no    *)
(* row says another thing of a request than its caller was told. Rows may   *)
(* stand without an answer, and in another order than the answers came.     *)
RowsAreAnswers ==
    /\ \A k, l \in DOMAIN trail : trail[k].id = trail[l].id => k = l
    /\ \A a \in told : a.audited => \E k \in DOMAIN trail : trail[k] = a
    /\ \A a \in told, k \in DOMAIN trail : trail[k].id = a.id => trail[k] = a /\ a.audited
(* Neither shows a request as queued or staged for someone whose role did   *)
(* not allow it when it was made - the order of the checks "and any one of  *)
(* them can stop the request" (actions.ts:19-20).                           *)
Granted(r) == r.status \in {"staged", "pending_approval"} => r.allowed
RolesCameFirst == (\A k \in DOMAIN trail : Granted(trail[k])) /\ \A a \in told : Granted(a)
TrailIsWhatWasSaid == RowsAreAnswers /\ RolesCameFirst

(* Why they hold.                                                           *)
Statuses == {"failed", "rejected", "pending_approval", "staged", "go on"}
Answered == [id : Nat, client : Clients, status : Statuses, allowed : BOOLEAN, audited : BOOLEAN]
Calls == [at : {"target", "record", "answer"}, id : Nat, names : {"object", "nothing"}, status : Statuses,
          audited : BOOLEAN, allowed : BOOLEAN]
TypeOK == /\ action \in Declarations /\ trail \in Seq(Answered) /\ told \subseteq Answered
          /\ call \in [Clients -> Calls \cup {Idle}] /\ asks \in Nat
(* What is about to be recorded or told as staged or queued, or still looks *)
(* for the object it names, may: the role came first.                       *)
CallsAreAllowed ==
    \A c \in Clients : call[c] # Idle => (call[c].at = "target" => call[c].allowed) /\ Granted(call[c])
(* A request has a number of its own, and a row of that number only once it *)
(* is recorded - its own; nobody was told its outcome yet.                  *)
Numbered(c) ==
    /\ call[c].id <= asks /\ \A d \in Clients \ {c} : call[d] # Idle => call[d].id # call[c].id
    /\ \A a \in told : a.id # call[c].id
    /\ \A k \in DOMAIN trail : trail[k].id = call[c].id => call[c].at = "answer" /\ trail[k] = Row(c) /\ call[c].audited
    /\ call[c].at = "answer" /\ call[c].audited => \E k \in DOMAIN trail : trail[k] = Row(c)
RequestsAreNumbered ==
    /\ \A c \in Clients : call[c] # Idle => Numbered(c)
    /\ (\A k \in DOMAIN trail : trail[k].id <= asks) /\ \A a \in told : a.id <= asks
IInv == TypeOK /\ CallsAreAllowed /\ RequestsAreNumbered /\ TrailIsWhatWasSaid
=============================================================================
