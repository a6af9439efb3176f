------------------------------- MODULE Routes --------------------------------
(* The service's front door (index.ts): the layers an HTTP request passes,  *)
(* in the order they are mounted. Express takes the first layer that fits,  *)
(* so the order says who is let in and who answers. What a handler does is  *)
(* the other modules; here it answers, or fails with an error that names    *)
(* itself or one that must stay in the log.                                 *)
EXTENDS Naturals, Sequences, FiniteSets

CONSTANT Names       \* what a ":name" of an address may be

VARIABLES request,   \* [verb, path], and the route it was written for
          at,        \* the layer it has come to
          passed,    \* the guards it has passed
          answer     \* who answered, and how

vars == <<request, at, passed, answer>>

Get(p) == [verb |-> "GET", path |-> p]          Post(p) == [verb |-> "POST", path |-> p]
Put(p) == [verb |-> "PUT", path |-> p]          Patch(p) == [verb |-> "PATCH", path |-> p]
Delete(p) == [verb |-> "DELETE", path |-> p]    Use(p, what) == [verb |-> "use", path |-> p, guard |-> what]

Public == <<Post(<<"auth", "login">>), Get(<<"auth", "config">>), Post(<<"auth", "register">>)>>
Guards == <<Use(<<>>, "authenticate"), Use(<<>>, "spaceScope"), Use(<<>>, "authorizeRoute")>>
(* Mutant: a page of the console above its lock.                            *)
Console_LateLock == <<Get(<<"auth", "me">>), Get(<<"admin", "overview">>), Use(<<"admin">>, "admin"), Get(<<"admin", "users">>)>>
Console == <<
    Get(<<"auth", "me">>), Use(<<"admin">>, "admin"),
    Get(<<"admin", "overview">>), Get(<<"admin", "users">>), Post(<<"admin", "users">>),
    Patch(<<"admin", "users", ":id">>), Post(<<"admin", "users", ":id", "password">>),
    Post(<<"admin", "users", ":id", "revoke">>), Delete(<<"admin", "users", ":id">>),
    Get(<<"admin", "settings">>), Put(<<"admin", "settings">>), Get(<<"admin", "events">>),
    Post(<<"registry", "reload">>), Get(<<"stats">>)>>
Ontology == <<Get(<<"ontology">>), Get(<<"ontology", "versions">>), Get(<<"ontology", "validate">>),
    Get(<<"ontology", "export", ":name">>)>>
Types == <<
    Get(<<"object-types">>), Get(<<"object-types", ":name">>), Get(<<"link-types">>), Get(<<"action-types">>),
    Get(<<"interfaces">>), Get(<<"roles">>)>>
Objects == <<
    Post(<<"objects", ":name", "search">>), Post(<<"objects", ":name", "aggregate">>),
    Get(<<"objects", ":name", ":name">>), Get(<<"objects", ":name", ":name", "links", ":name">>), Get(<<"search">>),
    Get(<<"kpis">>), Get(<<"kpis", "catalogue">>), Get(<<"kpis", ":name">>), Post(<<"kpis", ":name", "execute">>),
    Get(<<"kpis", ":name", "dimensions", ":name">>)>>
Dashboards == <<Get(<<"dashboards">>), Get(<<"dashboards", "history">>), Get(<<"dashboards", "export">>),
    Post(<<"dashboards", "import">>), Post(<<"dashboards", ":name", "rename">>), Get(<<"dashboards", ":name">>),
    Get(<<"dashboards", ":name", "filters">>), Post(<<"dashboards">>), Post(<<"workspace", "auto-dashboard">>)>>
Proposals == <<Post(<<"feasibility">>), Get(<<"proposals">>), Get(<<"proposals", ":id">>), Post(<<"proposals">>),
    Post(<<"proposals", ":id", "approve">>), Post(<<"proposals", ":id", "reject">>),
    Post(<<"dashboards", "validate">>), Delete(<<"dashboards", ":name">>)>>
Actions == <<Post(<<"actions", ":name", "validate">>), Post(<<"actions", ":name", "apply">>), Get(<<"actions", "audit">>)>>
Authoring == <<
    Get(<<"datasets">>), Get(<<"datasets", ":name", "profile">>), Post(<<"ontology", "object-types">>),
    Get(<<"ontology", "link-suggestions">>), Post(<<"ontology", "action-types">>), Post(<<"ontology", "metrics">>),
    Patch(<<"ontology", ":name", ":name">>), Post(<<"ontology", "link-types">>), Delete(<<"ontology", ":name", ":name">>),
    Get(<<"ontology", "edits">>), Post(<<"ontology", "edits", ":id", "undo">>)>>
Functions == <<
    Get(<<"functions">>), Get(<<"functions", ":name">>), Get(<<"functions", ":name", "runs">>),
    Post(<<"functions", "validate">>), Post(<<"functions">>), Patch(<<"functions", ":name">>),
    Post(<<"functions", ":name", "approve">>), Post(<<"functions", ":name", "reject">>),
    Post(<<"functions", ":name", "archive">>), Post(<<"functions", ":name", "run">>)>>
Spaces == <<
    Get(<<"spaces">>), Get(<<"spaces", ":name", "members">>), Post(<<"spaces", ":name", "members">>),
    Delete(<<"spaces", ":name", "members", ":name">>), Get(<<"workspace", "summary">>),
    Get(<<"spaces", "database">>), Post(<<"spaces", "sandbox", "seed">>)>>
ScopedIds == <<Use(<<"resources", ":id">>, "inScope"), Use(<<"syncs", ":id">>, "inScope"), Use(<<"folders", ":id">>, "inScope")>>
Projects == <<
    Get(<<"spaces", ":name", "projects">>), Post(<<"spaces", ":name", "projects">>),
    Delete(<<"spaces", ":name", "projects", ":name">>), Get(<<"spaces", ":name", "projects", ":name", "tree">>),
    Post(<<"spaces", ":name", "projects", ":name", "folders">>), Post(<<"spaces", ":name", "projects", ":name", "resources">>),
    Post(<<"spaces", "connections", "test">>), Post(<<"spaces", ":name", "projects", ":name", "connections">>)>>
Connections == <<
    Post(<<"resources", ":id", "import">>), Post(<<"resources", ":id", "model">>), Delete(<<"object-types", ":name">>),
    Post(<<"resources", ":id", "test">>), Get(<<"connections">>), Get(<<"resources", ":id", "catalog">>),
    Get(<<"resources", ":id", "syncs">>), Post(<<"resources", ":id", "syncs">>), Post(<<"syncs", ":id", "run">>),
    Get(<<"syncs", ":id", "runs">>), Delete(<<"syncs", ":id">>), Get(<<"resources", "lookup">>)>>
Resources == <<
    Get(<<"resources", ":id", "preview">>), Get(<<"resources", ":id", "data">>), Post(<<"resources", ":id", "rename">>),
    Get(<<"resources", ":id", "removal">>), Delete(<<"resources", ":id">>),
    Get(<<"removal", ":name", ":name">>), Delete(<<"removal", ":name", ":name">>), Delete(<<"folders", ":id">>)>>
Docs == <<Get(<<"docs", "search">>), Get(<<"docs">>), Get(<<"docs", "page", ":name">>)>>
Schedules == <<
    Get(<<"syncs">>), Post(<<"syncs", ":id", "schedule">>), Get(<<"schedules">>), Post(<<"schedules">>),
    Get(<<"schedules", ":id">>), Patch(<<"schedules", ":id">>), Delete(<<"schedules", ":id">>),
    Get(<<"schedules", ":id", "runs">>), Post(<<"schedules", ":id", "run">>)>>

Behind == Console \o Ontology \o Types \o Objects \o Dashboards \o Proposals \o Actions \o Authoring \o Functions \o Spaces
(* Everything, in the order it is mounted.                                  *)
Stack == Public \o Guards \o Behind \o ScopedIds \o Projects \o Connections \o Resources \o Docs \o Schedules

RouteTable == {Stack[i] : i \in {j \in DOMAIN Stack : Stack[j].verb # "use"}}
(* An id is a number; an address with another word there is no id.          *)
Ids == {"7"}
Fits(part, word) == part = word \/ part = ":name" \/ (part = ":id" /\ word \in Ids)
FitsAll(parts, words) == \A i \in DOMAIN parts : Fits(parts[i], words[i])
(* A guard fits every address under its own, a route only its whole length. *)
Takes(layer, r) ==
    IF layer.verb = "use" THEN Len(layer.path) <= Len(r.path) /\ FitsAll(layer.path, r.path)
    ELSE layer.verb = r.verb /\ Len(layer.path) = Len(r.path) /\ FitsAll(layer.path, r.path)
Values(part) == IF part = ":name" THEN Names ELSE IF part = ":id" THEN Ids ELSE {part}
Written(route) == {p \in [DOMAIN route.path -> Names \cup Ids \cup {route.path[i] : i \in DOMAIN route.path}] :
                     \A i \in DOMAIN p : p[i] \in Values(route.path[i])}

Unanswered == [by |-> <<>>, how |-> "none"]
(* auth.ts:578 has a rule for an address no route answers.                  *)
NoRoute == [verb |-> "POST", path |-> <<"dashboards", "board", "widgets">>, meant |-> <<>>]
Init == /\ \/ request = NoRoute
           \/ \E route \in RouteTable : \E p \in Written(route) :
                  request = [verb |-> route.verb, path |-> p, meant |-> route.path]
        /\ at = 1 /\ passed = {} /\ answer = Unanswered

Open == answer = Unanswered /\ at <= Len(Stack)
Answer(by, how) == answer' = [by |-> by, how |-> how] /\ UNCHANGED <<request, at, passed>>
(* A layer the address does not fit is stepped over.                        *)
StepOver == /\ Open /\ ~Takes(Stack[at], request) /\ at' = at + 1
            /\ UNCHANGED <<request, passed, answer>>
(* authenticate, spaceScope, authorizeRoute, the console's second lock and  *)
(* the check of an id against the space each let it by or answer.           *)
Guard == /\ Open /\ Takes(Stack[at], request) /\ Stack[at].verb = "use"
         /\ \/ /\ at' = at + 1 /\ passed' = passed \cup {Stack[at].guard}
               /\ UNCHANGED <<request, answer>>
            \/ Answer(<<Stack[at].guard>>, "refused")
(* The handler answers; an error with a status says so, and any other is    *)
(* answered with the request's id.                                          *)
Handle == /\ Open /\ Takes(Stack[at], request) /\ Stack[at].verb # "use"
          /\ \E how \in {"answered", "explained", "logged"} : Answer(Stack[at].path, how)
NoSuchEndpoint == /\ answer = Unanswered /\ at > Len(Stack) /\ Answer(<<>>, "no such endpoint")

Next == StepOver \/ Guard \/ Handle \/ NoSuchEndpoint
Spec == Init /\ [][Next]_vars

------------------------------------------------------------------------------
Refused == answer.how \in {"none", "refused"}
(* Every address reaches the route it is written for: none is shadowed by   *)
(* an earlier one, whatever names it carries. The history is 'Registered    *)
(* before /api/dashboards/:slug so "history" is not read as a slug'         *)
(* (index.ts:839-840). So three names are taken: the address of the board   *)
(* titled "History" answers the history.                                    *)
Taken == {<<"kpis", "catalogue">>, <<"dashboards", "history">>, <<"dashboards", "export">>}
ReachesItsRoute == Refused \/ answer.by = request.meant \/ (request.path \in Taken /\ request.path # request.meant)

(* "A new route is protected by forgetting about it" (index.ts:268): what   *)
(* is not one of the three public routes answers only behind the guards, in *)
(* their order; and a number in the path is checked against the space       *)
(* "before any route below runs" (index.ts:1447).                           *)
GuardsComeFirst ==
    \/ Refused \/ answer.by \in {Public[i].path : i \in DOMAIN Public}
    \/ /\ {"authenticate", "spaceScope", "authorizeRoute"} \subseteq passed
       /\ request.path[1] = "admin" => "admin" \in passed
       /\ request.path[1] \in {"resources", "syncs", "folders"} /\ Len(request.path) > 1 /\ request.path[2] \in Ids
              => "inScope" \in passed

(* Why: a guard that was passed was stepped over, or let the request by; no *)
(* route before the layer it has come to fits it; who answers is that       *)
(* layer, and fits; and an address is one that was written for a route.     *)
GuardsWerePassed == \A i \in DOMAIN Stack : i < at /\ Stack[i].verb = "use" /\ Takes(Stack[i], request) => Stack[i].guard \in passed
RoutesDidNotFit == \A i \in DOMAIN Stack : i < at /\ Stack[i].verb # "use" => ~Takes(Stack[i], request)
AnswersHere ==
    \/ Refused
    \/ at > Len(Stack) /\ answer.by = <<>>
    \/ /\ at <= Len(Stack) /\ Stack[at].verb # "use"
       /\ Takes(Stack[at], request) /\ answer.by = Stack[at].path
WasWritten(r) == \/ r = NoRoute
                 \/ \E route \in RouteTable : \E p \in Written(route) : r = [verb |-> route.verb, path |-> p, meant |-> route.path]
=============================================================================
