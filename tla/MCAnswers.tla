----------------------------- MODULE MCAnswers -----------------------------
(* What the service answers, for TLC: eight parts that share no state here, *)
(* so one run explores each in turn: the four of Answers, and four about    *)
(* given tables. Those are three of a shop: orders with their freight, the  *)
(* customers they refer to, the lines of an order.                          *)
EXTENDS Answers, TLC

CONSTANTS Pages, Failure, clerk, c1, c2

VARIABLES part,
          ontology, offers, applied, wanted, boards,
          copy, qAsked, step, since, answer,
          formula

TwoPeople == {c1, c2}
(* The ways to declare an action: each differs from the first in one thing  *)
(* or two that matter together.                                             *)
Declares(readOnly, allowed, audited, approval) == [readOnly |-> readOnly, allowed |-> allowed, audited |-> audited, approval |-> approval]
Seven == {Declares(FALSE, Roles, TRUE, a) : a \in {"none", "always", "unless small"}}
         \cup {Declares(FALSE, {}, TRUE, a) : a \in {"none", "always"}}
         \cup {Declares(TRUE, Roles, TRUE, "none"), Declares(FALSE, Roles, FALSE, "none")}
Col(name, of, role, kind, few) ==
    [name |-> name, role |-> role, from |-> <<of, name>>, agg |-> IF role = "measure" THEN "sum" ELSE "none",
     many |-> FALSE, kind |-> kind, few |-> few, values |-> IF name = <<"country">> THEN {"germany"} ELSE {}]
Table(name, key, cols) == [name |-> <<name>>, rows |-> <<name>>, key |-> key, combined |-> FALSE, cols |-> cols]
Order == Table("order", <<"order", "id">>,
    {Col(<<"order", "id">>, "order", "identity", "other", FALSE), Col(<<"customer", "id">>, "order", "identity", "other", FALSE),
     Col(<<"freight">>, "order", "measure", "other", FALSE), Col(<<"order", "date">>, "order", "temporal", "other", FALSE),
     Col(<<"priority">>, "order", "dimension", "what", TRUE)})
Customer == Table("customer", <<"customer", "id">>,
    {Col(<<"customer", "id">>, "customer", "identity", "other", FALSE), Col(<<"company">>, "customer", "title", "who", FALSE),
     Col(<<"country">>, "customer", "dimension", "where", FALSE)})
Item == Table("item", <<"id">>,
    {Col(<<"id">>, "item", "identity", "other", FALSE), Col(<<"order", "id">>, "item", "identity", "other", FALSE),
     Col(<<"quantity">>, "item", "measure", "other", FALSE)})
OrderToCustomer == [from |-> <<"order">>, col |-> <<"customer", "id">>, to |-> <<"customer">>]
ItemToOrder == [from |-> <<"item">>, col |-> <<"order", "id">>, to |-> <<"order">>]
Chart(of, agg, by, time) == [want |-> "chart", of |-> of, agg |-> agg, by |-> by, time |-> time]

(* More than a name: with words of no meaning here, a value, or a figure.   *)
InOtherWords == {<<"customer", "satisfaction">>, <<"customer", "germany">>, <<"customer", "company">>,
                 <<"order", "freight">>, <<"item", "satisfaction", "quantity">>, <<"order", "score", "rating">>}
FE == INSTANCE Feasibility WITH Tables <- <<Customer, Order, Item>>, Ties <- <<OrderToCustomer>>, MaxRounds <- 1, MaxTypes <- 5,
        Joined <- "joined", Average <- "average",
        Questions <- {Chart(<<"freight">>, "avg", <<"customer">>, FALSE), Chart(<<"order">>, "count", <<"customer">>, FALSE),
                      Chart(<<"quantity">>, None, <<"customer">>, FALSE), Chart(<<"quantity">>, None, <<"priority">>, FALSE),
                      Chart(<<"quantity">>, None, <<>>, TRUE)}
                     \cup {Chart(w, None, <<>>, FALSE) : w \in InOtherWords}
                     \cup {Chart(<<"order", "satisfaction">>, "sum", <<>>, FALSE), Chart(<<"freight", "order", "cost">>, "sum", <<>>, FALSE)}
BO == INSTANCE Boards WITH Tables <- <<Customer, Order, Item>>, Ties <- <<OrderToCustomer, ItemToOrder>>, MaxRounds <- 1, MaxTypes <- 5,
        Joined <- "joined", Average <- "average", Topics <- {<<>>, <<"order">>, <<"item">>, <<"quantity">>, <<"freight">>},
        Questions <- {[want |-> "combination", of |-> <<"customer">>, agg |-> None, by |-> <<"order">>, time |-> FALSE],
                      Chart(<<"freight">>, "avg", <<>>, FALSE)}

Line(id, day, group, title) == [id |-> id, day |-> day, group |-> group, title |-> title]
Filter(on, op, value) == [on |-> on, op |-> op, value |-> value]
Q == INSTANCE Queries WITH asked <- qAsked, Slots <- 2, PeriodDays <- 2,
       Copies <- << {Line(1, 1, "g1", 1), Line(2, 3, "g2", 2), Line(3, 3, Null, 3)},
                    {Line(1, 1, "g1", 1), Line(2, 2, "g2", 2), Line(3, 3, Null, 3), Line(4, 4, "g1", 4), Line(5, 6, "g1", 5)},
                    {Line(1, 1, "g1", 1), Line(2, 3, "g2", 1), Line(4, 4, "g2", 4)} >>,
       Wants <- {[by |-> b, filters |-> f, condition |-> c] : b \in {Null, "group", "period"},
                   f \in {{}, {Filter("group", "is", "g1")}, {Filter("group", "in", {}), Filter("day", "gte", 2)}},
                   c \in {{}, {Filter("group", "in", {"g1", "g2"})}}}
DE == INSTANCE Derived WITH Numbers <- {"1"}, NumericColumns <- {"x"}, DateColumns <- {"d"}
AnyClient == Permutations(TwoPeople)

ask == <<ontology, offers, applied, wanted, boards>>
query == <<copy, qAsked, step, since, answer>>

AnyPart ==
        /\ Init /\ part \in {"functions", "questions", "boards", "queries", "routes", "objects", "derived", "actions"}
        /\ \/ part = "boards" /\ BO!BInit
           \/ part # "boards" /\ FE!Init /\ wanted = <<>> /\ boards = {}
        /\ RO!Init /\ (part = "routes" \/ request = RO!NoRoute)
        /\ Q!Init /\ OB!Init /\ DE!Init /\ AC!Init
SomeStep ==
    \/ part = "functions" /\ Next /\ UNCHANGED <<part, ask, query, address, objects, formula, acts>>
    \/ part = "questions" /\ FE!Next /\ UNCHANGED <<part, vars, wanted, boards, query, address, objects, formula, acts>>
    \/ part = "boards" /\ BO!BNext /\ UNCHANGED <<part, vars, query, address, objects, formula, acts>>
    \/ part = "queries" /\ Q!Next /\ UNCHANGED <<part, vars, ask, address, objects, formula, acts>>
    \/ part = "routes" /\ RO!Next /\ UNCHANGED <<part, vars, ask, query, objects, formula, acts>>
    \/ part = "objects" /\ OB!Next /\ UNCHANGED <<part, vars, ask, query, address, formula, acts>>
    \/ part = "derived" /\ (DE!Grow(2) \/ DE!Restart) /\ UNCHANGED <<part, vars, ask, query, address, objects, acts>>
    \/ part = "actions" /\ AC!Next /\ UNCHANGED <<part, vars, ask, query, address, objects, formula>>
Answering == AnyPart /\ [][SomeStep]_<<part, vars, ask, query, address, objects, formula, acts>>

(* A ready figure is of what was asked for; what is offered instead can be  *)
(* approved there and then (feasibility.ts).                                *)
FigureIsWhatWasAsked == part = "questions" => FE!FigureIsWhatWasAsked /\ FE!OffersFit
(* Every widget of a board can be run, and a board that waited for its      *)
(* dataset is what was promised with it (feasibility.ts, followups.ts).     *)
BoardsAreAsPromised == part = "boards" => BO!BoardsCanBeRun /\ BO!FollowUpIsAsPromised
(* The statements behind a chart, or behind pages of rows, tell one story   *)
(* (kpi.ts, resourceData.ts, objectSet.ts).                                 *)
AnswersAreWhole == part = "queries" => Q!FigureIsOneStory /\ Q!PagesShowEveryRow
(* A formula is computed as it is written, and fails for no row             *)
(* (derived.ts).                                                            *)
FormulasMeanWhatTheySay == part = "derived" => DE!ReadsBack /\ DE!NeverFails
=============================================================================
