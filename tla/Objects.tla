------------------------------- MODULE Objects -------------------------------
(* Asking the objects of a type (objectSet.ts): filtering, searching,       *)
(* following a link either way, showing the linked object's title in its    *)
(* place, adding up by group. Two types: an order refers to a customer, by  *)
(* the customer's key or by another column of theirs. Every question is one *)
(* statement here; pages and counts that a sync comes between are Queries.  *)
(* Casts and quoting are left out: a value is of its column's type; so are  *)
(* ILIKE's wildcards and the order of a list, of which any may come first.  *)
EXTENDS Naturals, FiniteSets, FiniteSetsExt

CONSTANTS Keys,      \* of either type
          Null,
          Limit,     \* the rows a link or a chart shows: LIMIT 100
          Hits       \* the rows a search shows of a type: LIMIT 5

VARIABLES orders,    \* key -> [customer, amount]
          customers, \* key -> [code, name]
          column     \* the column of a customer the link points at

vars == <<orders, customers, column>>

Values == Keys \cup {Null}
(* What is written somewhere: some keys, in words; a term is found in what  *)
(* has all its words.                                                       *)
Strings == (SUBSET Keys) \ {{}}
Init == orders = <<>> /\ customers = <<>> /\ column = "key"
(* A sync lands other rows of a table; the link is drawn again.             *)
LandOrders == /\ \E some \in SUBSET Keys : orders' \in [some -> [customer : Values, amount : 0..1]]
              /\ UNCHANGED <<customers, column>>
LandCustomers == /\ \E some \in SUBSET Keys : customers' \in [some -> [code : Values, name : Strings]]
                 /\ UNCHANGED <<orders, column>>
DrawLink == column' \in {"key", "code"} \ {column} /\ UNCHANGED <<orders, customers>>
Next == LandOrders \/ LandCustomers \/ DrawLink
Spec == Init /\ [][Next]_vars

------------------------------------------------------------------------------
(* SQL answers yes, no or unknown, and keeps the rows it answers yes for.   *)
Said(b) == IF b THEN "yes" ELSE "no"
Compared(v, w, b) == IF Null \in {v, w} THEN "unknown" ELSE Said(b)
Among(v, list) == IF list = {} THEN "no" ELSE IF v # Null /\ v \in list THEN "yes"
                  ELSE IF Null \in {v} \cup list THEN "unknown" ELSE "no"
Not(said) == CASE said = "yes" -> "no" [] said = "no" -> "yes" [] OTHER -> said
(* Mutant: ne as plain SQL has it.                                          *)
Predicate_PlainNe(v, op, w) ==
    CASE op = "eq" -> IF w = Null THEN Said(v = Null) ELSE Compared(v, w, v = w)
      [] op = "ne" -> IF w = Null THEN Said(v # Null) ELSE Compared(v, w, v # w)
      [] OTHER -> "no"
(* buildPredicate, on the value of the column: eq and ne take a missing     *)
(* value for a value, the others leave it to SQL.                           *)
Predicate(v, op, w) ==
    CASE op = "isNull" -> Said(v = Null)
      [] op = "isNotNull" -> Said(v # Null)
      [] op = "eq" -> IF w = Null THEN Said(v = Null) ELSE Compared(v, w, v = w)
      [] op = "ne" -> Said(v # w)
      [] op = "gte" -> Compared(v, w, v >= w)
      [] op = "lt" -> Compared(v, w, v < w)
      [] op = "in" -> Among(v, w)
      [] op = "notIn" -> Not(Among(v, w))
(* searchObjects: the orders a filter on the customer column finds.         *)
SearchObjects(op, w) == {o \in DOMAIN orders : Predicate(orders[o].customer, op, w) = "yes"}
(* The rows of a list: all there are, or as many as it holds.               *)
Shown(all, most) == IF Cardinality(all) <= most THEN {all} ELSE {some \in SUBSET all : Cardinality(some) = most}
(* searchPredicate looks in the title, the key and the other words of a     *)
(* row; globalSearch does so in each type that has a title.                 *)
SearchPredicate(c, term) == term \subseteq customers[c].name \/ term = {c} \/ term = {customers[c].code}
GlobalSearch(term) == Shown({c \in DOMAIN customers : SearchPredicate(c, term)}, Hits)

PointedAt(c, to) == IF to = "key" THEN c ELSE customers[c].code
(* From an order along the link: the customers its reference points at.     *)
Forward(o) == {c \in DOMAIN customers : orders[o].customer # Null /\ orders[o].customer = PointedAt(c, column)}
(* And back, from a customer: the orders that hold the customer's KEY.      *)
Backward(c) == {o \in DOMAIN orders : orders[o].customer = c}
(* traverseLink: how many there are that way, and the first of them.        *)
TraverseLink(way) == {[total |-> Cardinality(way), data |-> some] : some \in Shown(way, Limit)}
(* decorateWithLinkTitles: the name of the customer whose KEY the order     *)
(* holds, or nothing.                                                       *)
LinkTitle(o) == {customers[c].name : c \in {d \in DOMAIN customers : d = orders[o].customer}}
(* getObject: the row of a key, with its titles.                            *)
GetObject(o) == [row |-> orders[o], customer |-> LinkTitle(o)]

GroupOf(g) == {o \in DOMAIN orders : orders[o].customer = g}
Total(os) == MapThenSumSet(LAMBDA o : orders[o].amount, os)
GroupKeys == {orders[o].customer : o \in DOMAIN orders}
(* aggregateObjects by customer, the largest first: at most Limit groups.   *)
Aggregate ==
    {{[of |-> g, count |-> Cardinality(GroupOf(g)), sum |-> Total(GroupOf(g))] : g \in top} :
        top \in {s \in Shown(GroupKeys, Limit) : \A g \in s, h \in GroupKeys \ s : Total(GroupOf(g)) >= Total(GroupOf(h))}}

------------------------------------------------------------------------------
(* A filter and its opposite share the objects out between them, missing    *)
(* values included: "eq with a null value means IS NULL" (objectSet.ts:114) *)
(* and ne is IS DISTINCT FROM. (in and notIn do not: an object without a    *)
(* customer is in neither.) And a group shown, the one of missing values    *)
(* too, has as many objects as the filter on its value finds: GROUP BY and  *)
(* eq mean the same by a missing value.                                     *)
OppositesShareOut ==
    /\ \A pair \in {<<"eq", "ne">>, <<"isNull", "isNotNull">>}, w \in Values :
          /\ SearchObjects(pair[1], w) \cup SearchObjects(pair[2], w) = DOMAIN orders
          /\ SearchObjects(pair[1], w) \cap SearchObjects(pair[2], w) = {}
    /\ \A answer \in Aggregate : \A group \in answer : Cardinality(SearchObjects("eq", group.of)) = group.count

(* "The UI needs both to expand a node in either direction"                 *)
(* (objectSet.ts:391-392): who comes from an order to a customer finds the  *)
(* order on the way back, and the other way round, unless the list ends     *)
(* before, which its total then says. The title shown in the reference's    *)
(* place is that customer's, and a search for it finds the customer, or     *)
(* more than it shows. It holds of links to the key; of a link to another   *)
(* column the way back and the title read the key all the same.             *)
WaysAgree ==
    \A o \in DOMAIN orders : \A there \in TraverseLink(Forward(o)) :
        /\ \A c \in there.data : \A back \in TraverseLink(Backward(c)) : o \in back.data \/ back.total > Limit
        /\ \A c \in DOMAIN customers : \A back \in TraverseLink(Backward(c)) : o \in back.data => c \in there.data
        /\ GetObject(o).customer = {customers[c].name : c \in there.data}
        /\ \A n \in LinkTitle(o) : \A hits \in GlobalSearch(n) : there.data \subseteq hits \/ Cardinality(hits) = Hits
BothWaysAgree == column = "key" => WaysAgree

(* Why they hold.                                                           *)
TypeOK == /\ DOMAIN orders \subseteq Keys /\ orders \in [DOMAIN orders -> [customer : Values, amount : 0..1]]
          /\ DOMAIN customers \subseteq Keys /\ customers \in [DOMAIN customers -> [code : Values, name : Strings]]
          /\ column \in {"key", "code"}
=============================================================================
