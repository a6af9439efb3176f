------------------------------- MODULE Derived -------------------------------
(* The arithmetic of derived properties (derived.ts): a formula is parsed   *)
(* into a tree, and SQL is written from the tree, never from the text. A    *)
(* token is a string here; numbers are whole, and dates are numbers of      *)
(* days. sequence_of, which numbers rows, and the functions of several      *)
(* numbers besides nullif are left out.                                     *)
EXTENDS Integers, Sequences

CONSTANTS Numbers, NumericColumns, DateColumns,
          Null, Failure    \* no value; the whole query fails

VARIABLE formula     \* the tree someone has in mind

Leaf(kind, value) == [kind |-> kind, value |-> value, args |-> <<>>]
Node(kind, value, args) == [kind |-> kind, value |-> value, args |-> args]
Bad == Leaf("bad", "bad")
Arity == [nullif |-> 2, abs |-> 1, days_between |-> 2]
Additive == {"+", "-"}      Multiplicative == {"*", "/"}      Comparisons == {"<", "="}

At(ts, i) == IF i <= Len(ts) THEN ts[i] ELSE "end"
RECURSIVE Factor(_, _), Chain(_, _, _), Args(_, _)
(* One recursive descent (parse): a result is [tree, next].                 *)
Result(tree, i) == [tree |-> tree, next |-> i]
(* Mutant: what follows an operator is read to the end first.               *)
Chain_Right(ops, ts, so) ==
    IF At(ts, so.next) \notin ops THEN so
    ELSE LET right == Chain(ops, ts, Factor(ts, so.next + 1))
         IN  Result(Node("binary", ts[so.next], <<so.tree, right.tree>>), right.next)
(* What stands so far, with every operator of the level that follows: a     *)
(* term's operands are factors, an expression's are terms.                  *)
Chain(ops, ts, so) ==
    IF At(ts, so.next) \notin ops THEN so
    ELSE LET first == Factor(ts, so.next + 1)
             right == IF ops = Additive THEN Chain(Multiplicative, ts, first) ELSE first
         IN  Chain(ops, ts, Result(Node("binary", ts[so.next], <<so.tree, right.tree>>), right.next))
Expression(ts, i) == Chain(Additive, ts, Chain(Multiplicative, ts, Factor(ts, i)))
(* One comparison per level.                                                *)
Comparison(ts, i) ==
    LET left == Expression(ts, i)
        right == Expression(ts, left.next + 1)
    IN  IF At(ts, left.next) \notin Comparisons THEN left
        ELSE IF At(ts, right.next) \in Comparisons THEN Result(Bad, right.next)
        ELSE Result(Node("compare", ts[left.next], <<left.tree, right.tree>>), right.next)
(* The arguments from one on, up to the closing bracket.                    *)
Args(ts, i) ==
    LET one == Expression(ts, i)
        rest == Args(ts, one.next + 1)
    IN  IF At(ts, one.next) = "," THEN [args |-> <<one.tree>> \o rest.args, next |-> rest.next]
        ELSE [args |-> <<one.tree>>, next |-> one.next]
Factor(ts, i) ==
    LET t == At(ts, i) IN
    CASE t = "-" -> LET f == Factor(ts, i + 1) IN Result(Node("unary", "-", <<f.tree>>), f.next)
      [] t = "+" -> Factor(ts, i + 1)
      [] t = "(" -> LET c == Comparison(ts, i + 1)
                    IN  Result(IF At(ts, c.next) = ")" THEN c.tree ELSE Bad, c.next + 1)
      [] t \in DOMAIN Arity ->
            LET a == Args(ts, i + 2)
            IN  Result(IF At(ts, i + 1) = "(" /\ At(ts, a.next) = ")" /\ Len(a.args) = Arity[t]
                       THEN Node("call", t, a.args) ELSE Bad, a.next + 1)
      [] t \in Numbers -> Result(Leaf("number", t), i + 1)
      [] t \in NumericColumns \cup DateColumns -> Result(Leaf("column", t), i + 1)
      [] OTHER -> Result(Bad, i + 1)
Parse(ts) == LET c == Comparison(ts, 1) IN IF c.next = Len(ts) + 1 THEN c.tree ELSE Bad

(* compileTyped: numbers take arithmetic, dates are compared or counted.    *)
RECURSIVE TypeOf(_), Compile(_), Run(_, _)
TypeOf(t) ==
    LET of == [i \in DOMAIN t.args |-> TypeOf(t.args[i])] IN
    CASE t.kind = "number" -> "number"
      [] t.kind = "column" -> IF t.value \in NumericColumns THEN "number" ELSE "date"
      [] t.kind = "compare" -> IF of[1] = of[2] THEN IF of[1] = "refused" THEN "refused" ELSE "number" ELSE "refused"
      [] t.value = "days_between" -> IF \A i \in DOMAIN of : of[i] = "date" THEN "number" ELSE "refused"
      [] OTHER -> IF \A i \in DOMAIN of : of[i] = "number" THEN "number" ELSE "refused"
Divisor(t) == Node("call", "nullif", <<t, Leaf("number", "0")>>)
(* Mutant: a divisor is wrapped only where it is a column.                  *)
Compile_ColumnsOnly(t) ==
    LET sql == [i \in DOMAIN t.args |-> Compile(t.args[i])]
    IN  Node(t.kind, t.value, IF t.kind = "binary" /\ t.value = "/" /\ t.args[2].kind = "column"
                              THEN <<sql[1], Divisor(sql[2])>> ELSE sql)
(* And the SQL is the tree, with every divisor in NULLIF(divisor, 0).       *)
Compile(t) ==
    LET sql == [i \in DOMAIN t.args |-> Compile(t.args[i])]
    IN  Node(t.kind, t.value, IF t.kind = "binary" /\ t.value = "/" THEN <<sql[1], Divisor(sql[2])>> ELSE sql)

(* What PostgreSQL makes of the SQL for a row: it fails on a division by    *)
(* zero and on an operator given a type it does not take, and a missing     *)
(* value is missing in the result.                                          *)
Number(n) == [type |-> "number", n |-> n]
Taken(t) == CASE t.value = "days_between" -> {{"date"}} [] t.kind = "compare" -> {{"date"}, {"number"}} [] OTHER -> {{"number"}}
Apply(op, v) ==
    CASE op = "-" /\ Len(v) = 1 -> Number(0 - v[1])
      [] op = "abs" -> Number(IF v[1] < 0 THEN 0 - v[1] ELSE v[1])
      [] op = "+" -> Number(v[1] + v[2])       [] op = "-" /\ Len(v) = 2 -> Number(v[1] - v[2])
      [] op = "*" -> Number(v[1] * v[2])       [] op = "/" -> IF v[2] = 0 THEN Failure ELSE Number(v[1] \div v[2])
      [] op = "<" -> Number(IF v[1] < v[2] THEN 1 ELSE 0)
      [] op = "=" -> Number(IF v[1] = v[2] THEN 1 ELSE 0)
      [] op = "nullif" -> IF v[1] = v[2] THEN Null ELSE Number(v[1])
      [] op = "days_between" -> Number(v[2] - v[1])
Run(t, row) ==
    LET v == [i \in DOMAIN t.args |-> Run(t.args[i], row)]
        types == {v[i].type : i \in {j \in DOMAIN v : v[j] # Null}}
    IN  IF t.kind \in {"number", "column"} THEN row[t.value]
        ELSE IF \E i \in DOMAIN v : v[i] = Failure THEN Failure
        ELSE IF \A taken \in Taken(t) : ~(types \subseteq taken) THEN Failure
        ELSE IF t.value = "nullif" /\ v[1] # Null /\ v[2] = Null THEN v[1]
        ELSE IF \E i \in DOMAIN v : v[i] = Null THEN Null
        ELSE Apply(t.value, [i \in DOMAIN v |-> v[i].n])
(* compileExpression: a derived property must come out a number.            *)
Accepted(t) == t # Bad /\ TypeOf(t) = "number"

------------------------------------------------------------------------------
Leaves == {Leaf("number", n) : n \in Numbers} \cup {Leaf("column", c) : c \in NumericColumns \cup DateColumns}
(* A part of the formula is put under an operator, or beside another.       *)
Grown(t) == {Node("unary", "-", <<t>>), Node("call", "abs", <<t>>)}
            \cup UNION {{Node("binary", op, p) : op \in Additive \cup Multiplicative} \cup
                        {Node("compare", op, p) : op \in Comparisons} \cup
                        {Node("call", f, p) : f \in {"nullif", "days_between"}} :
                           p \in UNION {{<<t, l>>, <<l, t>>} : l \in Leaves}}
RECURSIVE Depth(_)
Depth(t) == IF t.args = <<>> THEN 0
            ELSE 1 + (LET d == {Depth(t.args[i]) : i \in DOMAIN t.args} IN CHOOSE m \in d : \A n \in d : n <= m)
Init == formula = Leaf("number", CHOOSE n \in Numbers : TRUE)
Grow(MaxDepth) == Depth(formula) < MaxDepth /\ formula' \in Grown(formula)
Restart == formula' \in Leaves

(* The formula as a person writes it, with the brackets it needs and no     *)
(* more: level is what the place calls for.                                 *)
LevelOf(t) == CASE t.kind = "compare" -> 0 [] t.value \in Additive /\ t.kind = "binary" -> 1
                [] t.value \in Multiplicative -> 2 [] OTHER -> 3
RECURSIVE Written(_, _)
Written(t, level) ==
    LET own == LevelOf(t)
        side(i, l) == Written(t.args[i], l)
        text == CASE t.args = <<>> -> <<t.value>>
                  [] t.kind = "unary" -> <<"-">> \o side(1, 3)
                  [] t.kind = "compare" -> side(1, 1) \o <<t.value>> \o side(2, 1)
                  [] t.kind = "binary" -> side(1, own) \o <<t.value>> \o side(2, own + 1)
                  [] t.kind = "call" -> <<t.value, "(">> \o side(1, 1)
                                        \o (IF Len(t.args) = 2 THEN <<",">> \o side(2, 1) ELSE <<>>) \o <<")">>
    IN  IF own < level THEN <<"(">> \o text \o <<")">> ELSE text

(* What a person writes is what is computed: the formula reads back as      *)
(* meant, with the brackets arithmetic allows to be left out.               *)
ReadsBack == Parse(Written(formula, 0)) = formula

(* "a zero divisor gives NULL rather than failing the whole query"          *)
(* (derived.ts:26-27), and no date stands where PostgreSQL wants a number:  *)
(* an accepted formula has a value, or none, for every row, missing values  *)
(* and zeros included.                                                      *)
Cells == {Null} \cup [type : {"number", "date"}, n : {0, 1}]
Rows == {r \in [Numbers \cup {"0"} \cup NumericColumns \cup DateColumns -> Cells] :
            /\ \A n \in Numbers : r[n] = Number(1)
            /\ r["0"] = Number(0)
            /\ \A c \in NumericColumns : r[c] # Null => r[c].type = "number"
            /\ \A d \in DateColumns : r[d] # Null => r[d].type = "date"}
NeverFails == Accepted(formula) => \A row \in Rows : Run(Compile(formula), row) # Failure
=============================================================================
