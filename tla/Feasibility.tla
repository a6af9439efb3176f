------------------------------ MODULE Feasibility ------------------------------
(***************************************************************************)
(* feasibility.ts answers "can this data show X by Y": ready, needs        *)
(* approval (with the proposals that would make it so), or not possible.   *)
(* This module is that decision together with what approving its proposals *)
(* does to the ontology (proposals.ts, modeling.ts), so that it can be     *)
(* asked what happens when the same question comes back.                   *)
(*                                                                         *)
(* A name is the sequence of its words.  A question carries the words      *)
(* parseQuestion and tokens make of it; stop words, words that count or    *)
(* say when, synonyms, filters, ratios, distinct counts and derived        *)
(* figures (revenue, punctuality, new and returning) are left out.  What   *)
(* scores alike is told apart by its place in the catalogue, here the      *)
(* order it was made in.  The values of the tables are constants: `many'   *)
(* marks a text column that stays too varied to group by wherever it is    *)
(* carried, and `values' are words a question may find in it.              *)
(***************************************************************************)
EXTENDS Integers, FiniteSets, SequencesExt

CONSTANTS Tables,      \* the modelled tables, in the order of the registry
          Ties,        \* the links they have: [from, col, to]
          Questions,   \* what people ask: [want, of, agg, by, time]
          MaxRounds,   \* how often one question is asked and approved (bound)
          MaxTypes,    \* how many types there are when the last is asked (bound)
          None,
          Joined,      \* the word a name of several words makes of its type
          Average      \* the word an average has in its label

VARIABLES ontology,    \* [types, links, metrics]: what the registry holds
          offers,      \* the proposals each question has waiting
          applied      \* how often all that was offered to it was approved
vars == <<ontology, offers, applied>>

NameOf(t) == t.name
Column(t, n) == CHOOSE c \in t.cols : c.name = n
Holds(t, n) == \E c \in t.cols : c.name = n
InRole(t, roles) == {c \in t.cols : c.role \in roles}
TypeNamed(o, n) == LET i == SelectInSeq(o.types, LAMBDA t : t.name = n) IN IF i = 0 THEN None ELSE o.types[i]
SlicesOf(t) == {c.name : c \in InRole(t, {"dimension", "temporal"})}

--------------------------------------------------------------------------------
(* Matching words.  A score of the code is counted here in sixtieths.      *)
Overlap(phrase, candidate) ==
    LET hits == Cardinality(phrase \cap candidate)
    IN  IF phrase = {} \/ candidate = {} THEN 0
        ELSE (60 * hits) \div Cardinality(candidate) + (60 * hits) \div Cardinality(phrase)

\* The label gives its words; the api name, lower-cased before it is split, gives one.
TypeWords(t) == ToSet(t.name) \cup (IF Len(t.name) > 1 THEN {Joined} ELSE {})

MatchType(o, phrase) ==
    LET score(t) == Overlap(ToSet(phrase), TypeWords(t))
        exact == SelectInSeq(o.types, LAMBDA t : t.name = phrase)
        best == SelectInSeq(o.types, LAMBDA t : score(t) >= 60 /\ \A u \in ToSet(o.types) : score(u) <= score(t))
    IN  CASE exact > 0 -> o.types[exact] [] exact = 0 /\ best > 0 -> o.types[best] [] OTHER -> None

MatchColumn(o, phrase, roles, prefer) ==
    LET want == ToSet(phrase)
        candidates == {m \in [type : ToSet(o.types), col : UNION {t.cols : t \in ToSet(o.types)}] :
                          /\ m.col \in InRole(m.type, roles)
                          /\ Overlap(want, ToSet(m.col.name)) > 0}
        score(m) == Overlap(want, ToSet(m.col.name))
                    + (IF Overlap(want, TypeWords(m.type)) > 0 THEN 21 ELSE 0)
                    + (IF m.type = prefer THEN 15 ELSE 0)
                    - (IF m.type.combined THEN 3 ELSE 0)
        top == {m \in candidates : \A n \in candidates : score(n) <= score(m)}
        first == SelectInSeq(o.types, LAMBDA t : \E m \in top : m.type = t)
        best == CHOOSE m \in top : m.type = o.types[first]
    IN  IF first = 0 \/ \A m \in top : score(m) < 36 THEN None
        ELSE [type |-> best.type, col |-> best.col, score |-> score(best)]

\* A metric's label and api name: its type, its column, how it aggregates, the slice it was made for.
MetricWords(m) == ToSet(m.on) \cup ToSet(m.of) \cup m.label \cup (IF m.agg = "avg" THEN {Average} ELSE {})

MatchMetric(o, phrase, agg) ==
    LET own(m) == Overlap(ToSet(phrase), MetricWords(m))
        score(m) == own(m) + (IF agg = None THEN 0 ELSE IF m.agg = agg THEN 18 ELSE -12)
        candidates == {m \in ToSet(o.metrics) : own(m) > 0}
        best == SelectInSeq(o.metrics, LAMBDA m : /\ m \in candidates /\ score(m) >= 48
                                                  /\ \A n \in candidates : score(n) <= score(m))
    IN  IF best = 0 THEN None ELSE [metric |-> o.metrics[best], score |-> score(o.metrics[best])]

MetricOf(o, t, agg, of) ==
    LET i == SelectInSeq(o.metrics, LAMBDA m : m.on = t.name /\ m.agg = agg /\ m.of = of)
    IN  IF i = 0 THEN None ELSE o.metrics[i]

\* The shortest chain of many-to-one links from one type to another.
PathTo(o, from, to) ==
    LET ends(w) == IF w = <<>> THEN from.name ELSE w[Len(w)].to
        walks[n \in 0..3] == IF n = 0 THEN {<<>>}
            ELSE {Append(w, l) : w \in walks[n - 1], l \in ToSet(o.links)}
        chains(n) == {w \in walks[n] : /\ \A i \in 1..n : w[i].from = (IF i = 1 THEN from.name ELSE w[i - 1].to)
                                       /\ ends(w) = to.name}
        shortest == {n \in 1..3 : chains(n) # {} /\ \A k \in 1..(n - 1) : chains(k) = {}}
    IN  IF from.name = to.name THEN <<>>
        ELSE IF shortest = {} THEN None ELSE CHOOSE w \in chains(CHOOSE n \in shortest : TRUE) : TRUE

\* A column of the source that holds the target's key, by its name and in its data.
JoinKey(source, target) ==
    LET fits == {c \in source.cols : /\ c.name # <<"id">>
                                     /\ \/ \E k \in target.cols : k.role = "identity" /\ k.name = c.name
                                        \/ c.name = target.name \o <<"id">> /\ target.key = <<"id">>}
    IN  IF fits = {} THEN None
        ELSE [kind |-> "link", from |-> source.name, col |-> (CHOOSE c \in fits : TRUE).name, to |-> target.name]

--------------------------------------------------------------------------------
(* The decision.                                                           *)
NotPossible == [status |-> "not_possible", drafts |-> <<>>, metric |-> None, slice |-> <<>>]
Ready(m, slice) == [status |-> "ready", drafts |-> <<>>, metric |-> m, slice |-> slice]
Offer(drafts) == [status |-> "needs_approval", drafts |-> drafts, metric |-> None, slice |-> <<>>]
Metric(t, agg, of, extra) == [kind |-> "metric", on |-> t, agg |-> agg, of |-> of, extra |-> extra, label |-> {}]
VersionOf(t, m, slice) == [Metric(t.name, m.agg, m.of, {slice}) EXCEPT !.label = ToSet(slice)]
Combination(name, base, joins) == [kind |-> "combination", name |-> name, base |-> base, joins |-> joins]
Join(path, fields) == [path |-> path, fields |-> fields]

Tie(key) == [from |-> key.from, col |-> key.col, to |-> key.to]

\* A joined field is named for the type it comes from, once.
JoinedName(target, column) == IF IsPrefix(target, column) THEN column ELSE target \o column

\* 1. What is measured: a metric, or a column that has none yet, on a type.
MeasuredAs(o, q, named, column, known) ==
    LET counts == \/ q.agg = "count"
                  \/ q.agg = "sum" /\ named # None /\ named.name = q.of
                  \/ /\ named # None /\ q.agg = None
                     /\ column = None \/ Overlap(ToSet(q.of), TypeWords(named)) >= column.score
        measures == ~counts /\ column # None /\ (known = None \/ column.score >= known.score - 18)
        count == IF named = None THEN None ELSE MetricOf(o, named, "count", <<>>)
        best == IF known = None THEN None ELSE known.metric
        metric == CASE measures -> MetricOf(o, column.type, IF q.agg = None THEN column.col.agg ELSE q.agg, column.col.name)
                    [] counts /\ (count # None \/ best = None \/ best.agg # "count") -> count
                    [] OTHER -> best
    IN  [metric |-> metric, named |-> named,
         column |-> IF measures THEN column ELSE None,
         type |-> CASE metric # None -> TypeNamed(o, metric.on)
                    [] metric = None /\ measures -> column.type
                    [] OTHER -> named]
Measured(o, q) ==
    MeasuredAs(o, q, MatchType(o, q.of), MatchColumn(o, q.of, {"measure"}, None), MatchMetric(o, q.of, q.agg))

\* 1c. A count of the type that was named answers only for it: the words its name does not cover
\* name a column, a type or a value it holds.
Explained_Always(o, q, m) == TRUE
Explained(o, q, m) ==
    LET rest == SelectSeq(q.of, LAMBDA w : w \notin TypeWords(m.named))
    IN  m.metric # None /\ m.metric.agg = "count" /\ m.named # None /\ m.metric.on = m.named.name =>
          \/ rest = <<>>
          \/ MatchColumn(o, rest, {"measure", "dimension", "temporal", "attribute", "title", "identity"}, m.named) # None
          \/ MatchType(o, rest) # None
          \/ \E c \in InRole(m.named, {"dimension", "title"}) : ToSet(rest) \cap c.values # {}

\* 2. What it is sliced by: a type's title, or the column the words name best.
SlicedAs(o, q, on, named, other) ==
    LET title == IF named = None THEN {} ELSE InRole(named, {"title"})
        category == IF named = None THEN {} ELSE InRole(named, {"dimension"})
    IN  IF named # None /\ ToSet(q.by) \subseteq TypeWords(named) /\ title \cup category # {}
        THEN [type |-> named, col |-> CHOOSE c \in (IF title # {} THEN title ELSE category) : TRUE, score |-> 120]
        ELSE IF other # None THEN other ELSE MatchColumn(o, q.by, {"identity"}, on)
Sliced(o, q, on) ==
    SlicedAs(o, q, on, MatchType(o, q.by), MatchColumn(o, q.by, {"dimension", "temporal", "title", "attribute"}, on))

\* Over time without a date of its own: the same figure on a dataset that carries one.
DatedTwin(o, m) ==
    LET i == SelectInSeq(o.metrics, LAMBDA k :
                /\ k.agg = m.agg /\ k.of = m.of /\ k.on # m.on
                /\ InRole(TypeNamed(o, k.on), {"temporal"}) # {}
                /\ Holds(TypeNamed(o, k.on), m.of))
    IN  IF i = 0 THEN None ELSE o.metrics[i]

OverTime(o, m) ==
    LET t == m.type
        twin == IF m.metric = None \/ InRole(t, {"temporal"}) # {} THEN None ELSE DatedTwin(o, m.metric)
        on == IF twin = None THEN t ELSE TypeNamed(o, twin.on)
        figure == IF twin = None THEN m.metric ELSE twin
        dated == {u \in ToSet(o.types) : InRole(u, {"temporal"}) # {} /\ PathTo(o, t, u) \notin {None, <<>>}}
        near == {u \in dated : \A v \in dated : Len(PathTo(o, t, u)) <= Len(PathTo(o, t, v))}
    IN  IF InRole(on, {"temporal"}) # {}
        THEN LET date == CHOOSE c \in InRole(on, {"temporal"}) : TRUE
             IN  IF figure = None THEN Offer(<<Metric(on.name, m.column.col.agg, m.column.col.name, {})>>)
                 ELSE IF date.name \in figure.slices THEN Ready(figure, date.name)
                 ELSE Offer(<<VersionOf(on, figure, date.name)>>)
        ELSE IF near = {} THEN NotPossible
        ELSE LET u == CHOOSE v \in near : TRUE
                 date == CHOOSE c \in InRole(u, {"temporal"}) : TRUE
             IN  Offer(<<Combination(t.name \o date.name, t.name, {Join(PathTo(o, t, u), {date.name})})>>)

\* 6. Both on one type: ready, or a version of the metric that can be sliced so.
OneType(m, by) ==
    IF by.col.name \in m.metric.slices THEN Ready(m.metric, by.col.name)
    ELSE Offer(<<VersionOf(m.type, m.metric, by.col.name)>>)

\* Mutant: any dataset with the column will do.
CombinedFor_AnyBase(o, base, joined) ==
    LET i == SelectInSeq(o.types, LAMBDA t : t.combined /\ Holds(t, joined))
    IN  IF i = 0 THEN None ELSE o.types[i]
\* A combination that has every column of the base and the joined one: the first there is.
CombinedFor(o, base, joined) ==
    LET i == SelectInSeq(o.types, LAMBDA t : t.combined /\ Holds(t, joined) /\ \A c \in base.cols : Holds(t, c.name))
    IN  IF i = 0 THEN None ELSE o.types[i]

\* 7. On two types: a dataset that joins them, the one there is or a new one, and the link it needs.
TwoTypes(o, q, m, by) ==
    LET joined == JoinedName(by.type.name, by.col.name)
        have == CombinedFor(o, m.type, joined)
        of == IF m.metric # None THEN m.metric.of ELSE IF m.column # None THEN m.column.col.name ELSE <<>>
        agg == IF q.agg # None THEN q.agg ELSE IF m.metric # None THEN m.metric.agg ELSE IF of = <<>> THEN "count" ELSE "sum"
        measured == IF agg = "count" THEN <<>> ELSE of
        path == PathTo(o, m.type, by.type)
        key == JoinKey(m.type, by.type)
        name == m.type.name \o by.type.name \o by.col.name
        dataset(p) == Combination(name, m.type.name, {Join(p, {by.col.name})})
        default == IF m.column # None THEN m.column.col.agg ELSE "sum"
        figure == IF of # <<>> /\ q.agg \notin {None, "count", default}
                  THEN <<Metric(name, q.agg, of, {joined})>> ELSE <<>>
    IN  IF have # None
        THEN LET k == MetricOf(o, have, agg, measured)
             IN  IF k # None /\ joined \in k.slices THEN Ready(k, joined)
                 ELSE Offer(<<Metric(have.name, agg, measured, {joined})>>)
        ELSE IF path # None THEN Offer(<<dataset(path)>> \o figure)
        ELSE IF key = None THEN NotPossible
        ELSE Offer(<<key, dataset(<<Tie(key)>>)>> \o figure)

DecideBy(o, q, m, by) ==
    LET agg == IF q.agg = None THEN m.column.col.agg ELSE q.agg
    IN  CASE m.type = None -> NotPossible
          [] m.type # None /\ q.time -> OverTime(o, m)
          [] m.type # None /\ ~q.time /\ by = None ->
                IF q.by # <<>> \/ (m.metric = None /\ m.column = None) THEN NotPossible
                ELSE IF m.metric = None THEN Offer(<<Metric(m.type.name, agg, m.column.col.name, {})>>)
                ELSE Ready(m.metric, <<>>)
          [] m.type # None /\ ~q.time /\ by # None /\ by.type = m.type ->
                IF m.metric # None THEN OneType(m, by)
                ELSE IF m.column = None THEN NotPossible
                ELSE Offer(<<Metric(m.type.name, agg, m.column.col.name, {})>>)
          [] OTHER -> TwoTypes(o, q, m, by)
DecideOn(o, q, m) ==
    IF Explained(o, q, m) THEN DecideBy(o, q, m, IF q.by = <<>> \/ m.type = None THEN None ELSE Sliced(o, q, m.type))
    ELSE NotPossible
Decide(o, q) == DecideOn(o, q, Measured(o, q))

--------------------------------------------------------------------------------
(* Links and datasets asked for by name.                                   *)
Linked(o, a, b) == \E l \in ToSet(o.links) : {l.from, l.to} = {a.name, b.name}
LinkRequest(o, q) ==
    LET a == MatchType(o, q.of)
        b == MatchType(o, q.by)
        keys == SelectSeq(<<JoinKey(a, b), JoinKey(b, a)>>, LAMBDA k : k # None)
    IN  IF a = None \/ b = None \/ a = b THEN NotPossible
        ELSE IF Linked(o, a, b) THEN Ready(None, <<>>)
        ELSE IF keys = <<>> THEN NotPossible ELSE Offer(<<Head(keys)>>)

\* What a linked type contributes: its dates, or without any its title, and its categories.
CarriedFields(t) ==
    LET dates == InRole(t, {"temporal"})
    IN  {c.name : c \in dates \cup InRole(t, {"dimension"}) \cup (IF dates = {} THEN InRole(t, {"title"}) ELSE {})}
\* Every modelled type within two links.
AnalysisJoins(o, base) ==
    {j \in {Join(PathTo(o, base, t), CarriedFields(t)) :
              t \in {u \in ToSet(o.types) : ~u.combined /\ u # base /\ PathTo(o, base, u) # None}} :
        Len(j.path) <= 2 /\ j.fields # {}}

\* The first free name: a dataset of that name may be there already.
FreeName(o, name) == IF TypeNamed(o, name) = None THEN name ELSE name \o <<"2">>
Enriched(t) == <<"enriched">> \o t.name

\* The many are kept and the one brought in, whichever was named first; with no other type
\* named, all that the first points at.
CombinationOf(o, first, other) ==
    LET turned == PathTo(o, first, other) = None /\ PathTo(o, other, first) # None
        base == IF turned THEN other ELSE first
        target == IF turned THEN first ELSE other
        path == PathTo(o, base, target)
        key == JoinKey(base, target)
        dataset(on, joins) == Combination(FreeName(o, Enriched(on)), on.name, joins)
    IN  IF first = None THEN NotPossible
        ELSE IF other = None
        THEN IF AnalysisJoins(o, first) = {} THEN NotPossible ELSE Offer(<<dataset(first, AnalysisJoins(o, first))>>)
        ELSE IF CarriedFields(target) = {} THEN NotPossible
        ELSE IF path \notin {None, <<>>} THEN Offer(<<dataset(base, {Join(path, CarriedFields(target))})>>)
        ELSE IF key = None THEN NotPossible
        ELSE Offer(<<key, dataset(base, {Join(<<Tie(key)>>, CarriedFields(target))})>>)
CombinationRequest(o, q) == CombinationOf(o, MatchType(o, q.of), IF q.by = <<>> THEN None ELSE MatchType(o, q.by))

Answer(o, q) ==
    CASE q.want = "link" -> LinkRequest(o, q)
      [] q.want = "combination" -> CombinationRequest(o, q)
      [] q.want = "chart" -> Decide(o, q)

--------------------------------------------------------------------------------
(* Approving what was offered.                                             *)
DefaultMetrics(t) ==
    LET metric(agg, of, own) == [on |-> t.name, agg |-> agg, of |-> of, slices |-> SlicesOf(t), label |-> {}, own |-> own]
        figures == SetToSeq(InRole(t, {"measure"}))
    IN  <<metric("count", <<>>, ~t.combined)>> \o [i \in DOMAIN figures |-> metric(figures[i].agg, figures[i].name, TRUE)]

\* A column carried into a combination is profiled again, on its rows.
Carried(c, name) == [c EXCEPT !.name = name,
                              !.role = IF @ \in {"title", "attribute"} THEN IF c.many THEN "title" ELSE "dimension" ELSE @]
CombinedType(o, d) ==
    LET base == TypeNamed(o, d.base)
        carried(j) == LET t == TypeNamed(o, j.path[Len(j.path)].to)
                      IN  {Carried(Column(t, f), JoinedName(t.name, f)) : f \in j.fields}
    IN  [name |-> d.name, rows |-> base.rows, key |-> base.key, combined |-> TRUE,
         cols |-> base.cols \cup UNION {carried(j) : j \in d.joins}]

\* What drafting it again at its approval refuses.
Fits(o, d) ==
    CASE d.kind = "link" -> TypeNamed(o, d.to) # None /\ ~\E l \in ToSet(o.links) : l.from = d.from /\ l.col = d.col /\ l.to = d.to
      [] d.kind = "combination" ->
            TypeNamed(o, d.name) = None /\ TypeNamed(o, d.base) # None /\ \A j \in d.joins : ToSet(j.path) \subseteq ToSet(o.links)
      [] d.kind = "metric" -> TypeNamed(o, d.on) # None /\ (d.agg = "count" \/ Holds(TypeNamed(o, d.on), d.of))

\* The figure modelling made on its own is adopted under the new name; any other is added.
WithMetric(o, d) ==
    LET t == TypeNamed(o, d.on)
        twin == SelectInSeq(o.metrics, LAMBDA m : m.own /\ m.on = d.on /\ m.agg = d.agg /\ m.of = d.of)
    IN  IF twin > 0 THEN [o EXCEPT !.metrics[twin].own = FALSE, !.metrics[twin].label = d.label]
        ELSE [o EXCEPT !.metrics = Append(@, [on |-> d.on, agg |-> d.agg, of |-> d.of, label |-> d.label,
                                              slices |-> SlicesOf(t) \cup d.extra, own |-> FALSE])]

WithCombination(o, d) ==
    LET t == CombinedType(o, d)
        carried == SelectSeq(o.links, LAMBDA l : l.from = d.base)
    IN  [types |-> Append(o.types, t),
         links |-> o.links \o [i \in DOMAIN carried |-> [carried[i] EXCEPT !.from = t.name]],
         metrics |-> o.metrics \o DefaultMetrics(t)]

After(o, d) ==
    CASE d.kind = "link" -> [o EXCEPT !.links = Append(@, Tie(d))]
      [] d.kind = "combination" -> WithCombination(o, d)
      [] d.kind = "metric" -> WithMetric(o, d)

Init == /\ ontology = [types |-> Tables, links |-> Ties, metrics |-> FlattenSeq([i \in DOMAIN Tables |-> DefaultMetrics(Tables[i])])]
        /\ offers = [q \in Questions |-> <<>>]
        /\ applied = [q \in Questions |-> 0]

Ask(q) == /\ offers[q] = <<>> /\ applied[q] < MaxRounds /\ Len(ontology.types) < MaxTypes
          /\ \E a \in {Answer(ontology, q)} :
                a.status = "needs_approval" /\ offers' = [offers EXCEPT ![q] = a.drafts]
          /\ UNCHANGED <<ontology, applied>>

\* One of the proposals is approved; those after it wait for it.
Approve(q) == /\ offers[q] # <<>> /\ Fits(ontology, Head(offers[q]))
              /\ ontology' = After(ontology, Head(offers[q]))
              /\ offers' = [offers EXCEPT ![q] = Tail(@)]
              /\ applied' = [applied EXCEPT ![q] = IF Tail(offers[q]) = <<>> THEN @ + 1 ELSE @]

\* Rejected, or refused when it is drafted again.
Drop(q) == /\ offers[q] # <<>>
           /\ offers' = [offers EXCEPT ![q] = <<>>]
           /\ UNCHANGED <<ontology, applied>>

Next == \E q \in Questions : Ask(q) \/ Approve(q) \/ Drop(q)
Spec == Init /\ [][Next]_vars

--------------------------------------------------------------------------------
Columns == UNION {t.cols : t \in ToSet(Tables)}
\* What a question put in the words of one column means by them.
OwnColumn(n, roles) == {c \in Columns : c.name = n /\ c.role \in roles}
TableNamed(n) == {t.name : t \in {u \in ToSet(Tables) : u.name = n}}
\* Every word the tables have for what they hold.
DataWords == (UNION {ToSet(t.name) : t \in ToSet(Tables)}) \cup UNION {ToSet(c.name) \cup c.values : c \in Columns}

\* A question that names a table or a figure by its name: however many datasets repeat it, the
\* rows are that table's, and it is that very column, aggregated the way that was asked.
NamedIsAnswered(q, a, on) ==
    /\ TableNamed(q.of) # {} \/ OwnColumn(q.of, {"measure"}) # {} =>
          \E t \in ToSet(Tables) : on.rows = t.name /\ (t.name = q.of \/ Holds(t, q.of))
    /\ OwnColumn(q.of, {"measure"}) # {} =>
          /\ Column(on, a.metric.of).from \in {c.from : c \in OwnColumn(q.of, {"measure"})}
          /\ q.agg # None => a.metric.agg = q.agg
\* Any other is not answered from somewhere else: rows that are counted are those of a table the
\* question mentions, whose other words are not all strange to the data ("customer satisfaction
\* score" is not the number of customers, feasibility.ts:783); a figure is one it has a word of.
NotFromElsewhere(q, a, on) ==
    IF a.metric.of = <<>>
    THEN LET rest == ToSet(q.of) \ ToSet(on.rows)
         IN  rest # ToSet(q.of) /\ (rest = {} \/ rest \cap DataWords # {})
    ELSE ToSet(q.of) \cap ToSet(Column(on, a.metric.of).from[2]) # {}
\* Only a question that has a part of a table's name may come to be answered so: what is left of
\* its words need not be explained.
PartOfAName(n) == \E t \in ToSet(Tables) : ToSet(n) \cap ToSet(t.name) # {} /\ ~(ToSet(t.name) \subseteq ToSet(n))

\* A ready answer is never "a number from somewhere else" (feasibility.ts:17-18), and the figure
\* can be sliced as the answer slices it.
FigureIsWhatWasAsked ==
    \A q \in {k \in Questions : k.want = "chart"} : \A a \in {Decide(ontology, q)} : a.status = "ready" =>
        LET on == TypeNamed(ontology, a.metric.on)
        IN  /\ NamedIsAnswered(q, a, on)
            /\ PartOfAName(q.of) \/ NotFromElsewhere(q, a, on)
            /\ a.slice # <<>> => a.slice \in a.metric.slices

\* What is offered for one question can be approved there and then, in its order: the links it
\* joins along are there, the dataset its metric is about has the name the metric was given,
\* and that name was free.
OffersFit ==
    \A q \in Questions : \A a \in {Answer(ontology, q)} :
        LET d == a.drafts
            world[i \in 0..Len(d)] == IF i = 0 THEN ontology ELSE After(world[i - 1], d[i])
        IN  \A i \in DOMAIN d : Fits(world[i - 1], d[i])

\* "A building block is missing ... and here are the proposals that would add it"
\* (feasibility.ts:10-13): once all that was offered has been approved, the question is
\* answered.  The program does not keep it.
ApprovedIsAnswered ==
    \A q \in Questions : q.want # "combination" /\ applied[q] > 0 => Answer(ontology, q).status = "ready"

\* A figure sliced by a column is sliced by that column, or by the copy of it a dataset carries.
\* The program does not keep it.
SliceIsWhatWasAsked ==
    \A q \in {k \in Questions : k.want = "chart"} : \A a \in {Decide(ontology, q)} :
        a.status = "ready" /\ OwnColumn(q.by, {"dimension"}) # {} =>
            Column(TypeNamed(ontology, a.metric.on), a.slice).from \in {c.from : c \in OwnColumn(q.by, {"dimension"})}
================================================================================
