--------------------------------- MODULE Boards ---------------------------------
(***************************************************************************)
(* A board asked for by its topic (feasibility.ts assess, planBoard,       *)
(* analysisDataset) and the board that is built when the dataset it needs  *)
(* is approved (followups.ts runFollowUps).                                *)
(*                                                                         *)
(* Columns carry two more fields here: `kind', the question they answer    *)
(* ("where", "what", "who", "other"), and `few', at most four values.      *)
(* Revenue that is worked out, punctuality, contact details and what ranks *)
(* alike are left out.                                                     *)
(***************************************************************************)
EXTENDS Feasibility

CONSTANT Topics      \* what boards are asked about; <<>> is no topic

VARIABLES wanted,    \* the dataset each topic has waiting, or None
          boards     \* the boards built: [topic, measure, on, layout]

Sum(o, t, of) == MetricOf(o, t, "sum", of)
MetricsOn(o, t) == SelectSeq(o.metrics, LAMBDA m : m.on = t.name)
Dates(t) == {c.name : c \in InRole(t, {"temporal"})}
Upto(n, s) == SubSeq(s, 1, IF Len(s) < n THEN Len(s) ELSE n)
Additive(m) == m.agg \in {"sum", "count"}

--------------------------------------------------------------------------------
(* Laying out a board from the metrics a type has.                         *)
Widget(kind, m, by, width) == [kind |-> kind, on |-> m.on, agg |-> m.agg, of |-> m.of, by |-> by, width |-> width]

\* The figure asked for leads, then those a person named, then the rest; four at most.
Headline(metrics, lead) ==
    LET count == SelectSeq(metrics, LAMBDA m : m.agg = "count")
        named == SelectSeq(metrics, LAMBDA m : m # lead /\ m.agg # "count" /\ ~m.own)
        others == SelectSeq(metrics, LAMBDA m : m # lead /\ m.own /\ m.agg \in {"sum", "avg"})
        alike == SelectSeq(others, LAMBDA m : m.agg = lead.agg)
        unlike == SelectSeq(others, LAMBDA m : m.agg # lead.agg)
        rest == IF lead = None \/ Additive(lead) THEN others ELSE alike \o unlike
    IN  IF lead = None THEN Upto(4, count \o Upto(4, named \o rest))
        ELSE Upto(4, <<lead>> \o named \o (IF Additive(lead) THEN count ELSE <<>>) \o Upto(3, named \o rest))
\* Once each.
Distinct(s) == SelectSeq([i \in DOMAIN s |-> IF \E k \in 1..(i - 1) : s[k] = s[i] THEN None ELSE s[i]], LAMBDA m : m # None)
Widen_Not(stats) == stats
\* The last one fills the row.
Widen(stats) == IF Len(stats) \in 1..3 THEN [stats EXCEPT ![Len(stats)].width = 5 - Len(stats)] ELSE stats
Stats(metrics, lead) ==
    LET shown == Distinct(Headline(metrics, lead))
    IN  Widen([i \in DOMAIN shown |-> Widget("stat", shown[i], <<>>, 1)])

\* One slice of few values as shares, one ranked slice per kind of question, one table.
Slices(o, t, primary, named) ==
    LET useful == {c \in InRole(t, {"dimension"}) : c.name \in primary.slices}
        shares == {c \in useful : c.few}
        best == {c \in shares : c.kind # "where" \/ \A k \in shares : k.kind = "where"}
        donut == IF best = {} THEN {} ELSE {CHOOSE c \in best : TRUE}
        room == IF Cardinality(useful) >= 5 THEN 3 ELSE IF donut = {} THEN 2 ELSE 1
        ofKind(k) == {c \in useful \ donut : c.kind = k}
        kinds == SelectSeq(<<"where", "what", "who", "other">>, LAMBDA k : ofKind(k) # {})
        ranked == [i \in DOMAIN Upto(room, kinds) |-> CHOOSE c \in ofKind(kinds[i]) : TRUE]
        adds == IF Additive(primary) THEN primary
                ELSE LET s == SelectSeq(named, Additive) IN IF s # <<>> THEN Head(s) ELSE MetricOf(o, t, "count", <<>>)
        left == {c \in useful \ (donut \cup ToSet(ranked)) : c.kind # "where" /\ c.name \in adds.slices}
        used == 2 * Cardinality(donut) + 2 * Len(ranked)
    IN  [i \in 1..Cardinality(donut) |-> Widget("donut", primary, (CHOOSE c \in donut : TRUE).name, 2)]
        \o [i \in DOMAIN ranked |-> Widget("bar", primary, ranked[i].name, 2)]
        \o IF left = {} THEN <<>>
           ELSE <<Widget("table", adds, (CHOOSE c \in left : TRUE).name, IF used % 4 = 2 THEN 2 ELSE 4)>>

PlanBoard(o, t, measure) ==
    LET metrics == MetricsOn(o, t)
        of == SelectSeq(metrics, LAMBDA m : m.of = measure)
        lead == IF measure = None \/ of = <<>> THEN None ELSE IF Sum(o, t, measure) # None THEN Sum(o, t, measure) ELSE Head(of)
        primary == IF lead # None THEN lead ELSE MetricOf(o, t, "count", <<>>)
        named == SelectSeq(metrics, LAMBDA m : m # lead /\ m.agg # "count" /\ ~m.own)
        dated == Dates(t) \cap primary.slices
    IN  Stats(metrics, lead)
        \o (IF dated = {} THEN <<>> ELSE <<Widget("timeline", primary, CHOOSE d \in dated : TRUE, 4)>>)
        \o Slices(o, t, primary, named)

--------------------------------------------------------------------------------
(* What a board on a topic is built on.                                    *)
Richest(ts, worth(_)) == CHOOSE t \in ts : \A u \in ts : worth(u) <= worth(t)
LinksFrom(o, t) == Cardinality({l \in ToSet(o.links) : l.from = t.name})
PickSubject(o) ==
    Richest(ToSet(o.types), LAMBDA t : 2 * Len(MetricsOn(o, t)) + 3 * Cardinality(Dates(t)) + 2 * LinksFrom(o, t))

EnrichedOf(o, t) == LET e == TypeNamed(o, Enriched(t)) IN IF e # None /\ e.combined THEN e ELSE None
BoardSubject(o, topic) ==
    LET exact == TypeNamed(o, topic)
        about == {t \in ToSet(o.types) : Overlap(ToSet(topic), TypeWords(t)) > 0}
        slices(t) == UNION {m.slices : m \in ToSet(MetricsOn(o, t))}
        richness(t) == (IF Dates(t) # {} THEN 3 ELSE 0) + Cardinality(slices(t) \ Dates(t))
    IN  IF exact # None THEN IF EnrichedOf(o, exact) # None THEN EnrichedOf(o, exact) ELSE exact
        ELSE IF about # {} THEN Richest(about, richness)
        ELSE IF MatchType(o, topic) # None THEN MatchType(o, topic) ELSE PickSubject(o)

\* The fact rows with what they point at, unless an earlier approval made that dataset.
DatasetBase(o, topic, named, measured) ==
    IF named # None /\ (measured = None \/ Overlap(ToSet(topic), TypeWords(named)) >= measured.score) THEN named
    ELSE IF measured # None /\ ~measured.type.combined THEN measured.type
    ELSE IF named # None THEN named ELSE PickSubject(o)
DatasetOn(o, topic, measured, base, joins) ==
    LET ofType == topic = <<>> \/ Overlap(ToSet(topic), TypeWords(base)) > 0
        name == IF ofType THEN Enriched(base) ELSE topic \o base.name
        dated == Dates(base) # {} \/ \E j \in joins : j.fields \cap Dates(TypeNamed(o, j.path[Len(j.path)].to)) # {}
    IN  IF EnrichedOf(o, base) # None \/ joins = {} \/ (~dated /\ Cardinality(joins) < 2) THEN None
        ELSE [dataset |-> Combination(FreeName(o, name), base.name, joins),
              measure |-> IF measured = None THEN None ELSE measured.col.name]
DatasetFor(o, topic, measured, base) == DatasetOn(o, topic, measured, base, AnalysisJoins(o, base))
DatasetOf(o, topic, named, measured) == DatasetFor(o, topic, measured, DatasetBase(o, topic, named, measured))
AnalysisDataset(o, topic) ==
    IF topic = <<>> THEN DatasetOf(o, topic, None, None)
    ELSE DatasetOf(o, topic, MatchType(o, topic), MatchColumn(o, topic, {"measure"}, None))

\* A board that lacks a timeline or slices, or what it was asked about, is better built on one
\* wide dataset.
AssessPlan(o, topic, subject, measure, plan) ==
    LET slices == {i \in DOMAIN plan : plan[i].kind \in {"donut", "bar"}}
        thin == (\A i \in DOMAIN plan : plan[i].kind # "timeline") \/ Cardinality(slices) < 2
        missing == topic # <<>> /\ TypeNamed(o, topic) = None /\ measure = None
        answer(wide) == [wide |-> wide, layout |-> IF wide = None THEN plan ELSE <<>>, on |-> subject.name]
    IN  answer(IF thin \/ missing THEN AnalysisDataset(o, topic) ELSE None)
AssessOn(o, topic, subject, measure) == AssessPlan(o, topic, subject, measure, PlanBoard(o, subject, measure))
AssessLed(o, topic, lead) ==
    IF lead = None THEN AssessOn(o, topic, BoardSubject(o, topic), None)
    ELSE AssessOn(o, topic, TypeNamed(o, lead.on), IF lead.of = <<>> THEN None ELSE lead.of)
Assess(o, topic) ==
    LET chart == [want |-> "chart", of |-> topic, agg |-> None, by |-> <<>>, time |-> FALSE]
        lead(topical) == IF topical.status = "ready" THEN topical.metric ELSE None
    IN  AssessLed(o, topic, lead(IF topic = <<>> \/ MatchType(o, topic) # None THEN NotPossible ELSE Decide(o, chart)))

--------------------------------------------------------------------------------
BInit == Init /\ wanted = [p \in Topics |-> None] /\ boards = {}

\* Laid out there and then, or the dataset is proposed.
AskBoard(topic) ==
    /\ wanted[topic] = None /\ Len(ontology.types) < MaxTypes
    /\ \E a \in {Assess(ontology, topic)} :
          /\ wanted' = [wanted EXCEPT ![topic] = a.wide]
          /\ boards' = IF a.wide # None THEN boards
                       ELSE boards \cup {[topic |-> topic, measure |-> None, on |-> a.on, built |-> FALSE, layout |-> a.layout]}
    /\ UNCHANGED vars

\* Approving the dataset builds the board on it.
FollowUp(o, topic) ==
    LET w == wanted[topic]
    IN  [topic |-> topic, measure |-> w.measure, on |-> w.dataset.name, built |-> TRUE,
         layout |-> PlanBoard(o, TypeNamed(o, w.dataset.name), w.measure)]
ApproveWide(topic) ==
    /\ wanted[topic] # None /\ Fits(ontology, wanted[topic].dataset)
    /\ ontology' = After(ontology, wanted[topic].dataset)
    /\ boards' = boards \cup {FollowUp(ontology', topic)}
    /\ wanted' = [wanted EXCEPT ![topic] = None]
    /\ UNCHANGED <<offers, applied>>
\* Rejected, or refused because its name has been taken since.
DropWide(topic) ==
    /\ wanted[topic] # None
    /\ wanted' = [wanted EXCEPT ![topic] = None] /\ UNCHANGED boards /\ UNCHANGED vars

BNext ==
    \/ Next /\ UNCHANGED <<wanted, boards>>
    \/ \E topic \in Topics : AskBoard(topic) \/ ApproveWide(topic) \/ DropWide(topic)
BSpec == BInit /\ [][BNext]_<<vars, wanted, boards>>

--------------------------------------------------------------------------------
\* "Only READY widgets go on it" (feasibility.ts:1674): every widget of a board can be run as it
\* stands, no two are the same, and the headline figures fill their row "so the grid stays even".
BoardsCanBeRun ==
    \A b \in boards :
        /\ \A i \in DOMAIN b.layout :
              LET w == b.layout[i]
                  m == MetricOf(ontology, TypeNamed(ontology, w.on), w.agg, w.of)
              IN  m # None /\ (w.by # <<>> => \E k \in ToSet(ontology.metrics) :
                                    k.on = w.on /\ k.agg = w.agg /\ k.of = w.of /\ w.by \in k.slices)
        /\ \A i, j \in DOMAIN b.layout : b.layout[i] = b.layout[j] => i = j
        /\ LET stats == SelectSeq(b.layout, LAMBDA w : w.kind = "stat")
           IN  FoldLeft(LAMBDA n, w : n + w.width, 0, stats) = 4

InReach(b) ==
    LET base == TypeNamed(ontology, TypeNamed(ontology, b.on).rows)
    IN  {t \in ToSet(ontology.types) : ~t.combined /\ PathTo(ontology, base, t) # None /\ Len(PathTo(ontology, base, t)) <= 2}
\* The board built from an approved dataset is what was promised with it: the figure that was
\* asked for, and more than the thin board it replaces: a timeline, where any date was in reach,
\* and a breakdown ("headline figures, a monthly timeline and the main breakdowns").
FollowUpIsAsPromised ==
    \A b \in boards : b.built =>
        /\ b.measure # None => b.layout[1].of = b.measure
        /\ \E i \in DOMAIN b.layout : b.layout[i].kind \in {"donut", "bar"}
        /\ (\E t \in InReach(b) : Dates(t) # {}) => \E i \in DOMAIN b.layout : b.layout[i].kind = "timeline"

\* "Already enriched by an earlier approval: the board is built on that" (feasibility.ts:1293):
\* once its dataset is there, asking again lays the board out.  The program does not keep it.
AskedAgainIsLaidOut ==
    \A b \in boards : b.built => Assess(ontology, b.topic).wide = None
================================================================================
