-------------------------------- MODULE Queries --------------------------------
(***************************************************************************)
(* Reading: a metric with its series and trend (kpi.ts executeKpiWith) and *)
(* a list read page by page (objectSet.ts searchObjects, resourceData.ts   *)
(* page).  Each answer is put together from several statements, and a sync *)
(* may put another copy of the table under any two of them.                *)
(*                                                                         *)
(* A row is [id, day, group, title]; a metric counts rows.  SQL's          *)
(* three-valued filters, casts, quoting and the other aggregates are left  *)
(* out; rows that tie in an ORDER BY come in any order.                    *)
(***************************************************************************)
EXTENDS Naturals, FiniteSets, SequencesExt, FiniteSetsExt

CONSTANTS Copies,      \* the copies of the table, in the order they are landed
          Wants,       \* the figures asked for: [by, filters, condition]
          Slots,       \* how many rows a page holds, groups a chart, periods a trend
          PeriodDays,  \* the days of a period
          Pages, Null

VARIABLES copy,        \* which copy is landed
          asked,       \* the request being answered, or Null
          step,        \* the statement that is next
          since,       \* the copy the first statement read
          answer       \* what the statements so far have read
vars == <<copy, asked, step, since, answer>>

Table == Copies[copy]
PeriodOf(d) == (d + PeriodDays - 1) \div PeriodDays
LastDay(rows) == Max({r.day : r \in rows})

\* A filter is [on, op, value]; one without a value is skipped.
Passes(r, f) ==
    CASE f.op = "is" -> r[f.on] = f.value
      [] f.op = "in" -> f.value = {} \/ r[f.on] \in f.value
      [] f.op = "gte" -> r[f.on] # Null /\ r[f.on] >= f.value
      [] f.op = "all" -> TRUE
\* Mutant: a caller's filter takes the place of the metric's condition on its column.
Predicates_CallerWins(want) ==
    want.filters \cup {c \in want.condition : \A f \in want.filters : f.on # c.on}
\* The metric's own conditions first, then the caller's: both hold.
Predicates(want) == want.condition \cup want.filters
Matched(rows, want) == {r \in rows : \A f \in Predicates(want) : Passes(r, f)}

KeyOf(r, by) == IF by = "period" THEN PeriodOf(r.day) ELSE r.group
\* The largest groups, or the earliest periods; a row without a group is in none.
Series(rows, by) ==
    LET keys == {KeyOf(r, by) : r \in rows} \ {Null}
        size(k) == Cardinality({r \in rows : KeyOf(r, by) = k})
        before(j, k) == IF by = "period" THEN j < k ELSE size(j) > size(k)
    IN  {[k \in top |-> size(k)] : top \in {t \in SUBSET keys :
            /\ Cardinality(t) = (IF Cardinality(keys) < Slots THEN Cardinality(keys) ELSE Slots)
            /\ \A k \in t, j \in keys \ t : ~before(j, k)}}

\* The newest periods, oldest first.
Points(rows) ==
    LET periods == SetToSortSeq({PeriodOf(r.day) : r \in rows}, <)
    IN  SubSeq(periods, IF Len(periods) > Slots THEN Len(periods) - Slots + 1 ELSE 1, Len(periods))
\* The newest day is not the last of its period.
EndsInside(rows) == rows # {} /\ LastDay(rows) < PeriodOf(LastDay(rows)) * PeriodDays
\* The two periods whose difference is shown, a period the data stops in left out.
Compared(points, partial) ==
    LET complete == IF partial THEN Front(points) ELSE points
    IN  IF Len(complete) < 2 THEN <<>> ELSE <<complete[Len(complete) - 1], complete[Len(complete)]>>

--------------------------------------------------------------------------------
Nothing == [total |-> 0, series |-> <<>>, partial |-> FALSE, points |-> <<>>, compared |-> <<>>, pages |-> <<>>]
Init == /\ copy = 1 /\ asked = Null /\ step = "idle" /\ since = 1 /\ answer = Nothing

\* A sync lands the next copy, all at once.
Land == /\ copy < Len(Copies)
        /\ copy' = copy + 1
        /\ UNCHANGED <<asked, step, since, answer>>

AskFigure(want) == /\ step = "idle"
                   /\ asked' = want /\ step' = "total" /\ since' = copy /\ answer' = Nothing
                   /\ UNCHANGED copy
\* A list is sorted - by what was asked for, or else by its own default - or has no order.
AskPages(sorted) == /\ step = "idle"
                    /\ asked' = [by |-> Pages, sorted |-> sorted] /\ step' = "rows" /\ since' = copy /\ answer' = Nothing
                    /\ UNCHANGED copy

Total == /\ step = "total"
         /\ answer' = [answer EXCEPT !.total = Cardinality(Matched(Table, asked))]
         /\ step' = "series"
         /\ UNCHANGED <<copy, asked, since>>
ReadSeries == /\ step = "series"
              /\ IF asked.by = Null THEN UNCHANGED answer
                 ELSE \E s \in Series(Matched(Table, asked), asked.by) : answer' = [answer EXCEPT !.series = s]
              /\ step' = IF asked.by = "period" THEN "coverage" ELSE "points"
              /\ UNCHANGED <<copy, asked, since>>
Coverage == /\ step = "coverage"
            /\ answer' = [answer EXCEPT !.partial = EndsInside(Matched(Table, asked))]
            /\ step' = "points"
            /\ UNCHANGED <<copy, asked, since>>
ReadPoints == /\ step = "points"
              /\ answer' = [answer EXCEPT !.points = Points(Matched(Table, asked))]
              /\ step' = "trend"
              /\ UNCHANGED <<copy, asked, since>>
\* Whether the last point is of a whole period is asked of the table again.
Trend == /\ step = "trend"
         /\ answer' = [answer EXCEPT !.compared =
                Compared(answer.points, answer.points # <<>> /\ EndsInside(Matched(Table, asked)))]
         /\ step' = "done"
         /\ UNCHANGED <<copy, asked, since>>

\* One page: the rows in the order of their titles, or without ORDER BY in any, from the
\* offset, and the count.
Ordered(rows) == {s \in SetToSeqs(rows) : asked.sorted => \A i, j \in DOMAIN s : i < j => s[i].title <= s[j].title}
ReadPage == /\ step = "rows"
            /\ \E s \in Ordered(Table) :
                 LET offset == Slots * Len(answer.pages)
                     page == SubSeq(s, offset + 1, IF offset + Slots < Len(s) THEN offset + Slots ELSE Len(s))
                 IN  answer' = [answer EXCEPT !.pages = Append(@, page)]
            /\ step' = "count"
            /\ UNCHANGED <<copy, asked, since>>
CountRows == /\ step = "count"
             /\ answer' = [answer EXCEPT !.total = Cardinality(Table)]
             /\ step' = IF Slots * Len(answer.pages) < Cardinality(Table) THEN "rows" ELSE "done"
             /\ UNCHANGED <<copy, asked, since>>

Done == step = "done" /\ step' = "idle" /\ UNCHANGED <<copy, asked, since, answer>>

Next == Land \/ (\E sorted \in BOOLEAN : AskPages(sorted)) \/ (\E w \in Wants : AskFigure(w)) \/ Total \/ ReadSeries \/ Coverage \/ ReadPoints
        \/ Trend \/ ReadPage \/ CountRows \/ Done
Spec == Init /\ [][Next]_vars

--------------------------------------------------------------------------------
TypeOK == /\ copy \in DOMAIN Copies /\ since \in 1..copy
          /\ step \in {"idle", "total", "series", "coverage", "points", "trend", "rows", "count", "done"}
          /\ asked \in Wants \cup {Null} \cup [by : {Pages}, sorted : BOOLEAN]

Undisturbed == step = "done" /\ since = copy
\* With no sync in between, a figure is one story: the groups shown and the rows without a
\* group make up the total, which counts the rows that meet the metric's own conditions as
\* well as the caller's; and what is compared are whole periods, so that a month holding six
\* days of orders is not "read as a fall" (kpi.ts:151-155).
FigureIsOneStory ==
    Undisturbed /\ asked \in Wants =>
        LET rows == {r \in Table : (\A f \in asked.condition : Passes(r, f)) /\ (\A f \in asked.filters : Passes(r, f))}
            shown == {KeyOf(r, asked.by) : r \in rows} \ {Null}
        IN  /\ answer.total = Cardinality(rows)
            /\ asked.by # Null /\ Cardinality(shown) <= Slots =>
                  MapThenSumSet(LAMBDA k : answer.series[k], DOMAIN answer.series)
                    + Cardinality({r \in rows : KeyOf(r, asked.by) = Null}) = answer.total
            /\ \A i \in DOMAIN answer.compared : \E r \in rows : r.day >= answer.compared[i] * PeriodDays

\* With no sync in between and no two titles alike, reading a sorted list page after page
\* shows every row once: "so pages are stable" (resourceData.ts:72). That is said of lists
\* with a sort of their own, or one asked for, as every list of objects has
\* (objectSet.ts:254-257). A list without either, a view's rows, has no ORDER BY beside its
\* LIMIT and OFFSET: its pages are as many, but a row may be on two of them and another on none.
PagesShowEveryRow ==
    Undisturbed /\ asked \notin Wants =>
        LET all == FlattenSeq(answer.pages)
        IN  /\ Len(all) = answer.total
            /\ asked.sorted /\ Cardinality({r.title : r \in Table}) = Cardinality(Table) =>
                  ToSet(all) = Table /\ Len(all) = Cardinality(Table)
================================================================================
