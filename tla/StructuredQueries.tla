-------------------------- MODULE StructuredQueries --------------------------
(***************************************************************************)
(* A question about a spreadsheet, from its clauses to its result.         *)
(*                                                                         *)
(*   backend/app/structured_query.py     resolve_structured_intent, planner*)
(*                                       and executor                      *)
(*   backend/app/structured_answer.py    try_answer, route metadata        *)
(*   backend/app/structured_models.py    intents, plans, results           *)
(*                                                                         *)
(* A question is what the clause parsers find in it; None where they ask   *)
(* back.  SQL text is a function of the plan and is left out, the checks   *)
(* on it are those on the plan's columns.  A time is a number of half      *)
(* days, a value of the column is a number or None (NULL).  The server may *)
(* answer with a row that is not what the query says.                      *)
(***************************************************************************)
EXTENDS Integers, FiniteSets, SequencesExt, FiniteSetsExt

CONSTANTS
    Columns,
    Kind,           \* column: "number", "date", "datetime" or "text"
    Aggregatable, Filterable,
    Questions, Tables,
    MaxFields,      \* MAX_STRUCTURED_ROUTE_FIELDS
    ImplicitMax,    \* implicit_summary_max_metrics
    RowLimit,       \* rows of a row lookup
    None

VARIABLES
    stage,
    question,
    table,      \* the rows of the publication
    intent,     \* what the question resolved to
    row,        \* what ClickHouse returned
    honest,     \* whether that is what the query says
    outcome

vars == <<stage, question, table, intent, row, honest, outcome>>

Counting == {"count", "count_distinct"}
Fields(s) == {s[i] : i \in DOMAIN s}
Metric(a, c, p) == [aggregate |-> a, column |-> c, percentile |-> p]

-----------------------------------------------------------------------------
(* resolve_structured_intent                                               *)

Nothing(kind) == [kind |-> kind, metrics |-> <<>>, filters |-> {}, group |-> <<>>,
                  order |-> None, desc |-> TRUE, limit |-> None, selected |-> <<>>]
Clarify == Nothing("clarification")
Unavailable == Nothing("unavailable")

\* _parse_row_lookup_intent: the columns that are not filtered on
LookupColumns(q) ==
    LET filtered == {f.column : f \in q.filters} IN
    SelectSeq(q.selected, LAMBDA c : c \notin filtered)
RowLookup(q) ==
    IF q.filters = None THEN Unavailable
    ELSE IF q.selected = None THEN Clarify
    ELSE IF LookupColumns(q) = <<>> THEN Unavailable
    ELSE IF Len(LookupColumns(q)) > MaxFields THEN Clarify
    ELSE [Nothing("rows") EXCEPT !.filters = q.filters, !.selected = LookupColumns(q),
                                 !.limit = RowLimit]

\* An analysis with the question's groups, order and limit
Multi(q, metrics) ==
    [Nothing("multi") EXCEPT !.metrics = metrics, !.filters = q.filters, !.group = q.group,
        !.order = IF q.top # None \/ q.ordered THEN metrics[1].column ELSE None,
        !.desc = q.desc, !.limit = q.top]
Single(q, metric) == [Nothing("single") EXCEPT !.metrics = <<metric>>, !.filters = q.filters]

Allowed(a, c) == a \in Counting \/ c \in Aggregatable

\* _parse_combined_aggregate_intent: several statistics of one metric
Combined(q) ==
    IF /\ q.metrics # None /\ Len(q.metrics) = 1
       /\ \A a \in Fields(q.aggregates) : Allowed(a, q.metrics[1])
    THEN Multi(q, [i \in DOMAIN q.aggregates |->
                     Metric(q.aggregates[i], q.metrics[1],
                            IF q.aggregates[i] = "percentile" THEN q.percentile ELSE None)])
    ELSE Clarify

\* The metrics the question names
Named(q, a) ==
    IF \E c \in Fields(q.metrics) : ~Allowed(a, c) THEN Unavailable
    ELSE IF Len(q.metrics) > MaxFields THEN Clarify
    ELSE IF q.leftover THEN Unavailable    \* a filter nobody understood
    ELSE LET metrics == [i \in DOMAIN q.metrics |-> Metric(a, q.metrics[i], q.percentile)] IN
         IF Len(metrics) = 1 /\ q.group = <<>> THEN Single(q, metrics[1]) ELSE Multi(q, metrics)

\* _parse_metric_clause when it names none: the column filtered on; for a count
\* the date column named next to its range, or all rows
FilterMetrics(q) == {f.column : f \in q.filters} \cap Aggregatable
Unnamed(q, a) ==
    LET reusable == IF a \notin Counting THEN FilterMetrics(q)
                    ELSE IF q.countAll THEN {} ELSE q.shared
        metric == IF reusable = {} THEN None ELSE CHOOSE c \in reusable : TRUE
    IN  IF Cardinality(reusable) > 1 THEN Clarify
        ELSE IF metric = None /\ a \notin Counting THEN Unavailable
        ELSE IF q.leftover THEN Unavailable
        ELSE IF q.group # <<>> THEN
             IF metric = None THEN Unavailable ELSE Multi(q, <<Metric(a, metric, q.percentile)>>)
        ELSE Single(q, Metric(a, metric, q.percentile))

\* "汇总": the sum of every numeric column
ImplicitColumns == SetToSeq({c \in Aggregatable : Kind[c] = "number"})
Implicit(q) ==
    IF ImplicitColumns = <<>> THEN Unavailable
    ELSE IF Len(ImplicitColumns) > ImplicitMax THEN Clarify
    ELSE Multi(q, [i \in DOMAIN ImplicitColumns |-> Metric("sum", ImplicitColumns[i], None)])

Aggregate(q) ==
    IF q.group = None THEN Clarify
    ELSE IF q.filters = None \/ q.top = 0 THEN Unavailable
    ELSE IF (q.top # None \/ q.ordered) /\ q.group = <<>> THEN Unavailable
    ELSE IF Len(q.aggregates) > 1 THEN Combined(q)
    ELSE IF q.aggregates = <<>> /\ ~q.summary THEN Unavailable
    ELSE LET a == IF q.aggregates = <<>> THEN "sum" ELSE q.aggregates[1] IN
         IF a = "percentile" /\ q.percentile = None THEN Unavailable
         ELSE IF q.metrics = None THEN Clarify
         ELSE IF q.metrics # <<>> THEN Named(q, a)
         ELSE IF q.aggregates # <<>> THEN Unnamed(q, a)
         ELSE Implicit(q)

Resolve(q) == IF q.rows /\ q.aggregates = <<>> /\ ~q.summary THEN RowLookup(q) ELSE Aggregate(q)

-----------------------------------------------------------------------------
(* StructuredQueryPlanner                                                  *)

\* _convert_parameter rejects a value that is not of the column's type.
FilterAccepted(f) == f.column \in Filterable /\ f.valid
MetricAccepted(m) ==
    IF m.column = None THEN m.aggregate = "count"
    ELSE /\ Allowed(m.aggregate, m.column)
         /\ m.aggregate = "percentile" => m.percentile # None

Accepted(i) ==
    /\ \A f \in i.filters : FilterAccepted(f)
    /\ i.kind = "rows" =>
        /\ i.limit \in 1..1000 /\ i.selected # <<>>
        /\ \A f \in i.filters : f.operator \in {"eq", "between"}
    /\ i.kind # "rows" => \A m \in Fields(i.metrics) : MetricAccepted(m)
    /\ i.kind = "multi" =>
        /\ Cardinality(Fields(i.metrics)) = Len(i.metrics)
        /\ Cardinality(Fields(i.group)) = Len(i.group)
        /\ Fields(i.group) \subseteq Filterable
        /\ i.limit # None => i.limit \in 1..1000

\* _between_upper_bound: <<bound, inclusive>>.  A date on a column of times
\* stands for its whole day.
UpperBound(f) ==
    IF Kind[f.column] = "datetime"
    THEN IF f.dateOnly THEN <<f.upper + 2, FALSE>> ELSE <<f.upper, FALSE>>
    ELSE <<f.upper, TRUE>>

Holds(f, r) ==
    LET x == r[f.column] IN
    /\ x # None
    /\ CASE f.operator = "eq" -> x = f.lower
         [] f.operator = "gte" -> x >= f.lower
         [] f.operator = "between" ->
              /\ x >= f.lower
              /\ IF UpperBound(f)[2] THEN x <= UpperBound(f)[1] ELSE x < UpperBound(f)[1]

-----------------------------------------------------------------------------
(* ClickHouse                                                              *)

Matching(i) == SelectSeq(table, LAMBDA r : \A f \in i.filters : Holds(f, r))
Valid(rows, c) == IF c = None THEN rows ELSE SelectSeq(rows, LAMBDA r : r[c] # None)
Total(rows, c) == FoldLeft(LAMBDA acc, r : acc + r[c], 0, rows)

\* The statistics the instances use; of no valid value the result is NULL
Statistic(a, rows, c) ==
    LET valid == Valid(rows, c)
        values == {r[c] : r \in Fields(valid)}
    IN  CASE a = "count" -> Len(valid)
          [] a = "count_distinct" -> Cardinality(values)
          [] a \notin Counting /\ valid = <<>> -> None
          [] a = "sum" /\ valid # <<>> -> Total(valid, c)
          [] a \in {"max", "percentile"} /\ valid # <<>> -> Max(values)

Cells(i, rows) ==
    [k \in DOMAIN i.metrics |->
        LET m == i.metrics[k]
            valid == Len(Valid(rows, m.column))
        IN  [value |-> Statistic(m.aggregate, rows, m.column), valid |-> valid,
             null |-> Len(rows) - valid]]
Key(i, r) == [k \in DOMAIN i.group |-> r[i.group[k]]]
Group(i, key) ==
    LET rows == SelectSeq(Matching(i), LAMBDA r : Key(i, r) = key) IN
    [key |-> key, total |-> Len(rows), cells |-> Cells(i, rows)]
Groups(i) ==
    IF i.group = <<>> THEN {Group(i, <<>>)}
    ELSE {Group(i, Key(i, r)) : r \in Fields(Matching(i))}

\* ORDER BY the column itself when the rows are grouped by it, or else the value
\* of its first metric; NULL comes last
SortedBy(i, g) ==
    IF i.order \in Fields(i.group)
    THEN g.key[CHOOSE k \in DOMAIN i.group : i.group[k] = i.order]
    ELSE g.cells[Min({k \in DOMAIN i.metrics : i.metrics[k].column = i.order})].value
Precedes(i, g, h) ==
    LET x == SortedBy(i, g)
        y == SortedBy(i, h)
    IN  IF x = None \/ y = None THEN x # None \/ y = None
        ELSE IF i.desc THEN x >= y ELSE x <= y
Ordered(i) ==
    IF i.order = None THEN SetToSeq(Groups(i))
    ELSE SetToSortSeq(Groups(i), LAMBDA g, h : Precedes(i, g, h) /\ g # h)
Cut(s, n) == IF n = None \/ Len(s) <= n THEN s ELSE SubSeq(s, 1, n)

Projection(i, r) == [k \in DOMAIN i.selected |-> r[i.selected[k]]]
\* A row lookup asks for one row more than it returns.
Result(i) ==
    IF i.kind = "rows"
    THEN LET found == Cut(Matching(i), i.limit + 1) IN
         [k \in DOMAIN found |-> Projection(i, found[k])]
    ELSE Cut(Ordered(i), i.limit)

\* Other answers: a count or a value that is off, a row too many or too few.
Distorted(i) ==
    LET s == Result(i) IN
    {<<>>} \cup
    (IF i.kind = "rows" \/ s = <<>> THEN {}
     ELSE {Append(s, s[1]),
           [s EXCEPT ![1].total = @ + 1],
           [s EXCEPT ![1].cells[1].valid = -1, ![1].cells[1].null = s[1].total + 1],
           [s EXCEPT ![1].cells[1].value = s[1].total + 1]})

-----------------------------------------------------------------------------
(* StructuredQueryExecutor                                                 *)

\* The counts of a cell must agree with each other and with the value.
Consistent(i, g) ==
    \A k \in DOMAIN g.cells :
        LET cell == g.cells[k]
            a == i.metrics[k].aggregate
        IN  /\ cell.valid >= 0 /\ cell.null >= 0 /\ cell.valid + cell.null = g.total
            /\ a = "count_distinct" => cell.value <= cell.valid
            /\ a = "count" /\ i.kind = "multi" => cell.value = cell.valid
            /\ a \notin Counting /\ cell.value = None => cell.valid = 0

Served(i, s) ==
    \/ i.kind = "rows"
    \/ /\ i.group = <<>> => Len(s) = 1
       /\ \A g \in Fields(s) : Consistent(i, g)

-----------------------------------------------------------------------------
(* One question                                                            *)

Begins ==
    /\ stage = "asked" /\ intent = Nothing("none")
    /\ row = <<>> /\ honest = TRUE /\ outcome = "none"
Init == question \in Questions /\ table \in Tables /\ Begins

End(kind) == stage' = "answered" /\ outcome' = kind

Ask ==
    /\ stage = "asked"
    /\ intent' = Resolve(question)
    /\ IF intent'.kind \in {"clarification", "unavailable"} THEN End(intent'.kind)
       ELSE IF ~Accepted(intent') THEN End("rejected")
       ELSE stage' = "query" /\ UNCHANGED outcome
    /\ UNCHANGED <<question, table, row, honest>>

Query ==
    /\ stage = "query"
    /\ \/ row' = Result(intent) /\ UNCHANGED honest
       \/ row' \in Distorted(intent) /\ honest' = FALSE
    /\ stage' = "result"
    /\ UNCHANGED <<question, table, intent, outcome>>

QueryFails ==
    /\ stage = "query"
    /\ End("unavailable")
    /\ UNCHANGED <<question, table, intent, row, honest>>

Parse ==
    /\ stage = "result"
    /\ IF Served(intent, row) THEN End("result") ELSE End("unavailable")
    /\ UNCHANGED <<question, table, intent, row, honest>>

Work == Ask \/ Query \/ QueryFails \/ Parse
Next == Work

-----------------------------------------------------------------------------
(* Properties                                                              *)

Answered == outcome = "result"

\* What the words of a filter mean, day by day.
Means(f, r) ==
    LET x == r[f.column] IN
    x # None /\
    IF f.operator # "between" THEN Holds(f, r)
    ELSE IF Kind[f.column] = "datetime" /\ f.dateOnly
         THEN x \div 2 \in (f.lower \div 2)..(f.upper \div 2)
    ELSE IF Kind[f.column] = "datetime" THEN x \in f.lower..(f.upper - 1)
    ELSE x \in f.lower..f.upper
Meant == SelectSeq(table, LAMBDA r : \A f \in question.filters : Means(f, r))

\* The statistics returned are those of exactly the rows the question means:
\* whole days, a range of times without its end (_between_upper_bound); the
\* groups are those of these rows, a "top n" leaves out no group that the plan
\* puts before one it shows, and a row lookup says that it was cut exactly when
\* more rows match (execute, execute_multi, execute_row_lookup).
ResultIsMeant ==
    Answered /\ honest =>
        IF intent.kind = "rows"
        THEN /\ Len(row) > RowLimit <=> Len(Meant) > RowLimit
             /\ \A k \in DOMAIN row : row[k] = Projection(intent, Meant[k])
        ELSE LET sizes == [g \in Fields(row) |-> g.total] IN
             /\ \A g \in Fields(row) :
                    g.cells = Cells(intent, SelectSeq(Meant, LAMBDA r : Key(intent, r) = g.key))
             /\ intent.limit = None =>
                    Len(Meant) = FoldLeft(LAMBDA acc, g : acc + sizes[g], 0, row)
             /\ intent.order # None =>
                    \A g \in Fields(row), h \in Groups(intent) :
                        h \notin Fields(row) => Precedes(intent, g, h)

\* Whatever the server returns, counts that contradict each other are never
\* shown as a result.
ResultIsConsistent ==
    Answered /\ intent.kind # "rows" =>
        \A g \in Fields(row) : \A k \in DOMAIN g.cells :
            /\ g.cells[k].valid \in 0..g.total
            /\ intent.metrics[k].aggregate = "count_distinct" => g.cells[k].value <= g.total

\* Nothing is computed from, grouped by or filtered on a column that was not
\* confirmed for it, although the resolver does not look at what a group may be.
OnlyConfirmedColumns ==
    stage \in {"query", "result"} =>
        /\ Fields(intent.group) \cup {f.column : f \in intent.filters} \subseteq Filterable
        /\ \A m \in Fields(intent.metrics) : Allowed(m.aggregate, m.column) \/ m.column = None

\* The planner refuses only what the resolver leaves to it: a group that may
\* not be filtered on, a value that is not of the column's type, a comparison in
\* a row lookup, a percentile among several statistics that is not given,
\* distinct rows of no column.
RejectedOnly ==
    outcome = "rejected" =>
        \/ ~(Fields(intent.group) \subseteq Filterable)
        \/ \E f \in intent.filters : ~FilterAccepted(f)
        \/ intent.kind = "rows" /\ \E f \in intent.filters : f.operator \notin {"eq", "between"}
        \/ \E m \in Fields(intent.metrics) :
               \/ m.aggregate = "percentile" /\ m.percentile = None /\ intent.kind = "multi"
               \/ m.aggregate = "count_distinct" /\ m.column = None

QueriesSound == ResultIsMeant /\ ResultIsConsistent /\ OnlyConfirmedColumns /\ RejectedOnly
Quiet == stage = "answered"
=============================================================================
