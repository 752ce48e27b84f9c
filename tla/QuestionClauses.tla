---------------------------- MODULE QuestionClauses ----------------------------
(***************************************************************************)
(* Which words of a question about a spreadsheet mean what.                *)
(*                                                                         *)
(*   backend/app/structured_query.py    resolve_structured_intent and the  *)
(*                                      clause parsers it calls in order   *)
(*                                                                         *)
(* A question is its occurrences: records with the places from..to-1 they  *)
(* take in the text.                                                       *)
(*   names      of a column; rank 0 physical name, 1 heading, 2 alias,     *)
(*              3 an alias inferred from the heading                       *)
(*   qualified  headings that begin with the word of an aggregate          *)
(*   sets       names of a data set; rank 2 is the name of a worksheet     *)
(*   words      of an aggregate; "all" for one that counts rows            *)
(*   bodies     what follows "by": several columns if separated            *)
(*   operators  from the sign to the end of the value; segment is where    *)
(*              the clause may begin                                       *)
(*   values     a text directly before a name                              *)
(*   times, ranges, dates    two times, two dates, one date (with the      *)
(*              place of a value before it)                                *)
(* A clause that is understood hides its words from the later ones.  Top n,*)
(* order and percentile are in StructuredQueries, and so is what becomes   *)
(* of an intent; words that only come together around a hidden one are     *)
(* left out.                                                               *)
(***************************************************************************)
EXTENDS Naturals, FiniteSets, Sequences, SequencesExt, FiniteSetsExt

CONSTANTS
    Kind,           \* column: "text", "number", "date" or "datetime"
    Aggregatable, Filterable,
    Published,      \* data sets with an active publication
    Questions,
    None

VARIABLES
    stage, question,
    used,           \* clause: the spans it consumed
    dataset, group,
    filters,        \* records [column, from, to, by]
    shared,         \* date columns named next to their range
    aggregate,
    metrics,
    outcome         \* "none", "intent", "clarification", "unavailable"

vars == <<stage, question, used, dataset, group, filters, shared, aggregate, metrics, outcome>>

Columns == DOMAIN Kind
Counting == {"count", "count_distinct"}
NoClauses == [dataset |-> {}, group |-> {}, filter |-> {}, aggregate |-> {}, metric |-> {}]

Begins ==
    /\ stage = "dataset" /\ used = NoClauses
    /\ dataset = None /\ group = <<>> /\ filters = {} /\ shared = {}
    /\ aggregate = None /\ metrics = <<>> /\ outcome = "none"
Init == question \in Questions /\ Begins

End(kind) == stage' = "answered" /\ outcome' = kind
Goto(label) == stage' = label /\ UNCHANGED outcome

-----------------------------------------------------------------------------
(* Occurrences                                                             *)

Span(o) == <<o.from, o.to>>
Spans(occs) == {Span(o) : o \in occs}
Length(o) == o.to - o.from
Inside(o, p) == p.from <= o.from /\ o.to <= p.to
Clear(o, spans) == \A s \in spans : o.to <= s[1] \/ s[2] <= o.from
Consumed == UNION {used[c] : c \in DOMAIN used}
Visible(occs) == {o \in occs : Clear(o, Consumed)}
NamesOf(occs, columns) == {n \in occs : n.column \in columns}
ColumnsOf(occs) == {n.column : n \in occs}

Independent(occs) == {o \in occs : ~\E p \in occs : Length(p) > Length(o) /\ Inside(o, p)}
AtSpan(o, occs) == {p \in occs : Span(p) = Span(o)}
Best(occs) == {o \in occs : \A p \in occs : o.rank <= p.rank}

\* _resolve_columns: of each place the names of the best rank
Resolved(occs) ==
    LET outer == Independent(occs) IN
    UNION {ColumnsOf(Best(AtSpan(o, outer))) : o \in outer}
Ambiguous(occs) ==
    LET outer == Independent(occs) IN
    \E o \in outer : Cardinality(ColumnsOf(Best(AtSpan(o, outer)))) > 1

\* _resolve_multiple_columns: in the order of their first places
InOrder(occs) ==
    LET place(c) == Min({n.from : n \in NamesOf(Independent(occs), {c})}) IN
    SetToSortSeq(Resolved(occs), LAMBDA c, d : place(c) < place(d))

-----------------------------------------------------------------------------
(* _parse_dataset_clause                                                   *)

\* Names within the name of a column do not count, nor does a worksheet's
\* directly before a column that a value may be given for.
NamedSets ==
    LET free == {s \in question.sets :
                   /\ \A n \in question.names : ~Inside(s, n)
                   /\ s.rank = 2 => \A n \in question.names :
                        n.from = s.to => n.column \notin Filterable \/ Kind[n.column] # "text"}
        best == {s \in free : s \in Best(AtSpan(s, free))}
    IN  Independent(best)

NameDataset ==
    LET named == {s.dataset : s \in NamedSets}
        chosen == IF named # {} THEN named ELSE Published
    IN
    /\ stage = "dataset"
    /\ IF Cardinality(chosen) > 1 THEN End("clarification") /\ UNCHANGED <<dataset, used>>
       ELSE IF ~(chosen \cap Published # {}) THEN End("unavailable") /\ UNCHANGED <<dataset, used>>
       ELSE /\ Goto("group")
            /\ dataset' = CHOOSE d \in chosen : TRUE
            /\ used' = [used EXCEPT !.dataset = Spans(NamedSets)]
    /\ UNCHANGED <<question, group, filters, shared, aggregate, metrics>>

-----------------------------------------------------------------------------
(* _parse_group_by_clause                                                  *)

NamesIn(body) == {n \in Visible(question.names) : Inside(n, body)}
\* Without a separator only the first column of a body is meant.
ColumnsIn(body) ==
    LET found == InOrder(NamesIn(body)) IN
    IF body.several \/ found = <<>> THEN found ELSE <<found[1]>>

NameGroup ==
    LET bodies == SetToSortSeq(Visible(question.bodies), LAMBDA b, c : b.from < c.from)
        chosen == FoldLeft(LAMBDA acc, b : acc \o SelectSeq(ColumnsIn(b), LAMBDA c : ~Contains(acc, c)),
                           <<>>, bodies)
        names == NamesOf(Visible(question.names), Range(chosen))
    IN
    /\ stage = "group"
    /\ IF bodies = <<>> THEN Goto("operators") /\ UNCHANGED <<group, used>>
       ELSE IF chosen = <<>> \/ \E i \in DOMAIN bodies : Ambiguous(NamesIn(bodies[i]))
            THEN End("clarification") /\ UNCHANGED <<group, used>>
       ELSE /\ Goto("operators")
            /\ group' = chosen
            /\ used' = [used EXCEPT !.group = Spans(names) \cup Spans(Range(bodies))]
    /\ UNCHANGED <<question, dataset, filters, shared, aggregate, metrics>>

-----------------------------------------------------------------------------
(* _parse_filter_clause                                                    *)

Filter(c, from, to, by) == [column |-> c, from |-> from, to |-> to, by |-> by]
Filtered == {f.column : f \in filters}
Hide(spans) == used' = [used EXCEPT !.filter = @ \cup spans]
Of(kinds) == {c \in Filterable : Kind[c] \in kinds}
\* The place of a question a filter may be looked for, hidden or not by others
Open(occs) == {o \in occs : Clear(o, used.dataset \cup used.group)}

\* _parse_explicit_filter_clauses: field, sign, value.  The field must be the
\* only one between the beginning of the clause and the sign, and end at it.
FieldNames(op) ==
    {n \in Visible(question.names) :
        n.column \in Filterable /\ op.segment <= n.from /\ n.to <= op.from}
AtSign(op) == {n \in FieldNames(op) : n.column \in Resolved(FieldNames(op)) /\ n.to = op.from}
OperatorIssue(op) ==
    LET columns == Resolved(FieldNames(op)) IN
    IF Cardinality(columns) > 1 THEN "clarification"
    ELSE IF AtSign(op) = {} \/ ~op.valid THEN "unavailable"
    ELSE IF op.comparison /\ \E c \in columns : Kind[c] # "number" THEN "unavailable"
    ELSE None
Clause(op) ==
    LET best == Best(AtSign(op))
        field == CHOOSE n \in best : \A k \in best : Length(n) >= Length(k)
    IN  Filter(field.column, field.from, op.to, "operator")

Operators ==
    LET ops == Visible(question.operators)
        wrong == {op \in ops : OperatorIssue(op) # None}
        clauses == {Clause(op) : op \in ops}
    IN
    /\ stage = "operators"
    /\ IF wrong # {}
       THEN End(OperatorIssue(CHOOSE op \in wrong : \A o \in wrong : op.from <= o.from))
            /\ UNCHANGED <<filters, used>>
       ELSE filters' = clauses /\ Hide(Spans(clauses)) /\ Goto("times")
    /\ UNCHANGED <<question, dataset, group, shared, aggregate, metrics>>

\* Two times: on the column of times, or that of dates if there is none
Times ==
    LET times == Open(question.times)
        columns == IF Of({"datetime"}) # {} THEN Of({"datetime"}) ELSE Of({"date"})
        found == {Filter(c, t.from, t.to, "range") : c \in columns, t \in times}
    IN
    /\ stage = "times"
    /\ IF times # {} /\ (Cardinality(times) > 1 \/ columns = {} \/ \E t \in times : ~t.valid)
       THEN End("unavailable") /\ UNCHANGED <<filters, used>>
       ELSE IF Cardinality(found) > 1 THEN End("clarification") /\ UNCHANGED <<filters, used>>
       ELSE filters' = filters \cup found /\ Hide(Spans(times)) /\ Goto("ranges")
    /\ UNCHANGED <<question, dataset, group, shared, aggregate, metrics>>

\* Two dates: on the column of dates or times that is named, or the only one.
\* A name next to the range belongs to it (_bound_date_field_span).
Ranges ==
    LET ranges == Open(question.ranges)
        names == NamesOf(Visible(question.names), Of({"date", "datetime"}))
        columns == IF names # {} THEN Resolved(names) ELSE Of({"date", "datetime"})
        bound(r) == {n \in NamesOf(names, columns) : n.to = r.from \/ r.to = n.from}
    IN
    /\ stage = "ranges"
    /\ IF ranges = {} THEN Goto("values") /\ UNCHANGED <<filters, used, shared>>
       ELSE IF Cardinality(ranges) > 1 \/ columns = {}
            THEN End("unavailable") /\ UNCHANGED <<filters, used, shared>>
       ELSE IF Cardinality(columns) > 1
            THEN End("clarification") /\ UNCHANGED <<filters, used, shared>>
       ELSE LET r == CHOOSE x \in ranges : TRUE
                c == CHOOSE x \in columns : TRUE
            IN  /\ filters' = filters \cup {Filter(c, r.from, r.to, "range")}
                /\ Hide({Span(r)} \cup Spans(bound(r)))
                /\ shared' = IF bound(r) # {} THEN shared \cup {c} ELSE shared
                /\ Goto("values")
    /\ UNCHANGED <<question, dataset, group, aggregate, metrics>>

\* _parse_implicit_filter_clauses: a value before the name of a text column.
\* Where several names end, the best rank and then the longest name counts.
ValuesBefore ==
    {v \in Visible(question.values) :
        /\ v.column \in Of({"text"}) \ Filtered
        /\ ~\E op \in question.operators : op.from = v.to}
Longest(vs) == {v \in Best(vs) : \A w \in Best(vs) : v.length >= w.length}
Values ==
    LET chosen == {v \in ValuesBefore : v \in Longest({w \in ValuesBefore : w.to = v.to})}
    IN
    /\ stage = "values"
    /\ IF \E v, w \in chosen : v.to = w.to /\ v.column # w.column
       THEN End("clarification") /\ UNCHANGED <<filters, used>>
       ELSE /\ filters' = filters \cup {Filter(v.column, v.from, v.to, "value") : v \in chosen}
            /\ Hide(Spans(chosen)) /\ Goto("dates")
    /\ UNCHANGED <<question, dataset, group, shared, aggregate, metrics>>

\* _parse_natural_date_and_value_filters: the first date left over, and the
\* value before it, each on the only column left for it.  Without a column
\* they stay words.
Dates ==
    LET dates == {d \in Visible(question.dates) : \A e \in Visible(question.dates) : d.from <= e.from}
        days == Of({"date", "datetime"}) \ Filtered
        texts == Of({"text"}) \ Filtered
        valued == {d \in dates : d.value # None}
        found == {Filter(c, d.from, d.to, "date") : c \in days, d \in dates}
                 \cup {Filter(c, d.value, d.to, "value") : c \in texts, d \in valued}
        all == filters \cup found
    IN
    /\ stage = "dates"
    /\ IF dates # {} /\ (Cardinality(days) > 1 \/ (valued # {} /\ Cardinality(texts) > 1))
       THEN End("clarification") /\ UNCHANGED <<filters, used>>
       ELSE IF question.either /\ all # {} THEN End("unavailable") /\ UNCHANGED <<filters, used>>
       ELSE filters' = all /\ Hide(Spans(found)) /\ Goto("aggregate")
    /\ UNCHANGED <<question, dataset, group, shared, aggregate, metrics>>

-----------------------------------------------------------------------------
(* _parse_aggregate_clause                                                 *)

\* Words within an explicit name do not count, nor does one within a longer
\* word of another aggregate.
Words ==
    LET fields == {n \in Visible(question.names) : n.rank < 3}
        free == {w \in Visible(question.words) : \A n \in fields : ~Inside(w, n)}
    IN  {w \in free : ~\E v \in free : /\ v.aggregate # w.aggregate
                                       /\ Inside(w, v) /\ Length(v) > Length(w)}
Inferred == Visible(question.qualified)
Allowed(a, c) == a \in Counting \/ c \in Aggregatable

\* Several aggregates are understood together on one metric
\* (_parse_combined_aggregate_intent).
Combined ==
    LET names == {n \in Visible(question.names) : Clear(n, Spans(Words))}
        columns == Resolved(names)
        named == {w.aggregate : w \in Words}
    IN
    IF ~Ambiguous(names) /\ Cardinality(columns) = 1 /\ \A a \in named, c \in columns : Allowed(a, c)
    THEN /\ metrics' = InOrder(names)
         /\ used' = [used EXCEPT !.aggregate = Spans(Words),
                                 !.metric = Spans(NamesOf(names, columns))]
         /\ End("intent")
    ELSE End("clarification") /\ UNCHANGED <<metrics, used>>

Aggregate ==
    LET named == {w.aggregate : w \in Words}
        inferred == {n.aggregate : n \in Inferred}
    IN
    /\ stage = "aggregate"
    /\ \/ /\ Cardinality(named) > 1 /\ Combined /\ UNCHANGED aggregate
       \/ /\ Cardinality(named) = 1 /\ Goto("metrics")
          /\ aggregate' = CHOOSE a \in named : TRUE
          /\ used' = [used EXCEPT !.aggregate = Spans(Words)]
          /\ UNCHANGED metrics
       \/ /\ named = {} /\ UNCHANGED <<metrics, used>>
          /\ IF Cardinality(ColumnsOf(Inferred)) > 1 THEN End("clarification") /\ UNCHANGED aggregate
             ELSE IF inferred = {} THEN End("unavailable") /\ UNCHANGED aggregate
             ELSE Goto("metrics") /\ aggregate' = CHOOSE a \in inferred : TRUE
    /\ UNCHANGED <<question, dataset, group, filters, shared>>

-----------------------------------------------------------------------------
(* _parse_metric_list, _parse_metric_clause                                *)

\* The longest names first, none that overlaps one taken before
Taken(occs) ==
    LET order == SetToSortSeq(Spans(occs), LAMBDA s, t :
                    s[2] - s[1] > t[2] - t[1] \/ (s[2] - s[1] = t[2] - t[1] /\ s[1] < t[1]))
        taken == FoldLeft(LAMBDA acc, s : IF Clear([from |-> s[1], to |-> s[2]], acc)
                                          THEN acc \cup {s} ELSE acc, {}, order)
    IN  {o \in occs : Span(o) \in taken}
Explicit(occs) == IF \E o \in occs : o.rank < 3 THEN {o \in occs : o.rank < 3} ELSE occs

\* A heading that begins with the aggregate's word is looked for in the whole
\* question, the words of other clauses included.
MetricNames ==
    LET qualified == {n \in question.qualified : n.aggregate = aggregate /\ n.column \in Aggregatable}
        all == Visible(question.names)
               \cup {[from |-> n.from, to |-> n.to, column |-> n.column, rank |-> 0] : n \in qualified}
    IN  {n \in Taken(all) : n \in Explicit(AtSpan(n, all))}

\* A filter nobody understood
LeftOver ==
    \E o \in question.operators \cup question.ranges : Clear(o, Consumed \cup used.metric')

\* No metric is named: that of the filters, or rows
Reusable ==
    IF aggregate \notin Counting THEN Filtered \cap Aggregatable
    ELSE IF \E w \in question.words : w.all /\ Span(w) \in used.aggregate THEN {}
    ELSE shared

Metrics ==
    LET names == MetricNames
        columns == ColumnsOf(names)
        place(c) == Min({n.from : n \in NamesOf(names, {c})})
    IN
    /\ stage = "metrics"
    /\ used' = [used EXCEPT !.metric = Spans(names)]
    /\ IF \E n, k \in names : Span(n) = Span(k) /\ n.column # k.column
       THEN End("clarification") /\ UNCHANGED metrics
       ELSE IF \E c \in columns : ~Allowed(aggregate, c) \/ LeftOver
       THEN End("unavailable") /\ UNCHANGED metrics
       ELSE IF columns # {}
       THEN metrics' = SetToSortSeq(columns, LAMBDA c, d : place(c) < place(d)) /\ End("intent")
       ELSE IF Cardinality(Reusable) > 1 THEN End("clarification") /\ UNCHANGED metrics
       ELSE IF LeftOver \/ (Reusable = {} /\ (aggregate \notin Counting \/ group # <<>>))
       THEN End("unavailable") /\ UNCHANGED metrics
       ELSE metrics' = SetToSeq(Reusable) /\ End("intent")
    /\ UNCHANGED <<question, dataset, group, filters, shared, aggregate>>

Work ==
    \/ NameDataset \/ NameGroup \/ Operators \/ Times \/ Ranges \/ Values \/ Dates
    \/ Aggregate \/ Metrics
Next == Work

-----------------------------------------------------------------------------
(* Properties                                                              *)

Understood == outcome = "intent"
GroupSpans == used.dataset \cup used.group

\* No condition of the question is dropped: in an intent every sign, every
\* range and every pair of times became a filter, but for those among the
\* words of a group, which the group hides (_parse_filter_clause and the last
\* check of resolve_structured_intent).
ConditionsKept ==
    Understood =>
        \A o \in question.operators \cup question.ranges \cup question.times :
            Clear(o, GroupSpans) => \E f \in filters : Inside(o, f)

\* No word has two meanings: what one clause consumed no other one did, but for
\* headings that begin with the aggregate's word.
WordsUsedOnce ==
    Understood =>
        \A c, d \in DOMAIN used : c # d =>
            \A s \in used[c], t \in used[d] :
                \/ s[2] <= t[1] \/ t[2] <= s[1]
                \/ "metric" \in {c, d} /\ \E n \in question.qualified : Span(n) \in {s, t}

\* A column is never a guess: where its name was read, no longer name of
\* another column was, and no other column has that name as well, unless it is
\* a mere alias beside a proper name.
Unmistakable(c, spans) ==
    \E n \in NamesOf(question.names, {c}) :
        /\ Span(n) \in spans
        /\ \A k \in question.names : k.column # c /\ Span(k) \in spans =>
              ~(Inside(n, k) /\ (Span(n) # Span(k) \/ k.rank < n.rank))
NeverGuessed ==
    Understood =>
        /\ \A c \in Range(group) : Unmistakable(c, used.group \cup {Span(n) : n \in
               {k \in question.names : \E b \in question.bodies : Inside(k, b)}})
        /\ used.metric # {} => \A c \in Range(metrics) :
               \/ Unmistakable(c, used.metric)
               \/ \E n \in question.qualified : n.column = c

\* The data set is a published one, the one the question names if it names one.
PublishedOnly ==
    Understood =>
        /\ dataset \in Published
        /\ \A s \in NamedSets : s.dataset = dataset

ClausesSound == ConditionsKept /\ WordsUsedOnce /\ NeverGuessed /\ PublishedOnly
Quiet == stage = "answered"
=============================================================================
