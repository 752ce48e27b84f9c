----------------------------- MODULE MCQuestions -----------------------------
(***************************************************************************)
(* A question on its way to its answer, for TLC: the thread pools of the   *)
(* hybrid retriever with two requests of two stages and three generations  *)
(* ("retrieval"), two requests that look for a spreadsheet or a fact       *)
(* ("routes"), the clauses of a question and what is computed from them    *)
(* ("clauses", "query"), the choice of passages ("evidence"), their shares *)
(* of the model's context ("context") and the answer as it streams in      *)
(* ("stream").  A behaviour is one of a single part; the others stay where *)
(* they began.                                                             *)
(***************************************************************************)
EXTENDS HybridRetriever, Integers, Sequences, TLC

VARIABLES
    part,
    \* KnowledgeAnswers
    latest, published, alive, changes, legacy, generation, newest, snapshot, at, asked, mine,
    seen, catalog, reply, installer, installed, before, during, met,
    \* QuestionClauses
    parsing, words, used, dataset, group, filters, shared, aggregate, metrics, meaning,
    \* StructuredQueries
    querying, query, table, intent, row, honest, served,
    \* EvidenceAgent
    step, topic, round, hits, noted, answer, returned,
    \* EvidenceContext
    scores, budgets, text, limit, excerpt,
    \* AnswerStream
    stream, sent, reader, streaming, result

routes == <<latest, published, alive, changes, legacy, generation, newest, snapshot, at, asked,
            mine, seen, catalog, reply, installer, installed, before, during, met>>
clauses == <<parsing, words, used, dataset, group, filters, shared, aggregate, metrics, meaning>>
statement == <<querying, query, table, intent, row, honest, served>>
evidence == <<step, topic, round, hits, noted, answer, returned>>
context == <<scores, budgets, text, limit, excerpt>>
connection == <<stream, sent, reader, streaming, result>>

-----------------------------------------------------------------------------
(* Two requests, two schema versions, one data set                         *)

Talk(strong, names, parsed, fact) ==
    [talk |-> TRUE, strong |-> strong, names |-> names, parsed |-> parsed, fact |-> fact]
OldColumns == Talk(FALSE, {1}, "intent", "none")
NewColumns == Talk(TRUE, {2}, "clarification", "clarification")
AnyColumns == Talk(FALSE, {1, 2}, "unavailable", "one")
NoQuery == [talk |-> FALSE, strong |-> FALSE, names |-> {}, parsed |-> "unavailable", fact |-> "one"]
Facts == {{}, {<<"s1", "x">>}, {<<"s1", "x">>, <<"s2", "x">>}, {<<"s1", "x">>, <<"s1", "y">>},
          {<<"s1", "y">>}}

Pairs == {<<OldColumns, NewColumns>>, <<NoQuery, AnyColumns>>}
Askers == {1, 2}
Routes == INSTANCE KnowledgeAnswers
    WITH Requests <- Askers, Versions <- {1, 2}, Matches <- Facts, Unsafe <- {"y"},
         Questions <- Pairs,
         MaxChanges <- 2, active <- published, pc <- at, question <- asked

-----------------------------------------------------------------------------
(* Questions about a table: pieces of text that are put one after another  *)

ColumnKinds == [region |-> "text", shop |-> "text", day |-> "date", time |-> "datetime",
                price |-> "number", peak |-> "number"]
Silent == [names |-> {}, qualified |-> {}, sets |-> {}, words |-> {}, bodies |-> {}, operators |-> {},
           values |-> {}, times |-> {}, ranges |-> {}, dates |-> {}, either |-> FALSE]
Join(p, q) == [k \in DOMAIN p |-> IF k = "either" THEN p[k] \/ q[k] ELSE p[k] \cup q[k]]

Name(from, to, c, rank) == [from |-> from, to |-> to, column |-> c, rank |-> rank]
Set(from, to, d, rank) == [from |-> from, to |-> to, dataset |-> d, rank |-> rank]
Body(to, several) == [from |-> 4, to |-> to, several |-> several]
Sign(segment, from, to, comparison, valid) ==
    [segment |-> segment, from |-> from, to |-> to, comparison |-> comparison, valid |-> valid]
Value(c, rank, length) == [from |-> 12, to |-> 16, column |-> c, rank |-> rank, length |-> length]
Word(from, to, a, all) == [from |-> from, to |-> to, aggregate |-> a, all |-> all]
Heading(from, to) == [from |-> from, to |-> to, column |-> "peak", aggregate |-> "max"]

SetPieces ==
    {Silent} \cup {[Silent EXCEPT !.sets = s] : s \in {
        {Set(0, 2, "sales", 1), Set(0, 1, "stock", 2)}, {Set(0, 2, "stock", 1)},
        {Set(0, 2, "sales", 2), Set(0, 2, "stock", 0)}, {Set(0, 1, "sales", 1), Set(1, 2, "stock", 1)},
        {Set(2, 4, "stock", 2)}}}
GroupPieces ==
    {Silent} \cup {[Silent EXCEPT !.bodies = p[1], !.names = p[2], !.ranges = p[3]] : p \in {
        <<{Body(8, TRUE)}, {Name(4, 6, "region", 1), Name(7, 8, "shop", 2)}, {}>>,
        <<{Body(8, FALSE)}, {Name(4, 6, "region", 1), Name(7, 8, "shop", 2)}, {}>>,
        <<{Body(8, TRUE)}, {Name(4, 8, "shop", 1), Name(4, 6, "region", 1)}, {}>>,
        <<{Body(9, FALSE)}, {Name(4, 6, "region", 1)}, {[from |-> 6, to |-> 9]}>>,
        <<{Body(6, FALSE)}, {Name(4, 6, "region", 1), Name(4, 6, "shop", 1)}, {}>>,
        <<{Body(6, FALSE)}, {}, {}>>}}
Compared(c, to, comparison, valid, names) ==
    [Silent EXCEPT !.operators = {Sign(12, 14, to, comparison, valid)},
                   !.names = {Name(12, 14, c, 1)} \cup names]
Dated(value, times) ==
    [Silent EXCEPT !.dates = {[from |-> 13, to |-> 15, value |-> value]}, !.times = times]
Period(valid) == {[from |-> 16, to |-> 19, valid |-> valid]}
Span4(from) == [from |-> from, to |-> from + 4]
FilterPieces == {
    Silent, Compared("price", 16, TRUE, TRUE, {Name(13, 14, "region", 3)}),
    Compared("region", 16, TRUE, TRUE, {}), Compared("region", 16, FALSE, FALSE, {}),
    [Compared("price", 16, TRUE, TRUE, {}) EXCEPT !.either = TRUE],
    [Compared("peak", 16, TRUE, TRUE, {}) EXCEPT !.qualified = {Heading(12, 14)}],
    [Silent EXCEPT !.operators = {Sign(12, 14, 16, FALSE, TRUE), Sign(17, 19, 20, TRUE, TRUE)},
                   !.names = {Name(12, 14, "region", 1), Name(18, 19, "price", 2)}],
    [Silent EXCEPT !.operators = {Sign(12, 16, 17, FALSE, TRUE)},
                   !.names = {Name(12, 14, "region", 1), Name(14, 16, "shop", 1)}],
    [Silent EXCEPT !.ranges = {Span4(14)}, !.names = {Name(12, 14, "day", 1)}],
    [Silent EXCEPT !.ranges = {Span4(14)}], [Silent EXCEPT !.ranges = {Span4(12), Span4(16)}],
    [Silent EXCEPT !.values = {Value("region", 1, 2), Value("shop", 2, 3)},
                   !.names = {Name(14, 16, "region", 1), Name(13, 16, "shop", 2)}],
    [Silent EXCEPT !.values = {Value("region", 1, 2), Value("shop", 1, 2)},
                   !.names = {Name(14, 16, "region", 1), Name(14, 16, "shop", 1)}],
    Dated(12, {}), Dated(None, Period(TRUE)), Dated(12, Period(FALSE)),
    [Dated(12, Period(TRUE)) EXCEPT
        !.values = {[from |-> 20, to |-> 22, column |-> "region", rank |-> 1, length |-> 1]},
        !.names = {Name(21, 22, "region", 1)}]}
Ask(words_, names) == [Silent EXCEPT !.words = words_, !.names = names]
Sum == {Word(24, 26, "sum", FALSE)}
AskPieces == {
    Silent, Ask(Sum, {Name(26, 28, "price", 1)}), Ask(Sum, {Name(26, 28, "region", 1)}),
    Ask(Sum, {Name(26, 28, "price", 3), Name(26, 28, "peak", 2), Name(29, 31, "price", 1)}),
    Ask(Sum, {Name(26, 28, "price", 2), Name(26, 28, "peak", 1)}),
    Ask(Sum, {Name(26, 30, "peak", 1), Name(28, 30, "price", 1)}),
    Ask({Word(24, 26, "count", FALSE), Word(24, 28, "count_distinct", FALSE)}, {Name(28, 30, "region", 1)}),
    Ask({Word(24, 26, "count", TRUE)}, {}), Ask({Word(24, 26, "avg", FALSE)}, {}),
    [Ask({Word(24, 26, "max", FALSE)}, {Name(24, 28, "peak", 1), Name(26, 28, "price", 1)})
        EXCEPT !.qualified = {Heading(24, 28)}],
    Ask({Word(24, 26, "max", FALSE), Word(27, 28, "min", FALSE)}, {Name(28, 30, "price", 1)}),
    Ask({Word(24, 26, "max", FALSE)}, {Name(26, 28, "price", 1)})}

Sayings == {Join(Join(s, g), Join(f, a)) : s \in SetPieces, g \in GroupPieces, f \in FilterPieces,
                                           a \in AskPieces}
Clauses == INSTANCE QuestionClauses
    WITH Kind <- ColumnKinds, Aggregatable <- {"price", "peak"},
         Filterable <- {"region", "shop", "day", "time", "price"}, Published <- {"sales"},
         Questions <- Sayings,
         stage <- parsing, question <- words, outcome <- meaning

-----------------------------------------------------------------------------
(* ... and what is computed from them: five columns, days of two halves    *)

TableKinds == [region |-> "number", day |-> "date", time |-> "datetime", price |-> "number",
               secret |-> "text"]
Row(region, day, time, price) ==
    [region |-> region, day |-> day, time |-> time, price |-> price, secret |-> 0]
FullTable == <<Row(1, 0, 0, 1), Row(1, 1, 2, None), Row(2, 1, 3, 2), Row(2, 2, 4, 2), Row(3, 2, 5, 1)>>
NullTable == <<Row(1, 1, 3, None), Row(1, 2, 4, None)>>
Between(c, lower, upper, dateOnly) ==
    [column |-> c, operator |-> "between", lower |-> lower, upper |-> upper, dateOnly |-> dateOnly,
     valid |-> TRUE]
Equal(c, valid) ==
    [column |-> c, operator |-> "eq", lower |-> 1, upper |-> None, dateOnly |-> FALSE, valid |-> valid]
AtLeastTwo ==
    [column |-> "price", operator |-> "gte", lower |-> 2, upper |-> None, dateOnly |-> FALSE, valid |-> TRUE]
Conditions ==
    {{}, None, {Between("time", 2, 2, TRUE)}, {Between("time", 2, 4, FALSE), AtLeastTwo},
     {Between("day", 1, 2, TRUE)}, {Equal("region", FALSE)}, {Equal("secret", TRUE)}}

NoQuestion == [rows |-> FALSE, selected |-> <<>>, filters |-> {}, group |-> <<>>, top |-> None,
               ordered |-> FALSE, desc |-> TRUE, aggregates |-> <<>>, percentile |-> 90,
               metrics |-> <<"price">>, summary |-> FALSE, leftover |-> FALSE, countAll |-> FALSE,
               shared |-> {}]
Lookups == {[NoQuestion EXCEPT !.rows = TRUE, !.filters = f, !.selected = s, !.metrics = <<>>] :
              f \in Conditions, s \in {None, <<>>, <<"region", "price">>, <<"region", "day", "time">>}}
Analyses == {[NoQuestion EXCEPT !.filters = f, !.aggregates = a, !.group = g, !.top = t, !.metrics = m] :
              f \in Conditions, a \in {<<"sum">>, <<"count">>, <<"max", "count">>},
              g \in {<<>>, <<"region">>, <<"secret">>}, t \in {None, 2},
              m \in {<<>>, <<"price">>, <<"price", "region">>, <<"secret">>}}
Rare == {[NoQuestion EXCEPT !.group = None], [NoQuestion EXCEPT !.top = 0],
         [NoQuestion EXCEPT !.summary = TRUE, !.metrics = <<>>, !.group = <<"region">>, !.ordered = TRUE,
                            !.desc = FALSE],
         [NoQuestion EXCEPT !.aggregates = <<"sum">>, !.metrics = None],
         [NoQuestion EXCEPT !.aggregates = <<"sum">>, !.metrics = <<>>,
                            !.filters = {Equal("region", TRUE), AtLeastTwo}],
         [NoQuestion EXCEPT !.aggregates = <<"sum">>, !.leftover = TRUE],
         [NoQuestion EXCEPT !.aggregates = <<"count">>, !.leftover = TRUE, !.metrics = <<>>],
         [NoQuestion EXCEPT !.aggregates = <<"count">>, !.countAll = TRUE, !.metrics = <<>>],
         [NoQuestion EXCEPT !.aggregates = <<"count_distinct">>, !.metrics = <<>>],
         [NoQuestion EXCEPT !.aggregates = <<"count_distinct">>, !.group = <<"region">>],
         [NoQuestion EXCEPT !.aggregates = <<"percentile">>],
         [NoQuestion EXCEPT !.aggregates = <<"percentile">>, !.percentile = None],
         [NoQuestion EXCEPT !.aggregates = <<"percentile", "sum">>, !.percentile = None],
         [NoQuestion EXCEPT !.aggregates = <<"sum">>, !.metrics = <<"price", "region", "day">>],
         [NoQuestion EXCEPT !.aggregates = <<"count">>, !.metrics = <<"price", "region", "day">>]}

Ranked == {[NoQuestion EXCEPT !.summary = TRUE, !.metrics = <<>>, !.group = <<g>>, !.top = t, !.desc = d] :
             g \in {"region", "price"}, t \in {1, 2}, d \in BOOLEAN}
Counts == {[NoQuestion EXCEPT !.filters = {f}, !.shared = {f.column}, !.aggregates = <<a>>, !.group = g,
                              !.metrics = <<>>, !.countAll = w] :
             f \in {Between("day", 1, 2, TRUE), Between("time", 2, 4, FALSE)}, w \in BOOLEAN,
             a \in {"count", "count_distinct"}, g \in {<<>>, <<"region">>}}

Requested == Lookups \cup Analyses \cup Rare \cup Ranked \cup Counts
Contents == {<<>>, FullTable, NullTable}
Query == INSTANCE StructuredQueries
    WITH Columns <- DOMAIN TableKinds, Kind <- TableKinds, Aggregatable <- {"region", "price"},
         Filterable <- {"region", "day", "time", "price"}, Questions <- Requested,
         Tables <- Contents, MaxFields <- 2, ImplicitMax <- 2, RowLimit <- 2,
         stage <- querying, question <- query, outcome <- served

-----------------------------------------------------------------------------
(* Six chunks of three sources                                             *)

Common(field, conflict, subject, title, shared_) ==
    [k \in 1..6 |-> {x \in {"field", "conflict", "subject", "title", "words"} :
        k \in [field |-> field, conflict |-> conflict, subject |-> subject, title |-> title,
               words |-> shared_][x]}]
Broad == [mode : {"quick", "deep", "source"}, compares : BOOLEAN, expands : BOOLEAN, field : {FALSE},
          subject : {FALSE}, files : {{}}, shares : {Common({}, {}, {}, {}, {2, 6})}]
Narrow == [mode : {"deep"}, compares : BOOLEAN, expands : {TRUE}, field : {TRUE}, subject : BOOLEAN,
           files : {{}, {[sources |-> {1}, longer |-> {}]},
                    {[sources |-> {1, 2}, longer |-> {3}], [sources |-> {3}, longer |-> {}]}},
           shares : {Common({1, 5}, {3, 4}, {1, 5, 3}, {6}, {2, 6}), Common({2}, {1}, {2}, {6}, {})}]
Lists ==
    {<<>>, (1 :> 900 @@ 4 :> 740 @@ 2 :> 20), (1 :> 900 @@ 4 :> 760 @@ 6 :> 20 @@ 5 :> 80),
     (4 :> 20 @@ 2 :> 12 @@ 6 :> 6), (1 :> 4 @@ 6 :> 3),
     (3 :> 7200 @@ 1 :> 500 @@ 2 :> 200 @@ 6 :> 6800), (1 :> None @@ 2 :> 25 @@ 5 :> 30),
     (5 :> -10 @@ 6 :> 40), (3 :> 650 @@ 4 :> 640 @@ 5 :> 630 @@ 1 :> 65), (2 :> 300 @@ 3 :> 640 @@ 6 :> 29)}
Found == {[scores |-> l, fallback |-> None] : l \in Lists}
         \cup {[scores |-> <<>>, fallback |-> "dense"], [scores |-> (2 :> 12), fallback |-> "sparse"]}

Topics == Broad \cup Narrow
Chunk == [source |-> <<1, 1, 1, 2, 2, 3>>, index |-> <<1, 2, 4, 1, 2, 1>>]
Evidence == INSTANCE EvidenceAgent
    WITH SourceOf <- Chunk.source, IndexOf <- Chunk.index, Blank <- {2}, Tabular <- {3},
         Questions <- Topics, Searches <- Found, MaxHits <- 3, MaxReasons <- 2,
         question <- topic

-----------------------------------------------------------------------------
(* Up to five passages of a short context                                  *)

LineEnds(n) == {s \in SUBSET (1..(n - 2)) : Cardinality(s) <= 2 /\ \A b \in s : b + 1 \notin s}
Answers(n) == {<<>>} \cup {<<from, to>> \in {0, 3, 7} \X (0..n) : to - from \in 2..4}
Passages == UNION {{[len |-> n, breaks |-> ends, match |-> m] : ends \in LineEnds(n), m \in Answers(n)} :
                      n \in {10, 13}}
Cuttable == {t \in Passages : t.match = <<>> \/ \A b \in t.breaks : b \notin t.match[1]..(t.match[2] - 1)}
Rankings == {<<9>>, <<9, 9>>, <<9, 1>>, <<30, 5, 0>>, <<30, 29, 1>>, <<30, 30, 30, 30>>, <<30, 2, 1, 0>>,
             <<30, 30, 29, 1>>, <<9, 8, 7, 6, 5>>, <<9, 9, 9, 0, 0>>}
Context == INSTANCE EvidenceContext
    WITH TotalLimit <- 44, ChunkLimit <- 12, MinChunk <- 5, Label <- 2, Padding <- 2, Marker <- 1,
         ScoreLists <- Rankings, Texts <- Cuttable

-----------------------------------------------------------------------------
(* Streams with lone and double line ends, pings, nested and broken events *)

CR == [kind |-> "cr"]
LF == [kind |-> "lf"]
Ping == [kind |-> "comment"]
Binary == [kind |-> "binary"]
Event(name) == [kind |-> "event", name |-> name]
Data(model, parts, done) ==
    [kind |-> "data", event |-> [model |-> model, response |-> parts, done |-> done]]
Some(parts) == Data("right", parts, FALSE)
Final(parts) == Data("right", parts, TRUE)
Text == <<"text">>
Streams == {
    <<Some(Text), CR, LF, CR, LF, Ping, LF, LF, Data("none", Text, TRUE), CR, LF, CR, LF>>,
    <<Event("other"), CR, LF, Final(Text), CR, LF, CR, LF, Final(Text), CR, CR>>,
    <<Some(<<"text", "open">>), LF, LF, Some(<<"close", "open">>), LF, LF, Final(<<"last">>), LF, LF>>,
    <<Some(<<"open", "close">>), LF, LF, Some(<<"open", "last">>), LF, LF>>,
    <<Final(<<"open", "close">>), LF, LF>>, <<Final(<<>>), LF, LF>>,
    <<Some(<<"open">>), LF, LF, Final(<<"close">>), LF, LF>>,
    <<Some(Text), CR, LF, Final(Text), CR, LF, CR, LF>>,
    <<Some(Text), LF, LF, Data("other", Text, TRUE), LF, LF>>,
    <<Some(Text), Ping, Ping, LF, Final(Text), LF, LF>>,
    <<Ping, Ping, Ping, Ping, Final(Text), LF, LF>>, <<Ping, Binary, LF, Final(Text), LF, LF>>,
    <<Some(Text), LF, LF, Some(Text), LF, LF, Some(Text), LF, LF, Final(Text), LF, LF>>,
    <<Event("message"), CR, Final(Text), CR, CR, Ping, Ping, Ping, LF>>}
Connection == INSTANCE AnswerStream
    WITH Streams <- Streams, ChunkSizes <- {1, 2, 3, 4, 7}, MaxLine <- 3, MaxStream <- 13, MaxEvent <- 3,
         MaxEvents <- 3, MaxResponse <- 4, outcome <- streaming

-----------------------------------------------------------------------------

\* A part that is not chosen begins in one state only.
QuestionsInit ==
    /\ part \in {"retrieval", "routes", "clauses", "query", "evidence", "context", "stream"}
    /\ Init
    /\ Routes!Init
    /\ IF part = "routes" THEN published = (IF asked[1] = NoQuery THEN 0 ELSE latest) /\ (legacy => asked[1] = NoQuery)
       ELSE latest = 1 /\ published = 0 /\ ~legacy /\ asked[1] = NoQuery
    /\ IF part = "clauses" THEN Clauses!Init ELSE words = Silent /\ Clauses!Begins
    /\ IF part = "query" THEN Query!Init
       ELSE query = NoQuestion /\ table = <<>> /\ Query!Begins
    /\ IF part = "evidence" THEN Evidence!Init
       ELSE topic = [mode |-> "quick"] /\ Evidence!Begins
    /\ IF part = "context" THEN Context!Init ELSE scores = <<9>> /\ Context!Begins
    /\ IF part = "stream" THEN Connection!Init ELSE stream = <<>> /\ Connection!Begins

\* Nobody waits for an answer any more.
Answered ==
    CASE part = "retrieval" -> TRUE
      [] part = "routes" -> Routes!Quiet
      [] part = "clauses" -> Clauses!Quiet
      [] part = "query" -> Query!Quiet
      [] part = "evidence" -> Evidence!Quiet
      [] part = "context" -> Context!Quiet
      [] part = "stream" -> Connection!Quiet
Rests ==
    /\ part # "retrieval" /\ Answered
    /\ UNCHANGED <<vars, routes, clauses, statement, evidence, context, connection>>

QuestionsNext ==
    /\ UNCHANGED part
    /\ \/ /\ part = "retrieval" /\ Next
          /\ UNCHANGED <<routes, clauses, statement, evidence, context, connection>>
       \/ /\ part = "routes" /\ Routes!Next
          /\ UNCHANGED <<vars, clauses, statement, evidence, context, connection>>
       \/ /\ part = "clauses" /\ Clauses!Next
          /\ UNCHANGED <<vars, routes, statement, evidence, context, connection>>
       \/ /\ part = "query" /\ Query!Next
          /\ UNCHANGED <<vars, routes, clauses, evidence, context, connection>>
       \/ /\ part = "evidence" /\ Evidence!Next
          /\ UNCHANGED <<vars, routes, clauses, statement, context, connection>>
       \/ /\ part = "context" /\ Context!Next
          /\ UNCHANGED <<vars, routes, clauses, statement, evidence, connection>>
       \/ /\ part = "stream" /\ Connection!Next
          /\ UNCHANGED <<vars, routes, clauses, statement, evidence, context>>
       \/ Rests

\* Only the pools have threads that wait for each other; that a request of
\* another part never stops half-way is the absence of a deadlock.
QuestionsSpec ==
    /\ QuestionsInit
    /\ [][QuestionsNext]_<<part, vars, routes, clauses, statement, evidence, context, connection>>
    /\ Fairness

\* What is shown as an answer is one: see the invariants of the parts.
AnswersSound ==
    CASE part = "retrieval" -> TRUE
      [] part = "routes" -> Routes!AnswersConsistent
      [] part = "clauses" -> Clauses!ClausesSound
      [] part = "query" -> Query!QueriesSound
      [] part = "evidence" -> Evidence!EvidenceSound
      [] part = "context" -> Context!ContextSound
      [] part = "stream" -> Connection!StreamSound

=============================================================================
