---------------------------- MODULE EvidenceContext ----------------------------
(***************************************************************************)
(* How much of each passage the answer model gets to read.                 *)
(*                                                                         *)
(*   backend/app/llm.py    build_knowledge_context, _allocate_context_limits, *)
(*                         _context_window_excerpt, _head_tail_excerpt     *)
(*                                                                         *)
(* A text is its length, the places of its line ends and the place of the  *)
(* words that answer; positions count from 0, a span <<a, b>> ends before  *)
(* b.  Weights are in hundredths of a percent.  All sizes are constants so *)
(* that small ones can be checked; MinChunk >= 2 * Marker + 1 as in the    *)
(* code (480 and 3).                                                       *)
(***************************************************************************)
EXTENDS Integers, FiniteSets, Sequences, SequencesExt, FiniteSetsExt

CONSTANTS
    TotalLimit,     \* KNOWLEDGE_CONTEXT_TOTAL_LIMIT
    ChunkLimit,     \* KNOWLEDGE_CONTEXT_CHUNK_LIMIT
    MinChunk,       \* KNOWLEDGE_CONTEXT_MIN_CHUNK_LIMIT
    Label,          \* length of "[n]" and its line end
    Padding,        \* KNOWLEDGE_CONTEXT_WINDOW_PADDING
    Marker,         \* length of the ellipsis
    ScoreLists,     \* the scores of the passages, best first
    Texts           \* what a passage may be: [len, breaks, match]

VARIABLES
    scores,
    budgets,        \* characters of each passage, None before they are shared
    text, limit, excerpt    \* the passage cut last

vars == <<scores, budgets, text, limit, excerpt>>

Smaller(a, b) == IF a < b THEN a ELSE b
Larger(a, b) == IF a > b THEN a ELSE b
Total(s) == FoldLeft(LAMBDA acc, x : acc + x, 0, s)

-----------------------------------------------------------------------------
(* Shares of the budget                                                    *)

\* _context_relevance_weights; the hits are in the order of their ranks.
Weights ==
    LET n == Len(scores)
        low == Min(Range(scores))
        span == Max(Range(scores)) - low
    IN  [i \in 1..n |-> 3500 + (IF span = 0 THEN 0 ELSE (6500 * (scores[i] - low)) \div span)
                             + (3500 * (n - i + 1)) \div n]

Heaviest(set, w) == CHOOSE i \in set : \A j \in set : w[i] > w[j] \/ (w[i] = w[j] /\ i <= j)

\* One pass of the loop: everyone below the cap gets a share of what remains,
\* and if all shares round to nothing the heaviest gets one character.
RECURSIVE Spread(_, _, _)
Spread(given, remaining, w) ==
    LET open == {i \in DOMAIN given : given[i] < ChunkLimit}
        weight == Total([i \in DOMAIN w |-> IF i \in open THEN w[i] ELSE 0])
        share == [i \in DOMAIN w |->
                    IF i \notin open THEN 0
                    ELSE Smaller((remaining * w[i]) \div weight, ChunkLimit - given[i])]
        handed == Total(share)
    IN  IF remaining = 0 \/ open = {} THEN given
        ELSE IF handed = 0
             THEN Spread([given EXCEPT ![Heaviest(open, w)] = @ + 1], remaining - 1, w)
             ELSE Spread([i \in DOMAIN w |-> given[i] + share[i]], remaining - handed, w)

\* What is left when the labels and the empty lines between are set aside
ContentLimit(n) == Larger(0, TotalLimit - n * Label - 2 * (n - 1))

Shares ==
    LET n == Len(scores)
        minimum == Smaller(MinChunk, ContentLimit(n) \div n)
    IN  Spread([i \in 1..n |-> minimum], ContentLimit(n) - n * minimum, Weights)

-----------------------------------------------------------------------------
(* Excerpts of a text t, at most n characters: head characters (a marker,  *)
(* or the beginning of the text), then the span from..to-1 (of the text,   *)
(* or a marker between its beginning and its end), then tail characters.   *)

LineStart(t, p) == Max({-1} \cup {b \in t.breaks : b < p}) + 1
LineEnd(t, p) == Min({t.len} \cup {b \in t.breaks : b >= p})
Strip(t, a, b) ==
    LET from == IF a < b /\ a \in t.breaks THEN a + 1 ELSE a IN
    <<from, IF from < b /\ b - 1 \in t.breaks THEN b - 1 ELSE b>>

\* A window of this size around the end of the match
Recentred(t, size) ==
    LET from == Larger(0, t.match[2] - size \div 2)
        to == Smaller(t.len, from + size)
    IN  <<Larger(0, to - size), to>>

\* Complete lines are preferred if they fit.
WithLine(t, window, size) ==
    LET from == LineStart(t, t.match[1])
        to == LineEnd(t, t.match[2])
    IN  IF to - from > size \/ to > window[1] + size THEN window
        ELSE IF from < window[1] THEN <<from, Larger(window[2], to)>>
        ELSE <<window[1], Larger(window[2], to)>>

Window(t, n) ==
    LET body == Larger(1, n - 2 * Marker)
        near == <<Larger(0, t.match[1] - Padding), Smaller(t.len, t.match[2] + Padding)>>
        first == IF near[2] - near[1] > body THEN Recentred(t, body) ELSE near
        window == WithLine(t, first, body)
        before == IF window[1] > 0 THEN Marker ELSE 0
        after == IF window[2] < t.len THEN Marker ELSE 0
        available == Larger(1, n - before - after)
        last == IF window[2] - window[1] > available THEN Recentred(t, available) ELSE window
        span == Strip(t, last[1], last[2])
        excess == Larger(0, before + span[2] - span[1] + after - n)
    IN  [head |-> before, from |-> span[1],
         to |-> span[2] - Larger(0, excess - after), tail |-> Larger(0, after - excess)]

\* _head_tail_excerpt, when no words of the question are in the text
HeadTail(t, n) ==
    LET body == n - Marker
        h == Larger(1, (body * 55) \div 100)
        r == Larger(1, body - h)
        lines == {b \in t.breaks : b \in 1..(h - 1)}
        head == IF lines = {} THEN h ELSE Max(lines)
        rest == {b \in t.breaks : b >= t.len - r}
        tail == IF rest = {} THEN r ELSE t.len - 1 - Min(rest)
    IN  [head |-> Smaller(head, n), from |-> 0, to |-> Smaller(Marker, n - head),
         tail |-> Larger(0, Smaller(tail, n - head - Marker))]

\* _knowledge_context_text
Excerpt(t, n) ==
    IF t.len <= n THEN [head |-> 0, from |-> 0, to |-> t.len, tail |-> 0]
    ELSE IF n = 0 THEN [head |-> 0, from |-> 0, to |-> 0, tail |-> 0]
    ELSE IF t.match = <<>>
         THEN IF n <= Marker THEN [head |-> 0, from |-> 0, to |-> n, tail |-> 0]
              ELSE HeadTail(t, n)
    ELSE IF n <= Marker
         THEN LET from == Smaller(t.match[1], t.len - n) IN
              [head |-> 0, from |-> from, to |-> from + n, tail |-> 0]
         ELSE Window(t, n)

-----------------------------------------------------------------------------
(* One context                                                             *)

Uncut == [head |-> 0, from |-> 0, to |-> 0, tail |-> 0]
Begins ==
    /\ budgets = <<>>
    /\ text = [len |-> 0, breaks |-> {}, match |-> <<>>] /\ limit = 0 /\ excerpt = Uncut
Init == scores \in ScoreLists /\ Begins

Allocate ==
    /\ budgets = <<>>
    /\ budgets' = Shares
    /\ UNCHANGED <<scores, text, limit, excerpt>>

Cut(i, t) ==
    /\ i \in DOMAIN budgets /\ excerpt = Uncut
    /\ text' = t /\ limit' = budgets[i]
    /\ excerpt' = Excerpt(t, budgets[i])
    /\ UNCHANGED <<scores, budgets>>

Work == Allocate \/ \E i \in DOMAIN budgets : \E t \in Texts : Cut(i, t)
Next == Work

-----------------------------------------------------------------------------
(* Properties                                                              *)

\* The passages share the budget: no passage exceeds its cap, the labels and
\* passages together do not exceed the total, every passage gets the minimum
\* the total allows, a more relevant one never less than a less relevant one,
\* and nothing is left over while a passage could use it
\* (_allocate_context_limits).
SharesSound ==
    budgets # <<>> =>
        LET n == Len(scores) IN
        /\ \A i \in 1..n : budgets[i] \in 0..ChunkLimit
        /\ Total(budgets) <= ContentLimit(n)
        /\ \A i \in 1..n : budgets[i] >= Smaller(MinChunk, ContentLimit(n) \div n)
        /\ \A i, j \in 1..n : i < j => budgets[i] >= budgets[j]
        /\ Total(budgets) = ContentLimit(n) \/ \A i \in 1..n : budgets[i] = ChunkLimit

\* An excerpt never exceeds its limit.  It holds the end of the words that
\* answer, and all of them if they are no longer than half of what the limit
\* leaves beside the ellipses (_context_window_excerpt).
ExcerptKeepsTheAnswer ==
    /\ excerpt.head + (excerpt.to - excerpt.from) + excerpt.tail <= limit
    /\ text.match # <<>> /\ limit >= 2 * Marker + 2 =>
        /\ text.match[2] - 1 \in excerpt.from..(excerpt.to - 1)
        /\ text.match[2] - text.match[1] <= (limit - 2 * Marker) \div 2 =>
               text.match[1] >= excerpt.from

ContextSound == SharesSound /\ ExcerptKeepsTheAnswer
Quiet == budgets # <<>>
=============================================================================
