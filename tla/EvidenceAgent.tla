----------------------------- MODULE EvidenceAgent -----------------------------
(***************************************************************************)
(* A question answered from passages of documents.                         *)
(*                                                                         *)
(*   backend/app/agent.py    the graph of ReadOnlyKnowledgeAgent           *)
(*   backend/app/llm.py      the answer providers                          *)
(*                                                                         *)
(* What the text analysis finds is part of the question: whether it asks   *)
(* for a field, names a subject or a file, and what it shares with each    *)
(* chunk, a subset of                                                      *)
(*   "field"     the chunk has the field asked for                         *)
(*   "conflict"  it has other fields only                                  *)
(*   "subject"   its text has a subject of the question                    *)
(*   "title"     the name of its source has                                *)
(*   "words"     they share a long phrase or two phrases                   *)
(* Scores are in thousandths, None is a NaN or an infinity.  Retrieval is  *)
(* HybridRetriever's; any search may return any of Searches.               *)
(***************************************************************************)
EXTENDS Integers, FiniteSets, SequencesExt, FiniteSetsExt

CONSTANTS
    SourceOf, IndexOf,  \* chunk: its source (a number, in the order of names), its place
    Blank,              \* chunks without text
    Tabular,            \* sources that are tables
    Questions, Searches,
    MaxHits,            \* hits the agent keeps
    MaxReasons,         \* degradations it notes
    None

VARIABLES
    step, question,
    round,      \* query_index + 1
    hits,       \* chunk -> score
    noted,      \* fallback_reasons
    answer,     \* [text, cites, evidence, called]
    returned    \* history: every <<chunk, score>> the searches returned

vars == <<step, question, round, hits, noted, answer, returned>>

Chunks == DOMAIN SourceOf
SourcesOf(cs) == {SourceOf[c] : c \in cs}
NoAnswer == [text |-> None, cites |-> {}, evidence |-> {}, called |-> FALSE]

Begins ==
    /\ step = "plan" /\ round = 1
    /\ hits = [c \in {} |-> 0] /\ noted = <<>> /\ answer = NoAnswer /\ returned = {}
Init == question \in Questions /\ Begins

-----------------------------------------------------------------------------
(* Search                                                                  *)

\* build_agent_search_queries: only a question across several documents is
\* asked again in broader words.
Queries(q) == IF q.mode # "quick" /\ q.compares /\ q.expands THEN 2 ELSE 1

Plan ==
    /\ step = "plan" /\ step' = "search"
    /\ UNCHANGED <<question, round, hits, noted, answer, returned>>

\* Best score first, then the source's name and the place in it
Before(scores, c, d) ==
    \/ scores[c] > scores[d]
    \/ /\ scores[c] = scores[d]
       /\ \/ SourceOf[c] < SourceOf[d]
          \/ SourceOf[c] = SourceOf[d] /\ IndexOf[c] < IndexOf[d]
Ranked(scores) == SetToSortSeq(DOMAIN scores, LAMBDA c, d : Before(scores, c, d))
FirstOf(s, n) == {s[i] : i \in 1..(IF Len(s) < n THEN Len(s) ELSE n)}
Only(scores, cs) == [c \in cs |-> scores[c]]

Finite(scores) == Only(scores, {c \in DOMAIN scores : scores[c] # None})
Joined(old, new) ==
    [c \in DOMAIN old \cup DOMAIN new |->
        IF c \notin DOMAIN old THEN new[c]
        ELSE IF c \notin DOMAIN new THEN old[c]
        ELSE IF new[c] > old[c] THEN new[c] ELSE old[c]]
\* merge_ranked_hits
Merged(old, new) ==
    LET all == Joined(old, Finite(new)) IN Only(all, FirstOf(Ranked(all), MaxHits))

Noted(reason) ==
    IF reason = None \/ Contains(noted, reason) \/ Len(noted) >= MaxReasons THEN noted
    ELSE Append(noted, reason)

\* _needs_more_evidence; nothing is asked again in quick mode.
Best(scores) == Max({scores[c] : c \in DOMAIN scores})
Thin(scores) ==
    \/ scores = <<>>
    \/ Cardinality(SourcesOf(DOMAIN scores)) < 2
    \/ Best(scores) < (IF Best(scores) \in 0..1000 THEN 600 ELSE 6000)

\* _search and _route_after_search
Search ==
    /\ step = "search"
    /\ \E s \in Searches :
          /\ hits' = Merged(hits, s.scores)
          /\ noted' = Noted(s.fallback)
          /\ returned' = returned \cup {<<c, s.scores[c]>> : c \in DOMAIN Finite(s.scores)}
    /\ step' = IF round < Queries(question) /\ Thin(hits') THEN "advance"
               ELSE IF hits' # <<>> THEN "compare" ELSE "answer"
    /\ UNCHANGED <<question, round, answer>>

SearchFails ==
    /\ step = "search" /\ step' = "failed"
    /\ UNCHANGED <<question, round, hits, noted, answer, returned>>

Advance ==
    /\ step = "advance" /\ step' = "search" /\ round' = round + 1
    /\ UNCHANGED <<question, hits, noted, answer, returned>>

-----------------------------------------------------------------------------
(* Evidence: filter_relevant_hits                                          *)

\* A file the question names is a hard constraint.  A name that is the end of
\* a longer one which some source has is not meant.
\* question.files is a set of [sources, longer]: longer are the sources of the
\* longer names.
NamedSources(q) ==
    UNION {f.sources : f \in {g \in q.files : g.longer \cap SourcesOf(DOMAIN hits) = {}}}
InScope(cs) ==
    IF question.files = {} THEN cs ELSE {c \in cs : SourceOf[c] \in NamedSources(question)}

Shares(c) == question.shares[c]
Compatible(cs) == {c \in cs : ~(question.field /\ "conflict" \in Shares(c))}

Normalized(cs) == \A c \in cs : hits[c] \in 0..1000
\* score >= cutoff, both in hundred thousandths
AboveCutoff(cs) ==
    LET top == Max({hits[c] : c \in cs})
        cutoff == IF Normalized(cs) THEN Max({3000, 10 * top}) ELSE Max({1000, 5 * top})
    IN  {c \in cs : 100 * hits[c] >= cutoff}

HasField(c) == "field" \in Shares(c)    \* query_field_matches
\* query_subject_terms; of a table its name may hold the subject
AboutSubject(c) ==
    "subject" \in Shares(c) \/ (SourceOf[c] \in Tabular /\ "title" \in Shares(c))
\* _has_query_overlap
HasOverlap(c) ==
    IF ~question.field THEN "words" \in Shares(c)
    ELSE IF ~question.subject THEN HasField(c)
    ELSE /\ AboutSubject(c)
         /\ HasField(c) \/ (SourceOf[c] \in Tabular /\ "conflict" \notin Shares(c))

\* With scores too low for the cutoff, what shares words with the question:
\* all of it for a subject, else the best.
Lexical(cs) ==
    LET found == {c \in cs : HasOverlap(c)}
        ranked == SelectSeq(Ranked(hits), LAMBDA c : c \in found)
    IN  IF question.subject THEN found ELSE FirstOf(ranked, 1)
Anchors(cs) ==
    LET strong == AboveCutoff(cs)
        top == Max({hits[c] : c \in cs})
    IN  IF top <= 0 THEN {}
        ELSE IF strong # {} THEN strong
        ELSE IF Normalized(cs) /\ top >= 5 THEN Lexical(cs) ELSE {}

\* One document answers an ordinary question if it is clearly ahead.
SourceBest(anchors, s) == Max({hits[c] : c \in {d \in anchors : SourceOf[d] = s}})
Allowed(cs, anchors) ==
    LET sources == SourcesOf(anchors)
        first == CHOOSE s \in sources : \A t \in sources :
                    \/ SourceBest(anchors, s) > SourceBest(anchors, t)
                    \/ SourceBest(anchors, s) = SourceBest(anchors, t) /\ s <= t
        second == Max({0} \cup {SourceBest(anchors, t) : t \in sources \ {first}})
        ahead == /\ SourceBest(anchors, first) >= 700
                 /\ SourceBest(anchors, first) - second >= 150
    IN  IF ~question.compares /\ question.mode # "source" /\ (~Normalized(cs) \/ ahead)
        THEN {first} ELSE sources

Adjacent(c, d) == SourceOf[c] = SourceOf[d] /\ IndexOf[c] - IndexOf[d] \in {-1, 0, 1}
Evidence(scope) ==
    LET cs == Compatible(scope)
        anchors == Anchors(cs)
    IN  IF cs = {} \/ anchors = {} THEN {}
        ELSE {c \in cs : /\ SourceOf[c] \in Allowed(cs, anchors)
                         /\ \E d \in anchors : Adjacent(c, d)}

Compare ==
    /\ step = "compare" /\ step' = "answer"
    /\ hits' = Only(hits, Evidence(InScope(DOMAIN hits)))
    /\ UNCHANGED <<question, round, noted, answer, returned>>

-----------------------------------------------------------------------------
(* Answer: LLMProvider.generate_reply and run                              *)

Usable(cs) == cs \ Blank

Answer ==
    /\ step = "answer" /\ step' = "done"
    /\ answer' = LET cites == Usable(DOMAIN hits) IN
                 [text |-> IF cites = {} THEN "no evidence" ELSE "model", cites |-> cites,
                  evidence |-> DOMAIN hits, called |-> cites # {}]
    /\ UNCHANGED <<question, round, hits, noted, returned>>

\* A timeout, an HTTP error, an answer in a wrong format or without text
ModelFails ==
    /\ step = "answer" /\ Usable(DOMAIN hits) # {}
    /\ step' = "failed"
    /\ UNCHANGED <<question, round, hits, noted, answer, returned>>

Work == Plan \/ Search \/ SearchFails \/ Advance \/ Compare \/ Answer \/ ModelFails
Next == Work

-----------------------------------------------------------------------------
(* Properties                                                              *)

BestOf(c) == Max({x[2] : x \in {y \in returned : y[1] = c}})

\* Nothing of the searches is lost but the worst: the hits kept after several
\* searches, each cut to MaxHits, are the MaxHits best of everything that was
\* returned, each with its best score (merge_ranked_hits).
KeepsTheBest ==
    step \in {"advance", "compare"} =>
        LET all == [c \in {x[1] : x \in returned} |-> BestOf(c)] IN
        hits = Only(all, FirstOf(Ranked(all), MaxHits))

\* Evidence is of the file the question names, never of a field that was not
\* asked for, and reaches no further than one chunk from a passage that shares
\* words with the question or scores a twentieth of the best and more
\* (filter_relevant_hits).
EvidenceGrounded ==
    step = "done" =>
        \A c \in answer.evidence :
            /\ question.files # {} => \E f \in question.files : SourceOf[c] \in f.sources
            /\ question.field => "conflict" \notin Shares(c)
            /\ \E d \in answer.evidence :
                  /\ Adjacent(c, d)
                  /\ \/ BestOf(d) >= 10 /\ 20 * BestOf(d) >= Best(hits)
                     \/ HasOverlap(d)

\* The strongest passage that may be evidence is evidence, unless all of them
\* are too weak to tell.
KeepsTheStrongest ==
    step = "done" =>
        LET all == [c \in {x[1] : x \in returned} |-> BestOf(c)]
            kept == FirstOf(Ranked(all), MaxHits)
            may == {c \in kept : /\ question.field => "conflict" \notin Shares(c)
                                 /\ question.files = {}}
        IN  may # {} /\ Max({BestOf(c) : c \in may}) >= 30 =>
                \E c \in answer.evidence : \A d \in may : BestOf(c) >= BestOf(d)

\* A model's text always comes with the passages it was given, all of them
\* with text, and without one no model is asked (generate_reply).
AnswerCites ==
    step = "done" =>
        /\ answer.called <=> answer.cites # {}
        /\ answer.cites \subseteq answer.evidence \ Blank
        /\ answer.text = "model" <=> answer.called

EvidenceSound == KeepsTheBest /\ EvidenceGrounded /\ KeepsTheStrongest /\ AnswerCites
Quiet == step \in {"done", "failed"}
=============================================================================
