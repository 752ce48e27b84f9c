------------------------------ MODULE AnswerStream ------------------------------
(***************************************************************************)
(* An answer that a model streams as server-sent events.                   *)
(*                                                                         *)
(*   backend/app/physoc_sse.py    lines, events, the collected response    *)
(*   backend/app/llm.py           PhysocDeepSeekLLMProvider                *)
(*                                                                         *)
(* The connection delivers the bytes in chunks of any size and may end or  *)
(* break at any byte.  A byte here is a line end, [kind |-> "cr"] or       *)
(* [kind |-> "lf"], or stands for a piece of a line: a field, a comment or *)
(* bytes that are not UTF-8.  The value of a data field is an event [model, *)
(* response, done]; what is not such an event has the model "invalid".  A  *)
(* response is a sequence of parts, where "open" and "close" (or "last")   *)
(* are the halves of an inner event with one part of text, as some servers *)
(* wrap their events once more.                                            *)
(***************************************************************************)
EXTENDS Naturals, FiniteSets, Sequences, SequencesExt

CONSTANTS
    Streams,        \* what servers may send
    ChunkSizes,
    MaxLine, MaxStream,         \* bytes
    MaxEvent, MaxEvents, MaxResponse,
    None

VARIABLES
    stream,
    sent,       \* bytes received so far
    reader,     \* buffer, open record and what was collected
    outcome,    \* "reading", "answered", "failed"
    result      \* the text

vars == <<stream, sent, reader, outcome, result>>

NoRecord(r) == [r EXCEPT !.name = "message", !.data = <<>>, !.chars = 0]
Fresh == [buffer |-> <<>>, name |-> "message", data |-> <<>>, chars |-> 0,
          parts |-> <<>>, events |-> 0, state |-> "reading"]
Failed(r) == [r EXCEPT !.state = "failed"]

Begins == sent = 0 /\ reader = Fresh /\ outcome = "reading" /\ result = <<>>
Init == stream \in Streams /\ Begins

-----------------------------------------------------------------------------
(* Events                                                                  *)

\* Where the halves of an inner event meet: its text if it is one
Nested(response) ==
    /\ Len(response) = 2
    /\ response[1] = "open" /\ response[2] \in {"close", "last"}

\* collect_physoc_response, one event: _event_fields, _unwrap_nested_event
TakeEvent(r, e) ==
    LET nested == Nested(e.response)
        response == IF nested THEN <<"text">> ELSE e.response
    IN  IF r.events = MaxEvents \/ e.model \in {"invalid", "other"} THEN Failed(r)
        ELSE IF nested /\ (e.response[2] = "last") # e.done THEN Failed(r)
        ELSE IF Len(r.parts) + Len(response) > MaxResponse THEN Failed(r)
        ELSE [r EXCEPT !.events = @ + 1, !.parts = @ \o response,
                       !.state = IF e.done THEN "done" ELSE @]

\* iter_message_data: a record ends.  Two data lines are not one event here.
EndRecord(r) ==
    LET next == NoRecord(r) IN
    IF r.name # "message" \/ r.data = <<>> THEN next
    ELSE IF Len(r.data) > 1 THEN Failed(next)
    ELSE TakeEvent(next, r.data[1].event)

\* ... and one of its lines.  The pieces after the first belong to its value.
TakeLine(r, line) ==
    IF \E i \in DOMAIN line : line[i].kind = "binary" THEN Failed(r)
    ELSE IF line = <<>> THEN EndRecord(r)
    ELSE LET field == line[1]
             added == Len(line) + (IF r.data = <<>> THEN 0 ELSE 1)
         IN  CASE field.kind = "comment" -> r
               [] field.kind = "event" -> [r EXCEPT !.name = IF Len(line) = 1 THEN field.name ELSE "?"]
               [] field.kind = "data" ->
                    IF r.chars + added > MaxEvent THEN Failed(r)
                    ELSE [r EXCEPT !.chars = @ + added,
                            !.data = Append(@, IF Len(line) = 1 THEN field
                                               ELSE [field EXCEPT !.event.model = "invalid"])]

-----------------------------------------------------------------------------
(* Lines: iter_sse_lines                                                   *)

Ends(buffer) == {i \in DOMAIN buffer : buffer[i].kind \in {"cr", "lf"}}
First(set) == CHOOSE i \in set : \A j \in set : i <= j

\* The place of the end of the first line, 0 if that is not known yet
LineEnd(buffer) ==
    IF Ends(buffer) = {} THEN 0
    ELSE LET i == First(Ends(buffer)) IN
         IF buffer[i].kind = "cr" /\ i = Len(buffer) THEN 0 ELSE i

\* Lines are taken one by one until the buffer has none or the event that is
\* the last has come.
RECURSIVE Drain(_)
Drain(r) ==
    LET i == LineEnd(r.buffer)
        both == i < Len(r.buffer) /\ r.buffer[i].kind = "cr" /\ r.buffer[i + 1].kind = "lf"
        rest == SubSeq(r.buffer, (IF both THEN i + 2 ELSE i + 1), Len(r.buffer))
    IN  IF r.state # "reading" \/ i = 0 THEN r
        ELSE IF i - 1 > MaxLine THEN Failed(r)
        ELSE Drain(TakeLine([r EXCEPT !.buffer = rest], SubSeq(r.buffer, 1, i - 1)))

Pending(buffer) ==
    IF buffer # <<>> /\ Last(buffer).kind = "cr" THEN Front(buffer) ELSE buffer
Feed(r, chunk) ==
    LET drained == Drain([r EXCEPT !.buffer = @ \o chunk]) IN
    IF drained.state = "reading" /\ Len(Pending(drained.buffer)) > MaxLine
    THEN Failed(drained) ELSE drained

\* The stream ends: the rest is a line, and the open record an event.
Finish(r) ==
    LET line == Pending(r.buffer)
        last == IF r.buffer = <<>> THEN r ELSE TakeLine([r EXCEPT !.buffer = <<>>], line)
        ended == IF last.state = "reading" THEN EndRecord(last) ELSE last
    IN  IF ended.state = "reading" THEN Failed(ended) ELSE ended

-----------------------------------------------------------------------------
(* The response put together: _normalize_assembled_response                *)

\* Length of the inner events that begin at i: 0 for none, -1 is an error
\* (something that is not an event follows one, or none of them is the last).
RECURSIVE InnerEvents(_, _)
InnerEvents(parts, i) ==
    LET one == i < Len(parts) /\ Nested(SubSeq(parts, i, i + 1))
        last == one /\ parts[i + 1] = "last"
        rest == InnerEvents(parts, i + 2)
    IN  IF ~one THEN [events |-> 0, bad |-> FALSE]
        ELSE IF last THEN [events |-> 1, bad |-> i + 1 < Len(parts)]
        ELSE [events |-> 1 + rest.events, bad |-> rest.events = 0 \/ rest.bad]

\* An event that is in two halves of two outer events is found only now.
Assembled(parts) ==
    LET starts == {i \in DOMAIN parts : InnerEvents(parts, i).events > 0} IN
    IF starts = {} THEN [ok |-> parts # <<>>, text |-> parts]
    ELSE LET i == First(starts)
             inner == InnerEvents(parts, i)
         IN  [ok |-> ~inner.bad,
              text |-> SubSeq(parts, 1, i - 1) \o [k \in 1..inner.events |-> "text"]]

\* What the reader's state means for the answer
Verdict(r) ==
    IF r.state = "done" /\ Assembled(r.parts).ok THEN "answered"
    ELSE IF r.state = "reading" THEN "reading" ELSE "failed"
Conclude(r) ==
    /\ reader' = r
    /\ outcome' = Verdict(r)
    /\ result' = IF Verdict(r) = "answered" THEN Assembled(r.parts).text ELSE <<>>

-----------------------------------------------------------------------------
(* The connection                                                          *)

Receive(n) ==
    /\ outcome = "reading" /\ sent + n <= Len(stream)
    /\ IF sent + n > MaxStream THEN Conclude(Failed(reader))
       ELSE Conclude(Feed(reader, SubSeq(stream, sent + 1, sent + n)))
    /\ sent' = sent + n
    /\ UNCHANGED stream

\* The server closes the connection in order, wherever it is.
Close ==
    /\ outcome = "reading"
    /\ Conclude(Finish(reader))
    /\ UNCHANGED <<stream, sent>>

\* A timeout or a broken connection
Breaks ==
    /\ outcome = "reading"
    /\ Conclude(Failed(reader))
    /\ UNCHANGED <<stream, sent>>

Work == Close \/ Breaks \/ \E n \in ChunkSizes : Receive(n)
Next == Work

-----------------------------------------------------------------------------
(* Properties                                                              *)

Bytes == SubSeq(stream, 1, sent)

\* Where the network cuts the bytes changes nothing: the text of an answer,
\* and that there is none yet, is what the same bytes give in one piece
\* (iter_sse_lines keeps a CR until it knows whether an LF follows).
CuttingIsIrrelevant ==
    sent <= MaxStream /\ outcome # "failed" =>
        LET whole == Feed(Fresh, Bytes)
            closed == IF whole.state = "reading" THEN Finish(whole) ELSE whole
        IN  \/ Verdict(whole) = outcome /\ (outcome = "answered" => result = Assembled(whole.parts).text)
            \/ /\ outcome = "answered" /\ Verdict(closed) = "answered"
               /\ result = Assembled(closed.parts).text

\* Where lines begin and where an empty line ends a record, read off the bytes
IsEnd(i) == stream[i].kind \in {"cr", "lf"}
Begin(i) == i = 1 \/ IsEnd(i - 1)
Blank(i) ==
    /\ Begin(i) /\ IsEnd(i)
    /\ stream[i].kind = "lf" /\ i > 1 => stream[i - 1].kind # "cr"
Fields(kind) == {i \in 1..sent : Begin(i) /\ stream[i].kind = kind}
Together(i, j) == \A k \in i..j \cup j..i : ~Blank(k)

\* The events: the data of records whose event field, the last if there are
\* several, does not name something else
Events ==
    {i \in Fields("data") : \A j \in Fields("event") :
        Together(i, j) /\ stream[j].name # "message" =>
            \E k \in Fields("event") : k > j /\ Together(i, k)}

\* A stream that ends early is never an answer: an event says that it is the
\* last, and no event before it did; all of them name the right model, if they
\* name one, and each was taken once (collect_physoc_response).
OnlyWhole ==
    outcome = "answered" =>
        \E last \in Events :
            /\ stream[last].event.done
            /\ \A i \in Events : i < last => ~stream[i].event.done
            /\ \A i \in Events : i <= last => stream[i].event.model \in {"right", "none"}
            /\ reader.events = Cardinality({i \in Events : i <= last})

\* No part of an answer is a half of an event that was meant to be unwrapped.
NoHalves ==
    outcome = "answered" /\ result # <<>> =>
        \A i \in DOMAIN result : i < Len(result) => ~Nested(SubSeq(result, i, i + 1))

StreamSound == CuttingIsIrrelevant /\ OnlyWhole /\ NoHalves
Quiet == outcome # "reading"
=============================================================================
