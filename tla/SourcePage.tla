------------------------------ MODULE SourcePage -------------------------------
(***************************************************************************)
(* The detail page of a knowledge source: KnowledgeSourceDetailPage.vue    *)
(* over useChatKnowledgeManagement                                         *)
(* (admin-frontend/src/composables/useChatKnowledgeManagement.ts).         *)
(*                                                                         *)
(* The route changes while requests for the source before are under way.   *)
(* Previews, confirmations and publications carry a token and only the     *)
(* latest counts (here: every request says whether it still does); chunks  *)
(* do not.  A structured source has a preview, a confirmation of its       *)
(* schema and a publication that is polled; any other source has chunks.   *)
(***************************************************************************)
EXTENDS Naturals

CONSTANTS
    Sources, Structured,
    Calls,          \* requests that may be under way at once
    MaxActs,        \* bound: what the user does
    None

VARIABLES
    route,          \* the source of the page
    reading,        \* knowledgeSourcesLoading: the first reply ends it for all
    listed,         \* the list of sources was read, so it is known which are structured
    preview, confirmation, chunks,  \* whose
    loadingFor,     \* activeKnowledgeSourceId while knowledgeChunksLoading, else None
    publishedFor,   \* structuredPublicationSourceId
    status,         \* structuredPublicationStatus: "none", "pending", "ended"
    job,            \* the server: source -> the same
    call, acts, left,
    crossed         \* history: two requests for chunks were under way at once

vars == <<route, reading, listed, preview, confirmation, chunks, loadingFor, publishedFor, status,
          job, call, acts, left, crossed>>

Idle == [op |-> "none", for |-> None, counts |-> FALSE]

Init ==
    /\ route = None /\ reading = FALSE /\ listed = FALSE
    /\ preview = None /\ confirmation = None /\ chunks = None /\ loadingFor = None
    /\ publishedFor = None /\ status = "none"
    /\ job = [s \in Sources |-> "none"]
    /\ call = [k \in Calls |-> Idle]
    /\ acts = 0 /\ left = FALSE /\ crossed = FALSE

Outdated(calls, ops) ==
    [k \in Calls |-> [calls[k] EXCEPT !.counts = @ /\ calls[k].op \notin ops]]
Sent(calls, k, op, s) == [calls EXCEPT ![k] = [op |-> op, for |-> s, counts |-> TRUE]]
Ended(calls, k) == [calls EXCEPT ![k] = Idle]
UnderWay(op) == \E k \in Calls : call[k].op = op /\ call[k].counts
Act == ~left /\ acts < MaxActs /\ acts' = acts + 1

Publication == {"enqueue", "status"}
\* structuredPublishing: a failed job with another attempt is pending too.
Publishing == UnderWay("enqueue") \/ status = "pending"

-----------------------------------------------------------------------------
(* loadDetail                                                              *)

GoTo(k, s) ==
    /\ s # route /\ call[k] = Idle /\ Act
    /\ route' = s /\ reading' = TRUE
    /\ call' = Sent(call, k, "sources", s)
    /\ UNCHANGED <<listed, preview, confirmation, chunks, loadingFor, publishedFor, status, job, left, crossed>>

\* cancelStructuredPublicationPolling(true)
KeepStatus(old) == old              \* mutant: the status of the job stays
StatusCancelled(old) == "none"

\* loadStructuredPreview: a publication of another source is cancelled.
LoadPreview(k) ==
    LET other == publishedFor \notin {None, route}
        stale == {"preview", "confirm"} \cup (IF other THEN Publication ELSE {}) IN
    /\ publishedFor' = (IF other THEN None ELSE publishedFor)
    /\ status' = IF other THEN StatusCancelled(status) ELSE status
    /\ preview' = None /\ confirmation' = None
    /\ call' = Sent(Outdated(Ended(call, k), stale), k, "preview", route)
    /\ UNCHANGED <<chunks, loadingFor, crossed>>

\* inspectKnowledgeSource for a source that is not structured.
Inspect(k) ==
    LET rest == Outdated(Ended(call, k), {"preview", "confirm"} \cup Publication) IN
    /\ publishedFor' = None /\ status' = StatusCancelled(status)
    /\ preview' = None /\ confirmation' = None
    /\ IF loadingFor = route
       THEN call' = rest /\ UNCHANGED <<loadingFor, crossed>>
       ELSE /\ call' = Sent(rest, k, "chunks", route)
            /\ loadingFor' = route
            /\ crossed' = (crossed \/ \E l \in Calls : call[l].op = "chunks")
    /\ UNCHANGED chunks

\* The list is read or not; what follows asks for the source of the route now.
SourcesLoaded(k) ==
    /\ call[k].op = "sources"
    /\ reading' = FALSE /\ listed' \in {listed, TRUE}
    /\ IF listed' /\ route \in Structured THEN LoadPreview(k) ELSE Inspect(k)
    /\ UNCHANGED <<route, job, acts, left>>

PreviewLoaded(k) ==
    /\ call[k].op = "preview"
    /\ preview' \in (IF call[k].counts THEN {call[k].for, None} ELSE {preview})
    /\ call' = Ended(call, k)
    /\ UNCHANGED <<route, reading, listed, confirmation, chunks, loadingFor, publishedFor, status, job, acts, left, crossed>>

\* No token: whichever reply comes last is shown, and the first one ends the
\* loading of both.
ChunksLoaded(k) ==
    /\ call[k].op = "chunks"
    /\ chunks' \in {call[k].for, None}
    /\ loadingFor' = None
    /\ call' = Ended(call, k)
    /\ UNCHANGED <<route, reading, listed, preview, confirmation, publishedFor, status, job, acts, left, crossed>>

-----------------------------------------------------------------------------
(* confirmStructuredSchema, publishStructuredSource                        *)

\* The panel of a structured source is shown when nothing is loading.
Panel == ~reading /\ listed /\ route \in Structured /\ preview # None
Confirm(k) ==
    /\ Panel /\ ~UnderWay("confirm") /\ call[k] = Idle /\ Act
    /\ call' = Sent(call, k, "confirm", route)
    /\ UNCHANGED <<route, reading, listed, preview, confirmation, chunks, loadingFor, publishedFor, status, job, left, crossed>>
Confirmed(k) ==
    /\ call[k].op = "confirm"
    /\ confirmation' \in {confirmation, IF call[k].counts THEN call[k].for ELSE confirmation}
    /\ call' = Ended(call, k)
    /\ UNCHANGED <<route, reading, listed, preview, chunks, loadingFor, publishedFor, status, job, acts, left, crossed>>

Publish(k) ==
    /\ Panel /\ ~Publishing /\ call[k] = Idle /\ Act
    /\ publishedFor' = route /\ status' = StatusCancelled(status)
    /\ call' = Sent(Outdated(call, Publication), k, "enqueue", route)
    /\ UNCHANGED <<route, reading, listed, preview, confirmation, chunks, loadingFor, job, left, crossed>>

\* The request to enqueue reaches the server even when it is aborted here.
Enqueued(k) ==
    /\ call[k].op = "enqueue"
    /\ job' = [job EXCEPT ![call[k].for] = "pending"]
    /\ call' = IF call[k].counts THEN Sent(call, k, "status", call[k].for) ELSE Ended(call, k)
    /\ UNCHANGED <<route, reading, listed, preview, confirmation, chunks, loadingFor, publishedFor, status, acts, left, crossed>>

\* The loop: a status, and after a delay the next one, until the job ended.
StatusRead(k) ==
    /\ call[k].op = "status"
    /\ IF call[k].counts
       THEN /\ status' = job[call[k].for]
            /\ call' = IF status' = "ended" THEN Ended(call, k) ELSE call
       ELSE call' = Ended(call, k) /\ UNCHANGED status
    /\ UNCHANGED <<route, reading, listed, preview, confirmation, chunks, loadingFor, publishedFor, job, acts, left, crossed>>

PublicationFails(k) ==
    /\ call[k].op \in Publication
    /\ IF call[k].counts THEN status' = "none" /\ publishedFor' = None
       ELSE UNCHANGED <<status, publishedFor>>
    /\ call' = Ended(call, k)
    /\ UNCHANGED <<route, reading, listed, preview, confirmation, chunks, loadingFor, job, acts, left, crossed>>

EndJob(s) ==
    /\ job[s] = "pending"
    /\ job' = [job EXCEPT ![s] = "ended"]
    /\ UNCHANGED <<route, reading, listed, preview, confirmation, chunks, loadingFor, publishedFor, status, call, acts, left, crossed>>

\* onScopeDispose
Leave ==
    /\ ~left /\ left' = TRUE
    /\ publishedFor' = None /\ status' = StatusCancelled(status)
    /\ call' = Outdated(call, Publication)
    /\ UNCHANGED <<route, reading, listed, preview, confirmation, chunks, loadingFor, job, acts, crossed>>

-----------------------------------------------------------------------------
Reply(k) ==
    \/ SourcesLoaded(k) \/ PreviewLoaded(k) \/ ChunksLoaded(k)
    \/ Confirmed(k) \/ Enqueued(k) \/ StatusRead(k)
Moves == \E k \in Calls : Reply(k) \/ PublicationFails(k)
Ends == \E s \in Sources : EndJob(s)
User ==
    \/ Leave
    \/ \E k \in Calls : Confirm(k) \/ Publish(k) \/ \E s \in Sources : GoTo(k, s)
Next == User \/ Moves \/ Ends

\* Requests end (the client waits 30 s), and a job does (StructuredPublication).
Fairness == WF_vars(Moves) /\ WF_vars(Ends)

-----------------------------------------------------------------------------
\* What the page shows belongs to the source of its route: the preview that is
\* confirmed or published, the confirmation, the job - and the chunks, unless two
\* requests for them crossed.
Chunks == ~reading /\ ~(listed /\ route \in Structured) /\ loadingFor = None
OfThisSource ==
    /\ Panel => preview = route
    /\ ~reading => {confirmation, publishedFor} \subseteq {None, route}
    /\ Chunks /\ ~crossed => chunks \in {None, route}

\* A job that is shown as pending is being refreshed: publishing is refused only
\* while a loop runs that will allow it again.  One loop runs, none after the
\* page was left.
OneLoop ==
    /\ \A k, l \in Calls :
        {call[k].op, call[l].op} \subseteq Publication /\ call[k].counts /\ call[l].counts => k = l
    /\ status = "pending" => UnderWay("status")
    /\ left => ~Publishing
    /\ publishedFor = None => ~Publishing

SourcePageSound == OfThisSource /\ OneLoop

Quiet == ~Publishing

=============================================================================
