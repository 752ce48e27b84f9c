------------------------------ MODULE BatchPages -------------------------------
(***************************************************************************)
(* The evaluation batches as the admin pages show them: useEvaluationBatches*)
(* (admin-frontend/src/composables/useEvaluationBatches.ts) with the two   *)
(* pages that poll, QualityReportDetailPage.vue (opens a batch) and        *)
(* QualityCasesPage.vue (creates one).                                     *)
(*                                                                         *)
(* Requests of one kind are numbered and only the latest counts: here every*)
(* request under way says whether it still does.  A reply carries what the *)
(* server knew when it answered, not when the reply is applied.  Of a      *)
(* status only "pending" (queued, running) or "ended" matters.  Every page  *)
(* has a state of its own; the one state here is used by all of them, which*)
(* allows the operations of one in between those of another.               *)
(***************************************************************************)
EXTENDS Naturals

CONSTANTS
    Batches,
    Calls,          \* requests that may be under way at once
    MaxAsked,       \* bound: operations of the pages
    None

VARIABLES
    stage,      \* the server: batch -> "none", "pending", "ended"
    list,       \* batches: the same as this page knows it
    detail,     \* activeBatchDetail: [batch, status]
    active,     \* activeBatchId
    polled,     \* pollingBatchId, None when not polling
    timer,      \* the interval runs
    call,       \* the requests under way
    selected,   \* the pair that is to be compared (one id for two)
    comparison,
    asked,
    left,       \* the page was left: its scope is disposed of
    broken      \* history: the last polling ended with an error

vars == <<stage, list, detail, active, polled, timer, call, selected, comparison, asked, left, broken>>

NoDetail == [batch |-> None, status |-> "none"]
Unknown == [b \in Batches |-> "none"]
Idle == [op |-> "none", at |-> "idle", for |-> None, counts |-> FALSE, seen |-> Unknown]

Init ==
    /\ stage = Unknown /\ list = Unknown
    /\ detail = NoDetail /\ active = None
    /\ polled = None /\ timer = FALSE
    /\ call = [k \in Calls |-> Idle]
    /\ selected = None /\ comparison = None
    /\ asked = 0 /\ left = FALSE /\ broken = FALSE

-----------------------------------------------------------------------------
(* Requests                                                                *)

\* The calls after the requests of some kinds were numbered anew ...
Outdated(calls, ops) ==
    [k \in Calls |-> [calls[k] EXCEPT !.counts = @ /\ calls[k].op \notin ops]]
\* ... and with a new one.
Sent(calls, k, op, b) ==
    [calls EXCEPT ![k] = [op |-> op, at |-> "sent", for |-> b, counts |-> TRUE, seen |-> Unknown]]
Ended(calls, k) == [calls EXCEPT ![k] = Idle]
Free(k) == call[k].at = "idle"
Polls == {"poll", "first"}
InFlight == \E k \in Calls : call[k].op \in Polls /\ call[k].counts

Operation == ~left /\ asked < MaxAsked /\ asked' = asked + 1

\* The server: a new batch is queued, one that runs ends, a request is answered.
Reported(c, status) ==
    [b \in Batches |-> IF c.op = "list" \/ (b = c.for /\ c.op # "compare") THEN status[b] ELSE "none"]
Answer(k) ==
    /\ call[k].at = "sent"
    /\ stage' = IF call[k].op = "create" THEN [stage EXCEPT ![call[k].for] = "pending"] ELSE stage
    /\ call' = [call EXCEPT ![k].at = "answered", ![k].seen = Reported(call[k], stage')]
    /\ UNCHANGED <<list, detail, active, polled, timer, selected, comparison, asked, left, broken>>
EndBatch(b) ==
    /\ stage[b] = "pending"
    /\ stage' = [stage EXCEPT ![b] = "ended"]
    /\ UNCHANGED <<list, detail, active, polled, timer, call, selected, comparison, asked, left, broken>>

-----------------------------------------------------------------------------
(* What is known of a batch                                                *)

preferBatch(old, new) == IF old = "ended" /\ new = "pending" THEN old ELSE new
upsertBatch(b, status) == [list EXCEPT ![b] = preferBatch(@, status)]
\* normalizeActiveDetailAgainstList
Normalized(known) ==
    IF detail.batch = active /\ detail.status = "pending" /\ known[detail.batch] = "ended"
    THEN NoDetail ELSE detail

\* applyBatchDetail
Apply(b, status) ==
    LET known == upsertBatch(b, status) IN
    /\ list' = known
    /\ detail' = IF active = b /\ (status = "ended" \/ known[b] = "pending")
                 THEN [batch |-> b, status |-> status] ELSE Normalized(known)

\* selectActiveBatch
SelectActive(b) ==
    /\ active' = b
    /\ detail' = IF detail.batch = b THEN detail ELSE NoDetail

-----------------------------------------------------------------------------
(* loadBatches, createBatch, compareBatches                                *)

LoadBatches(k) ==
    /\ Free(k) /\ Operation
    /\ call' = Sent(Outdated(call, {"list"}), k, "list", None)
    /\ UNCHANGED <<stage, list, detail, active, polled, timer, selected, comparison, left, broken>>
MergeList(k) ==
    /\ call[k].at = "answered" /\ call[k].op = "list"
    /\ LET known == [b \in Batches |-> IF call[k].seen[b] = "none" THEN list[b]
                                       ELSE preferBatch(list[b], call[k].seen[b])] IN
       IF call[k].counts THEN list' = known /\ detail' = Normalized(known)
       ELSE UNCHANGED <<list, detail>>
    /\ call' = Ended(call, k)
    /\ UNCHANGED <<stage, active, polled, timer, selected, comparison, asked, left, broken>>

CreateBatch(k, b) ==
    /\ Free(k) /\ Operation
    /\ stage[b] = "none" /\ selected = None /\ \A l \in Calls : call[l].op # "create"
    /\ call' = Sent(call, k, "create", b)
    /\ UNCHANGED <<stage, list, detail, active, polled, timer, selected, comparison, left, broken>>

\* clearComparison, compareBatches: a new selection takes the old result away.
\* The page that compares does nothing else but list.
Compare(k, b) ==
    /\ Free(k) /\ Operation /\ active = None
    /\ selected' = b /\ comparison' = None
    /\ call' = Sent(Outdated(call, {"compare"}), k, "compare", b)
    /\ UNCHANGED <<stage, list, detail, active, polled, timer, left, broken>>
Compared(k) ==
    /\ call[k].at = "answered" /\ call[k].op = "compare"
    /\ comparison' = IF call[k].counts THEN call[k].for ELSE comparison
    /\ call' = Ended(call, k)
    /\ UNCHANGED <<stage, list, detail, active, polled, timer, selected, asked, left, broken>>

-----------------------------------------------------------------------------
(* Polling                                                                 *)

\* startPolling: not twice for one batch; a batch the page created was never
\* polled, and its first poll comes at once.
BatchCreated(k) ==
    LET b == call[k].for IN
    /\ call[k].at = "answered" /\ call[k].op = "create"
    /\ list' = upsertBatch(b, "pending")
    /\ SelectActive(b)
    /\ polled' = b /\ timer' = FALSE /\ broken' = FALSE
    /\ call' = Sent(Outdated(Ended(call, k), Polls \cup {"detail"}), k, "first", b)
    /\ UNCHANGED <<stage, selected, comparison, asked, left>>

Tick(k) ==
    /\ timer /\ ~InFlight /\ Free(k)
    /\ call' = Sent(call, k, "poll", polled)
    /\ UNCHANGED <<stage, list, detail, active, polled, timer, selected, comparison, asked, left, broken>>

\* pollBatch: polling stops with the batch; after the first poll the interval
\* starts.
Polled(k) ==
    /\ call[k].at = "answered" /\ call[k].op \in Polls
    /\ IF call[k].counts
       THEN /\ Apply(polled, call[k].seen[polled])
            /\ IF list'[polled] = "ended"
               THEN /\ polled' = None /\ timer' = FALSE
                    /\ call' = Outdated(Ended(call, k), Polls)
               ELSE /\ timer' = TRUE /\ call' = Ended(call, k)
                    /\ UNCHANGED polled
       ELSE /\ call' = Ended(call, k)
            /\ UNCHANGED <<list, detail, polled, timer>>
    /\ UNCHANGED <<stage, active, selected, comparison, asked, left, broken>>

-----------------------------------------------------------------------------
(* The report page                                                         *)

\* The watcher of the route: stopPolling, clearDetail, loadBatch.
OpenReport(k, b) ==
    /\ stage[b] # "none" /\ selected = None /\ Free(k) /\ Operation
    /\ polled' = None /\ timer' = FALSE /\ broken' = FALSE
    /\ active' = b /\ detail' = NoDetail
    /\ call' = Sent(Outdated(call, Polls \cup {"detail"}), k, "detail", b)
    /\ UNCHANGED <<stage, list, selected, comparison, left>>

\* ... and after it startPolling without a first poll, if the batch is pending.
ReportLoaded(k) ==
    LET b == call[k].for IN
    /\ call[k].at = "answered" /\ call[k].op = "detail"
    /\ IF call[k].counts
       THEN /\ Apply(b, call[k].seen[b])
            /\ polled' = (IF list'[b] = "pending" THEN b ELSE None)
            /\ timer' = (list'[b] = "pending")
            /\ call' = Outdated(Ended(call, k), Polls \cup {"detail"})
       ELSE /\ call' = Ended(call, k)
            /\ UNCHANGED <<list, detail, polled, timer>>
    /\ UNCHANGED <<stage, active, selected, comparison, asked, left, broken>>

\* onUnmounted, onScopeDispose: clearDetail and stopPolling.
Leave ==
    /\ ~left /\ left' = TRUE
    /\ polled' = None /\ timer' = FALSE
    /\ active' = None /\ detail' = NoDetail
    /\ call' = Outdated(call, Polls \cup {"detail"})
    /\ UNCHANGED <<stage, list, selected, comparison, asked, broken>>

\* An error ends a polling; otherwise a message is shown.  The server may have
\* done what it was asked to.
CallFails(k) ==
    LET polling == call[k].op \in Polls /\ call[k].counts IN
    /\ ~Free(k)
    /\ call' = Ended(call, k)
    /\ IF polling THEN polled' = None /\ timer' = FALSE /\ broken' = TRUE
       ELSE UNCHANGED <<polled, timer, broken>>
    /\ UNCHANGED <<stage, list, detail, active, selected, comparison, asked, left>>

-----------------------------------------------------------------------------
Reply(k) == Answer(k) \/ MergeList(k) \/ BatchCreated(k) \/ Compared(k) \/ Polled(k) \/ ReportLoaded(k)
User ==
    \/ Leave
    \/ \E k \in Calls :
        \/ LoadBatches(k)
        \/ \E b \in Batches : CreateBatch(k, b) \/ Compare(k, b) \/ OpenReport(k, b)
Moves == \E k \in Calls : Tick(k) \/ Reply(k) \/ CallFails(k)
Ends == \E b \in Batches : EndBatch(b)
Next == User \/ Moves \/ Ends

\* A request is answered or fails with the timeout of the client (30 s), the
\* interval fires, and a batch ends (EvaluationBatches).
Fairness == WF_vars(Moves) /\ WF_vars(Ends)

-----------------------------------------------------------------------------
\* The detail is that of the active batch and never behind the list; a
\* comparison is that of the selection.
ShowsWhatWasAsked ==
    /\ detail # NoDetail => detail.batch = active
    /\ detail.status = "pending" => list[detail.batch] = "pending"
    /\ \A b \in Batches : list[b] = "ended" => stage[b] = "ended"
    /\ comparison # None => comparison = selected

\* One batch is polled, the active one, by the interval or a poll under way;
\* nothing runs on when polling stopped.
PollsOne ==
    /\ polled # None => polled = active /\ (timer \/ InFlight)
    /\ polled = None => ~timer /\ ~InFlight
    /\ \A k, l \in Calls : {call[k].op, call[l].op} \subseteq Polls /\ call[k].counts /\ call[l].counts => k = l

\* A batch that is shown as running is being refreshed, or an error stopped that.
NeverStale == detail.status = "pending" => polled # None \/ broken

BatchPagesSound == ShowsWhatWasAsked /\ PollsOne /\ NeverStale

\* A batch that was seen to end is never shown as running again (preferBatch).
EndedStays == \A b \in Batches : list[b] = "ended" => list'[b] = "ended"

Quiet == polled = None

=============================================================================
