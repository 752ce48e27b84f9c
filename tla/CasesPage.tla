------------------------------- MODULE CasesPage -------------------------------
(***************************************************************************)
(* The list of evaluation cases of the admin workbench: useQualityCases    *)
(* (admin-frontend/src/composables/useQualityCases.ts).                    *)
(*                                                                         *)
(* The list is replaced by two kinds of replies: collections, which are    *)
(* numbered so that only the latest request counts, and the dashboards     *)
(* that come back from the initial load and from writes (create, delete,   *)
(* run, import), which are filtered here and are not numbered; every write *)
(* asks for a collection afterwards.  A list is known by its filter and by *)
(* the writes the server had done when it read the cases.                  *)
(***************************************************************************)
EXTENDS Naturals

CONSTANTS
    Filters,
    Writes,         \* kinds of writes: each waits for its own last one
    Requests,       \* requests for collections that may be under way at once
    MaxActs,        \* bound: writes and changes of the filter
    NoFilter

VARIABLES
    version,    \* the server: writes done
    filter,
    list,       \* cases: [filter, version]
    request,    \* requests for collections
    write,      \* kind -> where its write is
    initial,    \* loadQualityCases: its three replies
    acts,
    failed,     \* history: the latest request failed
    behind      \* history: the page missed a write, or loaded an older list

vars == <<version, filter, list, request, write, initial, acts, failed, behind>>

Free == [at |-> "free", filter |-> NoFilter, counts |-> FALSE, seen |-> 0, by |-> "page"]
Listed(f, v) == [filter |-> f, version |-> v]
NoWrite == [at |-> "idle", seen |-> 0]
NotLoaded == [dashboard |-> "none", seen |-> 0, sources |-> "none", collection |-> "none"]

Init ==
    /\ version = 0
    /\ filter = NoFilter /\ list = Listed(NoFilter, 0)
    /\ request = [k \in Requests |-> Free]
    /\ write = [w \in Writes |-> NoWrite]
    /\ initial = NotLoaded
    /\ acts = 0 /\ failed = FALSE /\ behind = FALSE

Act == acts < MaxActs /\ acts' = acts + 1

\* requestCaseCollection with the filter of now: earlier requests do not count.
Latest(k, f, by) ==
    [l \in Requests |->
        IF l = k THEN [at |-> "sent", filter |-> f, counts |-> TRUE, seen |-> 0, by |-> by]
        ELSE [request[l] EXCEPT !.counts = FALSE]]

-----------------------------------------------------------------------------
\* setFilters, clearFilters
SetFilter(k, f) ==
    /\ Act
    /\ request[k] = Free
    /\ filter' = f
    /\ request' = Latest(k, f, "page")
    /\ UNCHANGED <<version, list, write, initial, failed, behind>>

\* list_evaluation_cases: the server reads the cases some time before the page
\* has the reply.
ServeCollection(k) ==
    /\ request[k].at = "sent"
    /\ request' = [request EXCEPT ![k].at = "served", ![k].seen = version]
    /\ UNCHANGED <<version, filter, list, write, initial, acts, failed, behind>>

\* The operation that asked goes on, whatever became of its request.
Continues(by, result) ==
    /\ write' = [w \in Writes |-> IF w = by THEN NoWrite ELSE write[w]]
    /\ initial' = IF by = "initial" THEN [initial EXCEPT !.collection = result] ELSE initial

CollectionReceived(k) ==
    /\ request[k].at = "served"
    /\ IF request[k].counts
       THEN /\ list' = Listed(request[k].filter, request[k].seen)
            /\ failed' = FALSE
       ELSE UNCHANGED <<list, failed>>
    /\ request' = [request EXCEPT ![k] = Free]
    /\ Continues(request[k].by, IF request[k].counts THEN "applied" ELSE "stale")
    /\ UNCHANGED <<version, filter, acts, behind>>

CollectionFails(k) ==
    /\ request[k].at # "free"
    /\ failed' = (failed \/ request[k].counts)
    /\ request' = [request EXCEPT ![k] = Free]
    /\ Continues(request[k].by, IF request[k].counts THEN "failed" ELSE "stale")
    /\ UNCHANGED <<version, filter, list, acts, behind>>

-----------------------------------------------------------------------------
\* createCase, removeCase, runCases, confirmImport
BeginWrite(w) ==
    /\ write[w].at = "idle" /\ Act
    /\ write' = [write EXCEPT ![w] = [at |-> "sent", seen |-> 0]]
    /\ UNCHANGED <<version, filter, list, request, initial, failed, behind>>

\* create_evaluation_case, delete_evaluation_case, run_evaluations and
\* confirm_evaluation_import: a transaction that writes, and afterwards the
\* dashboard, read in transactions of its own (evaluation_dashboard).
ServeWrite(w) ==
    /\ write[w].at = "sent"
    /\ version' = version + 1
    /\ write' = [write EXCEPT ![w].at = "done"]
    /\ UNCHANGED <<filter, list, request, initial, acts, failed, behind>>
ReadDashboard(w) ==
    /\ write[w].at = "done"
    /\ write' = [write EXCEPT ![w] = [at |-> "served", seen |-> version]]
    /\ UNCHANGED <<version, filter, list, request, initial, acts, failed, behind>>

\* applyDashboardFallback, then refreshAfterWrite.
WriteReceived(w, k) ==
    /\ write[w].at = "served" /\ request[k] = Free
    /\ list' = Listed(filter, write[w].seen)
    /\ write' = [write EXCEPT ![w].at = "refreshing"]
    /\ request' = Latest(k, filter, w)
    /\ UNCHANGED <<version, filter, initial, acts, failed, behind>>

\* The write is refused, or done but its reply is lost: no refresh.
WriteFails(w) ==
    /\ write[w].at \in {"sent", "done", "served"}
    /\ write' = [write EXCEPT ![w] = NoWrite]
    /\ behind' = (behind \/ write[w].at # "sent")
    /\ UNCHANGED <<version, filter, list, request, initial, acts, failed>>

-----------------------------------------------------------------------------
\* loadQualityCases: dashboard, sources and collection at once.
LoadAll(k) ==
    /\ initial = NotLoaded /\ request[k] = Free
    /\ initial' = [dashboard |-> "sent", seen |-> 0, sources |-> "sent", collection |-> "sent"]
    /\ request' = Latest(k, filter, "initial")
    /\ UNCHANGED <<version, filter, list, write, acts, failed, behind>>
ServeDashboard ==
    /\ initial.dashboard = "sent"
    /\ initial' = [initial EXCEPT !.dashboard = "served", !.seen = version]
    /\ UNCHANGED <<version, filter, list, request, write, acts, failed, behind>>
DashboardReceived ==
    /\ \/ /\ initial.dashboard = "served"
          /\ initial' = [initial EXCEPT !.dashboard = "received"]
       \/ /\ initial.dashboard \in {"sent", "served"}
          /\ initial' = [initial EXCEPT !.dashboard = "failed"]
    /\ UNCHANGED <<version, filter, list, request, write, acts, failed, behind>>
SourcesSettled ==
    /\ initial.sources = "sent"
    /\ initial' = [initial EXCEPT !.sources = "settled"]
    /\ UNCHANGED <<version, filter, list, request, write, acts, failed, behind>>

\* Promise.allSettled: when the collection could not be read its place is taken
\* by the dashboard, as old as that may be by now.
AllLoaded ==
    /\ initial.dashboard \in {"received", "failed"} /\ initial.sources = "settled"
    /\ initial.collection \in {"applied", "stale", "failed"}
    /\ IF initial.dashboard = "received" /\ initial.collection = "failed"
       THEN /\ list' = Listed(filter, initial.seen)
            /\ behind' = (behind \/ initial.seen < list.version)
       ELSE UNCHANGED <<list, behind>>
    /\ initial' = [initial EXCEPT !.dashboard = "over", !.seen = 0]
    /\ UNCHANGED <<version, filter, request, write, acts, failed>>

-----------------------------------------------------------------------------
Replies ==
    \/ ServeDashboard \/ DashboardReceived \/ SourcesSettled \/ AllLoaded
    \/ \E k \in Requests :
        \/ ServeCollection(k) \/ CollectionReceived(k) \/ CollectionFails(k)
        \/ \E w \in Writes : WriteReceived(w, k)
    \/ \E w \in Writes : ServeWrite(w) \/ ReadDashboard(w) \/ WriteFails(w)
User ==
    \/ \E k \in Requests : LoadAll(k) \/ \E f \in Filters \cup {NoFilter} : SetFilter(k, f)
    \/ \E w \in Writes : BeginWrite(w)
Next == User \/ Replies

Fairness == WF_vars(Replies)

-----------------------------------------------------------------------------
Quiet ==
    /\ \A k \in Requests : request[k] = Free
    /\ \A w \in Writes : write[w] = NoWrite
    /\ initial = NotLoaded \/ initial.dashboard = "over"

\* The only request that counts asked with the filter of now; when everything
\* was answered the list is that of the filter and shows every write, whatever
\* order the replies came in - unless the latest request failed, the reply to a
\* write was lost, or the initial load fell back to what it read before a write.
CasesPageSound ==
    /\ \A k, l \in Requests : request[k].counts /\ request[l].counts => k = l
    /\ \A k \in Requests : request[k].counts => request[k].filter = filter
    /\ list.filter # filter => failed \/ \E k \in Requests : request[k].counts
    /\ Quiet /\ ~failed /\ ~behind => list = Listed(filter, version)

=============================================================================
