--------------------------------- MODULE Pages ---------------------------------
(***************************************************************************)
(* The four pages of the two front ends that keep a state across requests. *)
(* They share nothing in the browser: a behaviour is that of one page.     *)
(***************************************************************************)
EXTENDS Naturals

CONSTANTS
    None, Calls, Shown,             \* conversations, or batches
    Frames, MaxOperations, MaxAsked, MaxActs,
    Sources, Structured, Filters, Writes

VARIABLES
    page,
    \* ChatView
    chatActive, messages, sending, revealTimer, waiter, chatCall, begun, mixed,
    \* BatchPages
    stage, batchList, detail, active, polled, timer, batchCall, selected, comparison,
    asked, batchLeft, broken,
    \* SourcePage
    route, reading, listed, preview, confirmation, chunks, loadingFor, publishedFor,
    status, job, sourceCall, sourceActs, sourceLeft, crossed,
    \* CasesPage
    version, filter, caseList, request, write, initial, acts, failed, behind

Chat == INSTANCE ChatView
    WITH Dossiers <- Shown, active <- chatActive, shown <- messages, timer <- revealTimer,
         call <- chatCall
Batch == INSTANCE BatchPages
    WITH Batches <- Shown, list <- batchList, call <- batchCall, left <- batchLeft
Source == INSTANCE SourcePage
    WITH MaxActs <- MaxOperations, call <- sourceCall, acts <- sourceActs,
         left <- sourceLeft
Case == INSTANCE CasesPage
    WITH Requests <- Calls, NoFilter <- None, list <- caseList

chat == <<chatActive, messages, sending, revealTimer, waiter, chatCall, begun, mixed>>
batches == <<stage, batchList, detail, active, polled, timer, batchCall, selected,
             comparison, asked, batchLeft, broken>>
source == <<route, reading, listed, preview, confirmation, chunks, loadingFor,
            publishedFor, status, job, sourceCall, sourceActs, sourceLeft, crossed>>
cases == <<version, filter, caseList, request, write, initial, acts, failed, behind>>

Init ==
    /\ page \in {"chat", "batches", "source", "cases"}
    /\ Chat!Init /\ Batch!Init /\ Source!Init /\ Case!Init

Next ==
    /\ UNCHANGED page
    /\ \/ page = "chat" /\ Chat!Next /\ UNCHANGED <<batches, source, cases>>
       \/ page = "batches" /\ Batch!Next /\ UNCHANGED <<chat, source, cases>>
       \/ page = "source" /\ Source!Next /\ UNCHANGED <<chat, batches, cases>>
       \/ page = "cases" /\ Case!Next /\ UNCHANGED <<chat, batches, source>>

\* What each page is fair to: what the browser and the requests do, and apart
\* from it what ends on the server.
Moves ==
    /\ UNCHANGED page
    /\ \/ page = "chat" /\ Chat!Moves /\ UNCHANGED <<batches, source, cases>>
       \/ page = "batches" /\ Batch!Moves /\ UNCHANGED <<chat, source, cases>>
       \/ page = "source" /\ Source!Moves /\ UNCHANGED <<chat, batches, cases>>
       \/ page = "cases" /\ Case!Replies /\ UNCHANGED <<chat, batches, source>>
Ends ==
    /\ UNCHANGED page
    /\ \/ page = "batches" /\ Batch!Ends /\ UNCHANGED <<chat, source, cases>>
       \/ page = "source" /\ Source!Ends /\ UNCHANGED <<chat, batches, cases>>

-----------------------------------------------------------------------------
\* useChat, useEvaluationBatches, useChatKnowledgeManagement, useQualityCases:
\* whatever order the replies come in, what is shown is what was asked for last.
PagesSound ==
    /\ page = "chat" => Chat!ChatViewSound
    /\ page = "batches" => Batch!BatchPagesSound
    /\ page = "source" => Source!SourcePageSound
    /\ page = "cases" => Case!CasesPageSound

EndedStays == Batch!EndedStays
Quiet == Chat!Quiet /\ Batch!Quiet /\ Source!Quiet /\ Case!Quiet

=============================================================================
