--------------------------- MODULE MCChatRepository ---------------------------
(***************************************************************************)
(* The writing requests of the SQL chat repository that no other module    *)
(* covers - evaluation batches, the import of evaluation cases and         *)
(* conversations - and the pages in front of the services, for TLC.  The   *)
(* requests write different tables and the pages share nothing, so a       *)
(* behaviour is one of a single part, chosen at the start, and the others  *)
(* stay where they began.                                                  *)
(***************************************************************************)
EXTENDS EvaluationBatches, TLC

CONSTANTS
    None,
    Known, Fresh, Sends, Creates, Deletes,
    Tokens, Confirms, Singles, MaxPreviews, MaxFaults,
    Calls, Shown, Frames, MaxOperations, MaxAsked, MaxActs, Sources, Structured,
    Filters, Writes

VARIABLES
    part,       \* the part that moves: "batches", "import", "chat" or "pages"
    rows, messages, lock, at, target, read, todo,
    stored, expired, reserved, used, imported, table, held,
    place, home, token, work, snapshot, faults,
    page, chatActive, shownMessages, sending, revealTimer, waiter, chatCall, begun, mixed,
    stage, batchList, detail, active, polled, timer, batchCall, selected, comparison,
    asked, batchLeft, broken,
    route, reading, listed, preview, confirmation, chunks, loadingFor, publishedFor,
    status, job, sourceCall, sourceActs, sourceLeft, crossed,
    version, filter, caseList, request, write, initial, acts, failed, behind

chat == <<rows, messages, lock, at, target, read, todo>>
import == <<stored, expired, reserved, used, imported, table, held,
            place, home, token, work, snapshot, faults>>
pages == <<page, chatActive, shownMessages, sending, revealTimer, waiter, chatCall, begun, mixed,
           stage, batchList, detail, active, polled, timer, batchCall, selected, comparison,
           asked, batchLeft, broken,
           route, reading, listed, preview, confirmation, chunks, loadingFor, publishedFor,
           status, job, sourceCall, sourceActs, sourceLeft, crossed,
           version, filter, caseList, request, write, initial, acts, failed, behind>>

\* Two files whose keys cross, and two processes.
Case(question, key) == [question |-> question, key |-> key]
ImportFiles == {<<Case("Q1", None), Case("Q2", "X1")>>, <<Case("Q2", None), Case("Q1", "X1")>>}
SortedKeys == <<"X1", "Q1", "Q2">>
Processes == [t \in Tokens \cup Singles |-> IF t \in Singles \/ t = "t2" THEN 2 ELSE 1]

\* Answers are asked for, conversations created and deleted, by different requests;
\* a preview is confirmed, a single case created; and None is none of them.
ASSUME ChatConstants ==
    /\ Sends \cap (Creates \cup Deletes) = {}
    /\ None \notin Sends \cup Creates \cup Deletes
    /\ None \notin [turns : Nat, order : Nat]
ASSUME ImportConstants ==
    /\ Confirms \cap Singles = {}
    /\ None \notin Confirms \cup Singles \cup Tokens
    /\ None \notin ImportFiles
ASSUME PageConstants ==
    /\ None \notin Calls \cup Shown \cup Sources
    /\ None \notin [of : Shown \cup {None}, frame : Nat]
    /\ {"page", "initial"} \cap Writes = {}
    /\ Frames \in Nat

Chat == INSTANCE Conversations
Import == INSTANCE EvaluationImport
            WITH Files <- ImportFiles, KeyOrder <- SortedKeys, ProcessOf <- Processes,
                 at <- place, rows <- work
Page == INSTANCE Pages WITH messages <- shownMessages

RepositoryInit ==
    /\ part \in {"batches", "import", "chat", "pages"}
    /\ Init /\ Chat!Init /\ Import!Init /\ Page!Init
    /\ part = "pages" \/ page = "chat"

RepositoryNext ==
    /\ UNCHANGED part
    /\ \/ part = "batches" /\ Next /\ UNCHANGED <<chat, import, pages>>
       \/ part = "chat" /\ Chat!Next /\ UNCHANGED <<vars, import, pages>>
       \/ part = "import" /\ Import!Next /\ UNCHANGED <<vars, chat, pages>>
       \/ part = "pages" /\ Page!Next /\ UNCHANGED <<vars, chat, import>>

\* Each part under its own fairness; as one part moves they are one formula, and
\* one for what ends on the server while a page watches.
PartMoves ==
    /\ UNCHANGED part
    /\ \/ part = "batches" /\ Moves /\ UNCHANGED <<chat, import, pages>>
       \/ part = "chat" /\ Chat!Moves /\ UNCHANGED <<vars, import, pages>>
       \/ part = "import" /\ Import!Moves /\ UNCHANGED <<vars, chat, pages>>
       \/ part = "pages" /\ Page!Moves /\ UNCHANGED <<vars, chat, import>>
PartEnds == part = "pages" /\ Page!Ends /\ UNCHANGED <<part, vars, chat, import>>
RepositorySpec ==
    /\ RepositoryInit /\ [][RepositoryNext]_<<part, vars, chat, import, pages>>
    /\ WF_<<part, vars, chat, import, pages>>(PartMoves)
    /\ WF_<<part, vars, chat, import, pages>>(PartEnds)

\* The requests that write (create_evaluation_cases, confirm_evaluation_import,
\* SqlChatRepository.send_message): see EvaluationImport and Conversations.
WritesSound == Import!ImportsSound /\ Chat!ChatSound

\* The composables of the front ends: see Pages.
PagesSound == Page!PagesSound

\* What was recorded stands (run_evaluation_batch), and what a page has shown as
\* ended is not shown as running again (preferBatch).
RecordsStand == HistoryStands /\ [][part = "pages" => Page!EndedStays]_pages

\* A batch ends as completed or failed, a confirmation is answered, a chat
\* request ends - with two requests that write rows or take locks against each
\* other's order (run_evaluation_batch, _lock_evaluation_case_dedup_keys,
\* _shift_conversation_order) - and a page stops sending, polling and loading.
WorkEnds == []<>(Settled /\ Import!Quiet /\ Chat!Quiet /\ Page!Quiet)

=============================================================================
