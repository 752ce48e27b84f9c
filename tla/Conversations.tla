----------------------------- MODULE Conversations -----------------------------
(***************************************************************************)
(* The conversations of the chat over the SQL store: send_message,         *)
(* create_conversation and delete_conversation of SqlChatRepository        *)
(* (backend/app/sql_repository.py) for concurrent requests.                *)
(*                                                                         *)
(* An answer is computed between two transactions.  The second reads the   *)
(* number of messages and the row, then writes its own row and after it    *)
(* every other row (their place in the list), so it locks rows one by one  *)
(* until it commits.  Transactions are READ COMMITTED; two that wait for   *)
(* each other are a deadlock, and the data base aborts one of them.        *)
(***************************************************************************)
EXTENDS Naturals, Sequences, FiniteSets

CONSTANTS
    Known,          \* the conversations at the start
    Fresh,          \* ids for conversations that are created
    Sends, Creates, Deletes,    \* requests, each handled once
    None

Ids == Known \cup Fresh
Requests == Sends \cup Creates \cup Deletes

VARIABLES
    rows,       \* id -> conversation, or None
    messages,   \* the message rows
    lock,       \* id -> the transaction that holds the row, or None
    at,         \* request: where it is
    target,     \* request: its conversation
    read,       \* request: what its writing transaction read
    todo        \* request: the other rows it still has to write

vars == <<rows, messages, lock, at, target, read, todo>>

Present == {c \in Ids : rows[c] # None}
MessagesOf(c) == {m \in messages : m.conversation = c}
Nothing == [count |-> 0, turns |-> 0]

Init ==
    /\ rows = [c \in Ids |-> IF c \in Known THEN [turns |-> 0, order |-> 0] ELSE None]
    /\ messages = {}
    /\ lock = [c \in Ids |-> None]
    /\ at = [r \in Requests |-> "new"]
    /\ target = [r \in Requests |-> None]
    /\ read = [r \in Requests |-> Nothing]
    /\ todo = [r \in Requests |-> {}]

Go(r, place) == at' = [at EXCEPT ![r] = place]
Releases(r) == [c \in Ids |-> IF lock[c] = r THEN None ELSE lock[c]]

-----------------------------------------------------------------------------
(* send_message                                                            *)

\* The first transaction reads the previous messages; then the answer.
BeginSend(r, c) ==
    /\ at[r] = "new" /\ c \in Present
    /\ target' = [target EXCEPT ![r] = c]
    /\ Go(r, "answering")
    /\ UNCHANGED <<rows, messages, lock, read, todo>>

Answered(r) ==
    /\ at[r] = "answering"
    /\ IF target[r] \in Present
       THEN /\ Go(r, "writing")
            /\ read' = [read EXCEPT ![r] = [count |-> Cardinality(MessagesOf(target[r])),
                                            turns |-> rows[target[r]].turns]]
       ELSE Go(r, "refused") /\ UNCHANGED read
    /\ UNCHANGED <<rows, messages, lock, target, todo>>

\* The answer router, a model call that fails among it, raises.
AnswerFails(r) ==
    /\ at[r] = "answering"
    /\ Go(r, "refused")
    /\ UNCHANGED <<rows, messages, lock, target, read, todo>>

\* The flush before the bulk update writes the request's own row; a row that
\* was deleted meanwhile makes it fail.
WriteOwn(r) ==
    /\ at[r] = "writing" /\ lock[target[r]] = None
    /\ IF target[r] \in Present
       THEN /\ lock' = [lock EXCEPT ![target[r]] = r]
            /\ todo' = [todo EXCEPT ![r] = Present \ {target[r]}]
            /\ Go(r, "shifting")
       ELSE Go(r, "failed") /\ UNCHANGED <<lock, todo>>
    /\ UNCHANGED <<rows, messages, target, read>>

\* _shift_conversation_order, row by row, in the order of a scan; a row that
\* was deleted while the update waited for it is skipped.
WriteOther(r, c) ==
    /\ at[r] = "shifting" /\ c \in todo[r] /\ lock[c] = None
    /\ lock' = IF c \in Present THEN [lock EXCEPT ![c] = r] ELSE lock
    /\ todo' = [todo EXCEPT ![r] = @ \ {c}]
    /\ UNCHANGED <<rows, messages, at, target, read>>

Shifted(r) == [c \in Ids |-> IF lock[c] = r THEN [rows[c] EXCEPT !.order = @ + 1] ELSE rows[c]]

Message(r, role, order) ==
    [conversation |-> target[r], send |-> r, role |-> role, order |-> order]
Pair(r) == {Message(r, "user", read[r].count), Message(r, "assistant", read[r].count + 1)}

\* turn_count was read with the row and is written back increased by one: a
\* turn that was counted in between is lost.
CommitSend(r) ==
    /\ r \in Sends /\ at[r] = "shifting" /\ todo[r] = {}
    /\ messages' = messages \cup Pair(r)
    /\ rows' = [Shifted(r) EXCEPT ![target[r]] = [turns |-> read[r].turns + 1, order |-> 0]]
    /\ lock' = Releases(r)
    /\ Go(r, "done")
    /\ UNCHANGED <<target, read, todo>>

-----------------------------------------------------------------------------
(* create_conversation, delete_conversation                                *)

\* The bulk update comes first, then the new row.
BeginCreate(r, c) ==
    /\ at[r] = "new" /\ c \in Fresh
    /\ c \notin Present /\ \A other \in Requests : target[other] # c
    /\ target' = [target EXCEPT ![r] = c]
    /\ todo' = [todo EXCEPT ![r] = Present]
    /\ Go(r, "shifting")
    /\ UNCHANGED <<rows, messages, lock, read>>

CommitCreate(r) ==
    /\ r \notin Sends /\ at[r] = "shifting" /\ todo[r] = {}
    /\ rows' = [Shifted(r) EXCEPT ![target[r]] = [turns |-> 0, order |-> 0]]
    /\ lock' = Releases(r)
    /\ Go(r, "done")
    /\ UNCHANGED <<messages, target, read, todo>>

BeginDelete(r, c) ==
    /\ at[r] = "new" /\ c \in Present
    /\ target' = [target EXCEPT ![r] = c]
    /\ Go(r, "deleting")
    /\ UNCHANGED <<rows, messages, lock, read, todo>>

\* The messages go with the row (the foreign key cascades); the row may be
\* gone already.
WithoutMessages(c) == messages \ MessagesOf(c)
DeleteRow(r) ==
    /\ at[r] = "deleting" /\ lock[target[r]] = None
    /\ rows' = [rows EXCEPT ![target[r]] = None]
    /\ messages' = WithoutMessages(target[r])
    /\ Go(r, "listing")
    /\ UNCHANGED <<lock, target, read, todo>>

\* When no conversation is left a new one is created.
ListAfterDelete(r) ==
    /\ at[r] = "listing"
    /\ \/ Present # {} /\ Go(r, "done") /\ UNCHANGED target
       \/ /\ Present = {} /\ Go(r, "shifting")
          /\ \E c \in Fresh :
                /\ \A other \in Requests : target[other] # c
                /\ target' = [target EXCEPT ![r] = c]
    /\ UNCHANGED <<rows, messages, lock, read, todo>>

-----------------------------------------------------------------------------
(* The data base finds a cycle of waiting transactions and aborts one.     *)

Wants(r) == IF at[r] \in {"writing", "deleting"} THEN {target[r]}
            ELSE IF at[r] = "shifting" THEN todo[r] ELSE {}
\* A scan waits at the first row it finds locked: nothing else is left for it.
Blocked(r) == Wants(r) # {} /\ \A c \in Wants(r) : lock[c] \notin {None, r}
WaitsFor(r, s) == \E c \in Wants(r) : lock[c] = s
Cycle(waiting) ==
    \A r \in waiting :
        (\E s \in waiting : WaitsFor(r, s)) /\ (\E s \in waiting : WaitsFor(s, r))
Victim(r) ==
    Blocked(r) /\ \E waiting \in SUBSET {s \in Requests : Blocked(s)} : r \in waiting /\ Cycle(waiting)
Abort(r) ==
    /\ Victim(r)
    /\ lock' = Releases(r)
    /\ todo' = [todo EXCEPT ![r] = {}]
    /\ Go(r, "failed")
    /\ UNCHANGED <<rows, messages, target, read>>

-----------------------------------------------------------------------------
Step(r) ==
    \/ Answered(r) \/ AnswerFails(r) \/ WriteOwn(r) \/ CommitSend(r)
    \/ CommitCreate(r) \/ DeleteRow(r) \/ ListAfterDelete(r) \/ Abort(r)
    \/ \E c \in Ids : WriteOther(r, c)
Begin ==
    \/ \E r \in Sends, c \in Ids : BeginSend(r, c)
    \/ \E r \in Creates, c \in Ids : BeginCreate(r, c)
    \/ \E r \in Deletes, c \in Ids : BeginDelete(r, c)
Next == Begin \/ \E r \in Requests : Step(r)

Spec == Init /\ [][Next]_vars
\* The handlers run in threads and the answer has a timeout: something moves.
Moves == \E r \in Requests : Step(r)
Fairness == WF_vars(Moves)

-----------------------------------------------------------------------------
SendsOf(c) == {m.send : m \in MessagesOf(c)}

\* What a reader finds, whatever deletions, aborts and lost updates there were:
\* a message is never without its conversation, a question never without its
\* answer at the next place; a send leaves its two messages or nothing; the
\* number of turns never exceeds the exchanges (send_message).
ConversationsSound ==
    /\ \A c \in Ids : lock[c] # None => at[lock[c]] = "shifting"
    /\ \A m \in messages : m.conversation \in Present /\ at[m.send] = "done"
    /\ \A r \in Sends :
        LET mine == {m \in messages : m.send = r} IN
        at[r] = "done" /\ target[r] \in Present => mine = Pair(r)
    /\ \A c \in Present : rows[c].turns <= Cardinality(SendsOf(c))

\* Requests that never overlapped on a conversation count every turn.
Overlap(c) == \E r, s \in Sends : r # s /\ target[r] = c /\ target[s] = c
TurnsCounted ==
    \A c \in Present : ~Overlap(c) => rows[c].turns = Cardinality(SendsOf(c))

ChatSound == ConversationsSound /\ TurnsCounted

\* No request is under way.  All end, although send_message writes its own row
\* first and the others after it, against each other's order.
Quiet == \A r \in Requests : at[r] \in {"new", "done", "refused", "failed"}
RequestsEnd == []<>Quiet

=============================================================================
