------------------------------- MODULE ChatView --------------------------------
(***************************************************************************)
(* The state behind the chat page: useChat                                 *)
(* (frontend/src/composables/useChat.ts).  Every operation waits for a     *)
(* reply of the server and other operations may start meanwhile; an answer *)
(* is typed out by a timer for which the operation that sent the question  *)
(* waits.  The flags and texts that are only shown (loading, error,        *)
(* titles) are left out.                                                   *)
(***************************************************************************)
EXTENDS Naturals

CONSTANTS
    Dossiers,       \* conversations of the server
    Calls,          \* operations that may be under way at once
    Frames,         \* ticks of the timer until an answer is whole
    MaxOperations,  \* bound: operations of a behaviour
    None

VARIABLES
    active,     \* activeConversationId
    shown,      \* messages: whose, the exchange of this page, the frame of the answer
    sending,
    timer,      \* what answerRevealTimer renders next, or None
    waiter,     \* whose promise resolveActiveReveal resolves, or None
    call,       \* the operations under way
    begun,
    mixed       \* history: two operations overlapped, or a selection failed

vars == <<active, shown, sending, timer, waiter, call, begun, mixed>>

Bundles == {"load", "fresh", "start", "remove"}
Idle == [op |-> "none", at |-> "idle", for |-> None]
Whole(c) == [of |-> c, local |-> "none", frame |-> Frames]

Init ==
    /\ active = None /\ shown = Whole(None) /\ sending = FALSE
    /\ timer = None /\ waiter = None
    /\ call = [k \in Calls |-> Idle]
    /\ begun = 0 /\ mixed = FALSE

Asked == {k \in Calls : call[k].at \in {"asked", "creating"}}
Begin(k, op, c) ==
    /\ call[k] = Idle /\ begun < MaxOperations
    /\ begun' = begun + 1
    /\ mixed' = (mixed \/ Asked # {})
    /\ call' = [call EXCEPT ![k] = [op |-> op, at |-> "asked", for |-> c]]

\* clearAnswerReveal: no timer, and the operation that waits goes on.
Resolved(calls) ==
    [k \in Calls |-> IF k = waiter THEN [calls[k] EXCEPT !.at = "resumed"] ELSE calls[k]]
ClearReveal == timer' = None /\ waiter' = None

-----------------------------------------------------------------------------
\* load, loadFreshSession, startConversation, removeConversation
AskBundle(k, op) ==
    /\ Begin(k, op, None)
    /\ UNCHANGED <<active, shown, sending, timer, waiter>>

\* loadFreshSession takes a conversation without messages, or creates one.
NotFresh(k) ==
    /\ call[k].op = "fresh" /\ call[k].at = "asked"
    /\ call' = [call EXCEPT ![k].at = "creating"]
    /\ UNCHANGED <<active, shown, sending, timer, waiter, begun, mixed>>

ApplyBundle(k, c) ==
    /\ k \in Asked /\ call[k].op \in Bundles
    /\ active' = c /\ shown' = Whole(c)
    /\ ClearReveal
    /\ call' = Resolved([call EXCEPT ![k] = Idle])
    /\ UNCHANGED <<sending, begun, mixed>>

-----------------------------------------------------------------------------
\* selectConversation: the id at once, the messages with the reply.
Select(k, c) ==
    /\ c # active
    /\ call[k] = Idle /\ begun < MaxOperations
    /\ begun' = begun + 1
    /\ mixed' = (mixed \/ Asked # {})
    /\ call' = Resolved([call EXCEPT ![k] = [op |-> "select", at |-> "asked", for |-> c]])
    /\ active' = c
    /\ ClearReveal
    /\ UNCHANGED <<shown, sending>>

ShowSelected(k) ==
    /\ k \in Asked /\ call[k].op = "select"
    /\ shown' = Whole(call[k].for)
    /\ call' = [call EXCEPT ![k] = Idle]
    /\ UNCHANGED <<active, sending, timer, waiter, begun, mixed>>

-----------------------------------------------------------------------------
\* sendMessage
Send(k) ==
    /\ active # None /\ ~sending
    /\ Begin(k, "send", active)
    /\ sending' = TRUE
    /\ shown' = [shown EXCEPT !.local = "pending"]
    /\ UNCHANGED <<active, timer, waiter>>

\* revealReceivedBundle: the bundle is that of the conversation of the question.
Reveal(k, hasText) ==
    LET c == call[k].for IN
    /\ k \in Asked /\ call[k].op = "send"
    /\ active' = c
    /\ IF hasText
       THEN /\ shown' = [Whole(c) EXCEPT !.frame = 0]
            /\ timer' = [of |-> c, frame |-> 1] /\ waiter' = k
            /\ call' = Resolved([call EXCEPT ![k].at = "revealing"])
       ELSE /\ shown' = Whole(c)
            /\ ClearReveal
            /\ call' = Resolved([call EXCEPT ![k].at = "resumed"])
    /\ UNCHANGED <<sending, begun, mixed>>

RenderFrame ==
    /\ timer # None
    /\ shown' = [Whole(timer.of) EXCEPT !.frame = timer.frame]
    /\ IF timer.frame = Frames
       THEN ClearReveal /\ call' = Resolved(call)
       ELSE timer' = [timer EXCEPT !.frame = @ + 1] /\ UNCHANGED <<waiter, call>>
    /\ UNCHANGED <<active, sending, begun, mixed>>

EndSend(k) ==
    /\ call[k].at = "resumed"
    /\ sending' = FALSE
    /\ call' = [call EXCEPT ![k] = Idle]
    /\ UNCHANGED <<active, shown, timer, waiter, begun, mixed>>

\* A request that fails: a question loses its pending answer and stays; a
\* selection leaves the new id with the old messages.
CallFails(k) ==
    /\ k \in Asked
    /\ call' = [call EXCEPT ![k] = Idle]
    /\ IF call[k].op = "send"
       THEN /\ sending' = FALSE
            /\ shown' = [shown EXCEPT !.local = IF @ = "pending" THEN "asked" ELSE @]
       ELSE UNCHANGED <<sending, shown>>
    /\ mixed' = (mixed \/ call[k].op = "select")
    /\ UNCHANGED <<active, timer, waiter, begun>>

-----------------------------------------------------------------------------
Operation ==
    \E k \in Calls :
        \/ Send(k)
        \/ \E op \in Bundles : AskBundle(k, op)
        \/ \E c \in Dossiers : Select(k, c)
Reply(k) ==
    \/ NotFresh(k) \/ ShowSelected(k) \/ CallFails(k)
    \/ \E c \in Dossiers : ApplyBundle(k, c)
    \/ \E hasText \in BOOLEAN : Reveal(k, hasText)
\* A request is answered or runs into the timeout of the client (70 s); the
\* browser runs timers and continuations.
Moves == RenderFrame \/ \E k \in Calls : Reply(k) \/ EndSend(k)
Next == Operation \/ Moves
Fairness == WF_vars(Moves)

-----------------------------------------------------------------------------
\* One question at a time: sending says that one is under way, a timer runs for
\* one that waits for it, and nothing pending is left when none is.
OneQuestion ==
    LET sends == {k \in Calls : call[k].op = "send"} IN
    /\ \A k, l \in sends : k = l
    /\ sending <=> sends # {}
    /\ (timer # None) <=> (\E k \in sends : call[k].at = "revealing" /\ waiter = k)
    /\ shown.local = "pending" => \E k \in sends : call[k].at = "asked"

\* An answer is typed only into the conversation that is active, and operations
\* that never overlapped leave the whole messages of that conversation.
RightConversation ==
    /\ timer # None => timer.of = active
    /\ ~mixed /\ (\A k \in Calls : call[k] = Idle) => shown.of = active /\ shown.frame = Frames

ChatViewSound == OneQuestion /\ RightConversation

\* The composer is usable again and again (sending.value = false).
Quiet == ~sending

=============================================================================
