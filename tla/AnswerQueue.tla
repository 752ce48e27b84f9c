----------------------------- MODULE AnswerQueue -----------------------------
(***************************************************************************)
(* What a batcher promises: a bounded queue that settles requests in the   *)
(* order of admission, several at a time, each with the results of its own *)
(* items or with an error.                                                 *)
(***************************************************************************)
EXTENDS Naturals, Sequences, SequencesExt

CONSTANTS Requests, NBatchers, MaxItems, MaxQueue, MaxSize

VARIABLES
    outstanding,    \* queue: admitted requests that are not settled
    size,           \* request: number of items
    future,         \* request: "none", "pending", "done" or "error"
    answer          \* request: its results

vars == <<outstanding, size, future, answer>>
Queues == 1..NBatchers

Init ==
    /\ outstanding = [q \in Queues |-> <<>>]
    /\ size = [r \in Requests |-> 0]
    /\ future = [r \in Requests |-> "none"]
    /\ answer = [r \in Requests |-> <<>>]

Items(requests) == FoldLeft(LAMBDA n, r : n + size[r], 0, requests)
Own(r) == [i \in 1..size[r] |-> <<r, i>>]

Admit(q, r, n) ==
    /\ future[r] = "none"
    /\ n <= MaxItems
    /\ Items(outstanding[q]) + n <= MaxQueue
    /\ outstanding' = [outstanding EXCEPT ![q] = Append(@, r)]
    /\ size' = [size EXCEPT ![r] = n]
    /\ future' = [future EXCEPT ![r] = "pending"]
    /\ UNCHANGED answer

Settle(q, k) ==
    LET first == SubSeq(outstanding[q], 1, k) IN
    /\ Items(first) <= MaxItems
    /\ outstanding' = [outstanding EXCEPT ![q] = SubSeq(@, k + 1, Len(@))]
    /\ \/ /\ future' = [r \in Requests |-> IF Contains(first, r) THEN "done" ELSE future[r]]
          /\ answer' = [r \in Requests |-> IF Contains(first, r) THEN Own(r) ELSE answer[r]]
       \/ /\ future' = [r \in Requests |-> IF Contains(first, r) THEN "error" ELSE future[r]]
          /\ UNCHANGED answer
    /\ UNCHANGED size

SettleSome(q) == \E k \in 1..Len(outstanding[q]) : Settle(q, k)

Next ==
    \E q \in Queues :
        \/ \E r \in Requests, n \in 1..MaxSize : Admit(q, r, n)
        \/ SettleSome(q)

Spec == Init /\ [][Next]_vars
FairSpec == Spec /\ \A q \in Queues : WF_vars(SettleSome(q))

=============================================================================
