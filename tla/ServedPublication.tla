-------------------------- MODULE ServedPublication --------------------------
(***************************************************************************)
(* What the publication of a spreadsheet promises, whatever happens to the *)
(* workers: every job is published at most once, and from the first        *)
(* publication on there is always exactly one that queries read, the one   *)
(* published last.                                                         *)
(***************************************************************************)
CONSTANT Jobs

VARIABLES
    asked,      \* the jobs enqueued so far
    published,  \* the jobs that have been published
    served      \* the job whose publication queries read, once there is one

vars == <<asked, published, served>>

Init == asked = {} /\ published = {} /\ served = {}

Ask(j) ==
    /\ asked' = asked \cup {j}
    /\ UNCHANGED <<published, served>>

Publish(j) ==
    /\ j \in asked \ published
    /\ published' = published \cup {j}
    /\ served' = {j}
    /\ UNCHANGED asked

Next == \E j \in Jobs : Ask(j) \/ Publish(j)

Spec == Init /\ [][Next]_vars

=============================================================================
