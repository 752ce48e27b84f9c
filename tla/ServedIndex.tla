----------------------------- MODULE ServedIndex -----------------------------
(***************************************************************************)
(* What the publication protocol promises to its readers, without alias,   *)
(* audit rows, locks or failures: a sequence of index generations.  Queries*)
(* are served the current generation or nothing; a new one takes over in   *)
(* one step, and only during an outage; a generation that was replaced or  *)
(* discarded never comes back.                                             *)
(***************************************************************************)
CONSTANTS Collections, None

VARIABLES
    current,    \* the generation on record
    served,     \* what a query is given: the current generation or None
    past,       \* replaced generations
    discarded   \* generations that failed before they were current

vars == <<current, served, past, discarded>>

Init ==
    /\ current = None
    /\ served = None
    /\ past = {}
    /\ discarded = {}

Interrupt ==
    /\ served # None
    /\ served' = None
    /\ UNCHANGED <<current, past, discarded>>

Resume ==
    /\ served = None
    /\ served' = current
    /\ UNCHANGED <<current, past, discarded>>

Advance(c) ==
    /\ served = None
    /\ c \notin past \cup discarded \cup {current}
    /\ current' = c
    /\ served' = c
    /\ past' = past \cup ({current} \ {None})
    /\ UNCHANGED discarded

Discard(c) ==
    /\ c \notin past \cup discarded \cup {current}
    /\ discarded' = discarded \cup {c}
    /\ UNCHANGED <<current, served, past>>

Next ==
    \/ Interrupt
    \/ Resume
    \/ \E c \in Collections : Advance(c) \/ Discard(c)

Spec == Init /\ [][Next]_vars
=============================================================================
