-------------------------- MODULE DependencyHealth --------------------------
(***************************************************************************)
(* Readiness of the API: requests ask a registry that runs one round of    *)
(* checks at a time and answers from the last report meanwhile.  A check   *)
(* runs in a thread of its own under a hard timeout; the metadata probes   *)
(* can be cancelled by closing their connection.                           *)
(*                                                                         *)
(*   backend/app/infra/health.py   DependencyHealthRegistry,               *)
(*        _hard_timeout_check, _CancellableMetadataProbe, the checks       *)
(*                                                                         *)
(* What a dependency replies is reduced to what the checks tell apart; the *)
(* age of a report to fresh (cache_ttl), stale (max_stale) or old.  A      *)
(* check's thread may outlive its round, so each round of a check that     *)
(* finds the gate open starts a thread in a free slot.                     *)
(***************************************************************************)
EXTENDS Naturals, FiniteSets

CONSTANTS
    Checks,         \* the dependencies
    Probes,         \* those with a cancellable metadata probe
    MaxRounds,      \* bound: rounds of checks
    Silent          \* bound: how often a dependency answers badly or not at all

VARIABLES
    reply,          \* check: what its dependency would answer
    inflight,       \* _inflight
    fresh,          \* the last report is at most cache_ttl_seconds old
    waiter,         \* check: where bounded_check is in this round
    verdict,        \* check: what it returned
    slot,           \* check: the slot of this round's thread, 0: none
    gate,           \* checks whose semaphore is free
    thread,         \* <<check, slot>>: where its thread is
    outcome,        \* <<check, slot>>: what the thread found
    cancelled,      \* probes with _cancel_requested
    captured,       \* probe: what cancel() is about to close
    known,          \* probe: the client and response registered with it
    open,           \* <<check, slot, "client" | "response">>: connections
    wasGood,        \* checks whose dependency was well at some time of this round
    rounds, silences

Slots == {1, 2}
Threads == Checks \X Slots

registry == <<inflight, fresh, rounds>>
round == <<waiter, verdict, slot>>
threads == <<gate, thread, outcome>>
probe == <<cancelled, captured, known, open>>
world == <<reply, silences, wasGood>>
vars == <<registry, round, threads, probe, world>>

Init ==
    /\ reply = [c \in Checks |-> "good"] /\ silences = 0
    /\ wasGood = {}
    /\ inflight = FALSE /\ fresh = FALSE /\ rounds = 0
    /\ waiter = [c \in Checks |-> "idle"] /\ verdict = [c \in Checks |-> FALSE]
    /\ slot = [c \in Checks |-> 0]
    /\ gate = Checks /\ thread = [x \in Threads |-> "none"]
    /\ outcome = [x \in Threads |-> FALSE]
    /\ cancelled = {} /\ captured = [c \in Probes |-> {}] /\ known = [c \in Probes |-> {}]
    /\ open = {}

-----------------------------------------------------------------------------
\* The registry.  A request that finds a fresh report or a round under way is
\* answered at once; any other runs a round.
Begin ==
    /\ ~fresh /\ ~inflight /\ rounds < MaxRounds
    /\ inflight' = TRUE /\ rounds' = rounds + 1
    /\ waiter' = [c \in Checks |-> "start"]
    /\ wasGood' = {c \in Checks : reply[c] = "good"}
    /\ UNCHANGED <<fresh, verdict, slot, threads, probe, reply, silences>>
Finish ==
    /\ inflight /\ \A c \in Checks : waiter[c] = "done"
    /\ fresh' = TRUE /\ inflight' = FALSE
    /\ waiter' = [c \in Checks |-> "idle"]
    /\ verdict' = [c \in Checks |-> FALSE] /\ slot' = [c \in Checks |-> 0]
    /\ wasGood' = {}
    /\ UNCHANGED <<rounds, threads, probe, reply, silences>>
GrowsOld ==
    /\ fresh
    /\ fresh' = FALSE
    /\ UNCHANGED <<inflight, rounds, round, threads, probe, world>>

-----------------------------------------------------------------------------
\* bounded_check of _hard_timeout_check.

Return(c, v) ==
    /\ waiter' = [waiter EXCEPT ![c] = "done"]
    /\ verdict' = [verdict EXCEPT ![c] = v]
StartThread(c) ==
    /\ waiter[c] = "start" /\ c \in gate
    /\ LET s == IF thread[<<c, 1>>] = "none" THEN 1 ELSE 2 IN
          /\ slot' = [slot EXCEPT ![c] = s]
          /\ thread' = [thread EXCEPT ![<<c, s>>] = "call"]
          /\ outcome' = [outcome EXCEPT ![<<c, s>>] = FALSE]
    /\ gate' = gate \ {c}
    /\ waiter' = [waiter EXCEPT ![c] = "wait"]
    /\ UNCHANGED <<registry, verdict, probe, world>>
GateTaken(c) ==
    /\ waiter[c] = "start" /\ c \notin gate
    /\ Return(c, FALSE)
    /\ UNCHANGED <<registry, slot, threads, probe, world>>
Done(c) == thread[<<c, slot[c]>>] = "none"
AnyOutcome(c) == \E s \in Slots : outcome[<<c, s>>]       \* mutant: shared by all runs
OwnOutcome(c) == outcome[<<c, slot[c]>>]
Collect(c) ==
    /\ waiter[c] = "wait" /\ Done(c)
    /\ Return(c, OwnOutcome(c))
    /\ UNCHANGED <<registry, slot, threads, probe, world>>
TimesOut(c) ==
    /\ waiter[c] = "wait" /\ ~Done(c)
    /\ IF c \in Probes THEN waiter' = [waiter EXCEPT ![c] = "cancel"] /\ UNCHANGED verdict
                       ELSE Return(c, FALSE)
    /\ UNCHANGED <<registry, slot, threads, probe, world>>

\* cancel(): flag and capture under the probe's lock, close outside of it.
Running(c) == \E s \in Slots :
                  thread[<<c, s>>] \in {"client", "register", "send", "respond", "read", "end"}
Cancel(c) ==
    /\ waiter[c] = "cancel"
    /\ IF Running(c)
       THEN /\ cancelled' = cancelled \cup {c}
            /\ captured' = [captured EXCEPT ![c] = known[c]]
            /\ waiter' = [waiter EXCEPT ![c] = "close"]
       ELSE /\ waiter' = [waiter EXCEPT ![c] = "join"]
            /\ UNCHANGED <<cancelled, captured>>
    /\ UNCHANGED <<registry, verdict, slot, threads, known, open, world>>
CloseCaptured(c) ==
    /\ waiter[c] = "close"
    /\ open' = open \ captured[c]
    /\ captured' = [captured EXCEPT ![c] = {}]
    /\ waiter' = [waiter EXCEPT ![c] = "join"]
    /\ UNCHANGED <<registry, verdict, slot, threads, cancelled, known, world>>
\* join() gives up after a grace period.
Joined(c) ==
    /\ waiter[c] = "join"
    /\ Return(c, FALSE)
    /\ UNCHANGED <<registry, slot, threads, probe, world>>

-----------------------------------------------------------------------------
\* The thread of a check.

At(c, s, label) == thread[<<c, s>>] = label
Move(c, s, label) == thread' = [thread EXCEPT ![<<c, s>>] = label]
Found(c, s, v) == outcome' = [outcome EXCEPT ![<<c, s>>] = v]

\* The verdict on a reply, or on the silence that the connection's own timeouts
\* end: status, encoding, length, text
\* or status member for the plain checks, the pinned model for the probes.
Accepted(answer) == answer = "good"
PlainCheck(c, s) ==
    /\ c \notin Probes /\ At(c, s, "call")
    /\ Found(c, s, Accepted(reply[c]))
    /\ Move(c, s, "release")
    /\ UNCHANGED <<registry, round, gate, probe, world>>

\* _CancellableMetadataProbe.__call__: state of an earlier run is cleared, then
\* client, stream, response, payload; each is registered so that cancel() can
\* close it, and refused once cancelled.
BeginProbe(c, s) ==
    /\ c \in Probes /\ At(c, s, "call")
    /\ cancelled' = cancelled \ {c}
    /\ known' = [known EXCEPT ![c] = {}]
    /\ Move(c, s, "client")
    /\ UNCHANGED <<registry, round, gate, outcome, captured, open, world>>
CreateClient(c, s) ==
    /\ At(c, s, "client")
    /\ \/ /\ open' = open \cup {<<c, s, "client">>}
          /\ Move(c, s, "register") /\ UNCHANGED outcome
       \/ /\ Found(c, s, FALSE) /\ Move(c, s, "end")
          /\ UNCHANGED open
    /\ UNCHANGED <<registry, round, gate, cancelled, captured, known, world>>
MayRegister(c) == c \notin cancelled
Register(c, s, what, next) ==
    IF MayRegister(c)
    THEN /\ known' = [known EXCEPT ![c] = @ \cup {<<c, s, what>>}]
         /\ Move(c, s, next)
         /\ UNCHANGED <<outcome, open>>
    ELSE /\ open' = open \ {<<c, s, what>>}
         /\ Found(c, s, FALSE) /\ Move(c, s, "end")
         /\ UNCHANGED known
RegisterClient(c, s) ==
    /\ At(c, s, "register")
    /\ Register(c, s, "client", "send")
    /\ UNCHANGED <<registry, round, gate, cancelled, captured, world>>
Gone(c, s, what) == <<c, s, what>> \notin open
Fails(c, s) ==
    /\ Found(c, s, FALSE) /\ Move(c, s, "end")
    /\ UNCHANGED open
Send(c, s) ==
    /\ At(c, s, "send")
    /\ \/ /\ ~Gone(c, s, "client") /\ reply[c] # "silent"
          /\ open' = open \cup {<<c, s, "response">>}
          /\ Move(c, s, "respond") /\ UNCHANGED outcome
       \/ (Gone(c, s, "client") \/ reply[c] = "silent") /\ Fails(c, s)
    /\ UNCHANGED <<registry, round, gate, cancelled, captured, known, world>>
RegisterResponse(c, s) ==
    /\ At(c, s, "respond")
    /\ Register(c, s, "response", "read")
    /\ UNCHANGED <<registry, round, gate, cancelled, captured, world>>
Read(c, s) ==
    /\ At(c, s, "read")
    /\ LET gone == Gone(c, s, "response") \/ Gone(c, s, "client") IN
       /\ Found(c, s, ~gone /\ Accepted(reply[c]))
       /\ Move(c, s, "end")
    /\ UNCHANGED <<registry, round, gate, probe, world>>

\* The finally blocks: the stream and the client are closed, the run is over.
EndProbe(c, s) ==
    /\ At(c, s, "end")
    /\ open' = open \ {<<c, s, "client">>, <<c, s, "response">>}
    /\ known' = [known EXCEPT ![c] = {}]
    /\ Move(c, s, "release")
    /\ UNCHANGED <<registry, round, gate, outcome, cancelled, captured, world>>
\* run_check ends: gate, then done.
Release(c, s) ==
    /\ At(c, s, "release")
    /\ gate' = gate \cup {c}
    /\ Move(c, s, "none")
    /\ UNCHANGED <<registry, round, outcome, probe, world>>

-----------------------------------------------------------------------------
\* The dependencies.
Changes(c) ==
    /\ \E r \in {"good", "bad", "silent"} \ {reply[c]} :
          /\ r = "good" \/ silences < Silent
          /\ reply' = [reply EXCEPT ![c] = r]
          /\ silences' = IF r = "good" THEN silences ELSE silences + 1
          /\ wasGood' = IF r = "good" /\ inflight THEN wasGood \cup {c} ELSE wasGood
    /\ UNCHANGED <<registry, round, threads, probe>>

Wait(c) == \/ StartThread(c) \/ GateTaken(c) \/ Collect(c) \/ TimesOut(c)
           \/ Cancel(c) \/ CloseCaptured(c) \/ Joined(c)
Work(c, s) ==
    \/ PlainCheck(c, s) \/ BeginProbe(c, s) \/ CreateClient(c, s) \/ RegisterClient(c, s)
    \/ Send(c, s) \/ RegisterResponse(c, s) \/ Read(c, s) \/ EndProbe(c, s) \/ Release(c, s)
Next ==
    \/ Begin \/ Finish \/ GrowsOld
    \/ \E c \in Checks : Wait(c) \/ Changes(c) \/ \E s \in Slots : Work(c, s)

Spec == Init /\ [][Next]_vars

\* Waiters and threads run; every connection has timeouts of its own.
Fairness ==
    /\ WF_vars(Finish)
    /\ \A c \in Checks :
          /\ WF_vars(Wait(c))
          /\ \A s \in Slots : WF_vars(Work(c, s))

-----------------------------------------------------------------------------
Labels == {"none", "call", "client", "register", "send", "respond", "read", "end", "release"}
TypeOK ==
    /\ reply \in [Checks -> {"good", "bad", "silent"}] /\ silences \in 0..Silent /\ rounds \in 0..MaxRounds
    /\ inflight \in BOOLEAN /\ fresh \in BOOLEAN /\ wasGood \subseteq Checks
    /\ waiter \in [Checks -> {"idle", "start", "wait", "cancel", "close", "join", "done"}]
    /\ verdict \in [Checks -> BOOLEAN] /\ slot \in [Checks -> {0} \cup Slots]
    /\ gate \subseteq Checks /\ thread \in [Threads -> Labels]
    /\ outcome \in [Threads -> BOOLEAN] /\ cancelled \subseteq Probes

\* However often a dependency hangs, it has one thread at most; a cancellation
\* reaches the run it was meant for, the only one; and no connection outlives
\* its thread.
OneThread ==
    \A c \in Checks :
        Cardinality({s \in Slots : ~At(c, s, "none")}) = (IF c \in gate THEN 0 ELSE 1)
CancelsItsOwn ==
    \A c \in Probes : waiter[c] \in {"cancel", "close"} =>
        \A s \in Slots : s # slot[c] => At(c, s, "none")
NothingLeft ==
    \A x \in open : ~At(x[1], x[2], "none")

\* A check is reported well only if its dependency was well during the round:
\* the answer of a thread that an earlier round gave up on counts for nothing.
NoLateVerdict == \A c \in Checks : verdict[c] => c \in wasGood

ChecksSound == TypeOK /\ OneThread /\ CancelsItsOwn /\ NothingLeft /\ NoLateVerdict

\* A round ends although a dependency does not answer, and every thread gives
\* its gate back.
Quiet == ~inflight /\ gate = Checks
=============================================================================
