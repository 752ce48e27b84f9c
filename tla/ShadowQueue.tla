----------------------------- MODULE ShadowQueue -----------------------------
(***************************************************************************)
(* The two bounded queues of the retrieval router, each with one daemon    *)
(* thread: shadow comparisons and sanitized failure logs.  Requests submit *)
(* without waiting; close() discards what is pending, tells the worker to  *)
(* stop and waits for it for a while.                                      *)
(*                                                                         *)
(*   backend/app/retrieval_router.py   ShadowQueue, SanitizedLogQueue      *)
(*                                                                         *)
(* The worker takes from the queue without the lock.  A task may end in an *)
(* interrupt (KeyboardInterrupt, SystemExit): the shadow worker then       *)
(* closes the queue itself (Cleans), the log worker just dies.             *)
(***************************************************************************)
EXTENDS Naturals, Sequences, FiniteSets

CONSTANTS
    Tasks,          \* each is submitted at most once
    Closers,        \* threads that call close()
    MaxSize,        \* max_size
    MaxCloses,      \* bound: calls of close() per closer
    Cleans,         \* TRUE: ShadowQueue, FALSE: SanitizedLogQueue
    Stop,           \* _STOP
    Nobody

VARIABLES
    queue,      \* _queue
    lock,       \* who holds _lock over several steps
    closing, closed,
    dropped,    \* _dropped_count
    worker,     \* the thread: "get", "run", "clean", "exiting" or "dead"
    task,       \* what it took
    pc,         \* closer: where it is
    calls,      \* closer: calls of close()
    fate        \* task: "new", "accepted", "refused", "discarded", "done", "interrupted"

vars == <<queue, lock, closing, closed, dropped, worker, task, pc, calls, fate>>

Threads == Closers \cup {Stop}      \* Stop stands for the worker as a lock holder

Init ==
    /\ queue = <<>> /\ lock = Nobody
    /\ closing = FALSE /\ closed = FALSE
    /\ dropped = 0
    /\ worker \in IF Cleans THEN {"get"} ELSE {"get", "dead"}   \* the start may fail
    /\ task = Nobody
    /\ pc = [c \in Closers |-> "idle"]
    /\ calls = [c \in Closers |-> 0]
    /\ fate = [t \in Tasks |-> "new"]

Alive == worker # "dead"
Goto(c, label) == pc' = [pc EXCEPT ![c] = label]
Becomes(t, f) == fate' = [fate EXCEPT ![t] = f]

-----------------------------------------------------------------------------
\* submit
Refuses == closing \/ closed \/ ~Alive
HasRoom == Len(queue) < MaxSize

Submit(t) ==
    /\ lock = Nobody /\ fate[t] = "new"
    /\ IF ~Refuses /\ HasRoom
       THEN /\ queue' = Append(queue, t)
            /\ Becomes(t, "accepted")
            /\ UNCHANGED dropped
       ELSE /\ dropped' = dropped + 1
            /\ Becomes(t, "refused")
            /\ UNCHANGED queue
    /\ UNCHANGED <<lock, closing, closed, worker, task, pc, calls>>

\* _discard_pending_locked, one element; the worker may take the next one.
EveryElement(x) == 1        \* mutant: the stop marker is counted as a task
Counted(x) == IF x = Stop THEN 0 ELSE 1
DiscardOne ==
    /\ queue # <<>>
    /\ queue' = Tail(queue)
    /\ dropped' = dropped + Counted(Head(queue))
    /\ IF Head(queue) = Stop THEN UNCHANGED fate ELSE Becomes(Head(queue), "discarded")

-----------------------------------------------------------------------------
(* close                                                                   *)

CallClose(c) ==
    /\ pc[c] = "idle" /\ calls[c] < MaxCloses
    /\ lock = Nobody
    /\ calls' = [calls EXCEPT ![c] = @ + 1]
    /\ \/ closed /\ UNCHANGED <<lock, closing, pc>>
       \/ ~closed /\ closing /\ Goto(c, "join") /\ UNCHANGED <<lock, closing>>
       \/ ~closed /\ ~closing /\ closing' = TRUE /\ lock' = c /\ Goto(c, "discard")
    /\ UNCHANGED <<queue, closed, dropped, worker, task, fate>>

Discard(c) ==
    /\ pc[c] = "discard"
    /\ DiscardOne
    /\ UNCHANGED <<lock, closing, closed, worker, task, pc, calls>>

NoMarker == <<>>            \* mutant: the worker is not told to stop
Marker == <<Stop>>
TellWorker(c) ==
    /\ pc[c] = "discard" /\ queue = <<>>
    /\ IF Alive
       THEN queue' = Marker /\ Goto(c, "join") /\ UNCHANGED closed
       ELSE closed' = TRUE /\ Goto(c, "idle") /\ UNCHANGED queue
    /\ lock' = Nobody
    /\ UNCHANGED <<closing, dropped, worker, task, calls, fate>>

\* The join ends with the worker or with the timeout.
WorkerGone == ~Alive
Joined(c) ==
    /\ pc[c] = "join" /\ lock = Nobody /\ WorkerGone
    /\ closed' = TRUE
    /\ Goto(c, "idle")
    /\ UNCHANGED <<queue, lock, closing, dropped, worker, task, calls, fate>>
JoinTimesOut(c) ==
    /\ pc[c] = "join" /\ Alive
    /\ Goto(c, "idle")
    /\ UNCHANGED <<queue, lock, closing, closed, dropped, worker, task, calls, fate>>

-----------------------------------------------------------------------------
(* _run                                                                    *)

Rest(q) == Tail(q)
Get ==
    /\ worker = "get" /\ queue # <<>>
    /\ queue' = Rest(queue)
    /\ task' = Head(queue)
    /\ worker' = IF Head(queue) = Stop THEN "exiting" ELSE "run"
    /\ UNCHANGED <<lock, closing, closed, dropped, pc, calls, fate>>

\* _run_task: its own failures are absorbed.
RunTask ==
    /\ worker = "run"
    /\ task' = Nobody
    /\ \/ Becomes(task, "done") /\ worker' = "get"
       \/ Becomes(task, "interrupted") /\ worker' = IF Cleans THEN "clean" ELSE "exiting"
    /\ UNCHANGED <<queue, lock, closing, closed, dropped, pc, calls>>

BeginClean ==
    /\ worker = "clean" /\ lock = Nobody
    /\ lock' = Stop
    /\ closing' = TRUE
    /\ UNCHANGED <<queue, closed, dropped, worker, task, pc, calls, fate>>
Clean ==
    /\ worker = "clean" /\ lock = Stop
    /\ \/ DiscardOne /\ UNCHANGED <<lock, worker>>
       \/ queue = <<>> /\ lock' = Nobody /\ worker' = "exiting"
            /\ UNCHANGED <<queue, dropped, fate>>
    /\ UNCHANGED <<closing, closed, task, pc, calls>>

\* The thread is alive until it has really returned.
Exit ==
    /\ worker = "exiting"
    /\ worker' = "dead"
    /\ UNCHANGED <<queue, lock, closing, closed, dropped, task, pc, calls, fate>>

-----------------------------------------------------------------------------
Run == Get \/ RunTask \/ BeginClean \/ Clean \/ Exit
Close(c) == CallClose(c) \/ Discard(c) \/ TellWorker(c) \/ Joined(c) \/ JoinTimesOut(c)

Next == Run \/ (\E t \in Tasks : Submit(t)) \/ (\E c \in Closers : Close(c))

Spec == Init /\ [][Next]_vars

\* Threads run; a task ends (the retrieval has a deadline, the log sink and the
\* audit's database time out).
Fairness ==
    /\ WF_vars(Run)
    /\ \A c \in Closers : WF_vars(Discard(c) \/ TellWorker(c) \/ Joined(c) \/ JoinTimesOut(c))
FairSpec == Spec /\ Fairness

-----------------------------------------------------------------------------
Count(fates) == Cardinality({t \in Tasks : fate[t] \in fates})
Elements == {queue[i] : i \in DOMAIN queue}

\* Types; the queue never holds more than its size, the stop marker included,
\* so putting the marker cannot fail with queue.Full.
TypeOK ==
    /\ queue \in Seq(Tasks \cup {Stop}) /\ Len(queue) <= MaxSize
    /\ lock \in Threads \cup {Nobody}
    /\ closing \in BOOLEAN /\ closed \in BOOLEAN
    /\ dropped \in 0..Cardinality(Tasks)
    /\ worker \in {"get", "run", "clean", "exiting", "dead"}
    /\ task \in Tasks \cup {Stop, Nobody}
    /\ pc \in [Closers -> {"idle", "discard", "join"}]
    /\ calls \in [Closers -> 0..MaxCloses]
    /\ fate \in [Tasks -> {"new", "accepted", "refused", "discarded", "done", "interrupted"}]

\* No task disappears: the counter shows exactly the tasks that were not run,
\* every other accepted task is queued or in the worker's hands.
DroppedExact ==
    /\ dropped = Count({"refused", "discarded"})
    /\ {t \in Tasks : fate[t] = "accepted"} = (Elements \cup {task}) \cap Tasks

\* Closed is final: the worker is gone and nothing is left behind it.
ClosedIsQuiet ==
    closed => ~Alive /\ (Cleans => queue = <<>>) /\ lock = Nobody

\* The books of a queue: exact, within its bound, and final once it is closed.
QueueSound == TypeOK /\ DroppedExact /\ ClosedIsQuiet

\* Whoever calls close(), even if it gave up waiting, the worker ends.
WorkerStops == closing ~> ~Alive

=============================================================================
