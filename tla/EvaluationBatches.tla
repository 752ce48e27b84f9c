--------------------------- MODULE EvaluationBatches ---------------------------
(***************************************************************************)
(* The evaluation batches of the admin workbench over the SQL store.       *)
(*                                                                         *)
(*   backend/app/sql_repository.py   create, run and delete                *)
(*   backend/app/evaluation.py       the verdict on one case               *)
(*   backend/app/routes.py           the background task of a batch        *)
(*                                                                         *)
(* A batch is inserted as queued and run by a background task of the same  *)
(* process: one transaction claims it, one records each run with the       *)
(* counters, one completes it.  Other requests delete cases and run cases  *)
(* by hand in between.  Transactions are READ COMMITTED: what a request    *)
(* checks may be stale when it writes.  A write may fail, and the process  *)
(* may die; nothing claims a batch a second time.                          *)
(***************************************************************************)
EXTENDS Naturals, Sequences, FiniteSets

CONSTANTS
    Cases,          \* ids in evaluation_cases at the start
    NoAnswer,       \* those with expect_answer FALSE
    Batches,        \* ids that batches may get
    MaxManual,      \* bound: runs by hand
    MaxTroubles     \* bound: failing writes and deaths of the process

\* A run by hand has no batch; "manual" stands for that.
ASSUME FiniteCases == IsFiniteSet(Cases)
ASSUME ManualIsNoBatch == "manual" \notin Batches
ASSUME BatchBounds == {MaxManual, MaxTroubles} \subseteq Nat

VARIABLES
    cases,      \* the ids in evaluation_cases
    batches,    \* evaluation_batches: id -> row
    runs,       \* evaluation_runs
    counter,    \* evaluation_counters.next_value
    creating,   \* batch: the cases of a request that passed its check
    deleting,   \* cases whose deletion passed its checks
    task,       \* batch: its background task
    manual,     \* the cases of a run by hand under way, and how many there were
    troubles

store == <<cases, batches, runs, counter>>
vars == <<store, creating, deleting, task, manual, troubles>>

\* The case ids of a request are made unique and keep their order.
Selections == {s \in UNION {[1..n -> Cases] : n \in 1..Cardinality(Cases)} :
                  \A i, j \in DOMAIN s : i # j => s[i] # s[j]}
Ids(selection) == {selection[i] : i \in DOMAIN selection}
NoBatch == [status |-> "none", cases |-> <<>>, done |-> 0, passed |-> 0, failed |-> 0,
            falsePositive |-> 0]
Idle == [at |-> "none", left |-> <<>>]

Init ==
    /\ cases = Cases
    /\ batches = [b \in Batches |-> NoBatch]
    /\ runs = {} /\ counter = 1
    /\ creating = [b \in Batches |-> <<>>]
    /\ deleting = {}
    /\ task = [b \in Batches |-> Idle]
    /\ manual = [selection |-> <<>>, started |-> 0]
    /\ troubles = 0

Exists(b) == batches[b].status # "none"
Trouble == troubles < MaxTroubles /\ troubles' = troubles + 1
Go(b, at, left) == task' = [task EXCEPT ![b] = [at |-> at, left |-> left]]
Update(b, row) == batches' = [batches EXCEPT ![b] = row]

-----------------------------------------------------------------------------
(* POST /admin/evaluations/batches: check, insert, add the task.           *)

CheckBatchRequest(b, selection) ==
    /\ ~Exists(b) /\ creating[b] = <<>>
    /\ Ids(selection) \subseteq cases
    /\ creating' = [creating EXCEPT ![b] = selection]
    /\ UNCHANGED <<store, deleting, task, manual, troubles>>

CreateBatch(b) ==
    /\ creating[b] # <<>>
    /\ Update(b, [NoBatch EXCEPT !.status = "queued", !.cases = creating[b]])
    /\ creating' = [creating EXCEPT ![b] = <<>>]
    /\ Go(b, "waiting", <<>>)
    /\ UNCHANGED <<cases, runs, counter, deleting, manual, troubles>>

-----------------------------------------------------------------------------
(* run_evaluation_batch                                                    *)

\* The conditional update, and in the same transaction the cases.  A batch of
\* which a case is gone by now cannot start.
OnceMissing == "search"     \* mutant: no return after the status was set
AfterMissing == "ended"
ClaimBatch(b) ==
    /\ task[b].at = "waiting" /\ batches[b].status = "queued"
    /\ IF Ids(batches[b].cases) \subseteq cases
       THEN /\ Update(b, [batches[b] EXCEPT !.status = "running"])
            /\ Go(b, "search", batches[b].cases)
       ELSE /\ Update(b, [batches[b] EXCEPT !.status = "failed"])
            /\ Go(b, AfterMissing, <<>>)
    /\ UNCHANGED <<cases, runs, counter, creating, deleting, manual, troubles>>

\* build_evaluation_run, build_failed_evaluation_run: hits where no answer is
\* expected are a false positive, which is never a pass; a case that expects
\* one fails without hits or with expected sources or terms missing.
Verdicts(case) ==
    {[status |-> "passed", falsePositive |-> FALSE], [status |-> "failed", falsePositive |-> FALSE]}
        \cup (IF case \in NoAnswer THEN {[status |-> "failed", falsePositive |-> TRUE]} ELSE {})

\* The numbers that UPDATE ... RETURNING hands out to n runs: it locks the
\* counter until the transaction ends, so they are committed in their order.
Returned(n, i) == counter + n - i   \* mutant: counted down from the value returned
Sequence(n, i) == counter + i - 1
Run(sequence, case, batch, verdict) ==
    [sequence |-> sequence, case |-> case, batch |-> batch, verdict |-> verdict]

One(condition) == IF condition THEN 1 ELSE 0
CountTwice(row, verdict) ==         \* mutant: a false positive is not a failure
    [row EXCEPT !.done = @ + 1,
                !.passed = @ + One(verdict.status = "passed" \/ verdict.falsePositive),
                !.failed = @ + One(verdict.status # "passed"),
                !.falsePositive = @ + One(verdict.falsePositive)]
Counted(row, verdict) ==
    [row EXCEPT !.done = @ + 1,
                !.passed = @ + One(verdict.status = "passed"),
                !.failed = @ + One(verdict.status # "passed"),
                !.falsePositive = @ + One(verdict.falsePositive)]

\* The search may raise: that is a failed run.  The run refers to its case.
RecordRun(b) ==
    /\ task[b].at = "search" /\ task[b].left # <<>>
    /\ LET case == Head(task[b].left) IN
       \/ /\ case \in cases
          /\ \E verdict \in Verdicts(case) :
              /\ runs' = runs \cup {Run(Sequence(1, 1), case, b, verdict)}
              /\ Update(b, Counted(batches[b], verdict))
          /\ counter' = counter + 1
          /\ Go(b, "search", Tail(task[b].left))
       \/ /\ case \notin cases
          /\ Go(b, "failing", <<>>)
          /\ UNCHANGED <<batches, runs, counter>>
    /\ UNCHANGED <<cases, creating, deleting, manual, troubles>>

CompleteBatch(b) ==
    /\ task[b].at = "search" /\ task[b].left = <<>>
    /\ Update(b, [batches[b] EXCEPT !.status = "completed"])
    /\ Go(b, "ended", <<>>)
    /\ UNCHANGED <<cases, runs, counter, creating, deleting, manual, troubles>>

MarkFailed(b) ==
    /\ task[b].at = "failing"
    /\ Update(b, [batches[b] EXCEPT !.status = "failed"])
    /\ Go(b, "ended", <<>>)
    /\ UNCHANGED <<cases, runs, counter, creating, deleting, manual, troubles>>

\* Any transaction of the task may fail: it is rolled back, and the failure is
\* recorded in another one.  When that fails too the exception leaves the task.
RaiseOut(at) == "raised"            \* mutant: the exception is not caught
AfterFailure(at) == IF at = "failing" THEN "unmarked" ELSE "failing"
WriteFails(b) ==
    /\ task[b].at \in {"waiting", "search", "failing"}
    /\ Trouble
    /\ Go(b, AfterFailure(task[b].at), <<>>)
    /\ UNCHANGED <<store, creating, deleting, manual>>

Crash ==
    /\ Trouble
    /\ creating' = [b \in Batches |-> <<>>]
    /\ deleting' = {}
    /\ task' = [b \in Batches |->
                  IF task[b].at \in {"waiting", "search", "failing"}
                  THEN [at |-> "killed", left |-> <<>>] ELSE task[b]]
    /\ manual' = [manual EXCEPT !.selection = <<>>]
    /\ UNCHANGED store

-----------------------------------------------------------------------------
(* delete_evaluation_case, run_evaluation_cases                            *)

CheckDelete(c) ==
    /\ c \in cases \ deleting
    /\ \A b \in Batches : c \notin Ids(batches[b].cases)
    /\ deleting' = deleting \cup {c}
    /\ UNCHANGED <<store, creating, task, manual, troubles>>

\* The runs go with the case, those that were added since the check too (the
\* foreign key cascades).
NotFromBatches(c, run) == run.case # c \/ run.batch # "manual"  \* mutant: only runs by hand
Kept(c, run) == run.case # c
DeleteCase(c) ==
    /\ c \in deleting
    /\ cases' = cases \ {c}
    /\ runs' = {run \in runs : Kept(c, run)}
    /\ deleting' = deleting \ {c}
    /\ UNCHANGED <<batches, counter, creating, task, manual, troubles>>

SelectCases(selection) ==
    /\ manual.selection = <<>> /\ manual.started < MaxManual
    /\ Ids(selection) \subseteq cases
    /\ manual' = [selection |-> selection, started |-> manual.started + 1]
    /\ UNCHANGED <<store, creating, deleting, task, troubles>>

\* All runs by hand are one transaction; a case that is gone rolls it back.
RecordRuns ==
    /\ manual.selection # <<>>
    /\ \/ /\ Ids(manual.selection) \subseteq cases
          /\ LET n == Len(manual.selection) IN
             /\ \E verdict \in [1..n -> UNION {Verdicts(c) : c \in Cases}] :
                  /\ \A i \in 1..n : verdict[i] \in Verdicts(manual.selection[i])
                  /\ runs' = runs \cup {Run(Sequence(n, i), manual.selection[i], "manual", verdict[i]) :
                                        i \in 1..n}
             /\ counter' = counter + n
       \/ /\ ~ Ids(manual.selection) \subseteq cases
          /\ UNCHANGED <<runs, counter>>
    /\ manual' = [manual EXCEPT !.selection = <<>>]
    /\ UNCHANGED <<cases, batches, creating, deleting, task, troubles>>

-----------------------------------------------------------------------------
Request ==
    \/ \E b \in Batches :
        \/ CreateBatch(b)
        \/ \E selection \in Selections : CheckBatchRequest(b, selection)
    \/ \E c \in Cases : CheckDelete(c) \/ DeleteCase(c)
    \/ RecordRuns \/ \E selection \in Selections : SelectCases(selection)
Task(b) == ClaimBatch(b) \/ RecordRun(b) \/ CompleteBatch(b) \/ MarkFailed(b)
Next == Request \/ Crash \/ \E b \in Batches : Task(b) \/ WriteFails(b)

Spec == Init /\ [][Next]_vars

\* A background task is never abandoned by a living process.
Moves == \E b \in Batches : Task(b)
Fairness == WF_vars(Moves)

-----------------------------------------------------------------------------
RunsOf(b) == {run \in runs : run.batch = b}
Verdict(some, status) == {run \in some : run.verdict.status = status}

\* Types, and what the report of a batch relies on: as long as its cases exist
\* a batch has one run for each of its first completed_count cases and its
\* counters are those of its runs (run_evaluation_batch); a completed batch has
\* run all of its cases; no run outlives its case (delete_evaluation_case), no
\* two have the same sequence.
BatchesSound ==
    /\ cases \subseteq Cases /\ deleting \subseteq Cases
    /\ counter \in Nat /\ troubles \in 0..MaxTroubles
    /\ \A run \in runs : run.case \in cases /\ run.sequence < counter
    /\ \A run, other \in runs : run.sequence = other.sequence => run = other
    /\ \A b \in Batches :
        LET row == batches[b] IN
        /\ row.done = row.passed + row.failed
        /\ row.done <= Len(row.cases) /\ row.falsePositive <= row.failed
        /\ row.status \in {"none", "queued"} => row.done = 0
        /\ row.status = "completed" => row.done = Len(row.cases)
        /\ Ids(row.cases) \subseteq cases =>
            /\ {run.case : run \in RunsOf(b)} = {row.cases[i] : i \in 1..row.done}
            /\ Cardinality(RunsOf(b)) = row.done
            /\ Cardinality(Verdict(RunsOf(b), "passed")) = row.passed
            /\ Cardinality({run \in RunsOf(b) : run.verdict.falsePositive}) = row.falsePositive

\* A batch that ended keeps its result, and the latest run of a case - the one
\* with the greatest sequence, which decides its status in the list of cases -
\* is the one recorded last (evaluation_run_sequence_allocation_statement).
HistoryStands ==
    [][/\ \A b \in Batches :
            batches[b].status \in {"completed", "failed"} => batches'[b] = batches[b]
       /\ \A run \in runs' \ runs : \A earlier \in runs :
            earlier.case = run.case => earlier.sequence < run.sequence
       /\ \A run \in runs \ runs' : run.case \notin cases']_vars

\* A batch whose process lives ends as completed or failed, unless the write
\* that marks it failed fails too ("只有批次无法启动或批次级持久化失败时，
\* 整个批次才标记为 failed", generic-evaluation-workbench-design.md:151).
Settled ==
    \A b \in Batches :
        \/ batches[b].status \in {"none", "completed", "failed"}
        \/ task[b].at \in {"killed", "unmarked"}
BatchEnds == []<>Settled

=============================================================================
