------------------------- MODULE ChatRepositoryProofs -------------------------
(***************************************************************************)
(* Theorems about the chat repository, for any number of cases, batches,   *)
(* tokens, conversations and requests.  The parts of MCChatRepository are  *)
(* taken one after the other.                                              *)
(*                                                                         *)
(* Batches: four groups of facts, each inductive with those before it.     *)
(* Types: the domains of the variables, where a selection names no case    *)
(* twice.  Progress: what the task of a batch has left is what its row has *)
(* not counted.  History: a run is of one of the counted cases of its      *)
(* batch, its sequence is its own and smaller than the counter.  Counts:   *)
(* as long as no case of a batch is deleted, each counted case has its run *)
(* and the counters are numbers of runs.                                   *)
(*                                                                         *)
(* Conversations (ChatInv): a row that is locked is locked by a request    *)
(* that shifts it, the messages are the exchanges of the sends that ended, *)
(* and no request has read more turns than were exchanged.                 *)
(*                                                                         *)
(* Import (ImportInv): who has read the cases holds the locks of the keys  *)
(* it looks up and has seen every case with one of them, and a preview     *)
(* belongs to at most one confirmation that is under way.                  *)
(*                                                                         *)
(* Pages (ViewInv, ReportInv, SourceInv, CasesInv): which requests of a    *)
(* page still count, at most one per place, and what is shown because of   *)
(* them.                                                                   *)
(***************************************************************************)
EXTENDS MCChatRepository, FiniteSetTheorems, WellFoundedInduction, TLAPS


\* A false positive is never a pass.
VerdictRecord ==
    {v \in [status : {"passed", "failed"}, falsePositive : BOOLEAN] :
        v.falsePositive => v.status = "failed"}
RunRecord == [sequence : Nat, case : Cases, batch : Batches \cup {"manual"},
              verdict : VerdictRecord]
BatchRecord == [status : {"none", "queued", "running", "completed", "failed"},
                cases : Seq(Cases), done : Nat, passed : Nat, failed : Nat,
                falsePositive : Nat]
TaskRecord == [at : {"none", "waiting", "search", "failing", "ended", "unmarked", "killed"},
               left : Seq(Cases)]
Distinct(s) == \A i, j \in DOMAIN s : i # j => s[i] # s[j]

Scalars ==
    /\ cases \subseteq Cases /\ deleting \subseteq Cases
    /\ counter \in Nat /\ troubles \in 0..MaxTroubles
    /\ creating \in [Batches -> Seq(Cases)]
    /\ \A b \in Batches : Distinct(creating[b])
    /\ manual \in [selection : Seq(Cases), started : Nat]
RowTypes ==
    /\ batches \in [Batches -> BatchRecord]
    /\ \A b \in Batches : Distinct(batches[b].cases)
TaskTypes == task \in [Batches -> TaskRecord]
RunTypes == runs \subseteq RunRecord /\ IsFiniteSet(runs)
Types == Scalars /\ RowTypes /\ TaskTypes /\ RunTypes

\* A row counts what its task has done, and what the task has left are the
\* cases it has not counted.
RowCounts(row) ==
    /\ row.done = row.passed + row.failed
    /\ row.done <= Len(row.cases) /\ row.falsePositive <= row.failed
    /\ row.status \in {"none", "queued"} => row.done = 0
    /\ row.status = "completed" => row.done = Len(row.cases)
LeftOf(row, left) ==
    /\ Len(left) = Len(row.cases) - row.done
    /\ \A i \in 1..Len(left) : left[i] = row.cases[row.done + i]
ProgressOf(b) ==
    /\ RowCounts(batches[b])
    /\ creating[b] # <<>> => batches[b].status = "none"
    /\ task[b].at = "waiting" => batches[b].status = "queued"
    /\ task[b].at = "search" =>
         batches[b].status = "running" /\ LeftOf(batches[b], task[b].left)
    /\ task[b].at = "failing" => batches[b].status \in {"queued", "running"}
Progress == \A b \in Batches : ProgressOf(b)

\* Whatever is deleted, a run is of a case its batch has counted.
History ==
    /\ \A run \in runs : run.case \in cases /\ run.sequence < counter
    /\ \A run, other \in runs : run.sequence = other.sequence => run = other
    /\ \A run \in runs : run.batch # "manual" =>
        \E i \in 1..batches[run.batch].done : run.case = batches[run.batch].cases[i]

CountsOf(b) ==
    /\ \A i \in 1..batches[b].done : \E run \in RunsOf(b) : run.case = batches[b].cases[i]
    /\ Cardinality(RunsOf(b)) = batches[b].done
    /\ Cardinality(Verdict(RunsOf(b), "passed")) = batches[b].passed
    /\ Cardinality({run \in RunsOf(b) : run.verdict.falsePositive})
         = batches[b].falsePositive
Counts == \A b \in Batches : Ids(batches[b].cases) \subseteq cases => CountsOf(b)

\* A selection is a sequence of cases in which none comes twice.
LEMMA SelectionsDistinct ==
  ASSUME NEW s \in Selections
  PROVE  s \in Seq(Cases) /\ Distinct(s)
<1>1. Cardinality(Cases) \in Nat
  BY FiniteCases, FS_CardinalityType
<1>2. PICK n \in 1..Cardinality(Cases) : s \in [1..n -> Cases]
  BY DEF Selections
<1>3. n \in Nat
  BY <1>1
<1> QED
  BY <1>2, <1>3 DEF Selections, Distinct

\* The rows and the tasks after a write.
LEMMA RowWritten ==
  ASSUME RowTypes, NEW b \in Batches, NEW row \in BatchRecord, Update(b, row)
  PROVE  /\ batches' \in [Batches -> BatchRecord]
         /\ batches'[b] = row
         /\ \A d \in Batches \ {b} : batches'[d] = batches[d]
BY DEF RowTypes, Update

\* The tasks after one of them moved.
LEMMA TaskMoved ==
  ASSUME TaskTypes, NEW b \in Batches, NEW spot, NEW left, Go(b, spot, left)
  PROVE  /\ task'[b].at = spot /\ task'[b].left = left
         /\ \A d \in Batches \ {b} : task'[d] = task[d]
         /\ [at |-> spot, left |-> left] \in TaskRecord => TaskTypes'
BY DEF TaskTypes, Go

\* What a row becomes: with another status, and with one more run counted.
LEMMA RowMarked ==
  ASSUME NEW row \in BatchRecord,
         NEW mark \in {"none", "queued", "running", "completed", "failed"}
  PROVE  /\ [row EXCEPT !.status = mark] \in BatchRecord
         /\ [row EXCEPT !.status = mark].status = mark
         /\ [row EXCEPT !.status = mark].cases = row.cases
         /\ [row EXCEPT !.status = mark].done = row.done
         /\ [row EXCEPT !.status = mark].passed = row.passed
         /\ [row EXCEPT !.status = mark].failed = row.failed
         /\ [row EXCEPT !.status = mark].falsePositive = row.falsePositive
BY DEF BatchRecord

\* A row with one more run counted.
LEMMA RowCounted ==
  ASSUME NEW row \in BatchRecord, NEW v \in VerdictRecord
  PROVE  /\ Counted(row, v) \in BatchRecord
         /\ Counted(row, v).status = row.status /\ Counted(row, v).cases = row.cases
         /\ Counted(row, v).done = row.done + 1
         /\ Counted(row, v).passed = row.passed + One(v.status = "passed")
         /\ Counted(row, v).failed = row.failed + One(v.status # "passed")
         /\ Counted(row, v).falsePositive = row.falsePositive + One(v.falsePositive)
<1>1. \A condition \in BOOLEAN : One(condition) \in Nat
  BY DEF One
<1>2. /\ One(v.status = "passed") \in Nat
      /\ One(v.status # "passed") \in Nat
      /\ One(v.falsePositive) \in Nat
  BY <1>1 DEF VerdictRecord
<1> DEFINE p == One(v.status = "passed")
           f == One(v.status # "passed")
           h == One(v.falsePositive)
<1> HIDE DEF p, f, h
<1>3. Counted(row, v) = [row EXCEPT !.done = row.done + 1, !.passed = row.passed + p,
                         !.failed = row.failed + f,
                         !.falsePositive = row.falsePositive + h]
  BY DEF Counted, BatchRecord, p, f, h
<1>4. p \in Nat /\ f \in Nat /\ h \in Nat
  BY <1>2 DEF p, f, h
<1>5. /\ row.done + 1 \in Nat /\ row.passed + p \in Nat /\ row.failed + f \in Nat
      /\ row.falsePositive + h \in Nat
  BY <1>4, SMTT(60) DEF BatchRecord
<1>6. /\ Counted(row, v) \in BatchRecord
      /\ Counted(row, v).status = row.status /\ Counted(row, v).cases = row.cases
      /\ Counted(row, v).done = row.done + 1
      /\ Counted(row, v).passed = row.passed + p
      /\ Counted(row, v).failed = row.failed + f
      /\ Counted(row, v).falsePositive = row.falsePositive + h
  BY <1>3, <1>5 DEF BatchRecord
<1> QED
  BY <1>6 DEF p, f, h

\* The row of a new batch.
LEMMA RowCreated ==
  ASSUME NEW s \in Seq(Cases)
  PROVE  LET row == [NoBatch EXCEPT !.status = "queued", !.cases = s]
         IN  /\ row \in BatchRecord /\ row.status = "queued" /\ row.cases = s
             /\ row.done = 0 /\ row.passed = 0 /\ row.failed = 0 /\ row.falsePositive = 0
BY DEF NoBatch, BatchRecord

\* What a recorded run and what it counts look like.
LEMMA VerdictTypes == ASSUME NEW case PROVE Verdicts(case) \subseteq VerdictRecord
<1>1. /\ [status |-> "passed", falsePositive |-> FALSE] \in VerdictRecord
      /\ [status |-> "failed", falsePositive |-> FALSE] \in VerdictRecord
      /\ [status |-> "failed", falsePositive |-> TRUE] \in VerdictRecord
  BY DEF VerdictRecord
<1> HIDE DEF VerdictRecord
<1> QED
  BY <1>1 DEF Verdicts

\* A recorded run is typed.
LEMMA RunType ==
  ASSUME NEW n \in Nat, NEW c \in Cases, NEW b \in Batches \cup {"manual"},
         NEW v \in VerdictRecord
  PROVE  Run(n, c, b, v) \in RunRecord
BY DEF Run, RunRecord

\* The two outcomes of recording the next case of a batch.
Recorded(b, c, v) ==
    /\ c \in cases /\ v \in Verdicts(c)
    /\ runs' = runs \cup {Run(counter, c, b, v)}
    /\ Update(b, Counted(batches[b], v))
    /\ counter' = counter + 1
    /\ Go(b, "search", Tail(task[b].left))
\* Recording the next case either records a run or gives the batch up.
LEMMA RecordRunCases ==
  ASSUME Types, NEW b \in Batches, RecordRun(b)
  PROVE  \/ /\ Head(task[b].left) \in Cases
            /\ \E v \in VerdictRecord : Recorded(b, Head(task[b].left), v)
         \/ UNCHANGED <<batches, runs, counter>> /\ Go(b, "failing", <<>>)
<1>1. Scalars
  BY DEF Types
<1>2. \A v \in Verdicts(Head(task[b].left)) : v \in VerdictRecord
  BY VerdictTypes
<1>3. counter + 1 - 1 = counter
  BY <1>1 DEF Scalars
<1> QED
  BY <1>1, <1>2, <1>3 DEF RecordRun, Recorded, Scalars, Sequence

\* The runs by hand that are recorded together.
ByHand(verdict) ==
    LET n == Len(manual.selection)
    IN  {Run(counter + i - 1, manual.selection[i], "manual", verdict[i]) : i \in 1..n}
\* Runs by hand are recorded all or none.
LEMMA RecordRunsCases ==
  ASSUME Types, RecordRuns
  PROVE  \/ UNCHANGED <<runs, counter>>
         \/ /\ Ids(manual.selection) \subseteq cases
            /\ counter' = counter + Len(manual.selection)
            /\ \E verdict \in [1..Len(manual.selection) -> VerdictRecord] :
                 runs' = runs \cup ByHand(verdict)
<1> DEFINE n == Len(manual.selection)
<1>1. CASE UNCHANGED <<runs, counter>>
  BY <1>1
<1>2. CASE /\ Ids(manual.selection) \subseteq cases
           /\ counter' = counter + n
           /\ \E verdict \in [1..n -> UNION {Verdicts(c) : c \in Cases}] :
                runs' = runs \cup
                  {Run(Sequence(n, i), manual.selection[i], "manual", verdict[i]) : i \in 1..n}
  <2>1. PICK verdict \in [1..n -> UNION {Verdicts(c) : c \in Cases}] :
               runs' = runs \cup
                 {Run(Sequence(n, i), manual.selection[i], "manual", verdict[i]) : i \in 1..n}
    BY <1>2
  <2>2. verdict \in [1..n -> VerdictRecord]
    BY VerdictTypes
  <2>3. runs' = runs \cup ByHand(verdict)
    BY <2>1 DEF ByHand, Sequence
  <2> QED
    BY <1>2, <2>2, <2>3
<1> QED
  BY <1>1, <1>2 DEF RecordRuns

\* Runs by hand are finitely many and typed.
LEMMA ByHandTypes ==
  ASSUME Types, NEW verdict \in [1..Len(manual.selection) -> VerdictRecord]
  PROVE  ByHand(verdict) \subseteq RunRecord /\ IsFiniteSet(ByHand(verdict))
<1> DEFINE n == Len(manual.selection)
           f == [i \in 1..n |->
                  Run(counter + i - 1, manual.selection[i], "manual", verdict[i])]
<1>1. manual.selection \in Seq(Cases) /\ counter \in Nat
  BY DEF Types, Scalars
<1>2. n \in Nat
  BY <1>1
<1>3. ASSUME NEW i \in 1..n
      PROVE  Run(counter + i - 1, manual.selection[i], "manual", verdict[i]) \in RunRecord
  <2>1. manual.selection[i] \in Cases /\ counter + i - 1 \in Nat
    BY <1>1, <1>2
  <2> QED
    BY <2>1, RunType
<1>4. IsFiniteSet(1..n)
  BY <1>2, FS_Interval
<1>5. f \in Surjection(1..n, ByHand(verdict))
  BY DEF Surjection, ByHand
<1> QED
  BY <1>3, <1>4, <1>5, FS_Surjection DEF ByHand

\* Every step keeps the types of the variables that are no rows.
LEMMA ScalarsStep ==
  ASSUME Types, [Next]_vars
  PROVE  Scalars'
<1> USE BatchBounds DEF Types, Scalars, store
<1>1. CASE UNCHANGED vars
  BY <1>1, SMTT(60) DEF vars
<1>2. ASSUME NEW b \in Batches, CreateBatch(b) PROVE Scalars'
  <2>1. creating' = [creating EXCEPT ![b] = <<>>]
    BY <1>2 DEF CreateBatch
  <2>2. <<>> \in Seq(Cases) /\ Distinct(<<>>)
    BY DEF Distinct
  <2>3. creating' \in [Batches -> Seq(Cases)] /\ \A d \in Batches : Distinct(creating'[d])
    BY <2>1, <2>2
  <2> QED
    BY <1>2, <2>3 DEF CreateBatch
<1>3. ASSUME NEW b \in Batches, NEW s \in Selections, CheckBatchRequest(b, s)
      PROVE  Scalars'
  BY <1>3, SelectionsDistinct DEF CheckBatchRequest
<1>4. ASSUME NEW c \in Cases, CheckDelete(c) PROVE Scalars'
  BY <1>4 DEF CheckDelete
<1>5. ASSUME NEW c \in Cases, DeleteCase(c) PROVE Scalars'
  BY <1>5 DEF DeleteCase
<1>6. CASE RecordRuns
  <2>1. counter' \in Nat
    <3>1. Len(manual.selection) \in Nat
      OBVIOUS
    <3> QED
      BY <1>6, <3>1, RecordRunsCases
  <2>2. manual' \in [selection : Seq(Cases), started : Nat]
    <3>1. manual' = [manual EXCEPT !.selection = <<>>]
      BY <1>6 DEF RecordRuns
    <3>2. <<>> \in Seq(Cases)
      OBVIOUS
    <3> QED
      BY <3>1, <3>2
  <2> QED
    BY <1>6, <2>1, <2>2 DEF RecordRuns
<1>7. ASSUME NEW s \in Selections, SelectCases(s) PROVE Scalars'
  BY <1>7, SelectionsDistinct DEF SelectCases
<1>8. CASE Crash
  <2>1. <<>> \in Seq(Cases) /\ Distinct(<<>>)
    BY DEF Distinct
  <2>2. creating' \in [Batches -> Seq(Cases)] /\ \A d \in Batches : Distinct(creating'[d])
    BY <1>8, <2>1 DEF Crash
  <2>3. manual' \in [selection : Seq(Cases), started : Nat]
    <3>1. manual' = [manual EXCEPT !.selection = <<>>]
      BY <1>8 DEF Crash
    <3>2. <<>> \in Seq(Cases)
      OBVIOUS
    <3> QED
      BY <3>1, <3>2
  <2>4. troubles' \in 0..MaxTroubles
    BY <1>8 DEF Crash, Trouble
  <2> QED
    BY <1>8, <2>2, <2>3, <2>4 DEF Crash
<1>9. ASSUME NEW b \in Batches, ClaimBatch(b) PROVE Scalars'
  BY <1>9 DEF ClaimBatch
<1>10. ASSUME NEW b \in Batches, RecordRun(b) PROVE Scalars'
  <2>1. counter' \in Nat
    BY <1>10 DEF RecordRun
  <2> QED
    BY <1>10, <2>1 DEF RecordRun
<1>11. ASSUME NEW b \in Batches, CompleteBatch(b) PROVE Scalars'
  BY <1>11 DEF CompleteBatch
<1>12. ASSUME NEW b \in Batches, MarkFailed(b) PROVE Scalars'
  BY <1>12 DEF MarkFailed
<1>13. ASSUME NEW b \in Batches, WriteFails(b) PROVE Scalars'
  BY <1>13 DEF WriteFails, Trouble
<1> QED
  BY <1>1, <1>2, <1>3, <1>4, <1>5, <1>6, <1>7, <1>8, <1>9, <1>10, <1>11, <1>12,
    <1>13 DEF Next, Request, Task

\* Every step keeps the type of the rows.
LEMMA RowTypesStep ==
  ASSUME Types, [Next]_vars
  PROVE  RowTypes'
<1> USE BatchBounds DEF Types, RowTypes, store
<1>1. CASE UNCHANGED vars
  BY <1>1, SMTT(60) DEF vars
<1>2. ASSUME NEW b \in Batches, CreateBatch(b) PROVE RowTypes'
  <2>1. Update(b, [NoBatch EXCEPT !.status = "queued", !.cases = creating[b]])
    BY <1>2 DEF CreateBatch
  <2>2. creating[b] \in Seq(Cases) /\ Distinct(creating[b])
    BY DEF Scalars
  <2>3. LET row == [NoBatch EXCEPT !.status = "queued", !.cases = creating[b]]
        IN  row \in BatchRecord /\ row.cases = creating[b]
    BY <2>2, RowCreated
  <2> QED
    BY <2>1, <2>2, <2>3, RowWritten
<1>3. ASSUME NEW b \in Batches, NEW s \in Selections, CheckBatchRequest(b, s)
      PROVE  RowTypes'
  BY <1>3 DEF CheckBatchRequest
<1>4. ASSUME NEW c \in Cases, CheckDelete(c) PROVE RowTypes'
  BY <1>4 DEF CheckDelete
<1>5. ASSUME NEW c \in Cases, DeleteCase(c) PROVE RowTypes'
  BY <1>5 DEF DeleteCase
<1>6. CASE RecordRuns
  BY <1>6 DEF RecordRuns
<1>7. ASSUME NEW s \in Selections, SelectCases(s) PROVE RowTypes'
  BY <1>7 DEF SelectCases
<1>8. CASE Crash
  BY <1>8 DEF Crash
<1>9. ASSUME NEW b \in Batches, ClaimBatch(b) PROVE RowTypes'
  <2>1. \/ Update(b, [batches[b] EXCEPT !.status = "running"])
        \/ Update(b, [batches[b] EXCEPT !.status = "failed"])
    BY <1>9 DEF ClaimBatch
  <2>2. batches[b] \in BatchRecord
    OBVIOUS
  <2>3. LET row == [batches[b] EXCEPT !.status = "running"]
        IN  row \in BatchRecord /\ row.cases = batches[b].cases
    BY <2>2, RowMarked
  <2>4. LET row == [batches[b] EXCEPT !.status = "failed"]
        IN  row \in BatchRecord /\ row.cases = batches[b].cases
    BY <2>2, RowMarked
  <2> QED
    BY <2>1, <2>3, <2>4, RowWritten
<1>10. ASSUME NEW b \in Batches, RecordRun(b) PROVE RowTypes'
  <2>1. \/ UNCHANGED batches
        \/ \E v \in VerdictRecord : Update(b, Counted(batches[b], v))
    BY <1>10, RecordRunCases DEF Recorded
  <2>2. batches[b] \in BatchRecord
    OBVIOUS
  <2> QED
    BY <2>1, <2>2, RowCounted, RowWritten
<1>11. ASSUME NEW b \in Batches, CompleteBatch(b) PROVE RowTypes'
  <2>1. Update(b, [batches[b] EXCEPT !.status = "completed"])
    BY <1>11 DEF CompleteBatch
  <2>2. batches[b] \in BatchRecord
    OBVIOUS
  <2>3. LET row == [batches[b] EXCEPT !.status = "completed"]
        IN  row \in BatchRecord /\ row.cases = batches[b].cases
    BY <2>2, RowMarked
  <2> QED
    BY <2>1, <2>3, RowWritten
<1>12. ASSUME NEW b \in Batches, MarkFailed(b) PROVE RowTypes'
  <2>1. Update(b, [batches[b] EXCEPT !.status = "failed"])
    BY <1>12 DEF MarkFailed
  <2>2. batches[b] \in BatchRecord
    OBVIOUS
  <2>3. LET row == [batches[b] EXCEPT !.status = "failed"]
        IN  row \in BatchRecord /\ row.cases = batches[b].cases
    BY <2>2, RowMarked
  <2> QED
    BY <2>1, <2>3, RowWritten
<1>13. ASSUME NEW b \in Batches, WriteFails(b) PROVE RowTypes'
  BY <1>13 DEF WriteFails
<1> QED
  BY <1>1, <1>2, <1>3, <1>4, <1>5, <1>6, <1>7, <1>8, <1>9, <1>10, <1>11, <1>12,
    <1>13 DEF Next, Request, Task

\* Every step keeps the type of the tasks.
LEMMA TaskTypesStep ==
  ASSUME Types, [Next]_vars
  PROVE  TaskTypes'
<1> USE BatchBounds DEF Types, TaskTypes, store
<1>1. CASE UNCHANGED vars
  BY <1>1, SMTT(60) DEF vars
<1>2. ASSUME NEW b \in Batches, CreateBatch(b) PROVE TaskTypes'
  <2>1. Go(b, "waiting", <<>>)
    BY <1>2 DEF CreateBatch
  <2>2. [at |-> "waiting", left |-> <<>>] \in TaskRecord
    BY DEF TaskRecord
  <2> QED
    BY <2>1, <2>2, TaskMoved
<1>3. ASSUME NEW b \in Batches, NEW s \in Selections, CheckBatchRequest(b, s)
      PROVE  TaskTypes'
  BY <1>3 DEF CheckBatchRequest
<1>4. ASSUME NEW c \in Cases, CheckDelete(c) PROVE TaskTypes'
  BY <1>4 DEF CheckDelete
<1>5. ASSUME NEW c \in Cases, DeleteCase(c) PROVE TaskTypes'
  BY <1>5 DEF DeleteCase
<1>6. CASE RecordRuns
  BY <1>6 DEF RecordRuns
<1>7. ASSUME NEW s \in Selections, SelectCases(s) PROVE TaskTypes'
  BY <1>7 DEF SelectCases
<1>8. CASE Crash
  <2>1. task' = [b \in Batches |->
                  IF task[b].at \in {"waiting", "search", "failing"}
                  THEN [at |-> "killed", left |-> <<>>] ELSE task[b]]
    BY <1>8 DEF Crash
  <2>2. [at |-> "killed", left |-> <<>>] \in TaskRecord
    BY DEF TaskRecord
  <2> QED
    BY <2>1, <2>2
<1>9. ASSUME NEW b \in Batches, ClaimBatch(b) PROVE TaskTypes'
  <2>1. Go(b, "search", batches[b].cases) \/ Go(b, "ended", <<>>)
    BY <1>9 DEF ClaimBatch, AfterMissing
  <2>2. batches[b].cases \in Seq(Cases)
    BY DEF RowTypes, BatchRecord
  <2>3. /\ [at |-> "search", left |-> batches[b].cases] \in TaskRecord
        /\ [at |-> "ended", left |-> <<>>] \in TaskRecord
    BY <2>2 DEF TaskRecord
  <2> QED
    BY <2>1, <2>3, TaskMoved
<1>10. ASSUME NEW b \in Batches, RecordRun(b) PROVE TaskTypes'
  <2>1. Go(b, "search", Tail(task[b].left)) \/ Go(b, "failing", <<>>)
    BY <1>10, RecordRunCases DEF Recorded
  <2>2. task[b].left \in Seq(Cases) /\ task[b].left # <<>>
    BY <1>10 DEF TaskRecord, RecordRun
  <2>3. Tail(task[b].left) \in Seq(Cases)
    BY <2>2
  <2>4. /\ [at |-> "search", left |-> Tail(task[b].left)] \in TaskRecord
        /\ [at |-> "failing", left |-> <<>>] \in TaskRecord
    BY <2>3 DEF TaskRecord
  <2> QED
    BY <2>1, <2>4, TaskMoved
<1>11. ASSUME NEW b \in Batches, CompleteBatch(b) PROVE TaskTypes'
  <2>1. Go(b, "ended", <<>>)
    BY <1>11 DEF CompleteBatch
  <2>2. [at |-> "ended", left |-> <<>>] \in TaskRecord
    BY DEF TaskRecord
  <2> QED
    BY <2>1, <2>2, TaskMoved
<1>12. ASSUME NEW b \in Batches, MarkFailed(b) PROVE TaskTypes'
  <2>1. Go(b, "ended", <<>>)
    BY <1>12 DEF MarkFailed
  <2>2. [at |-> "ended", left |-> <<>>] \in TaskRecord
    BY DEF TaskRecord
  <2> QED
    BY <2>1, <2>2, TaskMoved
<1>13. ASSUME NEW b \in Batches, WriteFails(b) PROVE TaskTypes'
  <2>1. \E spot \in {"failing", "unmarked"} : Go(b, spot, <<>>)
    BY <1>13 DEF WriteFails, AfterFailure
  <2>2. /\ [at |-> "failing", left |-> <<>>] \in TaskRecord
        /\ [at |-> "unmarked", left |-> <<>>] \in TaskRecord
    BY DEF TaskRecord
  <2> QED
    BY <2>1, <2>2, TaskMoved
<1> QED
  BY <1>1, <1>2, <1>3, <1>4, <1>5, <1>6, <1>7, <1>8, <1>9, <1>10, <1>11, <1>12,
    <1>13 DEF Next, Request, Task

\* Every step keeps the runs typed and finitely many.
LEMMA RunTypesStep ==
  ASSUME Types, [Next]_vars
  PROVE  RunTypes'
<1> USE BatchBounds DEF Types, RunTypes, store
<1>1. CASE UNCHANGED vars
  BY <1>1, SMTT(60) DEF vars
<1>2. ASSUME NEW b \in Batches, CreateBatch(b) PROVE RunTypes'
  BY <1>2 DEF CreateBatch
<1>3. ASSUME NEW b \in Batches, NEW s \in Selections, CheckBatchRequest(b, s)
      PROVE  RunTypes'
  BY <1>3 DEF CheckBatchRequest
<1>4. ASSUME NEW c \in Cases, CheckDelete(c) PROVE RunTypes'
  BY <1>4 DEF CheckDelete
<1>5. ASSUME NEW c \in Cases, DeleteCase(c) PROVE RunTypes'
  <2>1. runs' \subseteq runs
    BY <1>5 DEF DeleteCase
  <2> QED
    BY <2>1, FS_Subset
<1>6. CASE RecordRuns
  <2>1. CASE UNCHANGED runs
    BY <2>1
  <2>2. ASSUME NEW verdict \in [1..Len(manual.selection) -> VerdictRecord],
               runs' = runs \cup ByHand(verdict)
        PROVE  RunTypes'
    <3>1. ByHand(verdict) \subseteq RunRecord /\ IsFiniteSet(ByHand(verdict))
      BY ByHandTypes
    <3> QED
      BY <2>2, <3>1, FS_Union
  <2> QED
    BY <1>6, <2>1, <2>2, RecordRunsCases
<1>7. ASSUME NEW s \in Selections, SelectCases(s) PROVE RunTypes'
  BY <1>7 DEF SelectCases
<1>8. CASE Crash
  BY <1>8 DEF Crash
<1>9. ASSUME NEW b \in Batches, ClaimBatch(b) PROVE RunTypes'
  BY <1>9 DEF ClaimBatch
<1>10. ASSUME NEW b \in Batches, RecordRun(b) PROVE RunTypes'
  <2>1. CASE UNCHANGED runs
    BY <2>1
  <2>2. ASSUME NEW v \in VerdictRecord, Recorded(b, Head(task[b].left), v),
               Head(task[b].left) \in Cases
        PROVE  RunTypes'
    <3>1. Run(counter, Head(task[b].left), b, v) \in RunRecord
      BY <2>2, RunType DEF Scalars
    <3> QED
      BY <2>2, <3>1, FS_AddElement DEF Recorded
  <2> QED
    BY <1>10, <2>1, <2>2, RecordRunCases
<1>11. ASSUME NEW b \in Batches, CompleteBatch(b) PROVE RunTypes'
  BY <1>11 DEF CompleteBatch
<1>12. ASSUME NEW b \in Batches, MarkFailed(b) PROVE RunTypes'
  BY <1>12 DEF MarkFailed
<1>13. ASSUME NEW b \in Batches, WriteFails(b) PROVE RunTypes'
  BY <1>13 DEF WriteFails
<1> QED
  BY <1>1, <1>2, <1>3, <1>4, <1>5, <1>6, <1>7, <1>8, <1>9, <1>10, <1>11, <1>12,
    <1>13 DEF Next, Request, Task

\* Every step keeps all of the types.
LEMMA TypesStep == Types /\ [Next]_vars => Types'
BY ScalarsStep, RowTypesStep, TaskTypesStep, RunTypesStep DEF Types

\* Every step keeps a row and what its task has left in agreement.
LEMMA ProgressStep ==
  ASSUME Types, Progress, [Next]_vars
  PROVE  Progress'
<1> USE DEF Types, Progress, store, vars
<1>1. CASE UNCHANGED vars
  BY <1>1 DEF vars, ProgressOf
<1>2. ASSUME NEW b \in Batches, CreateBatch(b) PROVE Progress'
  <2>1. /\ Update(b, [NoBatch EXCEPT !.status = "queued", !.cases = creating[b]])
        /\ Go(b, "waiting", <<>>)
        /\ creating' = [creating EXCEPT ![b] = <<>>]
    BY <1>2 DEF CreateBatch
  <2>2. creating[b] \in Seq(Cases) /\ creating'[b] = <<>>
    BY <2>1 DEF Scalars
  <2>3. LET row == [NoBatch EXCEPT !.status = "queued", !.cases = creating[b]]
        IN  row \in BatchRecord /\ row.status = "queued" /\ RowCounts(row)
    <3>1. Len(creating[b]) \in Nat
      BY <2>2
    <3> DEFINE row == [NoBatch EXCEPT !.status = "queued", !.cases = creating[b]]
    <3>2. /\ row \in BatchRecord /\ row.status = "queued" /\ row.cases = creating[b]
          /\ row.done = 0 /\ row.passed = 0 /\ row.failed = 0 /\ row.falsePositive = 0
      BY <2>2, RowCreated
    <3> HIDE DEF row
    <3>3. RowCounts(row)
      BY <2>2, <3>1, <3>2 DEF RowCounts
    <3> QED
      BY <3>2, <3>3 DEF row
  <2>4. \A d \in Batches \ {b} : ProgressOf(d)'
    <3>1. \A d \in Batches \ {b} : /\ batches'[d] = batches[d] /\ task'[d] = task[d]
                                 /\ creating'[d] = creating[d]
      BY <2>1, <2>3, RowWritten, TaskMoved DEF Scalars
    <3> QED
      BY <3>1 DEF ProgressOf
  <2>5. ProgressOf(b)'
    <3>1. task'[b].at = "waiting"
      BY <2>1, TaskMoved
    <3> QED
      BY <2>1, <2>2, <2>3, <3>1, RowWritten DEF ProgressOf
  <2> QED
    BY <2>4, <2>5
<1>3. ASSUME NEW b \in Batches, NEW s \in Selections, CheckBatchRequest(b, s)
      PROVE  Progress'
  <2>1. /\ UNCHANGED <<batches, task>>
        /\ batches[b].status = "none" /\ creating' = [creating EXCEPT ![b] = s]
    BY <1>3 DEF CheckBatchRequest, Exists
  <2> QED
    BY <2>1 DEF Scalars, ProgressOf
<1>4. ASSUME NEW c \in Cases, CheckDelete(c) PROVE Progress'
  BY <1>4 DEF CheckDelete, ProgressOf
<1>5. ASSUME NEW c \in Cases, DeleteCase(c) PROVE Progress'
  BY <1>5 DEF DeleteCase, ProgressOf
<1>6. CASE RecordRuns
  BY <1>6 DEF RecordRuns, ProgressOf
<1>7. ASSUME NEW s \in Selections, SelectCases(s) PROVE Progress'
  BY <1>7 DEF SelectCases, ProgressOf
<1>8. CASE Crash
  <2>1. /\ UNCHANGED batches /\ creating' = [b \in Batches |-> <<>>]
        /\ task' = [b \in Batches |->
                     IF task[b].at \in {"waiting", "search", "failing"}
                     THEN [at |-> "killed", left |-> <<>>] ELSE task[b]]
    BY <1>8 DEF Crash
  <2> QED
    BY <2>1 DEF ProgressOf
<1>9. ASSUME NEW b \in Batches, ClaimBatch(b) PROVE Progress'
  <2>1. CASE Ids(batches[b].cases) \subseteq cases
    <3>1. /\ Update(b, [batches[b] EXCEPT !.status = "running"])
          /\ Go(b, "search", batches[b].cases) /\ task[b].at = "waiting"
          /\ UNCHANGED creating
      BY <1>9, <2>1 DEF ClaimBatch, AfterMissing
    <3>2. batches[b] \in BatchRecord /\ ProgressOf(b)
      BY DEF RowTypes
    <3>3. /\ batches'[b] \in BatchRecord /\ batches'[b].status = "running"
          /\ batches'[b].cases = batches[b].cases /\ batches'[b].done = batches[b].done
          /\ batches'[b].passed = batches[b].passed
          /\ batches'[b].failed = batches[b].failed
          /\ batches'[b].falsePositive = batches[b].falsePositive
      <4>1. [batches[b] EXCEPT !.status = "running"] \in BatchRecord
        BY <3>2, RowMarked
      <4>2. batches'[b] = [batches[b] EXCEPT !.status = "running"]
        BY <3>1, <4>1, RowWritten
      <4> QED
        BY <3>2, <4>1, <4>2, RowMarked
    <3>4. \A d \in Batches \ {b} : ProgressOf(d)'
      <4>1. [batches[b] EXCEPT !.status = "running"] \in BatchRecord
        BY <3>2, RowMarked
      <4>2. \A d \in Batches \ {b} : batches'[d] = batches[d] /\ task'[d] = task[d]
        BY <3>1, <4>1, RowWritten, TaskMoved
      <4> QED
        BY <3>1, <4>2 DEF ProgressOf
    <3>5. ProgressOf(b)'
      <4>1. task'[b].at = "search" /\ task'[b].left = batches[b].cases
        BY <3>1, TaskMoved
      <4>2. batches[b].done = 0 /\ Len(batches[b].cases) \in Nat
        BY <1>9, <3>2 DEF ClaimBatch, ProgressOf, RowCounts, BatchRecord
      <4>3. LeftOf(batches'[b], batches[b].cases)
        BY <3>3, <4>2 DEF LeftOf
      <4>4. creating[b] = <<>>
        BY <1>9, <3>2 DEF ClaimBatch, ProgressOf
      <4> QED
        BY <3>1, <3>2, <3>3, <4>1, <4>2, <4>3, <4>4 DEF ProgressOf, RowCounts
    <3> QED
      BY <3>4, <3>5
  <2>2. CASE ~(Ids(batches[b].cases) \subseteq cases)
    <3>1. /\ Update(b, [batches[b] EXCEPT !.status = "failed"])
          /\ Go(b, "ended", <<>>) /\ task[b].at = "waiting"
          /\ UNCHANGED creating
      BY <1>9, <2>2 DEF ClaimBatch, AfterMissing
    <3>2. batches[b] \in BatchRecord /\ ProgressOf(b)
      BY DEF RowTypes
    <3>3. /\ batches'[b] \in BatchRecord /\ batches'[b].status = "failed"
          /\ batches'[b].cases = batches[b].cases /\ batches'[b].done = batches[b].done
          /\ batches'[b].passed = batches[b].passed
          /\ batches'[b].failed = batches[b].failed
          /\ batches'[b].falsePositive = batches[b].falsePositive
      <4>1. [batches[b] EXCEPT !.status = "failed"] \in BatchRecord
        BY <3>2, RowMarked
      <4>2. batches'[b] = [batches[b] EXCEPT !.status = "failed"]
        BY <3>1, <4>1, RowWritten
      <4> QED
        BY <3>2, <4>1, <4>2, RowMarked
    <3>4. \A d \in Batches \ {b} : ProgressOf(d)'
      <4>1. [batches[b] EXCEPT !.status = "failed"] \in BatchRecord
        BY <3>2, RowMarked
      <4>2. \A d \in Batches \ {b} : batches'[d] = batches[d] /\ task'[d] = task[d]
        BY <3>1, <4>1, RowWritten, TaskMoved
      <4> QED
        BY <3>1, <4>2 DEF ProgressOf
    <3>5. ProgressOf(b)'
      <4>1. task'[b].at = "ended"
        BY <3>1, TaskMoved
      <4>2. creating[b] = <<>>
        BY <1>9, <3>2 DEF ClaimBatch, ProgressOf
      <4> QED
        BY <3>1, <3>2, <3>3, <4>1, <4>2 DEF ProgressOf, RowCounts
    <3> QED
      BY <3>4, <3>5
  <2> QED
    BY <2>1, <2>2
<1>10. ASSUME NEW b \in Batches, RecordRun(b) PROVE Progress'
  <2>1. task[b].at = "search" /\ task[b].left # <<>> /\ UNCHANGED creating
    BY <1>10 DEF RecordRun
  <2>2. ProgressOf(b) /\ batches[b] \in BatchRecord /\ task[b].left \in Seq(Cases)
    BY DEF RowTypes, TaskTypes, TaskRecord
  <2>3. CASE UNCHANGED <<batches, runs, counter>> /\ Go(b, "failing", <<>>)
    <3>1. /\ task'[b].at = "failing" /\ UNCHANGED <<batches, creating>>
          /\ \A d \in Batches \ {b} : task'[d] = task[d]
      BY <2>1, <2>3, TaskMoved
    <3> QED
      BY <2>1, <2>2, <3>1 DEF ProgressOf
  <2>4. ASSUME NEW v \in VerdictRecord, Recorded(b, Head(task[b].left), v)
        PROVE  Progress'
    <3>1. Counted(batches[b], v) \in BatchRecord
      BY <2>2, RowCounted
    <3>2. /\ Update(b, Counted(batches[b], v))
          /\ Go(b, "search", Tail(task[b].left))
      BY <2>4 DEF Recorded
    <3>3. batches'[b] = Counted(batches[b], v)
      BY <3>1, <3>2, RowWritten
    <3>4. \A d \in Batches \ {b} : ProgressOf(d)'
      <4>1. \A d \in Batches \ {b} : batches'[d] = batches[d] /\ task'[d] = task[d]
        BY <3>1, <3>2, RowWritten, TaskMoved
      <4> QED
        BY <2>1, <4>1 DEF ProgressOf
    <3>5. RowCounts(batches'[b])
      <4>1. batches[b].done < Len(batches[b].cases)
        BY <2>1, <2>2 DEF ProgressOf, LeftOf, BatchRecord
      <4>2. One(v.status = "passed") + One(v.status # "passed") = 1
        BY DEF One
      <4>3. /\ One(v.status = "passed") \in Nat /\ One(v.status # "passed") \in Nat
            /\ One(v.falsePositive) \in Nat
            /\ One(v.falsePositive) <= One(v.status # "passed")
        BY DEF One, VerdictRecord
      <4> DEFINE p == One(v.status = "passed")
                 f == One(v.status # "passed")
                 h == One(v.falsePositive)
      <4>4. /\ batches'[b].done = batches[b].done + 1
            /\ batches'[b].passed = batches[b].passed + p
            /\ batches'[b].failed = batches[b].failed + f
            /\ batches'[b].falsePositive = batches[b].falsePositive + h
            /\ batches'[b].cases = batches[b].cases /\ batches'[b].status = "running"
        BY <2>1, <2>2, <3>3, RowCounted DEF ProgressOf
      <4>5. /\ batches[b].done \in Nat /\ batches[b].passed \in Nat
            /\ batches[b].failed \in Nat /\ batches[b].falsePositive \in Nat
            /\ Len(batches[b].cases) \in Nat
        BY <2>2 DEF BatchRecord
      <4>6. RowCounts(batches[b])
        BY <2>2 DEF ProgressOf
      <4> HIDE DEF p, f, h
      <4>7. p + f = 1 /\ p \in Nat /\ f \in Nat /\ h \in Nat /\ h <= f
        BY <4>2, <4>3 DEF p, f, h
      <4>8. /\ batches[b].done = batches[b].passed + batches[b].failed
            /\ batches[b].falsePositive <= batches[b].failed
        BY <4>6 DEF RowCounts
      <4>9. batches'[b].done = batches'[b].passed + batches'[b].failed
        <5>1. ASSUME NEW x \in Nat, NEW y \in Nat
              PROVE  (x + p) + (y + f) = (x + y) + 1
          BY <4>7
        <5>2. (batches[b].passed + p) + (batches[b].failed + f)
                = (batches[b].passed + batches[b].failed) + 1
          BY <4>5, <5>1
        <5> QED
          BY <4>4, <4>8, <5>2
      <4>10. batches'[b].falsePositive <= batches'[b].failed
        BY <4>4, <4>5, <4>7, <4>8
      <4>11. batches'[b].done <= Len(batches'[b].cases)
        BY <4>1, <4>4, <4>5
      <4> QED
        BY <4>4, <4>9, <4>10, <4>11 DEF RowCounts
    <3>6. LeftOf(batches'[b], Tail(task[b].left))
      <4>1. LeftOf(batches[b], task[b].left)
        BY <2>1, <2>2 DEF ProgressOf
      <4>2. /\ batches'[b].cases = batches[b].cases
            /\ batches'[b].done = batches[b].done + 1
        BY <2>2, <3>3, RowCounted
      <4>3. /\ Len(Tail(task[b].left)) = Len(task[b].left) - 1
            /\ \A i \in 1..Len(Tail(task[b].left)) :
                 Tail(task[b].left)[i] = task[b].left[i + 1]
        BY <2>1, <2>2
      <4>4. Len(batches[b].cases) \in Nat /\ batches[b].done \in Nat
            /\ Len(task[b].left) \in Nat
        BY <2>2 DEF BatchRecord
      <4> DEFINE rest == Tail(task[b].left)
                 left == task[b].left
                 row == batches[b]
      <4>5. Len(left) >= 1 /\ Len(rest) = Len(left) - 1
        BY <2>1, <2>2, <4>3
      <4>6. Len(rest) = Len(row.cases) - (row.done + 1)
        BY <4>1, <4>4, <4>5 DEF LeftOf
      <4>7. ASSUME NEW i \in 1..Len(rest) PROVE rest[i] = row.cases[(row.done + 1) + i]
        <5>1. i + 1 \in 1..Len(left) /\ row.done + (i + 1) = (row.done + 1) + i
          BY <4>4, <4>5
        <5> QED
          BY <4>1, <4>3, <5>1 DEF LeftOf
      <4> QED
        BY <4>2, <4>6, <4>7 DEF LeftOf
    <3>7. task'[b].at = "search" /\ task'[b].left = Tail(task[b].left)
      BY <3>2, TaskMoved, ZenonT(60)
    <3>8. batches'[b].status = batches[b].status
      BY <2>2, <3>3, RowCounted
    <3>9. ProgressOf(b)'
      BY <2>1, <2>2, <3>5, <3>6, <3>7, <3>8 DEF ProgressOf
    <3> QED
      BY <3>4, <3>9
  <2> QED
    BY <1>10, <2>3, <2>4, RecordRunCases
<1>11. ASSUME NEW b \in Batches, CompleteBatch(b) PROVE Progress'
  <2>1. /\ Update(b, [batches[b] EXCEPT !.status = "completed"])
        /\ Go(b, "ended", <<>>) /\ task[b].at = "search" /\ UNCHANGED creating
    BY <1>11 DEF CompleteBatch
  <2>2. batches[b] \in BatchRecord /\ ProgressOf(b)
    BY DEF RowTypes
  <2>3. /\ batches'[b] \in BatchRecord /\ batches'[b].status = "completed"
        /\ batches'[b].cases = batches[b].cases /\ batches'[b].done = batches[b].done
        /\ batches'[b].passed = batches[b].passed
          /\ batches'[b].failed = batches[b].failed
        /\ batches'[b].falsePositive = batches[b].falsePositive
    <3>1. [batches[b] EXCEPT !.status = "completed"] \in BatchRecord
      BY <2>2, RowMarked
    <3>2. batches'[b] = [batches[b] EXCEPT !.status = "completed"]
      BY <2>1, <3>1, RowWritten
    <3> QED
      BY <2>2, <3>1, <3>2, RowMarked
  <2>4. \A d \in Batches \ {b} : ProgressOf(d)'
    <3>1. [batches[b] EXCEPT !.status = "completed"] \in BatchRecord
      BY <2>2, RowMarked
    <3>2. \A d \in Batches \ {b} : batches'[d] = batches[d] /\ task'[d] = task[d]
      BY <2>1, <3>1, RowWritten, TaskMoved
    <3> QED
      BY <2>1, <3>2 DEF ProgressOf
  <2>5. ProgressOf(b)'
    <3>1. task'[b].at = "ended"
      BY <2>1, TaskMoved
    <3>2. batches[b].done = Len(batches[b].cases)
      <4>1. task[b].left = <<>>
        BY <1>11 DEF CompleteBatch
      <4> QED
        BY <2>1, <2>2, <4>1 DEF ProgressOf, LeftOf, BatchRecord
    <3> QED
      BY <2>1, <2>2, <2>3, <3>1, <3>2 DEF ProgressOf, RowCounts
  <2> QED
    BY <2>4, <2>5
<1>12. ASSUME NEW b \in Batches, MarkFailed(b) PROVE Progress'
  <2>1. /\ Update(b, [batches[b] EXCEPT !.status = "failed"])
        /\ Go(b, "ended", <<>>) /\ task[b].at = "failing" /\ UNCHANGED creating
    BY <1>12 DEF MarkFailed
  <2>2. batches[b] \in BatchRecord /\ ProgressOf(b)
    BY DEF RowTypes
  <2>3. /\ batches'[b] \in BatchRecord /\ batches'[b].status = "failed"
        /\ batches'[b].cases = batches[b].cases /\ batches'[b].done = batches[b].done
        /\ batches'[b].passed = batches[b].passed
          /\ batches'[b].failed = batches[b].failed
        /\ batches'[b].falsePositive = batches[b].falsePositive
    <3>1. [batches[b] EXCEPT !.status = "failed"] \in BatchRecord
      BY <2>2, RowMarked
    <3>2. batches'[b] = [batches[b] EXCEPT !.status = "failed"]
      BY <2>1, <3>1, RowWritten
    <3> QED
      BY <2>2, <3>1, <3>2, RowMarked
  <2>4. \A d \in Batches \ {b} : ProgressOf(d)'
    <3>1. [batches[b] EXCEPT !.status = "failed"] \in BatchRecord
      BY <2>2, RowMarked
    <3>2. \A d \in Batches \ {b} : batches'[d] = batches[d] /\ task'[d] = task[d]
      BY <2>1, <3>1, RowWritten, TaskMoved
    <3> QED
      BY <2>1, <3>2 DEF ProgressOf
  <2>5. ProgressOf(b)'
    <3>1. task'[b].at = "ended"
      BY <2>1, TaskMoved
    <3> QED
      BY <2>1, <2>2, <2>3, <3>1 DEF ProgressOf, RowCounts
  <2> QED
    BY <2>4, <2>5
<1>13. ASSUME NEW b \in Batches, WriteFails(b) PROVE Progress'
  <2>1. \/ task[b].at = "failing" /\ Go(b, "unmarked", <<>>)
        \/ task[b].at \in {"waiting", "search"} /\ Go(b, "failing", <<>>)
    BY <1>13 DEF WriteFails, AfterFailure
  <2>2. UNCHANGED <<batches, creating>>
    BY <1>13 DEF WriteFails
  <2>3. \A d \in Batches \ {b} : ProgressOf(d)'
    BY <2>1, <2>2, TaskMoved, ZenonT(60) DEF ProgressOf
  <2>4. ProgressOf(b)'
    <3>1. \/ task[b].at = "failing" /\ task'[b].at = "unmarked"
          \/ task[b].at \in {"waiting", "search"} /\ task'[b].at = "failing"
      BY <2>1, TaskMoved
    <3> QED
      BY <2>2, <3>1 DEF ProgressOf
  <2> QED
    BY <2>3, <2>4
<1> QED
  BY <1>1, <1>2, <1>3, <1>4, <1>5, <1>6, <1>7, <1>8, <1>9, <1>10, <1>11, <1>12,
    <1>13 DEF Next, Request, Task

\* Setting the status of a batch leaves what it counts alone.
SameCounts(row, other) ==
    /\ row.cases = other.cases /\ row.done = other.done /\ row.passed = other.passed
    /\ row.failed = other.failed /\ row.falsePositive = other.falsePositive
\* The status alone: nothing that is counted changes.
LEMMA MarkedOnly ==
  ASSUME RowTypes, NEW b \in Batches,
         NEW mark \in {"none", "queued", "running", "completed", "failed"},
         Update(b, [batches[b] EXCEPT !.status = mark])
  PROVE  \A d \in Batches : SameCounts(batches'[d], batches[d])
<1>1. batches[b] \in BatchRecord
  BY DEF RowTypes
<1>2. [batches[b] EXCEPT !.status = mark] \in BatchRecord
  BY <1>1, RowMarked
<1>3. batches'[b] = [batches[b] EXCEPT !.status = mark]
  BY <1>2, RowWritten
<1>4. SameCounts(batches'[b], batches[b])
  BY <1>1, <1>3, RowMarked DEF SameCounts
<1>5. \A d \in Batches \ {b} : batches'[d] = batches[d]
  BY <1>2, RowWritten
<1> QED
  BY <1>4, <1>5 DEF SameCounts

\* A batch that is created has no runs yet.
LEMMA CreatedEmpty ==
  ASSUME Types, Progress, History, NEW b \in Batches, CreateBatch(b)
  PROVE  /\ UNCHANGED <<runs, cases, counter>> /\ RunsOf(b) = {}
         /\ batches'[b].done = 0 /\ batches'[b].passed = 0
         /\ batches'[b].falsePositive = 0
         /\ \A d \in Batches \ {b} : batches'[d] = batches[d]
<1>1. /\ Update(b, [NoBatch EXCEPT !.status = "queued", !.cases = creating[b]])
      /\ UNCHANGED <<runs, cases, counter>> /\ creating[b] # <<>>
  BY DEF CreateBatch
<1> DEFINE row == [NoBatch EXCEPT !.status = "queued", !.cases = creating[b]]
<1>2. /\ row \in BatchRecord /\ row.done = 0 /\ row.passed = 0
      /\ row.falsePositive = 0
  BY RowCreated DEF Types, Scalars
<1> HIDE DEF row
<1>3. batches'[b] = row /\ \A d \in Batches \ {b} : batches'[d] = batches[d]
  BY <1>1, <1>2, RowWritten DEF Types, row
<1>4. batches[b].done = 0
  BY <1>1 DEF Progress, ProgressOf, RowCounts
<1>5. RunsOf(b) = {}
  BY <1>4, ManualIsNoBatch DEF RunsOf, History
<1> QED
  BY <1>1, <1>2, <1>3, <1>5

\* What a batch records is a run of its next case, under a new sequence.
LEMMA NextCase ==
  ASSUME Types, Progress, NEW b \in Batches, NEW v \in VerdictRecord,
         Recorded(b, Head(task[b].left), v), RecordRun(b)
  PROVE  LET c == Head(task[b].left)
         IN  /\ c \in cases /\ c = batches[b].cases[batches[b].done + 1]
             /\ runs' = runs \cup {Run(counter, c, b, v)} /\ counter' = counter + 1
             /\ UNCHANGED cases
             /\ batches'[b].cases = batches[b].cases
             /\ batches'[b].done = batches[b].done + 1
             /\ batches'[b].passed = batches[b].passed + One(v.status = "passed")
             /\ batches'[b].falsePositive
                   = batches[b].falsePositive + One(v.falsePositive)
             /\ \A d \in Batches \ {b} : batches'[d] = batches[d]
<1> DEFINE c == Head(task[b].left)
<1>1. /\ c \in cases /\ UNCHANGED cases
      /\ runs' = runs \cup {Run(counter, c, b, v)} /\ counter' = counter + 1
      /\ Update(b, Counted(batches[b], v)) /\ task[b].at = "search" /\ task[b].left # <<>>
  BY DEF Recorded, RecordRun
<1>2. batches[b] \in BatchRecord /\ task[b].left \in Seq(Cases)
  BY DEF Types, RowTypes, TaskTypes, TaskRecord
<1>3. c = batches[b].cases[batches[b].done + 1]
  <2>1. LeftOf(batches[b], task[b].left)
    BY <1>1 DEF Progress, ProgressOf
  <2>2. Len(task[b].left) >= 1 /\ c = task[b].left[1]
    BY <1>1, <1>2
  <2> QED
    BY <1>2, <2>1, <2>2 DEF LeftOf
<1>4. Counted(batches[b], v) \in BatchRecord
  BY <1>2, RowCounted
<1>5. /\ batches'[b] = Counted(batches[b], v)
      /\ \A d \in Batches \ {b} : batches'[d] = batches[d]
  BY <1>1, <1>4, RowWritten DEF Types
<1>6. /\ batches'[b].cases = batches[b].cases
      /\ batches'[b].done = batches[b].done + 1
      /\ batches'[b].passed = batches[b].passed + One(v.status = "passed")
      /\ batches'[b].falsePositive = batches[b].falsePositive + One(v.falsePositive)
  BY <1>2, <1>5, RowCounted
<1> QED
  BY <1>1, <1>3, <1>5, <1>6

\* A run by hand takes a sequence from the counter on, each its own.
LEMMA ByHandRuns ==
  ASSUME Types, NEW verdict, NEW run \in ByHand(verdict),
         Ids(manual.selection) \subseteq cases
  PROVE  /\ run.batch = "manual" /\ run.case \in cases /\ run.sequence \in Int
         /\ run.sequence >= counter /\ run.sequence < counter + Len(manual.selection)
         /\ \A other \in ByHand(verdict) : other.sequence = run.sequence => other = run
<1>1. counter \in Nat /\ manual.selection \in Seq(Cases)
  BY DEF Types, Scalars
<1> DEFINE n == Len(manual.selection)
           hand(i) == Run(counter + i - 1, manual.selection[i], "manual", verdict[i])
<1>2. n \in Nat
  BY <1>1
<1>3. PICK i \in 1..n : run = hand(i)
  BY DEF ByHand
<1>4. \A j \in 1..n : /\ hand(j).sequence = counter + j - 1
                     /\ hand(j).batch = "manual" /\ hand(j).case = manual.selection[j]
  BY DEF Run
<1>5. manual.selection[i] \in cases
  BY <1>1 DEF Ids
<1>6. ASSUME NEW other \in ByHand(verdict), other.sequence = run.sequence PROVE other = run
  <2>1. PICK j \in 1..n : other = hand(j)
    BY DEF ByHand
  <2>2. j = i
    BY <1>1, <1>2, <1>3, <1>4, <1>6, <2>1
  <2> QED
    BY <1>3, <2>1, <2>2
<1> QED
  BY <1>1, <1>2, <1>3, <1>4, <1>5, <1>6

\* Every step keeps each run of a counted case, under its own sequence.
LEMMA HistoryStep ==
  ASSUME Types, Progress, History, [Next]_vars
  PROVE  History'
<1> USE DEF Types, History, store
<1>1. CASE UNCHANGED vars
  BY <1>1 DEF vars
<1>2. ASSUME NEW b \in Batches, CreateBatch(b) PROVE History'
  <2>1. /\ UNCHANGED <<runs, cases, counter>> /\ RunsOf(b) = {}
        /\ \A d \in Batches \ {b} : batches'[d] = batches[d]
    BY <1>2, CreatedEmpty
  <2>2. \A run \in runs : run.batch # b
    BY <2>1 DEF RunsOf
  <2>3. \A run \in runs : run.batch # "manual" => run.batch \in Batches \ {b}
    BY <2>2 DEF RunTypes, RunRecord
  <2> QED
    BY <2>1, <2>3
<1>3. ASSUME NEW b \in Batches, NEW s \in Selections, CheckBatchRequest(b, s)
      PROVE  History'
  BY <1>3 DEF CheckBatchRequest
<1>4. ASSUME NEW c \in Cases, CheckDelete(c) PROVE History'
  BY <1>4 DEF CheckDelete
<1>5. ASSUME NEW c \in Cases, DeleteCase(c) PROVE History'
  <2>1. /\ cases' = cases \ {c} /\ UNCHANGED <<batches, counter>>
        /\ \A run \in runs' : run \in runs /\ run.case # c
    BY <1>5 DEF DeleteCase, Kept
  <2> QED
    BY <2>1
<1>6. CASE RecordRuns
  <2>1. UNCHANGED <<cases, batches>>
    BY <1>6 DEF RecordRuns
  <2>2. CASE UNCHANGED <<runs, counter>>
    BY <2>1, <2>2
  <2>3. ASSUME NEW verdict, runs' = runs \cup ByHand(verdict),
               counter' = counter + Len(manual.selection),
               Ids(manual.selection) \subseteq cases
        PROVE  History'
    <3>1. /\ counter \in Nat /\ Len(manual.selection) \in Nat
          /\ \A run \in runs : run.sequence \in Nat
      BY DEF Scalars, RunTypes, RunRecord
    <3>2. \A run \in ByHand(verdict) :
            /\ run.batch = "manual" /\ run.case \in cases
            /\ run.sequence >= counter /\ run.sequence < counter'
            /\ \A other \in ByHand(verdict) : other.sequence = run.sequence => other = run
      BY <2>3, ByHandRuns
    <3>3. \A run \in runs' : run.case \in cases /\ run.sequence < counter'
      BY <2>3, <3>1, <3>2
    <3>4. ASSUME NEW run \in runs', NEW other \in runs', run.sequence = other.sequence
          PROVE  run = other
      <4>1. \A x \in runs, y \in ByHand(verdict) : x.sequence # y.sequence
        <5>1. \A x \in runs : x.sequence < counter
          OBVIOUS
        <5>2. \A y \in ByHand(verdict) : y.sequence \in Int
          BY <2>3, ByHandRuns
        <5> QED
          BY <3>1, <3>2, <5>1, <5>2
      <4> QED
        BY <2>3, <3>2, <3>4, <4>1
    <3> QED
      BY <2>1, <2>3, <3>2, <3>3, <3>4
  <2> QED
    BY <1>6, <2>2, <2>3, RecordRunsCases
<1>7. ASSUME NEW s \in Selections, SelectCases(s) PROVE History'
  BY <1>7 DEF SelectCases
<1>8. CASE Crash
  BY <1>8 DEF Crash
<1>9. ASSUME NEW b \in Batches, ClaimBatch(b) PROVE History'
  <2>1. /\ UNCHANGED <<runs, cases, counter>>
        /\ \E st \in {"running", "failed"} : Update(b, [batches[b] EXCEPT !.status = st])
    BY <1>9 DEF ClaimBatch
  <2>2. \A d \in Batches : SameCounts(batches'[d], batches[d])
    BY <2>1, MarkedOnly
  <2> QED
    BY <2>1, <2>2 DEF SameCounts, RunTypes, RunRecord
<1>10. ASSUME NEW b \in Batches, RecordRun(b) PROVE History'
  <2>1. CASE UNCHANGED <<batches, runs, counter>>
    BY <1>10, <2>1 DEF RecordRun
  <2>2. ASSUME NEW v \in VerdictRecord, Recorded(b, Head(task[b].left), v)
        PROVE  History'
    <3> DEFINE c == Head(task[b].left)
               new == Run(counter, c, b, v)
    <3>1. /\ c \in cases /\ c = batches[b].cases[batches[b].done + 1]
          /\ runs' = runs \cup {new} /\ counter' = counter + 1 /\ UNCHANGED cases
          /\ batches'[b].cases = batches[b].cases
          /\ batches'[b].done = batches[b].done + 1
          /\ \A d \in Batches \ {b} : batches'[d] = batches[d]
      BY <1>10, <2>2, NextCase
    <3>2. new.sequence = counter /\ new.case = c /\ new.batch = b
      BY DEF Run
    <3> HIDE DEF new, c
    <3>3. /\ counter \in Nat /\ batches[b].done \in Nat
          /\ \A run \in runs : run.sequence \in Nat /\ run.batch \in Batches \cup {"manual"}
      BY DEF Scalars, RunTypes, RunRecord, RowTypes, BatchRecord
    <3>4. \A run \in runs' : run.case \in cases /\ run.sequence < counter'
      BY <3>1, <3>2, <3>3
    <3>5. \A run, other \in runs' : run.sequence = other.sequence => run = other
      BY <3>1, <3>2, <3>3
    <3>6. ASSUME NEW run \in runs', run.batch # "manual"
          PROVE  \E i \in 1..batches'[run.batch].done :
                   run.case = batches'[run.batch].cases[i]
      <4>1. CASE run = new
        <5>1. batches[b].done + 1 \in 1..batches'[b].done
          BY <3>1, <3>3
        <5> QED
          BY <3>1, <3>2, <4>1, <5>1
      <4>2. CASE run \in runs
        <5>1. PICK i \in 1..batches[run.batch].done :
                     run.case = batches[run.batch].cases[i]
          BY <3>6, <4>2
        <5>2. CASE run.batch = b
          <6>1. i \in 1..batches'[b].done
            BY <3>1, <3>3, <5>1, <5>2
          <6> QED
            BY <3>1, <5>1, <5>2, <6>1
        <5>3. CASE run.batch # b
          BY <3>1, <3>3, <3>6, <4>2, <5>1, <5>3
        <5> QED
          BY <5>2, <5>3
      <4> QED
        BY <3>1, <4>1, <4>2
    <3> QED
      BY <3>1, <3>4, <3>5, <3>6
  <2> QED
    BY <1>10, <2>1, <2>2, RecordRunCases
<1>11. ASSUME NEW b \in Batches, CompleteBatch(b) PROVE History'
  <2>1. /\ UNCHANGED <<runs, cases, counter>>
        /\ \E st \in {"completed"} : Update(b, [batches[b] EXCEPT !.status = st])
    BY <1>11 DEF CompleteBatch
  <2>2. \A d \in Batches : SameCounts(batches'[d], batches[d])
    BY <2>1, MarkedOnly
  <2> QED
    BY <2>1, <2>2 DEF SameCounts, RunTypes, RunRecord
<1>12. ASSUME NEW b \in Batches, MarkFailed(b) PROVE History'
  <2>1. /\ UNCHANGED <<runs, cases, counter>>
        /\ \E st \in {"failed"} : Update(b, [batches[b] EXCEPT !.status = st])
    BY <1>12 DEF MarkFailed
  <2>2. \A d \in Batches : SameCounts(batches'[d], batches[d])
    BY <2>1, MarkedOnly
  <2> QED
    BY <2>1, <2>2 DEF SameCounts, RunTypes, RunRecord
<1>13. ASSUME NEW b \in Batches, WriteFails(b) PROVE History'
  BY <1>13 DEF WriteFails
<1> QED
  BY <1>1, <1>2, <1>3, <1>4, <1>5, <1>6, <1>7, <1>8, <1>9, <1>10, <1>11, <1>12,
    <1>13 DEF Next, Request, Task

\* The runs of a batch that are added to those it has.
LEMMA OneMore ==
  ASSUME NEW S, IsFiniteSet(S), NEW x, x \notin S, NEW condition \in BOOLEAN
  PROVE  Cardinality(IF condition THEN S \cup {x} ELSE S) = Cardinality(S) + One(condition)
<1>1. Cardinality(S) \in Nat
  BY FS_CardinalityType
<1> QED
  BY <1>1, FS_AddElement DEF One

\* The parts of the runs of a batch that its counters count are finite.
LEMMA RunsFinite ==
  ASSUME RunTypes, NEW b
  PROVE  /\ IsFiniteSet(RunsOf(b)) /\ IsFiniteSet(Verdict(RunsOf(b), "passed"))
         /\ IsFiniteSet({run \in RunsOf(b) : run.verdict.falsePositive})
<1>1. IsFiniteSet(RunsOf(b))
  BY FS_Subset DEF RunTypes, RunsOf
<1> QED
  BY <1>1, FS_Subset DEF Verdict

\* A step that keeps the runs of a batch and what its row counts.
LEMMA CountsKept ==
  ASSUME NEW b \in Batches, CountsOf(b), RunsOf(b)' = RunsOf(b),
         batches'[b].cases = batches[b].cases,
         batches'[b].done = batches[b].done, batches'[b].passed = batches[b].passed,
         batches'[b].falsePositive = batches[b].falsePositive
  PROVE  CountsOf(b)'
BY DEF CountsOf, Verdict

\* Every step keeps the counters equal to the numbers of runs.
LEMMA CountsStep ==
  ASSUME Types, Progress, History, Counts, [Next]_vars
  PROVE  Counts'
<1> USE DEF Types, Counts, store
<1>1. CASE UNCHANGED vars
  <2>1. UNCHANGED <<batches, runs, cases>>
    BY <1>1 DEF vars
  <2> QED
    BY <2>1, CountsKept DEF RunsOf
<1>2. ASSUME NEW b \in Batches, CreateBatch(b) PROVE Counts'
  <2>1. /\ UNCHANGED <<runs, cases, counter>> /\ RunsOf(b) = {}
        /\ batches'[b].done = 0 /\ batches'[b].passed = 0
        /\ batches'[b].falsePositive = 0
        /\ \A d \in Batches \ {b} : batches'[d] = batches[d]
    BY <1>2, CreatedEmpty
  <2>2. \A d \in Batches : RunsOf(d)' = RunsOf(d)
    BY <2>1 DEF RunsOf
  <2>3. CountsOf(b)'
    <3>1. RunsOf(b)' = {}
      BY <2>1, <2>2
    <3>2. /\ Verdict(RunsOf(b)', "passed") = {}
          /\ {run \in RunsOf(b)' : run.verdict.falsePositive} = {}
      BY <3>1 DEF Verdict
    <3>3. /\ Verdict(RunsOf(b), "passed")' = {}
          /\ {run \in RunsOf(b) : run.verdict.falsePositive}' = {}
      BY <3>1 DEF Verdict
    <3> QED
      BY <2>1, <3>1, <3>3, FS_EmptySet DEF CountsOf
  <2>4. \A d \in Batches \ {b} : (Ids(batches[d].cases) \subseteq cases => CountsOf(d))'
    BY <2>1, <2>2, CountsKept
  <2> QED
    BY <2>3, <2>4
<1>3. ASSUME NEW b \in Batches, NEW s \in Selections, CheckBatchRequest(b, s)
      PROVE  Counts'
  <2>1. UNCHANGED <<batches, runs, cases>>
    BY <1>3 DEF CheckBatchRequest
  <2> QED
    BY <2>1, CountsKept DEF RunsOf
<1>4. ASSUME NEW c \in Cases, CheckDelete(c) PROVE Counts'
  <2>1. UNCHANGED <<batches, runs, cases>>
    BY <1>4 DEF CheckDelete
  <2> QED
    BY <2>1, CountsKept DEF RunsOf
<1>5. ASSUME NEW c \in Cases, DeleteCase(c) PROVE Counts'
  <2>1. /\ cases' = cases \ {c} /\ UNCHANGED batches
        /\ runs' = {run \in runs : run.case # c}
    BY <1>5 DEF DeleteCase, Kept
  <2>2. ASSUME NEW b \in Batches, Ids(batches'[b].cases) \subseteq cases'
        PROVE  CountsOf(b)'
    <3>1. Ids(batches[b].cases) \subseteq cases /\ c \notin Ids(batches[b].cases)
      BY <2>1, <2>2
    <3>2. \A run \in RunsOf(b) : run.case # c
      <4> SUFFICES ASSUME NEW run \in RunsOf(b) PROVE run.case \in Ids(batches[b].cases)
        BY <3>1
      <4>1. PICK i \in 1..batches[b].done : run.case = batches[b].cases[i]
        BY ManualIsNoBatch DEF RunsOf, History
      <4>2. i \in DOMAIN batches[b].cases
        <5>1. /\ batches[b].done \in Nat /\ batches[b].cases \in Seq(Cases)
              /\ batches[b].done <= Len(batches[b].cases)
          BY DEF RowTypes, BatchRecord, Progress, ProgressOf, RowCounts
        <5> QED
          BY <5>1
      <4> QED
        BY <4>1, <4>2 DEF Ids
    <3>3. RunsOf(b)' = RunsOf(b)
      BY <2>1, <3>2 DEF RunsOf
    <3> QED
      BY <2>1, <3>1, <3>3, CountsKept
  <2> QED
    BY <2>2
<1>6. CASE RecordRuns
  <2>1. UNCHANGED <<cases, batches>>
    BY <1>6 DEF RecordRuns
  <2>2. \A d \in Batches : RunsOf(d)' = RunsOf(d)
    <3>1. CASE UNCHANGED runs
      BY <3>1 DEF RunsOf
    <3>2. ASSUME NEW verdict, runs' = runs \cup ByHand(verdict),
                 Ids(manual.selection) \subseteq cases
          PROVE  \A d \in Batches : RunsOf(d)' = RunsOf(d)
      <4>1. \A run \in ByHand(verdict) : run.batch = "manual"
        BY <3>2, ByHandRuns
      <4> QED
        BY <3>2, <4>1, ManualIsNoBatch DEF RunsOf
    <3> QED
      BY <1>6, <3>1, <3>2, RecordRunsCases
  <2> QED
    BY <2>1, <2>2, CountsKept
<1>7. ASSUME NEW s \in Selections, SelectCases(s) PROVE Counts'
  <2>1. UNCHANGED <<batches, runs, cases>>
    BY <1>7 DEF SelectCases
  <2> QED
    BY <2>1, CountsKept DEF RunsOf
<1>8. CASE Crash
  <2>1. UNCHANGED <<batches, runs, cases>>
    BY <1>8 DEF Crash
  <2> QED
    BY <2>1, CountsKept DEF RunsOf
<1>9. ASSUME NEW b \in Batches, ClaimBatch(b) PROVE Counts'
  <2>1. /\ UNCHANGED <<runs, cases, counter>>
        /\ \E st \in {"running", "failed"} : Update(b, [batches[b] EXCEPT !.status = st])
    BY <1>9 DEF ClaimBatch
  <2>2. \A d \in Batches : SameCounts(batches'[d], batches[d])
    BY <2>1, MarkedOnly
  <2> QED
    BY <2>1, <2>2, CountsKept DEF SameCounts, RunsOf
<1>10. ASSUME NEW b \in Batches, RecordRun(b) PROVE Counts'
  <2>1. CASE UNCHANGED <<batches, runs, counter>>
    <3>1. UNCHANGED cases
      BY <1>10 DEF RecordRun
    <3> QED
      BY <2>1, <3>1, CountsKept DEF RunsOf
  <2>2. ASSUME NEW v \in VerdictRecord, Recorded(b, Head(task[b].left), v)
        PROVE  Counts'
    <3> DEFINE c == Head(task[b].left)
               new == Run(counter, c, b, v)
    <3>1. /\ c \in cases /\ c = batches[b].cases[batches[b].done + 1]
          /\ runs' = runs \cup {new} /\ counter' = counter + 1 /\ UNCHANGED cases
          /\ batches'[b].cases = batches[b].cases
          /\ batches'[b].done = batches[b].done + 1
          /\ batches'[b].passed = batches[b].passed + One(v.status = "passed")
          /\ batches'[b].falsePositive = batches[b].falsePositive + One(v.falsePositive)
          /\ \A d \in Batches \ {b} : batches'[d] = batches[d]
      BY <1>10, <2>2, NextCase
    <3>2. /\ new.sequence = counter /\ new.case = c /\ new.batch = b /\ new.verdict = v
      BY DEF Run
    <3> HIDE DEF new, c
    <3>3. new \notin runs
      BY <3>2 DEF History, Scalars
    <3>4. \A d \in Batches \ {b} : (Ids(batches[d].cases) \subseteq cases => CountsOf(d))'
      <4>1. \A d \in Batches \ {b} : RunsOf(d)' = RunsOf(d)
        BY <3>1, <3>2 DEF RunsOf
      <4> QED
        BY <3>1, <4>1, CountsKept
    <3>5. ASSUME Ids(batches[b].cases) \subseteq cases PROVE CountsOf(b)'
      <4>1. CountsOf(b)
        BY <3>5
      <4>2. RunsOf(b)' = RunsOf(b) \cup {new} /\ new \notin RunsOf(b)
        BY <3>1, <3>2, <3>3 DEF RunsOf
      <4> DEFINE passed == Verdict(RunsOf(b), "passed")
                 wrong == {run \in RunsOf(b) : run.verdict.falsePositive}
      <4>3. passed' = IF v.status = "passed" THEN passed \cup {new} ELSE passed
        BY <3>2, <4>2 DEF Verdict
      <4>4. wrong' = IF v.falsePositive THEN wrong \cup {new} ELSE wrong
        BY <3>2, <4>2
      <4>5. new \notin passed /\ new \notin wrong
        BY <4>2 DEF Verdict
      <4>6. Cardinality(RunsOf(b)') = Cardinality(RunsOf(b)) + 1
        BY <4>2, RunsFinite, FS_AddElement
      <4>7. IsFiniteSet(passed) /\ IsFiniteSet(wrong)
        BY RunsFinite
      <4> HIDE DEF passed, wrong
      <4>8. Cardinality(passed') = Cardinality(passed) + One(v.status = "passed")
        BY <4>3, <4>5, <4>7, OneMore
      <4>9. Cardinality(wrong') = Cardinality(wrong) + One(v.falsePositive)
        <5>1. v.falsePositive \in BOOLEAN
          BY DEF VerdictRecord
        <5> QED
          BY <4>4, <4>5, <4>7, <5>1, OneMore
      <4>10. \A i \in 1..batches'[b].done :
                \E run \in RunsOf(b)' : run.case = batches'[b].cases[i]
        <5> SUFFICES ASSUME NEW i \in 1..batches'[b].done
                     PROVE  \E run \in RunsOf(b)' : run.case = batches'[b].cases[i]
          OBVIOUS
        <5>1. batches[b].done \in Nat
          BY DEF RowTypes, BatchRecord
        <5>2. CASE i = batches[b].done + 1
          BY <3>1, <3>2, <4>2, <5>2
        <5>3. CASE i \in 1..batches[b].done
          BY <3>1, <4>1, <4>2, <5>3 DEF CountsOf
        <5> QED
          BY <3>1, <5>1, <5>2, <5>3
      <4> QED
        BY <3>1, <4>1, <4>6, <4>8, <4>9, <4>10 DEF CountsOf, passed, wrong
    <3> QED
      BY <3>1, <3>4, <3>5
  <2> QED
    BY <1>10, <2>1, <2>2, RecordRunCases
<1>11. ASSUME NEW b \in Batches, CompleteBatch(b) PROVE Counts'
  <2>1. /\ UNCHANGED <<runs, cases, counter>>
        /\ \E st \in {"completed"} : Update(b, [batches[b] EXCEPT !.status = st])
    BY <1>11 DEF CompleteBatch
  <2>2. \A d \in Batches : SameCounts(batches'[d], batches[d])
    BY <2>1, MarkedOnly
  <2> QED
    BY <2>1, <2>2, CountsKept DEF SameCounts, RunsOf
<1>12. ASSUME NEW b \in Batches, MarkFailed(b) PROVE Counts'
  <2>1. /\ UNCHANGED <<runs, cases, counter>>
        /\ \E st \in {"failed"} : Update(b, [batches[b] EXCEPT !.status = st])
    BY <1>12 DEF MarkFailed
  <2>2. \A d \in Batches : SameCounts(batches'[d], batches[d])
    BY <2>1, MarkedOnly
  <2> QED
    BY <2>1, <2>2, CountsKept DEF SameCounts, RunsOf
<1>13. ASSUME NEW b \in Batches, WriteFails(b) PROVE Counts'
  <2>1. UNCHANGED <<batches, runs, cases>>
    BY <1>13 DEF WriteFails
  <2> QED
    BY <2>1, CountsKept DEF RunsOf
<1> QED
  BY <1>1, <1>2, <1>3, <1>4, <1>5, <1>6, <1>7, <1>8, <1>9, <1>10, <1>11, <1>12,
    <1>13 DEF Next, Request, Task

\* What a step may do to batches that ended and to the runs.
EndedKept ==
    \A d \in Batches :
        batches[d].status \in {"completed", "failed"} => batches'[d] = batches[d]
HistoryGrows ==
    /\ \A run \in runs' \ runs : run.sequence >= counter
    /\ \A run \in runs \ runs' : run.case \notin cases'

\* A batch that ended is not written by any step.
LEMMA EndedBatch ==
  ASSUME Types, Progress, [Next]_vars
  PROVE  EndedKept
<1> USE DEF Types, store, EndedKept
<1>1. CASE UNCHANGED vars
  BY <1>1 DEF vars
<1>2. ASSUME NEW b \in Batches, CreateBatch(b) PROVE EndedKept
  <2>1. creating[b] # <<>> /\ \A d \in Batches \ {b} : batches'[d] = batches[d]
    BY <1>2 DEF CreateBatch, Update, RowTypes
  <2>2. batches[b].status \notin {"completed", "failed"}
    BY <2>1 DEF Progress, ProgressOf
  <2> QED
    BY <2>1, <2>2
<1>3. ASSUME NEW b \in Batches, NEW s \in Selections, CheckBatchRequest(b, s)
      PROVE  EndedKept
  BY <1>3 DEF CheckBatchRequest
<1>4. ASSUME NEW c \in Cases, CheckDelete(c) PROVE EndedKept
  BY <1>4 DEF CheckDelete
<1>5. ASSUME NEW c \in Cases, DeleteCase(c) PROVE EndedKept
  BY <1>5 DEF DeleteCase
<1>6. CASE RecordRuns
  BY <1>6 DEF RecordRuns
<1>7. ASSUME NEW s \in Selections, SelectCases(s) PROVE EndedKept
  BY <1>7 DEF SelectCases
<1>8. CASE Crash
  BY <1>8 DEF Crash
<1>9. ASSUME NEW b \in Batches, ClaimBatch(b) PROVE EndedKept
  <2>1. batches[b].status = "queued" /\ \A d \in Batches \ {b} : batches'[d] = batches[d]
    BY <1>9 DEF ClaimBatch, Update, RowTypes
  <2>2. batches[b].status \notin {"completed", "failed"}
    BY <2>1 DEF Progress, ProgressOf
  <2> QED
    BY <2>1, <2>2
<1>10. ASSUME NEW b \in Batches, RecordRun(b) PROVE EndedKept
  <2>1. task[b].at = "search" /\ \A d \in Batches \ {b} : batches'[d] = batches[d]
    BY <1>10 DEF RecordRun, Update, RowTypes
  <2>2. batches[b].status \notin {"completed", "failed"}
    BY <2>1 DEF Progress, ProgressOf
  <2> QED
    BY <2>1, <2>2
<1>11. ASSUME NEW b \in Batches, CompleteBatch(b) PROVE EndedKept
  <2>1. task[b].at = "search" /\ \A d \in Batches \ {b} : batches'[d] = batches[d]
    BY <1>11 DEF CompleteBatch, Update, RowTypes
  <2>2. batches[b].status \notin {"completed", "failed"}
    BY <2>1 DEF Progress, ProgressOf
  <2> QED
    BY <2>1, <2>2
<1>12. ASSUME NEW b \in Batches, MarkFailed(b) PROVE EndedKept
  <2>1. task[b].at = "failing" /\ \A d \in Batches \ {b} : batches'[d] = batches[d]
    BY <1>12 DEF MarkFailed, Update, RowTypes
  <2>2. batches[b].status \notin {"completed", "failed"}
    BY <2>1 DEF Progress, ProgressOf
  <2> QED
    BY <2>1, <2>2
<1>13. ASSUME NEW b \in Batches, WriteFails(b) PROVE EndedKept
  BY <1>13 DEF WriteFails
<1> QED
  BY <1>1, <1>2, <1>3, <1>4, <1>5, <1>6, <1>7, <1>8, <1>9, <1>10, <1>11, <1>12,
    <1>13 DEF Next, Request, Task

\* New runs have new sequences, and runs go only with their case.
LEMMA NewRuns ==
  ASSUME Types, Progress, [Next]_vars
  PROVE  HistoryGrows
<1> USE DEF Types, store, HistoryGrows
<1>1. CASE UNCHANGED vars
  <2>1. UNCHANGED runs
    BY <1>1 DEF vars
  <2> QED
    BY <2>1
<1>2. ASSUME NEW b \in Batches, CreateBatch(b) PROVE HistoryGrows
  <2>1. UNCHANGED runs
    BY <1>2 DEF CreateBatch
  <2> QED
    BY <2>1
<1>3. ASSUME NEW b \in Batches, NEW s \in Selections, CheckBatchRequest(b, s)
      PROVE  HistoryGrows
  <2>1. UNCHANGED runs
    BY <1>3 DEF CheckBatchRequest
  <2> QED
    BY <2>1
<1>4. ASSUME NEW c \in Cases, CheckDelete(c) PROVE HistoryGrows
  <2>1. UNCHANGED runs
    BY <1>4 DEF CheckDelete
  <2> QED
    BY <2>1
<1>5. ASSUME NEW c \in Cases, DeleteCase(c) PROVE HistoryGrows
  <2>1. cases' = cases \ {c} /\ runs' = {run \in runs : run.case # c}
    BY <1>5 DEF DeleteCase, Kept
  <2> QED
    BY <2>1
<1>6. CASE RecordRuns
  <2>1. CASE UNCHANGED runs
    BY <2>1
  <2>2. ASSUME NEW verdict, runs' = runs \cup ByHand(verdict),
               Ids(manual.selection) \subseteq cases
        PROVE  HistoryGrows
    BY <2>2, ByHandRuns
  <2> QED
    BY <1>6, <2>1, <2>2, RecordRunsCases
<1>7. ASSUME NEW s \in Selections, SelectCases(s) PROVE HistoryGrows
  <2>1. UNCHANGED runs
    BY <1>7 DEF SelectCases
  <2> QED
    BY <2>1
<1>8. CASE Crash
  <2>1. UNCHANGED runs
    BY <1>8 DEF Crash
  <2> QED
    BY <2>1
<1>9. ASSUME NEW b \in Batches, ClaimBatch(b) PROVE HistoryGrows
  <2>1. UNCHANGED runs
    BY <1>9 DEF ClaimBatch
  <2> QED
    BY <2>1
<1>10. ASSUME NEW b \in Batches, RecordRun(b) PROVE HistoryGrows
  <2>1. CASE UNCHANGED runs
    BY <2>1
  <2>2. ASSUME NEW v \in VerdictRecord, Recorded(b, Head(task[b].left), v)
        PROVE  HistoryGrows
    <3>1. runs' = runs \cup {Run(counter, Head(task[b].left), b, v)}
      BY <2>2 DEF Recorded
    <3>2. Run(counter, Head(task[b].left), b, v).sequence = counter /\ counter \in Nat
      BY DEF Run, Scalars
    <3> QED
      BY <3>1, <3>2
  <2> QED
    BY <1>10, <2>1, <2>2, RecordRunCases
<1>11. ASSUME NEW b \in Batches, CompleteBatch(b) PROVE HistoryGrows
  <2>1. UNCHANGED runs
    BY <1>11 DEF CompleteBatch
  <2> QED
    BY <2>1
<1>12. ASSUME NEW b \in Batches, MarkFailed(b) PROVE HistoryGrows
  <2>1. UNCHANGED runs
    BY <1>12 DEF MarkFailed
  <2> QED
    BY <2>1
<1>13. ASSUME NEW b \in Batches, WriteFails(b) PROVE HistoryGrows
  <2>1. UNCHANGED runs
    BY <1>13 DEF WriteFails
  <2> QED
    BY <2>1
<1> QED
  BY <1>1, <1>2, <1>3, <1>4, <1>5, <1>6, <1>7, <1>8, <1>9, <1>10, <1>11, <1>12,
    <1>13 DEF Next, Request, Task

\* The invariants hold before the first batch.
LEMMA InitHolds == Init => Types /\ Progress /\ History /\ Counts
<1> SUFFICES ASSUME Init PROVE Types /\ Progress /\ History /\ Counts
  OBVIOUS
<1>1. NoBatch \in BatchRecord /\ Idle \in TaskRecord
  BY DEF NoBatch, BatchRecord, Idle, TaskRecord
<1>2. Types
  <2>1. Scalars
    BY BatchBounds DEF Init, Scalars, Distinct
  <2>2. RowTypes
    BY <1>1 DEF Init, RowTypes, Distinct, NoBatch
  <2>3. TaskTypes /\ RunTypes
    BY <1>1, FS_EmptySet DEF Init, TaskTypes, RunTypes
  <2> QED
    BY <2>1, <2>2, <2>3 DEF Types
<1>3. Progress
  BY DEF Init, Progress, ProgressOf, RowCounts, NoBatch, Idle
<1>4. History
  BY DEF Init, History
<1>5. Counts
  <2> SUFFICES ASSUME NEW b \in Batches PROVE CountsOf(b)
    BY DEF Counts
  <2>1. RunsOf(b) = {}
    BY DEF Init, RunsOf
  <2>2. /\ Verdict(RunsOf(b), "passed") = {}
        /\ {run \in RunsOf(b) : run.verdict.falsePositive} = {}
    BY <2>1 DEF Verdict
  <2>3. batches[b].done = 0 /\ batches[b].passed = 0 /\ batches[b].falsePositive = 0
    BY DEF Init, NoBatch
  <2> QED
    BY <2>1, <2>2, <2>3, FS_EmptySet DEF CountsOf
<1> QED
  BY <1>2, <1>3, <1>4, <1>5

BatchInv == Types /\ Progress /\ History /\ Counts
\* All four groups hold in every reachable state.
LEMMA BatchInvHolds == Spec => []BatchInv
<1>1. Init => BatchInv
  BY InitHolds DEF BatchInv
<1>2. BatchInv /\ [Next]_vars => BatchInv'
  BY TypesStep, ProgressStep, HistoryStep, CountsStep DEF BatchInv
<1> QED
  BY <1>1, <1>2, PTL DEF Spec

\* The report of a batch can be relied on: whatever was deleted, run by hand,
\* killed or failed to be written meanwhile, its counters are those of its
\* runs, and a completed batch has run all of its cases.
THEOREM BatchesAreSound == Spec => []BatchesSound
<1>1. BatchInv => BatchesSound
  <2> SUFFICES ASSUME BatchInv PROVE BatchesSound
    OBVIOUS
  <2>1. \A b \in Batches : RowCounts(batches[b])
    BY DEF BatchInv, Progress, ProgressOf
  <2>2. ASSUME NEW b \in Batches, Ids(batches[b].cases) \subseteq cases
        PROVE  {run.case : run \in RunsOf(b)}
                 = {batches[b].cases[i] : i \in 1..batches[b].done}
    <3>1. \A run \in RunsOf(b) :
            \E i \in 1..batches[b].done : run.case = batches[b].cases[i]
      BY ManualIsNoBatch DEF BatchInv, History, RunsOf
    <3>2. \A i \in 1..batches[b].done :
            \E run \in RunsOf(b) : run.case = batches[b].cases[i]
      BY <2>2 DEF BatchInv, Counts, CountsOf
    <3> QED
      BY <3>1, <3>2
  <2>3. \A b \in Batches : Ids(batches[b].cases) \subseteq cases =>
            /\ Cardinality(RunsOf(b)) = batches[b].done
            /\ Cardinality(Verdict(RunsOf(b), "passed")) = batches[b].passed
            /\ Cardinality({run \in RunsOf(b) : run.verdict.falsePositive})
                 = batches[b].falsePositive
    BY DEF BatchInv, Counts, CountsOf
  <2>4. /\ cases \subseteq Cases /\ deleting \subseteq Cases
        /\ counter \in Nat /\ troubles \in 0..MaxTroubles
        /\ \A run \in runs : run.case \in cases /\ run.sequence < counter
        /\ \A run, other \in runs : run.sequence = other.sequence => run = other
    BY DEF BatchInv, Types, Scalars, History
  <2> QED
    BY <2>1, <2>2, <2>3, <2>4 DEF BatchesSound, RowCounts
<1> QED
  BY <1>1, BatchInvHolds, PTL

\* What a step does to the records: a batch that ended keeps its result, the latest
\* run of a case has the greatest sequence, only a deleted case takes runs along.
RecordsKept ==
    /\ \A b \in Batches :
         batches[b].status \in {"completed", "failed"} => batches'[b] = batches[b]
    /\ \A run \in runs' \ runs : \A earlier \in runs :
         earlier.case = run.case => earlier.sequence < run.sequence
    /\ \A run \in runs \ runs' : run.case \notin cases'
LEMMA RecordsKeptStep == BatchInv /\ [Next]_vars => RecordsKept
<1> SUFFICES ASSUME BatchInv, [Next]_vars PROVE RecordsKept
  OBVIOUS
<1>1. ASSUME NEW b \in Batches, batches[b].status \in {"completed", "failed"}
      PROVE  batches'[b] = batches[b]
  BY <1>1, EndedBatch DEF BatchInv, EndedKept
<1>2. /\ \A run \in runs' \ runs : run.sequence >= counter
      /\ \A run \in runs \ runs' : run.case \notin cases'
  BY NewRuns DEF BatchInv, HistoryGrows
<1>3. counter \in Nat /\ \A run \in runs : run.sequence \in Nat /\ run.sequence < counter
  BY DEF BatchInv, Types, Scalars, RunTypes, RunRecord, History
<1>4. \A run \in runs' \ runs : run.sequence \in Nat
  BY TypesStep DEF BatchInv, Types, RunTypes, RunRecord
<1> QED
  BY <1>1, <1>2, <1>3, <1>4 DEF RecordsKept

\* A batch that ended is never written again, the latest run of a case is the
\* one with the greatest sequence, and only a deleted case takes runs along.
THEOREM HistoryIsKept == Spec => HistoryStands
<1>1. Spec => [][RecordsKept]_vars
  BY RecordsKeptStep, BatchInvHolds, PTL DEF Spec
<1> QED
  BY <1>1 DEF HistoryStands, RecordsKept

-----------------------------------------------------------------------------
(* Conversations, for any number of conversations and requests.            *)

\* The domains of the variables.
ChatPlaces ==
    {"new", "answering", "writing", "shifting", "deleting", "listing", "done", "refused", "failed"}
ChatRow == [turns : Nat, order : Nat]
MessageRow ==
    [conversation : Chat!Ids, send : Sends, role : {"user", "assistant"}, order : Nat]
ChatTypes ==
    /\ rows \in [Chat!Ids -> ChatRow \cup {None}]
    /\ messages \subseteq MessageRow /\ IsFiniteSet(messages)
    /\ lock \in [Chat!Ids -> Chat!Requests \cup {None}]
    /\ at \in [Chat!Requests -> ChatPlaces]
    /\ target \in [Chat!Requests -> Chat!Ids \cup {None}]
    /\ read \in [Chat!Requests -> [count : Nat, turns : Nat]]
    /\ todo \in [Chat!Requests -> SUBSET Chat!Ids]
\* Which requests are where, and that they have a conversation.
ChatSteps ==
    \A r \in Chat!Requests :
        /\ at[r] # "new" => target[r] \in Chat!Ids
        /\ at[r] \in {"answering", "writing"} => r \in Sends
        /\ at[r] \in {"deleting", "listing"} => r \notin Sends
\* Rows are locked by transactions that write, and a locked row exists.
RowLocks ==
    /\ \A c \in Chat!Ids : lock[c] # None => at[lock[c]] = "shifting" /\ c \in Chat!Present
    /\ \A r \in Sends : at[r] = "shifting" => lock[target[r]] = r
\* A row that is being created is known to its creator only.
NewRow ==
    \A r \in Chat!Requests \ Sends : at[r] = "shifting" =>
        /\ target[r] \notin Chat!Present
        /\ \A s \in Chat!Requests : s # r => target[s] # target[r]
\* Messages are the pairs of the sends that committed into rows that exist.
Exchanges ==
    /\ \A m \in messages :
        /\ m.conversation \in Chat!Present /\ at[m.send] = "done"
        /\ target[m.send] = m.conversation /\ m \in Chat!Pair(m.send)
    /\ \A r \in Sends :
        at[r] = "done" /\ target[r] \in Chat!Present => Chat!Pair(r) \subseteq messages
\* The turns that a row has, or that a send has read of it, were exchanged.
Turns ==
    /\ \A c \in Chat!Present :
        /\ rows[c].turns <= Cardinality(Chat!SendsOf(c))
        /\ Chat!SendsOf(c) # {} => rows[c].turns >= 1
    /\ \A r \in Sends :
        at[r] \in {"writing", "shifting"} /\ target[r] \in Chat!Present
            => read[r].turns <= Cardinality(Chat!SendsOf(target[r]))

\* The inductive invariant of the conversations.
ChatInv == ChatTypes /\ ChatSteps /\ RowLocks /\ NewRow /\ Exchanges /\ Turns

\* The senders of a finite set of messages are finite.
LEMMA SendsFinite ==
  ASSUME IsFiniteSet(messages), NEW c
  PROVE  /\ IsFiniteSet(Chat!SendsOf(c)) /\ Cardinality(Chat!SendsOf(c)) \in Nat
         /\ Chat!SendsOf(c) = {m.send : m \in {x \in messages : x.conversation = c}}
<1> DEFINE M == {x \in messages : x.conversation = c}
           S == {m.send : m \in M}
           f == [m \in M |-> m.send]
<1>1. IsFiniteSet(M)
  <2>1. M \in SUBSET messages
    OBVIOUS
  <2> QED
    BY <2>1, FS_Subset
<1>2. f \in Surjection(M, S)
  BY DEF Surjection
<1>3. IsFiniteSet(S)
  <2> HIDE DEF M, S, f
  <2> QED
    BY <1>1, <1>2, FS_Surjection
<1>4. Chat!SendsOf(c) = S
  BY DEF Chat!SendsOf, Chat!MessagesOf
<1> HIDE DEF M, S
<1>5. IsFiniteSet(Chat!SendsOf(c)) /\ Cardinality(Chat!SendsOf(c)) \in Nat
  BY <1>3, <1>4, FS_CardinalityType
<1> QED
  BY <1>4, <1>5 DEF M, S

\* It holds at the start.
LEMMA ChatStart == Chat!Init => ChatInv
<1> SUFFICES ASSUME Chat!Init PROVE ChatInv
  OBVIOUS
<1> USE ChatConstants DEF Chat!Init, Chat!Requests, Chat!Ids
<1>1. ChatTypes
  BY FS_EmptySet DEF ChatTypes, ChatPlaces, ChatRow, Chat!Nothing
<1>2. ChatSteps /\ RowLocks /\ NewRow /\ Exchanges
  BY DEF ChatSteps, RowLocks, NewRow, Exchanges
<1>3. Turns
  <2>1. ASSUME NEW c \in Chat!Present
        PROVE  /\ rows[c].turns <= Cardinality(Chat!SendsOf(c)) /\ Chat!SendsOf(c) = {}
    <3>1. Chat!SendsOf(c) = {}
      BY DEF Chat!SendsOf, Chat!MessagesOf
    <3>2. rows[c].turns = 0
      BY DEF Chat!Present
    <3> QED
      BY <3>1, <3>2, FS_EmptySet
  <2> QED
    BY <2>1 DEF Turns
<1> QED
  BY <1>1, <1>2, <1>3 DEF ChatInv

\* The invariant gives what readers find.
LEMMA ChatInvSuffices == ChatInv => Chat!ChatSound
<1> SUFFICES ASSUME ChatInv PROVE Chat!ChatSound
  OBVIOUS
<1> USE DEF ChatInv
<1>1. \A c \in Chat!Ids : lock[c] # None => at[lock[c]] = "shifting"
  BY DEF RowLocks
<1>2. \A m \in messages : m.conversation \in Chat!Present /\ at[m.send] = "done"
  BY DEF Exchanges
<1>3. ASSUME NEW r \in Sends, at[r] = "done", target[r] \in Chat!Present
      PROVE  {m \in messages : m.send = r} = Chat!Pair(r)
  <2>1. \A m \in Chat!Pair(r) : m \in messages /\ m.send = r
    BY <1>3 DEF Exchanges, Chat!Pair, Chat!Message
  <2>2. \A m \in messages : m.send = r => m \in Chat!Pair(r)
    BY DEF Exchanges
  <2> QED
    BY <2>1, <2>2
<1>4. \A c \in Chat!Present : rows[c].turns <= Cardinality(Chat!SendsOf(c))
  BY DEF Turns
<1>5. Chat!ConversationsSound
  BY <1>1, <1>2, <1>3, <1>4 DEF Chat!ConversationsSound, Chat!Cardinality, Cardinality
<1>6. Chat!TurnsCounted
  <2> SUFFICES ASSUME NEW c \in Chat!Present, ~Chat!Overlap(c)
      PROVE  rows[c].turns = Cardinality(Chat!SendsOf(c))
    BY DEF Chat!TurnsCounted, Chat!Cardinality, Cardinality
  <2> DEFINE S == Chat!SendsOf(c)
  <2>1. IsFiniteSet(S) /\ Cardinality(S) \in Nat
    BY SendsFinite DEF ChatTypes
  <2>2. rows[c].turns \in Nat
    BY DEF ChatTypes, ChatRow, Chat!Present
  <2>3. \A x \in S : x \in Sends /\ target[x] = c
    BY DEF Chat!SendsOf, Chat!MessagesOf, Exchanges, ChatTypes, MessageRow
  <2>4. \A x, y \in S : x = y
    BY <2>3 DEF Chat!Overlap, Chat!Requests
  <2>5. rows[c].turns <= Cardinality(S) /\ (S # {} => rows[c].turns >= 1)
    BY DEF Turns
  <2> HIDE DEF S
  <2>6. CASE S = {}
    BY <2>1, <2>2, <2>5, <2>6, FS_EmptySet DEF S
  <2>7. CASE S # {}
    <3>1. PICK x \in S : TRUE
      BY <2>7
    <3>2. S = {x}
      BY <2>4
    <3>3. Cardinality(S) = 1
      BY <3>2, FS_Singleton
    <3> QED
      BY <2>1, <2>2, <2>5, <2>7, <3>3 DEF S
  <2> QED
    BY <2>6, <2>7
<1> QED
  BY <1>5, <1>6 DEF Chat!ChatSound

\* A request moves on and leaves the rows and messages alone: what was exchanged
\* stays true.
LEMMA ExchangesKept ==
  ASSUME ChatInv, ChatTypes', NEW r \in Chat!Requests,
         UNCHANGED <<rows, messages>>,
         at[r] # "done", r \in Sends => at'[r] # "done",
         \A s \in Chat!Requests : s # r =>
            at'[s] = at[s] /\ target'[s] = target[s] /\ read'[s] = read[s],
         (r \in Sends /\ at'[r] \in {"writing", "shifting"} /\ target'[r] \in Chat!Present)
            => read'[r].turns <= Cardinality(Chat!SendsOf(target'[r]))
  PROVE  Exchanges' /\ Turns'
<1> USE DEF ChatInv
<1>1. Chat!Present' = Chat!Present /\ \A c : Chat!SendsOf(c)' = Chat!SendsOf(c)
  BY DEF Chat!Present, Chat!Ids, Chat!SendsOf, Chat!MessagesOf
<1>2. \A s \in Sends : s \in Chat!Requests
  BY DEF Chat!Requests
<1>3. \A s \in Sends : s # r => Chat!Pair(s)' = Chat!Pair(s)
  BY <1>2 DEF Chat!Pair, Chat!Message
<1>4. Exchanges'
  <2>1. ASSUME NEW m \in messages
        PROVE  /\ m.conversation \in Chat!Present' /\ at'[m.send] = "done"
               /\ target'[m.send] = m.conversation /\ m \in Chat!Pair(m.send)'
    <3>1. m.send \in Sends /\ m.send # r
      BY DEF Exchanges, ChatTypes, MessageRow
    <3> QED
      BY <3>1, <1>1, <1>2, <1>3 DEF Exchanges
  <2>2. ASSUME NEW s \in Sends, at'[s] = "done", target'[s] \in Chat!Present'
        PROVE  Chat!Pair(s)' \subseteq messages'
    <3>1. s # r
      BY <2>2
    <3> QED
      BY <3>1, <2>2, <1>1, <1>2, <1>3 DEF Exchanges
  <2> QED
    BY <2>1, <2>2 DEF Exchanges
<1>5. Turns'
  <2>1. ASSUME NEW c \in Chat!Present'
        PROVE  /\ rows'[c].turns <= Cardinality(Chat!SendsOf(c)')
               /\ Chat!SendsOf(c)' # {} => rows'[c].turns >= 1
    BY <1>1 DEF Turns
  <2>2. ASSUME NEW s \in Sends, at'[s] \in {"writing", "shifting"},
               target'[s] \in Chat!Present'
        PROVE  read'[s].turns <= Cardinality(Chat!SendsOf(target[s]))'
    <3>1. Chat!SendsOf(target[s])' = Chat!SendsOf(target'[s])
      BY DEF Chat!SendsOf, Chat!MessagesOf
    <3>2. CASE s = r
      BY <3>1, <3>2, <2>2, <1>1
    <3>3. CASE s # r
      <4>1. /\ at[s] \in {"writing", "shifting"} /\ target[s] \in Chat!Present
            /\ target'[s] = target[s] /\ read'[s] = read[s]
        BY <3>3, <2>2, <1>1, <1>2
      <4> QED
        BY <3>1, <4>1 DEF Turns
    <3> QED
      BY <3>2, <3>3
  <2> QED
    BY <2>1, <2>2 DEF Turns
<1> QED
  BY <1>4, <1>5

\* The steps of an answer before it is written.
LEMMA AnsweringKeeps ==
  ASSUME ChatInv, NEW r \in Chat!Requests,
         \/ r \in Sends /\ \E c \in Chat!Ids : Chat!BeginSend(r, c)
         \/ Chat!Answered(r) \/ Chat!AnswerFails(r)
  PROVE  ChatInv'
<1> USE ChatConstants DEF ChatInv, Chat!Go
<1>1. UNCHANGED <<rows, messages, lock, todo>>
  BY DEF Chat!BeginSend, Chat!Answered, Chat!AnswerFails
<1>2. /\ at \in [Chat!Requests -> ChatPlaces] /\ target \in [Chat!Requests -> Chat!Ids \cup {None}]
      /\ read \in [Chat!Requests -> [count : Nat, turns : Nat]]
      /\ Chat!Present \subseteq Chat!Ids /\ r \in Sends
      /\ at[r] \in {"new", "answering"} /\ at'[r] \in {"answering", "writing", "refused"}
  BY DEF ChatTypes, ChatPlaces, ChatSteps, Chat!BeginSend, Chat!Answered, Chat!AnswerFails,
     Chat!Present
<1>3. \A s \in Chat!Requests : s # r =>
          at'[s] = at[s] /\ target'[s] = target[s] /\ read'[s] = read[s]
  BY <1>2 DEF Chat!BeginSend, Chat!Answered, Chat!AnswerFails
<1>4. /\ target'[r] \in Chat!Ids /\ target' \in [Chat!Requests -> Chat!Ids \cup {None}]
      /\ target'[r] = target[r] \/ target'[r] \in Chat!Present
  BY <1>2 DEF Chat!BeginSend, Chat!Answered, Chat!AnswerFails, ChatSteps
<1>5. /\ read' \in [Chat!Requests -> [count : Nat, turns : Nat]]
      /\ at'[r] = "writing" => /\ target'[r] \in Chat!Present
                               /\ read'[r].turns = rows[target'[r]].turns
  <2>1. CASE Chat!Answered(r) /\ target[r] \in Chat!Present
    <3> DEFINE n == Cardinality(Chat!MessagesOf(target[r]))
    <3>1. n \in Nat
      <4>1. Chat!MessagesOf(target[r]) \in SUBSET messages
        BY DEF Chat!MessagesOf
      <4>2. IsFiniteSet(messages)
        BY DEF ChatTypes
      <4>3. IsFiniteSet(Chat!MessagesOf(target[r]))
        BY <4>1, <4>2, FS_Subset
      <4> QED
        BY <4>3, FS_CardinalityType
    <3>2. rows[target[r]].turns \in Nat
      BY <2>1 DEF ChatTypes, ChatRow, Chat!Present
    <3>3. /\ read' = [read EXCEPT ![r] = [count |-> n, turns |-> rows[target[r]].turns]]
          /\ target' = target
      BY <2>1 DEF Chat!Answered, Chat!Cardinality, Cardinality
    <3> HIDE DEF n
    <3> QED
      BY <3>1, <3>2, <3>3, <1>2, <2>1
  <2>2. CASE ~(Chat!Answered(r) /\ target[r] \in Chat!Present)
    <3>1. read' = read /\ at'[r] # "writing"
      BY <2>2, <1>2 DEF Chat!BeginSend, Chat!Answered, Chat!AnswerFails
    <3> QED
      BY <3>1, <1>2
  <2> QED
    BY <2>1, <2>2
<1>6. at' \in [Chat!Requests -> ChatPlaces]
  BY <1>2 DEF Chat!BeginSend, Chat!Answered, Chat!AnswerFails, ChatPlaces
<1>7. ChatTypes'
  BY <1>1, <1>4, <1>5, <1>6 DEF ChatTypes
<1>8. Exchanges' /\ Turns'
  <2>1. at'[r] \in {"writing", "shifting"}
          => read'[r].turns <= Cardinality(Chat!SendsOf(target'[r]))
    BY <1>2, <1>5 DEF Turns
  <2>2. at[r] # "done" /\ at'[r] # "done" /\ rows' = rows /\ messages' = messages
    BY <1>1, <1>2
  <2> QED
    BY <1>3, <1>7, <2>1, <2>2, ExchangesKept
<1>9. ChatSteps'
  BY <1>2, <1>3, <1>4 DEF ChatSteps
<1>10. Chat!Present' = Chat!Present
  BY <1>1 DEF Chat!Present, Chat!Ids
<1>11. RowLocks'
  <2>1. ASSUME NEW c \in Chat!Ids, lock'[c] # None
        PROVE  at'[lock'[c]] = "shifting" /\ c \in Chat!Present'
    <3>1. lock[c] \in Chat!Requests /\ lock[c] # r /\ at[lock[c]] = "shifting"
      BY <2>1, <1>1, <1>2 DEF RowLocks, ChatTypes
    <3> QED
      BY <3>1, <2>1, <1>1, <1>3, <1>10 DEF RowLocks
  <2>2. ASSUME NEW s \in Sends, at'[s] = "shifting" PROVE lock'[target'[s]] = s
    BY <2>2, <1>1, <1>2, <1>3 DEF RowLocks, Chat!Requests
  <2> QED
    BY <2>1, <2>2 DEF RowLocks
<1>12. NewRow'
  <2> SUFFICES ASSUME NEW s \in Chat!Requests \ Sends, at'[s] = "shifting"
      PROVE  /\ target'[s] \notin Chat!Present'
             /\ \A u \in Chat!Requests : u # s => target'[u] # target'[s]
    BY DEF NewRow
  <2>1. /\ at[s] = "shifting" /\ target'[s] = target[s] /\ target[s] \notin Chat!Present
        /\ \A u \in Chat!Requests : u # s => target[u] # target[s]
    BY <1>2, <1>3 DEF NewRow
  <2> QED
    BY <2>1, <1>3, <1>4, <1>10
<1> QED
  BY <1>7, <1>8, <1>9, <1>11, <1>12

\* The steps that take locks, begin or give up.
LEMMA LockingKeeps ==
  ASSUME ChatInv, NEW r \in Chat!Requests,
         \/ Chat!WriteOwn(r) \/ \E c \in Chat!Ids : Chat!WriteOther(r, c)
         \/ r \in Creates /\ \E c \in Chat!Ids : Chat!BeginCreate(r, c)
         \/ r \in Deletes /\ \E c \in Chat!Ids : Chat!BeginDelete(r, c)
         \/ Chat!ListAfterDelete(r) \/ Chat!Abort(r)
  PROVE  ChatInv'
<1> USE ChatConstants DEF ChatInv, Chat!Go
<1> DEFINE Own == Chat!WriteOwn(r)
           Other == \E c \in Chat!Ids : Chat!WriteOther(r, c)
           Creating == r \in Creates /\ \E c \in Chat!Ids : Chat!BeginCreate(r, c)
           Deleting == r \in Deletes /\ \E c \in Chat!Ids : Chat!BeginDelete(r, c)
           Listing == Chat!ListAfterDelete(r)
           Aborting == Chat!Abort(r)
<1>0. Own \/ Other \/ Creating \/ Deleting \/ Listing \/ Aborting
  OBVIOUS
<1>1. UNCHANGED <<rows, messages, read>>
  BY DEF Chat!WriteOwn, Chat!WriteOther, Chat!BeginCreate, Chat!BeginDelete,
     Chat!ListAfterDelete, Chat!Abort
<1>2. /\ at \in [Chat!Requests -> ChatPlaces] /\ target \in [Chat!Requests -> Chat!Ids \cup {None}]
      /\ lock \in [Chat!Ids -> Chat!Requests \cup {None}]
      /\ todo \in [Chat!Requests -> SUBSET Chat!Ids]
      /\ Chat!Present \subseteq Chat!Ids /\ None \notin Chat!Requests
      /\ Fresh \subseteq Chat!Ids
  BY DEF ChatTypes, Chat!Present, Chat!Ids, Chat!Requests
<1>3. /\ Aborting => at[r] \in {"writing", "deleting", "shifting"}
      /\ Own => at[r] = "writing"
      /\ Other => at[r] = "shifting" /\ at' = at
      /\ Creating \/ Deleting => at[r] = "new" /\ r \notin Sends
      /\ Listing => at[r] = "listing" /\ r \notin Sends
  BY DEF Chat!WriteOwn, Chat!WriteOther, Chat!BeginCreate, Chat!BeginDelete,
     Chat!ListAfterDelete, Chat!Abort, Chat!Victim, Chat!Blocked, Chat!Wants, ChatSteps
<1>4. /\ at' \in [Chat!Requests -> ChatPlaces]
      /\ \A s \in Chat!Requests : s # r => at'[s] = at[s]
      /\ Aborting => at'[r] = "failed"
      /\ Own => at'[r] \in {"shifting", "failed"}
      /\ Creating => at'[r] = "shifting"
      /\ Deleting => at'[r] = "deleting"
      /\ Listing => at'[r] \in {"shifting", "done"}
  BY <1>2 DEF Chat!WriteOwn, Chat!WriteOther, Chat!BeginCreate, Chat!BeginDelete,
     Chat!ListAfterDelete, Chat!Abort, ChatPlaces
<1>5. /\ target' \in [Chat!Requests -> Chat!Ids \cup {None}]
      /\ \A s \in Chat!Requests : s # r => target'[s] = target[s]
      /\ Own \/ Other \/ Aborting => target' = target
      /\ target'[r] \in Chat!Ids
      /\ at'[r] = "shifting" /\ (Creating \/ Listing) =>
            /\ target'[r] \notin Chat!Present
            /\ \A s \in Chat!Requests : target[s] # target'[r]
  <2>1. CASE Own \/ Other \/ Aborting
    BY <2>1, <1>2, <1>3 DEF Chat!WriteOwn, Chat!WriteOther, Chat!Abort, ChatSteps
  <2>2. CASE Creating
    BY <2>2, <1>2, <1>3 DEF Chat!BeginCreate, Chat!WriteOwn, Chat!WriteOther, Chat!Abort,
       Chat!Ids
  <2>3. CASE Deleting
    BY <2>3, <1>2, <1>3, <1>4 DEF Chat!BeginDelete, Chat!WriteOwn, Chat!WriteOther, Chat!Abort
  <2>4. CASE Listing
    <3>1. target[r] \in Chat!Ids
      BY <2>4, <1>3 DEF ChatSteps
    <3>2. at'[r] = "done" => target' = target
      BY <2>4, <1>2 DEF Chat!ListAfterDelete
    <3>3. at'[r] = "shifting" =>
            /\ Chat!Present = {}
            /\ \E c \in Fresh : /\ \A s \in Chat!Requests : target[s] # c
                                /\ target' = [target EXCEPT ![r] = c]
      BY <2>4, <1>2 DEF Chat!ListAfterDelete
    <3>4. ~Own /\ ~Other /\ ~Aborting
      BY <2>4, <1>3
    <3>5. CASE at'[r] = "done"
      BY <3>1, <3>2, <3>4, <3>5, <1>2
    <3>6. CASE at'[r] = "shifting"
      <4>1. PICK c \in Fresh : /\ \A s \in Chat!Requests : target[s] # c
                               /\ target' = [target EXCEPT ![r] = c]
        BY <3>3, <3>6
      <4>2. c \in Chat!Ids /\ Chat!Present = {}
        BY <1>2, <3>3, <3>6
      <4> QED
        BY <4>1, <4>2, <3>4, <1>2
    <3> QED
      BY <2>4, <1>4, <3>5, <3>6
  <2> QED
    BY <1>0, <2>1, <2>2, <2>3, <2>4
<1>6. /\ Other => \E c \in Chat!Ids : /\ lock[c] = None
                                      /\ lock' = IF c \in Chat!Present
                                                 THEN [lock EXCEPT ![c] = r] ELSE lock
      /\ Own => /\ lock[target[r]] = None
                /\ at'[r] = "shifting" => /\ lock' = [lock EXCEPT ![target[r]] = r]
                                          /\ target[r] \in Chat!Present
                /\ at'[r] = "failed" => lock' = lock
      /\ Creating \/ Deleting \/ Listing => lock' = lock
      /\ Aborting => lock' = Chat!Releases(r)
  BY <1>2 DEF Chat!WriteOwn, Chat!WriteOther, Chat!BeginCreate, Chat!BeginDelete,
     Chat!ListAfterDelete, Chat!Abort
<1>7. /\ lock' \in [Chat!Ids -> Chat!Requests \cup {None}]
      /\ \A c \in Chat!Ids : lock[c] \notin {r, None} => lock'[c] = lock[c]
      /\ \A c \in Chat!Ids : lock[c] = r /\ ~Aborting => lock'[c] = r
      /\ \A c \in Chat!Ids : lock'[c] = r => at'[r] = "shifting" /\ c \in Chat!Present
      /\ \A c \in Chat!Ids : lock'[c] \in {lock[c], r, None}
  <2>0. \A c \in Chat!Ids : lock[c] = r => at[r] = "shifting" /\ c \in Chat!Present
    BY <1>2 DEF RowLocks
  <2>1. CASE Other
    BY <2>0, <2>1, <1>2, <1>3, <1>6
  <2>2. CASE Own
    BY <2>0, <2>2, <1>2, <1>3, <1>4, <1>6
  <2>3. CASE Creating \/ Deleting \/ Listing
    BY <2>0, <2>3, <1>2, <1>3, <1>6
  <2>4. CASE Aborting
    BY <2>0, <2>4, <1>2, <1>6 DEF Chat!Releases
  <2> QED
    BY <1>0, <2>1, <2>2, <2>3, <2>4
<1>8. todo' \in [Chat!Requests -> SUBSET Chat!Ids]
  BY <1>2 DEF Chat!WriteOwn, Chat!WriteOther, Chat!BeginCreate, Chat!BeginDelete,
     Chat!ListAfterDelete, Chat!Abort
<1>9. ChatTypes'
  BY <1>1, <1>4, <1>5, <1>7, <1>8 DEF ChatTypes
<1> HIDE DEF Own, Other, Creating, Deleting, Listing, Aborting
<1>10. Exchanges' /\ Turns'
  <2>1. /\ at[r] # "done" /\ (r \in Sends => at'[r] # "done")
    BY <1>0, <1>3, <1>4
  <2>2. (r \in Sends /\ at'[r] \in {"writing", "shifting"} /\ target'[r] \in Chat!Present)
            => read'[r].turns <= Cardinality(Chat!SendsOf(target'[r]))
    <3> SUFFICES ASSUME r \in Sends, at'[r] \in {"writing", "shifting"},
                        target'[r] \in Chat!Present
        PROVE  read'[r].turns <= Cardinality(Chat!SendsOf(target'[r]))
      OBVIOUS
    <3>1. at[r] \in {"writing", "shifting"} /\ target'[r] = target[r] /\ read'[r] = read[r]
      BY <1>0, <1>1, <1>3, <1>4, <1>5
    <3> QED
      BY <3>1 DEF Turns
  <2>3. \A s \in Chat!Requests : s # r =>
            at'[s] = at[s] /\ target'[s] = target[s] /\ read'[s] = read[s]
    BY <1>1, <1>4, <1>5
  <2>4. rows' = rows /\ messages' = messages
    BY <1>1
  <2> QED
    BY <1>9, <2>1, <2>2, <2>3, <2>4, ExchangesKept
<1>11. ChatSteps'
  <2>1. ASSUME NEW s \in Chat!Requests
        PROVE  /\ at'[s] # "new" => target'[s] \in Chat!Ids
               /\ at'[s] \in {"answering", "writing"} => s \in Sends
               /\ at'[s] \in {"deleting", "listing"} => s \notin Sends
    <3>1. CASE s # r
      BY <3>1, <1>4, <1>5 DEF ChatSteps
    <3>2. CASE s = r
      BY <3>2, <1>0, <1>3, <1>4, <1>5 DEF ChatSteps
    <3> QED
      BY <3>1, <3>2
  <2> QED
    BY <2>1 DEF ChatSteps
<1>12. Chat!Present' = Chat!Present
  BY <1>1 DEF Chat!Present, Chat!Ids
<1>13. RowLocks'
  <2>1. ASSUME NEW c \in Chat!Ids, lock'[c] # None
        PROVE  at'[lock'[c]] = "shifting" /\ c \in Chat!Present'
    <3>1. CASE lock'[c] = r
      BY <3>1, <1>7, <1>12
    <3>2. CASE lock'[c] # r
      <4>1. lock'[c] = lock[c] /\ lock[c] \in Chat!Requests
        BY <3>2, <2>1, <1>2, <1>7
      <4> QED
        BY <4>1, <3>2, <2>1, <1>4, <1>12 DEF RowLocks
    <3> QED
      BY <3>1, <3>2
  <2>2. ASSUME NEW s \in Sends, at'[s] = "shifting" PROVE lock'[target'[s]] = s
    <3>0. s \in Chat!Requests
      BY DEF Chat!Requests
    <3>1. CASE s # r
      <4>1. lock[target[s]] = s /\ target[s] \in Chat!Ids /\ target'[s] = target[s]
        BY <3>0, <3>1, <2>2, <1>4, <1>5 DEF RowLocks, ChatSteps
      <4> QED
        BY <4>1, <3>0, <3>1, <1>2, <1>7
    <3>2. CASE s = r
      <4>1. Own \/ Other
        BY <3>2, <2>2, <1>0, <1>3, <1>4
      <4>2. CASE Own
        BY <4>2, <3>2, <2>2, <1>2, <1>5, <1>6
      <4>3. CASE Other
        <5>1. lock[target[r]] = r /\ target[r] \in Chat!Ids /\ target'[r] = target[r]
          BY <4>3, <3>2, <1>3, <1>5 DEF RowLocks, ChatSteps
        <5>2. ~Aborting
          BY <4>3, <3>2, <2>2, <1>4
        <5> QED
          BY <5>1, <5>2, <3>2, <1>7
      <4> QED
        BY <4>1, <4>2, <4>3
    <3> QED
      BY <3>1, <3>2
  <2> QED
    BY <2>1, <2>2 DEF RowLocks
<1>14. NewRow'
  <2> SUFFICES ASSUME NEW s \in Chat!Requests \ Sends, at'[s] = "shifting"
      PROVE  /\ target'[s] \notin Chat!Present'
             /\ \A u \in Chat!Requests : u # s => target'[u] # target'[s]
    BY DEF NewRow
  <2>1. CASE s = r
    <3>1. \/ Creating \/ Listing
          \/ Other /\ at[r] = "shifting" /\ target' = target
      BY <2>1, <1>0, <1>3, <1>4, <1>5 DEF ChatSteps
    <3>2. CASE Creating \/ Listing
      BY <3>2, <2>1, <1>5, <1>12
    <3>3. CASE Other /\ at[r] = "shifting" /\ target' = target
      BY <3>3, <2>1, <1>12 DEF NewRow
    <3> QED
      BY <3>1, <3>2, <3>3
  <2>2. CASE s # r
    <3>1. /\ at[s] = "shifting" /\ target'[s] = target[s] /\ target[s] \notin Chat!Present
          /\ \A u \in Chat!Requests : u # s => target[u] # target[s]
      BY <2>2, <1>4, <1>5 DEF NewRow
    <3>2. target'[r] # target[s]
      <4>1. CASE Deleting
        <5>1. target'[r] \in Chat!Present
          BY <4>1, <1>2 DEF Deleting, Chat!BeginDelete
        <5> QED
          BY <5>1, <3>1
      <4>2. CASE Creating \/ Listing
        BY <4>2, <2>2, <3>1, <1>2, <1>4, <1>5 DEF Listing, Chat!ListAfterDelete
      <4>3. CASE Own \/ Other \/ Aborting
        BY <4>3, <2>2, <3>1, <1>5
      <4> QED
        BY <1>0, <4>1, <4>2, <4>3
    <3> QED
      BY <2>2, <3>1, <3>2, <1>5, <1>12
  <2> QED
    BY <2>1, <2>2
<1> QED
  BY <1>9, <1>10, <1>11, <1>13, <1>14

\* What a commit does to the rows that were locked: they stay, and keep their turns.
LEMMA ShiftedRows ==
  ASSUME ChatInv, NEW r \in Chat!Requests
  PROVE  /\ Chat!Shifted(r) \in [Chat!Ids -> ChatRow \cup {None}]
         /\ \A c \in Chat!Ids : c \in Chat!Present =>
                Chat!Shifted(r)[c] \in ChatRow /\ Chat!Shifted(r)[c].turns = rows[c].turns
         /\ \A c \in Chat!Ids : c \notin Chat!Present => Chat!Shifted(r)[c] = None
<1> USE ChatConstants DEF ChatInv
<1>1. ASSUME NEW c \in Chat!Present
      PROVE  /\ c \in Chat!Ids /\ rows[c] \in ChatRow
             /\ [rows[c] EXCEPT !.order = @ + 1] \in ChatRow
             /\ [rows[c] EXCEPT !.order = @ + 1].turns = rows[c].turns
  BY DEF Chat!Present, ChatTypes, ChatRow
<1>2. \A c \in Chat!Ids : c \notin Chat!Present => rows[c] = None
  BY DEF Chat!Present
<1>3. \A c \in Chat!Ids : lock[c] = r => c \in Chat!Present
  BY DEF RowLocks, Chat!Requests
<1>4. \A c \in Chat!Ids :
        Chat!Shifted(r)[c] = IF lock[c] = r THEN [rows[c] EXCEPT !.order = @ + 1] ELSE rows[c]
  BY DEF Chat!Shifted
<1>5. Chat!Shifted(r) = [c \in Chat!Ids |-> Chat!Shifted(r)[c]]
  BY DEF Chat!Shifted
<1>6. ASSUME NEW c \in Chat!Ids
      PROVE  /\ Chat!Shifted(r)[c] \in ChatRow \cup {None}
             /\ c \in Chat!Present =>
                  Chat!Shifted(r)[c] \in ChatRow /\ Chat!Shifted(r)[c].turns = rows[c].turns
             /\ c \notin Chat!Present => Chat!Shifted(r)[c] = None
  <2>1. CASE c \in Chat!Present
    BY <2>1, <1>1, <1>4
  <2>2. CASE c \notin Chat!Present
    BY <2>2, <1>2, <1>3, <1>4
  <2> QED
    BY <2>1, <2>2
<1> QED
  BY <1>5, <1>6

\* What both commits leave of the locks and of the other requests.
LEMMA CommitLocks ==
  ASSUME ChatInv, NEW r \in Chat!Requests, at[r] = "shifting",
         lock' = Chat!Releases(r), at' = [at EXCEPT ![r] = "done"],
         UNCHANGED <<target, read, todo>>, Chat!Present \subseteq Chat!Present'
  PROVE  /\ lock' \in [Chat!Ids -> Chat!Requests \cup {None}]
         /\ at' \in [Chat!Requests -> ChatPlaces] /\ at'[r] = "done"
         /\ \A s \in Chat!Requests : s # r => at'[s] = at[s]
         /\ ChatSteps' /\ RowLocks'
<1> USE ChatConstants DEF ChatInv
<1>1. /\ lock' \in [Chat!Ids -> Chat!Requests \cup {None}]
      /\ \A c \in Chat!Ids : lock'[c] = IF lock[c] = r THEN None ELSE lock[c]
  BY DEF ChatTypes, Chat!Releases
<1>2. /\ at' \in [Chat!Requests -> ChatPlaces] /\ at'[r] = "done"
      /\ \A s \in Chat!Requests : s # r => at'[s] = at[s]
  BY DEF ChatTypes, ChatPlaces
<1>3. ChatSteps'
  BY <1>2 DEF ChatSteps
<1>4. RowLocks'
  <2>1. ASSUME NEW c \in Chat!Ids, lock'[c] # None
        PROVE  at'[lock'[c]] = "shifting" /\ c \in Chat!Present'
    <3>1. lock'[c] = lock[c] /\ lock[c] \in Chat!Requests /\ lock[c] # r
      BY <2>1, <1>1 DEF ChatTypes
    <3> QED
      BY <3>1, <2>1, <1>2 DEF RowLocks
  <2>2. ASSUME NEW s \in Sends, at'[s] = "shifting" PROVE lock'[target'[s]] = s
    <3>1. s \in Chat!Requests /\ s # r
      BY <2>2, <1>2 DEF Chat!Requests
    <3>2. lock[target[s]] = s /\ target[s] \in Chat!Ids
      BY <3>1, <2>2, <1>2 DEF RowLocks, ChatSteps
    <3> QED
      BY <3>1, <3>2, <1>1
  <2> QED
    BY <2>1, <2>2 DEF RowLocks
<1> QED
  BY <1>1, <1>2, <1>3, <1>4

\* A send writes its two messages and its turn.
LEMMA CommitSendKeeps ==
  ASSUME ChatInv, NEW r \in Chat!Requests, Chat!CommitSend(r)
  PROVE  ChatInv'
<1> USE ChatConstants DEF ChatInv
<1>1. /\ r \in Sends /\ at[r] = "shifting"
      /\ messages' = messages \cup Chat!Pair(r)
      /\ rows' = [Chat!Shifted(r) EXCEPT ![target[r]] =
                     [turns |-> read[r].turns + 1, order |-> 0]]
      /\ lock' = Chat!Releases(r) /\ at' = [at EXCEPT ![r] = "done"]
      /\ UNCHANGED <<target, read, todo>>
  BY DEF Chat!CommitSend, Chat!Go
<1> DEFINE c == target[r]
<1>2. /\ c \in Chat!Ids /\ lock[c] = r /\ c \in Chat!Present
      /\ read[r].turns \in Nat /\ read[r].count \in Nat
  BY <1>1 DEF ChatSteps, RowLocks, ChatTypes, Chat!Requests
<1>3. /\ rows' \in [Chat!Ids -> ChatRow \cup {None}]
      /\ rows'[c].turns = read[r].turns + 1 /\ rows'[c] \in ChatRow
      /\ \A d \in Chat!Ids : d # c => rows'[d] = Chat!Shifted(r)[d]
  BY <1>1, <1>2, ShiftedRows DEF ChatRow
<1>4. Chat!Present' = Chat!Present
  <2>1. ASSUME NEW d \in Chat!Ids PROVE rows'[d] # None <=> d \in Chat!Present
    <3>1. CASE d = c
      BY <3>1, <1>2, <1>3 DEF ChatRow
    <3>2. CASE d # c
      BY <3>2, <1>3, ShiftedRows DEF ChatRow
    <3> QED
      BY <3>1, <3>2
  <2>2. Chat!Ids' = Chat!Ids
    BY DEF Chat!Ids
  <2> QED
    BY <2>1, <2>2 DEF Chat!Present
<1>5. /\ Chat!Pair(r) \subseteq MessageRow /\ IsFiniteSet(Chat!Pair(r))
      /\ \A m \in Chat!Pair(r) : m.send = r /\ m.conversation = c
      /\ Chat!Pair(r) # {} /\ \A s \in Chat!Requests : Chat!Pair(s)' = Chat!Pair(s)
  <2>1. /\ Chat!Message(r, "user", read[r].count) \in MessageRow
        /\ Chat!Message(r, "assistant", read[r].count + 1) \in MessageRow
    BY <1>1, <1>2 DEF Chat!Message, MessageRow
  <2>2. IsFiniteSet(Chat!Pair(r))
    <3>1. \A x, y : IsFiniteSet({x, y})
      <4> TAKE x, y
      <4>1. {x, y} = {x} \cup {y}
        OBVIOUS
      <4>2. IsFiniteSet({x} \cup {y})
        BY FS_Singleton, FS_AddElement
      <4> QED
        BY <4>1, <4>2
    <3> QED
      BY <3>1, Zenon DEF Chat!Pair
  <2> QED
    BY <1>1, <2>1, <2>2 DEF Chat!Pair, Chat!Message
<1>6. /\ messages' \subseteq MessageRow /\ IsFiniteSet(messages')
  BY <1>1, <1>5, FS_Union DEF ChatTypes
<1>7. /\ lock' \in [Chat!Ids -> Chat!Requests \cup {None}]
      /\ at' \in [Chat!Requests -> ChatPlaces] /\ at'[r] = "done"
      /\ \A s \in Chat!Requests : s # r => at'[s] = at[s]
      /\ ChatSteps' /\ RowLocks'
  BY <1>1, <1>4, CommitLocks
<1>8. ChatTypes'
  BY <1>1, <1>3, <1>6, <1>7 DEF ChatTypes
<1>9. NewRow'
  BY <1>1, <1>4, <1>7 DEF NewRow
<1> HIDE DEF c
<1>10. Exchanges'
  <2>1. ASSUME NEW m \in messages'
        PROVE  /\ m.conversation \in Chat!Present' /\ at'[m.send] = "done"
               /\ target'[m.send] = m.conversation /\ m \in Chat!Pair(m.send)'
    <3>1. CASE m \in Chat!Pair(r)
      BY <3>1, <1>1, <1>2, <1>4, <1>5, <1>7 DEF c
    <3>2. CASE m \in messages
      <4>1. m.send \in Chat!Requests /\ m.send # r /\ at[m.send] = "done"
        BY <3>2, <1>1 DEF Exchanges, ChatTypes, MessageRow, Chat!Requests
      <4> QED
        BY <4>1, <3>2, <1>1, <1>4, <1>5, <1>7 DEF Exchanges
    <3> QED
      BY <1>1, <3>1, <3>2
  <2>2. ASSUME NEW s \in Sends, at'[s] = "done", target'[s] \in Chat!Present'
        PROVE  Chat!Pair(s)' \subseteq messages'
    <3>0. s \in Chat!Requests
      BY DEF Chat!Requests
    <3>1. CASE s = r
      BY <3>0, <3>1, <1>1, <1>5
    <3>2. CASE s # r
      BY <3>0, <3>2, <2>2, <1>1, <1>4, <1>5, <1>7 DEF Exchanges
    <3> QED
      BY <3>1, <3>2
  <2> QED
    BY <2>1, <2>2 DEF Exchanges
<1>11. \A d : Chat!SendsOf(d)' = IF d = c THEN Chat!SendsOf(d) \cup {r} ELSE Chat!SendsOf(d)
  <2> SUFFICES ASSUME NEW d
      PROVE  Chat!SendsOf(d)' = IF d = c THEN Chat!SendsOf(d) \cup {r} ELSE Chat!SendsOf(d)
    OBVIOUS
  <2>1. Chat!SendsOf(d)' = {m.send : m \in {x \in messages \cup Chat!Pair(r) : x.conversation = d}}
    BY <1>1 DEF Chat!SendsOf, Chat!MessagesOf
  <2>2. Chat!SendsOf(d) = {m.send : m \in {x \in messages : x.conversation = d}}
    BY DEF Chat!SendsOf, Chat!MessagesOf
  <2>3. CASE d = c
    <3>1. PICK m \in Chat!Pair(r) : TRUE
      BY <1>5
    <3> QED
      BY <2>1, <2>2, <2>3, <3>1, <1>5
  <2>4. CASE d # c
    BY <2>1, <2>2, <2>4, <1>5
  <2> QED
    BY <2>3, <2>4
<1>12. \A d : /\ IsFiniteSet(Chat!SendsOf(d)) /\ Cardinality(Chat!SendsOf(d)) \in Nat
  BY SendsFinite DEF ChatTypes
<1>13. ASSUME NEW S, IsFiniteSet(S)
       PROVE  /\ Cardinality(S) \in Nat /\ Cardinality(S \cup {r}) \in Nat
              /\ Cardinality(S) <= Cardinality(S \cup {r})
              /\ r \notin S => Cardinality(S \cup {r}) = Cardinality(S) + 1
  <2>1. /\ Cardinality(S \cup {r}) = IF r \in S THEN Cardinality(S) ELSE Cardinality(S) + 1
        /\ Cardinality(S) \in Nat
    BY <1>13, FS_AddElement, FS_CardinalityType
  <2> QED
    BY <2>1
<1>14. Turns'
  <2>1. ASSUME NEW d \in Chat!Present'
        PROVE  /\ rows'[d].turns <= Cardinality(Chat!SendsOf(d)')
               /\ Chat!SendsOf(d)' # {} => rows'[d].turns >= 1
    <3>1. CASE d = c
      <4>1. read[r].turns <= Cardinality(Chat!SendsOf(c))
        BY <1>1, <1>2 DEF Turns, c
      <4>2. rows'[d].turns = read[r].turns + 1
        BY <3>1, <1>3 DEF c
      <4>3. Cardinality(Chat!SendsOf(d)') = Cardinality(Chat!SendsOf(c)) + 1
        <5>1. Chat!SendsOf(d)' = Chat!SendsOf(d) \cup {r}
          BY <3>1, <1>11
        <5>2. r \notin Chat!SendsOf(d)
          BY <1>1 DEF Chat!SendsOf, Chat!MessagesOf, Exchanges
        <5> QED
          BY <3>1, <5>1, <5>2, <1>12, <1>13
      <4> QED
        BY <4>1, <4>2, <4>3, <1>2, <1>12
    <3>2. CASE d # c
      <4>1. rows'[d].turns = rows[d].turns /\ d \in Chat!Present
        BY <3>2, <1>3, <1>4, ShiftedRows DEF c, Chat!Present
      <4>2. Chat!SendsOf(d)' = Chat!SendsOf(d)
        BY <3>2, <1>11
      <4> QED
        BY <4>1, <4>2 DEF Turns
    <3> QED
      BY <3>1, <3>2
  <2>2. ASSUME NEW s \in Sends, at'[s] \in {"writing", "shifting"},
               target'[s] \in Chat!Present'
        PROVE  read'[s].turns <= Cardinality(Chat!SendsOf(target[s]))'
    <3>1. PICK d : d = target[s]
      OBVIOUS
    <3>2. Chat!SendsOf(target[s])' = Chat!SendsOf(d)'
      <4>1. target'[s] = d
        BY <1>1, <3>1
      <4> QED
        BY <4>1 DEF Chat!SendsOf, Chat!MessagesOf
    <3>3. s \in Chat!Requests /\ s # r /\ at[s] \in {"writing", "shifting"} /\ d \in Chat!Present
      BY <2>2, <3>1, <1>1, <1>4, <1>7 DEF Chat!Requests
    <3>4. read[s].turns <= Cardinality(Chat!SendsOf(d)) /\ read[s].turns \in Nat
      BY <3>1, <3>3 DEF Turns, ChatTypes
    <3>5. Cardinality(Chat!SendsOf(d)) <= Cardinality(Chat!SendsOf(d)')
      BY <1>11, <1>12, <1>13
    <3>6. Cardinality(Chat!SendsOf(d)') \in Nat
      BY <1>11, <1>12, <1>13
    <3> QED
      BY <3>2, <3>4, <3>5, <3>6, <1>1, <1>12
  <2> QED
    BY <2>1, <2>2 DEF Turns
<1> QED
  BY <1>7, <1>8, <1>9, <1>10, <1>14

\* A conversation is created: nobody has asked anything of it.
LEMMA CommitCreateKeeps ==
  ASSUME ChatInv, NEW r \in Chat!Requests, Chat!CommitCreate(r)
  PROVE  ChatInv'
<1> USE ChatConstants DEF ChatInv
<1>1. /\ r \notin Sends /\ at[r] = "shifting"
      /\ rows' = [Chat!Shifted(r) EXCEPT ![target[r]] = [turns |-> 0, order |-> 0]]
      /\ lock' = Chat!Releases(r) /\ at' = [at EXCEPT ![r] = "done"]
      /\ UNCHANGED <<messages, target, read, todo>>
  BY DEF Chat!CommitCreate, Chat!Go
<1>2. /\ target[r] \in Chat!Ids /\ target[r] \notin Chat!Present
      /\ \A s \in Chat!Requests : s # r => target[s] # target[r]
  BY <1>1 DEF ChatSteps, NewRow
<1>3. /\ rows' \in [Chat!Ids -> ChatRow \cup {None}]
      /\ rows'[target[r]].turns = 0 /\ rows'[target[r]] \in ChatRow
      /\ \A d \in Chat!Ids : d # target[r] => rows'[d] = Chat!Shifted(r)[d]
  BY <1>1, <1>2, ShiftedRows DEF ChatRow
<1>4. Chat!Present' = Chat!Present \cup {target[r]}
  <2>1. ASSUME NEW d \in Chat!Ids
        PROVE  rows'[d] # None <=> d \in Chat!Present \cup {target[r]}
    <3>1. CASE d = target[r]
      BY <3>1, <1>2, <1>3 DEF ChatRow
    <3>2. CASE d # target[r]
      BY <3>2, <1>3, ShiftedRows DEF ChatRow
    <3> QED
      BY <3>1, <3>2
  <2>2. Chat!Ids' = Chat!Ids /\ Chat!Present \subseteq Chat!Ids
    BY DEF Chat!Ids, Chat!Present
  <2> QED
    BY <2>1, <2>2, <1>2 DEF Chat!Present
<1>5. /\ lock' \in [Chat!Ids -> Chat!Requests \cup {None}]
      /\ at' \in [Chat!Requests -> ChatPlaces] /\ at'[r] = "done"
      /\ \A s \in Chat!Requests : s # r => at'[s] = at[s]
      /\ ChatSteps' /\ RowLocks'
  BY <1>1, <1>4, CommitLocks
<1>6. ChatTypes'
  BY <1>1, <1>3, <1>5 DEF ChatTypes
<1>7. NewRow'
  <2> SUFFICES ASSUME NEW s \in Chat!Requests \ Sends, at'[s] = "shifting"
      PROVE  /\ target'[s] \notin Chat!Present'
             /\ \A u \in Chat!Requests : u # s => target'[u] # target'[s]
    BY DEF NewRow
  <2>1. s # r /\ at[s] = "shifting"
    BY <1>5
  <2> QED
    BY <2>1, <1>1, <1>2, <1>4 DEF NewRow
<1>8. \A s \in Chat!Requests : Chat!Pair(s)' = Chat!Pair(s)
  BY <1>1 DEF Chat!Pair, Chat!Message
<1>9. \A s \in Sends : s \in Chat!Requests /\ s # r /\ target[s] # target[r]
  BY <1>1, <1>2 DEF Chat!Requests
<1>10. Exchanges'
  <2>1. ASSUME NEW m \in messages
        PROVE  /\ m.conversation \in Chat!Present' /\ at'[m.send] = "done"
               /\ target'[m.send] = m.conversation /\ m \in Chat!Pair(m.send)'
    <3>1. m.send \in Sends
      BY DEF ChatTypes, MessageRow
    <3> QED
      BY <3>1, <1>1, <1>4, <1>5, <1>8, <1>9 DEF Exchanges
  <2>2. ASSUME NEW s \in Sends, at'[s] = "done", target'[s] \in Chat!Present'
        PROVE  Chat!Pair(s)' \subseteq messages'
    BY <2>2, <1>1, <1>4, <1>5, <1>8, <1>9 DEF Exchanges
  <2> QED
    BY <1>1, <2>1, <2>2 DEF Exchanges
<1>11. \A d : Chat!SendsOf(d)' = Chat!SendsOf(d)
  BY <1>1 DEF Chat!SendsOf, Chat!MessagesOf
<1>12. Turns'
  <2>1. ASSUME NEW d \in Chat!Present'
        PROVE  /\ rows'[d].turns <= Cardinality(Chat!SendsOf(d)')
               /\ Chat!SendsOf(d)' # {} => rows'[d].turns >= 1
    <3>1. CASE d = target[r]
      <4>1. Chat!SendsOf(d) = {}
        BY <3>1, <1>2 DEF Chat!SendsOf, Chat!MessagesOf, Exchanges
      <4> QED
        BY <4>1, <3>1, <1>3, <1>11, FS_EmptySet, SMTT(60)
    <3>2. CASE d # target[r]
      <4>1. rows'[d].turns = rows[d].turns /\ d \in Chat!Present
        BY <3>2, <1>3, <1>4, ShiftedRows DEF Chat!Present
      <4> QED
        BY <4>1, <1>11 DEF Turns
    <3> QED
      BY <3>1, <3>2
  <2>2. ASSUME NEW s \in Sends, at'[s] \in {"writing", "shifting"},
               target'[s] \in Chat!Present'
        PROVE  read'[s].turns <= Cardinality(Chat!SendsOf(target[s]))'
    <3>1. Chat!SendsOf(target[s])' = Chat!SendsOf(target[s])
      BY <1>1 DEF Chat!SendsOf, Chat!MessagesOf
    <3>2. at[s] \in {"writing", "shifting"} /\ target[s] \in Chat!Present
      BY <2>2, <1>1, <1>4, <1>5, <1>9
    <3> QED
      BY <3>1, <3>2, <1>1 DEF Turns
  <2> QED
    BY <2>1, <2>2 DEF Turns
<1> QED
  BY <1>5, <1>6, <1>7, <1>10, <1>12

\* A row goes with its messages; nobody holds it.
LEMMA DeleteRowKeeps ==
  ASSUME ChatInv, NEW r \in Chat!Requests, Chat!DeleteRow(r)
  PROVE  ChatInv'
<1> USE ChatConstants DEF ChatInv
<1>1. /\ at[r] = "deleting" /\ lock[target[r]] = None
      /\ rows' = [rows EXCEPT ![target[r]] = None]
      /\ messages' = {m \in messages : m.conversation # target[r]}
      /\ at' = [at EXCEPT ![r] = "listing"]
      /\ UNCHANGED <<lock, target, read, todo>>
  BY DEF Chat!DeleteRow, Chat!Go, Chat!WithoutMessages, Chat!MessagesOf
<1>2. target[r] \in Chat!Ids /\ r \notin Sends
  BY <1>1 DEF ChatSteps
<1>3. /\ rows' \in [Chat!Ids -> ChatRow \cup {None}]
      /\ \A d \in Chat!Ids : rows'[d] = IF d = target[r] THEN None ELSE rows[d]
      /\ at' \in [Chat!Requests -> ChatPlaces] /\ at'[r] = "listing"
      /\ \A s \in Chat!Requests : s # r => at'[s] = at[s]
  BY <1>1 DEF ChatTypes, ChatPlaces
<1>4. Chat!Present' = Chat!Present \ {target[r]}
  <2>1. Chat!Ids' = Chat!Ids
    BY DEF Chat!Ids
  <2> QED
    BY <2>1, <1>3 DEF Chat!Present
<1>5. ChatTypes'
  <2>1. messages' \in SUBSET messages
    BY <1>1
  <2>2. IsFiniteSet(messages')
    BY <2>1, FS_Subset DEF ChatTypes
  <2> QED
    BY <2>1, <2>2, <1>1, <1>3 DEF ChatTypes
<1>6. ChatSteps' /\ NewRow'
  BY <1>1, <1>2, <1>3, <1>4 DEF ChatSteps, NewRow
<1>7. RowLocks'
  <2>1. ASSUME NEW d \in Chat!Ids, lock'[d] # None
        PROVE  at'[lock'[d]] = "shifting" /\ d \in Chat!Present'
    <3>1. /\ lock[d] \in Chat!Requests /\ d # target[r] /\ at[lock[d]] = "shifting"
          /\ d \in Chat!Present
      BY <2>1, <1>1 DEF RowLocks, ChatTypes
    <3> QED
      BY <3>1, <1>1, <1>3, <1>4
  <2>2. ASSUME NEW s \in Sends, at'[s] = "shifting" PROVE lock'[target'[s]] = s
    BY <2>2, <1>1, <1>3 DEF RowLocks, Chat!Requests
  <2> QED
    BY <2>1, <2>2 DEF RowLocks
<1>8. \A s \in Chat!Requests : Chat!Pair(s)' = Chat!Pair(s)
  BY <1>1 DEF Chat!Pair, Chat!Message
<1>9. Exchanges'
  <2>1. ASSUME NEW m \in messages'
        PROVE  /\ m.conversation \in Chat!Present' /\ at'[m.send] = "done"
               /\ target'[m.send] = m.conversation /\ m \in Chat!Pair(m.send)'
    <3>1. m \in messages /\ m.conversation # target[r]
      BY <1>1
    <3>2. m.send \in Chat!Requests
      BY <3>1 DEF ChatTypes, MessageRow, Chat!Requests
    <3> QED
      BY <3>1, <3>2, <1>1, <1>3, <1>4, <1>8 DEF Exchanges
  <2>2. ASSUME NEW s \in Sends, at'[s] = "done", target'[s] \in Chat!Present'
        PROVE  Chat!Pair(s)' \subseteq messages'
    <3>1. s \in Chat!Requests /\ at[s] = "done" /\ target[s] \in Chat!Present
          /\ target[s] # target[r]
      BY <2>2, <1>1, <1>2, <1>3, <1>4 DEF Chat!Requests
    <3>2. \A m \in Chat!Pair(s) : m.conversation = target[s] /\ m \in messages
      BY <3>1 DEF Exchanges, Chat!Pair, Chat!Message
    <3> QED
      BY <3>1, <3>2, <1>1, <1>8
  <2> QED
    BY <2>1, <2>2 DEF Exchanges
<1>10. ASSUME NEW d, d # target[r] PROVE Chat!SendsOf(d)' = Chat!SendsOf(d)
  BY <1>1, <1>10 DEF Chat!SendsOf, Chat!MessagesOf
<1>11. Turns'
  <2>1. ASSUME NEW d \in Chat!Present'
        PROVE  /\ rows'[d].turns <= Cardinality(Chat!SendsOf(d)')
               /\ Chat!SendsOf(d)' # {} => rows'[d].turns >= 1
    <3>1. d \in Chat!Present /\ d # target[r] /\ rows'[d] = rows[d]
      BY <1>3, <1>4 DEF Chat!Present
    <3> QED
      BY <3>1, <1>10 DEF Turns
  <2>2. ASSUME NEW s \in Sends, at'[s] \in {"writing", "shifting"},
               target'[s] \in Chat!Present'
        PROVE  read'[s].turns <= Cardinality(Chat!SendsOf(target[s]))'
    <3>1. /\ at[s] \in {"writing", "shifting"} /\ target[s] \in Chat!Present
          /\ target[s] # target[r]
      BY <2>2, <1>1, <1>2, <1>3, <1>4 DEF Chat!Requests
    <3>2. Chat!SendsOf(target[s])' = Chat!SendsOf(target[s])
      BY <3>1, <1>1 DEF Chat!SendsOf, Chat!MessagesOf
    <3> QED
      BY <3>1, <3>2, <1>1 DEF Turns
  <2> QED
    BY <2>1, <2>2 DEF Turns
<1> QED
  BY <1>5, <1>6, <1>7, <1>9, <1>11

\* Nothing of the conversations changes.
LEMMA ChatStutters == ChatInv /\ UNCHANGED chat => ChatInv'
<1> SUFFICES ASSUME ChatInv, UNCHANGED chat PROVE ChatInv'
  OBVIOUS
<1> USE DEF ChatInv, chat
<1>1. ChatTypes' /\ ChatSteps'
  BY DEF ChatTypes, ChatSteps
<1>2. Chat!Present' = Chat!Present
  BY DEF Chat!Present, Chat!Ids
<1>3. RowLocks' /\ NewRow'
  BY <1>2 DEF RowLocks, NewRow
<1>4. Exchanges'
  BY <1>2 DEF Exchanges, Chat!Pair, Chat!Message
<1>5. Turns'
  BY <1>2 DEF Turns, Chat!SendsOf, Chat!MessagesOf
<1> QED
  BY <1>1, <1>3, <1>4, <1>5

\* Every step of the conversations keeps the invariant.
LEMMA ChatStep == ChatInv /\ Chat!Next => ChatInv'
<1> SUFFICES ASSUME ChatInv, Chat!Next PROVE ChatInv'
  OBVIOUS
<1>1. CASE \E r \in Sends, c \in Chat!Ids : Chat!BeginSend(r, c)
  BY <1>1, AnsweringKeeps DEF Chat!Requests
<1>2. CASE \E r \in Creates, c \in Chat!Ids : Chat!BeginCreate(r, c)
  BY <1>2, LockingKeeps DEF Chat!Requests
<1>3. CASE \E r \in Deletes, c \in Chat!Ids : Chat!BeginDelete(r, c)
  BY <1>3, LockingKeeps DEF Chat!Requests
<1>4. ASSUME NEW r \in Chat!Requests, Chat!Step(r) PROVE ChatInv'
  BY <1>4, AnsweringKeeps, LockingKeeps, CommitSendKeeps, CommitCreateKeeps, DeleteRowKeeps
     DEF Chat!Step
<1> QED
  BY <1>1, <1>2, <1>3, <1>4 DEF Chat!Next, Chat!Begin

-----------------------------------------------------------------------------
(* The import of evaluation cases, for any number of tokens and requests.  *)

\* The cases of the files that may be uploaded, and all their keys.
FileCases == UNION {{file[i] : i \in DOMAIN file} : file \in ImportFiles}
CaseKeys == UNION {Import!LookupKeys(case) : case \in FileCases}
ImportPlaces == {"new", "waiting", "locking", "read", "created", "failed", "refused", "done"}
UnderWay == {"waiting", "locking", "read", "created", "failed"}
ImportTypes ==
    /\ stored \in [Tokens -> ImportFiles \cup {None}]
    /\ expired \subseteq Tokens /\ reserved \subseteq Tokens /\ used \subseteq Tokens
    /\ imported \in [Tokens -> Nat]
    /\ table \in Seq(FileCases)
    /\ held \in [Import!Keys -> Import!Requests \cup {None}]
    /\ place \in [Import!Requests -> ImportPlaces]
    /\ token \in [Import!Requests -> Tokens \cup {None}]
    /\ work \in [Import!Requests -> Seq(FileCases)]
    /\ snapshot \in [Import!Requests -> SUBSET CaseKeys]
\* A transaction that has read the cases holds the locks of its rows, and has
\* seen every case that is known by one of their keys.
ReadLocked ==
    \A r \in Import!Requests : place[r] = "read" =>
        /\ Import!LockKeys(r) \subseteq Import!Holds(r)
        /\ \A i \in DOMAIN table : Import!DedupKey(table[i]) \in Import!LockKeys(r)
               => Import!DedupKey(table[i]) \in snapshot[r]
\* No two cases are known by the same key.
KeysDiffer ==
    \A i, j \in DOMAIN table : i # j => Import!DedupKey(table[i]) # Import!DedupKey(table[j])
\* A confirmation has its preview for itself, from the reservation on.
Confirming ==
    /\ \A r \in Singles : token[r] = None /\ place[r] # "failed"
    /\ \A r \in Confirms : place[r] \in UnderWay =>
        /\ token[r] \in used
        /\ token[r] \in expired \/ token[r] \in reserved
        /\ imported[token[r]] = IF place[r] = "created" THEN 1 ELSE 0
        /\ \A s \in Confirms : place[s] \in UnderWay /\ token[s] = token[r] => s = r
\* What a preview has become.
Previews ==
    /\ \A t \in reserved : \E r \in Confirms : token[r] = t /\ place[r] \in UnderWay
    /\ \A t \in Tokens :
        /\ imported[t] <= 1
        /\ t \notin used => imported[t] = 0
        /\ t \in used \ expired /\ imported[t] = 0 => stored[t] # None
        /\ imported[t] > 0 =>
            \/ stored[t] = None \/ t \in expired
            \/ \E r \in Confirms : token[r] = t /\ place[r] = "created"

\* The inductive invariant of the import.
ImportInv == ImportTypes /\ ReadLocked /\ KeysDiffer /\ Confirming /\ Previews

\* A file is a sequence of cases, and a case is known by the key that stands for it.
LEMMA FilesOfCases ==
    /\ ImportFiles \subseteq Seq(FileCases)
    /\ \A case : Import!DedupKey(case) \in Import!LookupKeys(case)
<1>1. ASSUME NEW file \in ImportFiles PROVE file \in Seq(FileCases)
  <2>1. PICK a, b : file = <<a, b>>
    BY DEF ImportFiles
  <2>2. DOMAIN file = {1, 2} /\ file[1] = a /\ file[2] = b
    BY <2>1
  <2>3. a \in FileCases /\ b \in FileCases
    BY <2>2 DEF FileCases
  <2> HIDE DEF FileCases
  <2> QED
    BY <2>1, <2>3
<1>2. ASSUME NEW case PROVE Import!DedupKey(case) \in Import!LookupKeys(case)
  BY DEF Import!DedupKey, Import!LookupKeys
<1> QED
  BY <1>1, <1>2

\* Induction over the natural numbers, in terms of the set of numbers for which
\* the fact holds.
LEMMA SetInduction ==
    ASSUME NEW T \in SUBSET Nat, 0 \in T, \A n \in T : n + 1 \in T
    PROVE  T = Nat
<1> DEFINE Less == OpToRel(<, Nat)
<1>1. IsWellFoundedOn(Less, Nat)
  BY NatLessThanWellFounded
<1>2. \A m, n \in Nat : <<m, n>> \in Less <=> m < n
  BY DEF OpToRel
<1> HIDE DEF Less
<1> SUFFICES ASSUME Nat \ T # {} PROVE FALSE
  OBVIOUS
<1>3. PICK m \in Nat \ T : \A n \in Nat \ T : ~(<<n, m>> \in Less)
  BY <1>1, WFMin
<1>4. m # 0 /\ m - 1 \in Nat /\ m - 1 < m /\ (m - 1) + 1 = m
  BY <1>3
<1>5. m - 1 \in T
  BY <1>2, <1>3, <1>4
<1> QED
  BY <1>3, <1>4, <1>5

\* FoldLeft, as the community modules define it, for the new rows of a request:
\* a function on the sets of positions that takes the greatest one out.
Greatest(S) == CHOOSE x \in S : \A y \in S : x >= y
Grown(seen, created, case) ==
    IF \/ Import!DedupKey(case) \in seen
       \/ \E i \in DOMAIN created : Import!DedupKey(case) \in Import!LookupKeys(created[i])
    THEN created ELSE Append(created, case)
Collects(seen, s, f) ==
    f = [S \in SUBSET DOMAIN s |->
            IF S = {} THEN <<>> ELSE Grown(seen, f[S \ {Greatest(S)}], s[Greatest(S)])]

\* The greatest of the first positions is the last.
LEMMA LastIsGreatest ==
    ASSUME NEW k \in Nat, NEW S \in SUBSET (1..k), k \in S
    PROVE  Greatest(S) = k
<1>1. \A m \in S : k >= m
  OBVIOUS
<1>2. \A n \in S : (\A m \in S : n >= m) => n = k
  OBVIOUS
<1> QED
  BY <1>1, <1>2 DEF Greatest

\* Such a function exists for every sequence.
LEMMA CollectionExists ==
    ASSUME NEW seen, NEW R, NEW s \in Seq(R)
    PROVE  \E f : Collects(seen, s, f)
<1> DEFINE Up(k, f) ==
             f = [S \in SUBSET (1..k) |->
                    IF S = {} THEN <<>> ELSE Grown(seen, f[S \ {Greatest(S)}], s[Greatest(S)])]
           T == {k \in Nat : \E f : Up(k, f)}
<1> HIDE DEF Up
<1>1. 0 \in T
  <2> DEFINE z == [S \in SUBSET (1..0) |-> <<>>]
  <2>1. \A S \in SUBSET (1..0) : S = {}
    OBVIOUS
  <2>2. z = [S \in SUBSET (1..0) |->
               IF S = {} THEN <<>> ELSE Grown(seen, z[S \ {Greatest(S)}], s[Greatest(S)])]
    BY <2>1
  <2>3. Up(0, z)
    BY <2>2 DEF Up
  <2> QED
    BY <2>3
<1>2. ASSUME NEW k \in T PROVE k + 1 \in T
  <2>1. PICK f : Up(k, f)
    OBVIOUS
  <2>2. k \in Nat
    OBVIOUS
  <2> DEFINE g == [S \in SUBSET (1..(k + 1)) |->
                    IF S = {} THEN <<>>
                    ELSE IF k + 1 \in S THEN Grown(seen, f[S \ {k + 1}], s[k + 1]) ELSE f[S]]
  <2>3. ASSUME NEW S \in SUBSET (1..(k + 1))
        PROVE  g[S] = IF S = {} THEN <<>>
                      ELSE Grown(seen, g[S \ {Greatest(S)}], s[Greatest(S)])
    <3>1. CASE S = {}
      BY <3>1
    <3>2. CASE k + 1 \in S
      <4>1. Greatest(S) = k + 1
        BY <2>2, <3>2, LastIsGreatest
      <4>2. S \ {k + 1} \in SUBSET (1..k) /\ S \ {k + 1} \in SUBSET (1..(k + 1))
        BY <2>2
      <4>3. f[{}] = <<>>
        BY <2>1 DEF Up
      <4>4. g[S \ {k + 1}] = f[S \ {k + 1}]
        BY <4>2, <4>3
      <4> QED
        BY <3>2, <4>1, <4>4
    <3>3. CASE S # {} /\ k + 1 \notin S
      <4>1. S \in SUBSET (1..k)
        BY <2>2, <3>3
      <4> DEFINE U == S \ {Greatest(S)}
      <4>2. U \in SUBSET (1..k) /\ U \in SUBSET (1..(k + 1)) /\ k + 1 \notin U
        BY <2>2, <3>3, <4>1
      <4>3. f[S] = Grown(seen, f[U], s[Greatest(S)])
        BY <2>1, <3>3, <4>1 DEF Up
      <4>4. f[{}] = <<>>
        BY <2>1 DEF Up
      <4>5. g[U] = f[U] /\ g[S] = f[S]
        BY <3>3, <4>2, <4>4
      <4> QED
        BY <3>3, <4>3, <4>5
    <3> QED
      BY <3>1, <3>2, <3>3
  <2>4. g = [S \in SUBSET (1..(k + 1)) |->
               IF S = {} THEN <<>> ELSE Grown(seen, g[S \ {Greatest(S)}], s[Greatest(S)])]
    BY <2>3
  <2>5. Up(k + 1, g)
    BY <2>4 DEF Up
  <2> QED
    BY <2>2, <2>5
<1>3. T = Nat
  <2>1. T \in SUBSET Nat
    OBVIOUS
  <2> HIDE DEF T
  <2> QED
    BY <1>1, <1>2, <2>1, SetInduction
<1>4. PICK f : Up(Len(s), f)
  <2> HIDE DEF T
  <2>1. Len(s) \in T
    BY <1>3
  <2> QED
    BY <2>1 DEF T
<1>5. DOMAIN s = 1..Len(s)
  OBVIOUS
<1> QED
  BY <1>4, <1>5 DEF Up, Collects

\* Rows of s with keys that are not among those seen, and differ.
FreshRows(seen, s, q) ==
    /\ q \in Seq(FileCases)
    /\ \A i \in DOMAIN q : /\ Import!DedupKey(q[i]) \notin seen
                           /\ \E j \in DOMAIN s : q[i] = s[j]
    /\ \A i, j \in DOMAIN q : i # j => Import!DedupKey(q[i]) # Import!DedupKey(q[j])

\* One row more.
LEMMA OneRowMore ==
    ASSUME NEW seen, NEW s \in Seq(FileCases), NEW q, FreshRows(seen, s, q),
           NEW j \in DOMAIN s
    PROVE  FreshRows(seen, s, Grown(seen, q, s[j]))
<1> DEFINE c == s[j]
<1>1. c \in FileCases /\ q \in Seq(FileCases)
  BY DEF FreshRows
<1>2. \A x : Import!DedupKey(x) \in Import!LookupKeys(x)
  BY FilesOfCases
<1>3. \E k \in DOMAIN s : c = s[k]
  OBVIOUS
<1> HIDE DEF c
<1>4. CASE \/ Import!DedupKey(c) \in seen
           \/ \E i \in DOMAIN q : Import!DedupKey(c) \in Import!LookupKeys(q[i])
  BY <1>4 DEF Grown, c
<1>5. CASE /\ Import!DedupKey(c) \notin seen
           /\ \A i \in DOMAIN q : Import!DedupKey(c) \notin Import!LookupKeys(q[i])
  <2> DEFINE p == Append(q, c)
  <2>1. Grown(seen, q, c) = p
    BY <1>5 DEF Grown
  <2>2. /\ p \in Seq(FileCases) /\ DOMAIN p = DOMAIN q \cup {Len(q) + 1}
        /\ p[Len(q) + 1] = c /\ \A i \in DOMAIN q : p[i] = q[i]
    BY <1>1
  <2> HIDE DEF p
  <2>3. \A i \in DOMAIN q : Import!DedupKey(q[i]) # Import!DedupKey(c)
    BY <1>2, <1>5
  <2>4. \A i \in DOMAIN p : /\ Import!DedupKey(p[i]) \notin seen
                            /\ \E k \in DOMAIN s : p[i] = s[k]
    BY <1>3, <1>5, <2>2 DEF FreshRows
  <2>5. ASSUME NEW i \in DOMAIN p, NEW k \in DOMAIN p, i # k
        PROVE  Import!DedupKey(p[i]) # Import!DedupKey(p[k])
    <3>1. CASE i \in DOMAIN q /\ k \in DOMAIN q
      BY <2>2, <2>5, <3>1 DEF FreshRows
    <3>2. CASE i \in DOMAIN q /\ k = Len(q) + 1
      BY <2>2, <2>3, <3>2
    <3>3. CASE k \in DOMAIN q /\ i = Len(q) + 1
      BY <2>2, <2>3, <3>3
    <3> QED
      BY <2>2, <2>5, <3>1, <3>2, <3>3
  <2>6. FreshRows(seen, s, p)
    BY <2>2, <2>4, <2>5 DEF FreshRows
  <2> QED
    BY <2>1, <2>6 DEF c
<1> QED
  BY <1>4, <1>5

\* NewRows gives fresh rows.
LEMMA NewRowsFresh ==
    ASSUME NEW r, work[r] \in Seq(FileCases)
    PROVE  FreshRows(snapshot[r], work[r], Import!NewRows(r))
<1> DEFINE s == work[r]
           seen == snapshot[r]
           f == CHOOSE h : Collects(seen, s, h)
           T == {i \in Nat : i <= Len(s) => FreshRows(seen, s, f[1..i])}
<1>1. Import!NewRows(r) = f[DOMAIN s]
  BY DEF Import!NewRows, Import!FoldLeft, Import!MapThenFoldSet, Import!Max, Collects, Grown,
         Greatest
<1> HIDE DEF s, seen
<1>2. s \in Seq(FileCases) /\ DOMAIN s = 1..Len(s) /\ Len(s) \in Nat
  BY DEF s
<1>3. Collects(seen, s, f)
  BY <1>2, CollectionExists
<1> HIDE DEF f
<1>4. f[1..0] = <<>>
  <2>1. 1..0 = {} /\ {} \in SUBSET (1..Len(s))
    OBVIOUS
  <2> QED
    BY <1>2, <1>3, <2>1 DEF Collects
<1>5. ASSUME NEW i \in 1..Len(s) PROVE f[1..i] = Grown(seen, f[1..(i - 1)], s[i])
  <2>1. i \in Nat /\ 1..i \in SUBSET (1..i) /\ i \in 1..i /\ 1..i \in SUBSET (1..Len(s))
    BY <1>2
  <2>2. Greatest(1..i) = i
    BY <2>1, LastIsGreatest
  <2>3. (1..i) \ {i} = 1..(i - 1)
    OBVIOUS
  <2> QED
    BY <1>2, <1>3, <2>1, <2>2, <2>3 DEF Collects
<1>6. 0 \in T
  <2>1. FreshRows(seen, s, <<>>)
    BY DEF FreshRows
  <2> QED
    BY <1>4, <2>1
<1>7. ASSUME NEW n \in T PROVE n + 1 \in T
  <2>1. CASE n + 1 <= Len(s)
    <3>1. n + 1 \in 1..Len(s) /\ (n + 1) - 1 = n /\ FreshRows(seen, s, f[1..n])
      BY <1>2, <2>1
    <3>2. f[1..(n + 1)] = Grown(seen, f[1..n], s[n + 1])
      BY <1>5, <3>1
    <3>3. FreshRows(seen, s, Grown(seen, f[1..n], s[n + 1]))
      BY <1>2, <3>1, OneRowMore
    <3> QED
      BY <3>2, <3>3
  <2> QED
    BY <1>2, <2>1
<1>8. T = Nat
  <2>1. T \in SUBSET Nat
    OBVIOUS
  <2> HIDE DEF T
  <2> QED
    BY <1>6, <1>7, <2>1, SetInduction
<1>9. FreshRows(seen, s, f[DOMAIN s])
  <2>1. Len(s) \in T /\ Len(s) <= Len(s)
    BY <1>2, <1>8
  <2> QED
    BY <1>2, <2>1
<1> QED
  BY <1>1, <1>9 DEF s, seen

\* The invariant holds at the start.
LEMMA ImportStart == Import!Init => ImportInv
<1> SUFFICES ASSUME Import!Init PROVE ImportInv
  OBVIOUS
<1> USE ImportConstants DEF Import!Init, Import!Requests
<1>1. ImportTypes
  BY DEF ImportTypes, ImportPlaces
<1>2. ReadLocked /\ KeysDiffer /\ Confirming /\ Previews
  BY DEF ReadLocked, KeysDiffer, Confirming, Previews, UnderWay
<1> QED
  BY <1>1, <1>2 DEF ImportInv

\* It gives what the administrator finds.
LEMMA ImportInvSuffices == ImportInv => Import!ImportsSound
  BY DEF ImportInv, KeysDiffer, Previews, UnderWay, Import!ImportsSound

\* Nothing of the import changes.
LEMMA ImportStutters == ImportInv /\ UNCHANGED import => ImportInv'
<1> SUFFICES ASSUME ImportInv, UNCHANGED import PROVE ImportInv'
  OBVIOUS
<1> USE DEF ImportInv, import
<1>1. ImportTypes'
  BY DEF ImportTypes
<1>2. ReadLocked' /\ KeysDiffer'
  BY DEF ReadLocked, KeysDiffer, Import!LockKeys, Import!Holds
<1>3. Confirming' /\ Previews'
  BY DEF Confirming, Previews
<1> QED
  BY <1>1, <1>2, <1>3

\* A request moves on, and what the previews are and who confirms which is as it was.
LEMMA TokensKept ==
  ASSUME ImportInv, NEW r \in Import!Requests, NEW p \in ImportPlaces,
         place' = [place EXCEPT ![r] = p],
         UNCHANGED <<stored, expired, reserved, used, imported, token>>,
         r \in Singles => p # "failed",
         r \in Confirms => {place[r], p} \subseteq UnderWay \ {"created"}
  PROVE  Confirming' /\ Previews'
<1> USE ImportConstants DEF ImportInv, Import!Requests
<1>1. /\ place'[r] = p /\ \A s \in Import!Requests : s # r => place'[s] = place[s]
  BY DEF ImportTypes
<1>2. \A s \in Confirms : /\ place'[s] \in UnderWay <=> place[s] \in UnderWay
                          /\ place'[s] = "created" <=> place[s] = "created"
  BY <1>1 DEF UnderWay
<1>3. Confirming'
  <2>1. \A s \in Singles : place'[s] # "failed"
    BY <1>1 DEF Confirming
  <2> QED
    BY <1>2, <2>1 DEF Confirming
<1>4. Previews'
  BY <1>2 DEF Previews
<1> QED
  BY <1>3, <1>4

\* A request that reads or writes nothing in a step moves on, to another place than
\* after reading.
LEMMA ReadsKept ==
  ASSUME ImportInv, NEW r \in Import!Requests, NEW p \in ImportPlaces \ {"read"},
         place' = [place EXCEPT ![r] = p],
         UNCHANGED <<table, snapshot>>,
         \A s \in Import!Requests : s # r => work'[s] = work[s],
         \A s \in Import!Requests : s # r => Import!Holds(s) \subseteq Import!Holds(s)'
  PROVE  ReadLocked' /\ KeysDiffer'
<1> USE DEF ImportInv
<1>1. /\ place'[r] = p /\ \A s \in Import!Requests : s # r => place'[s] = place[s]
  BY DEF ImportTypes
<1>2. ASSUME NEW s \in Import!Requests, place'[s] = "read"
      PROVE  /\ place[s] = "read" /\ Import!LockKeys(s)' = Import!LockKeys(s)
             /\ Import!Holds(s) \subseteq Import!Holds(s)'
  BY <1>1, <1>2 DEF Import!LockKeys
<1>3. ReadLocked'
  BY <1>2 DEF ReadLocked
<1>4. KeysDiffer'
  BY DEF KeysDiffer
<1> QED
  BY <1>3, <1>4

\* A file is previewed.
LEMMA PreviewKeeps ==
  ASSUME ImportInv, NEW t \in Tokens, NEW file \in ImportFiles, Import!Preview(t, file)
  PROVE  ImportInv'
<1> USE ImportConstants DEF ImportInv
<1>1. /\ t \notin used
      /\ stored' = [Import!Purged EXCEPT ![t] = file]
      /\ used' = used \cup {t} /\ reserved' = reserved \ expired
      /\ UNCHANGED <<expired, imported, table, held, place, home, token, work, snapshot>>
  BY DEF Import!Preview, Import!request
<1>2. /\ stored' \in [Tokens -> ImportFiles \cup {None}] /\ stored'[t] = file
      /\ \A x \in Tokens : x # t => stored'[x] = IF x \in expired THEN None ELSE stored[x]
  BY <1>1 DEF Import!Purged, ImportTypes
<1>3. ImportTypes'
  BY <1>1, <1>2 DEF ImportTypes
<1>4. ReadLocked' /\ KeysDiffer'
  BY <1>1 DEF ReadLocked, KeysDiffer, Import!LockKeys, Import!Holds
<1>5. Confirming'
  BY <1>1 DEF Confirming
<1>6. Previews'
  <2>1. \A x \in reserved' : \E r \in Confirms : token'[r] = x /\ place'[r] \in UnderWay
    BY <1>1 DEF Previews
  <2>2. ASSUME NEW x \in Tokens
        PROVE  /\ imported'[x] <= 1 /\ (x \notin used' => imported'[x] = 0)
               /\ x \in used' \ expired' /\ imported'[x] = 0 => stored'[x] # None
               /\ imported'[x] > 0 =>
                   \/ stored'[x] = None \/ x \in expired'
                   \/ \E r \in Confirms : token'[r] = x /\ place'[r] = "created"
    <3>1. CASE x = t
      <4>1. imported[t] = 0 /\ file # None
        BY <1>1 DEF Previews
      <4> QED
        BY <1>1, <1>2, <3>1, <4>1
    <3>2. CASE x # t
      BY <1>1, <1>2, <3>2 DEF Previews
    <3> QED
      BY <3>1, <3>2
  <2> QED
    BY <2>1, <2>2 DEF Previews
<1> QED
  BY <1>3, <1>4, <1>5, <1>6

\* The time of a preview is over.
LEMMA ExpireKeeps ==
  ASSUME ImportInv, NEW t \in Tokens, Import!Expire(t)
  PROVE  ImportInv'
<1> USE DEF ImportInv
<1>1. /\ expired' = expired \cup {t}
      /\ UNCHANGED <<stored, reserved, used, imported, table, held, place, home, token, work,
                     snapshot>>
  BY DEF Import!Expire, Import!request
<1>2. ImportTypes'
  BY <1>1 DEF ImportTypes
<1>3. ReadLocked' /\ KeysDiffer'
  BY <1>1 DEF ReadLocked, KeysDiffer, Import!LockKeys, Import!Holds
<1>4. Confirming' /\ Previews'
  BY <1>1 DEF Confirming, Previews
<1> QED
  BY <1>2, <1>3, <1>4

\* A confirmation reserves the preview, or is refused.
LEMMA ReserveKeeps ==
  ASSUME ImportInv, NEW r \in Confirms, NEW t \in Tokens, Import!Reserve(r, t)
  PROVE  ImportInv'
<1> USE ImportConstants DEF ImportInv
<1>1. /\ r \in Import!Requests /\ r \notin Singles /\ place[r] = "new" /\ t \in used
      /\ stored' = Import!Purged
      /\ UNCHANGED <<expired, used, imported, table, held, snapshot>>
  BY DEF Import!Reserve, Import!Requests
<1>2. /\ stored' \in [Tokens -> ImportFiles \cup {None}]
      /\ \A x \in Tokens : stored'[x] = IF x \in expired THEN None ELSE stored[x]
  BY <1>1 DEF Import!Purged, ImportTypes
<1>3. \A s \in Import!Requests : Import!Holds(s)' = Import!Holds(s)
  BY <1>1 DEF Import!Holds
<1>4. CASE ~(t \in Import!Live /\ Import!Free(t))
  <2>1. /\ reserved' = reserved \ expired /\ place' = [place EXCEPT ![r] = "refused"]
        /\ UNCHANGED <<home, token, work>>
    BY <1>4 DEF Import!Reserve, Import!Go
  <2>2. ImportTypes'
    BY <1>1, <1>2, <2>1 DEF ImportTypes, ImportPlaces
  <2>3. ReadLocked' /\ KeysDiffer'
    BY <1>1, <1>3, <2>1, ReadsKept DEF ImportPlaces
  <2>4. /\ place'[r] = "refused" /\ \A s \in Import!Requests : s # r => place'[s] = place[s]
    BY <1>1, <2>1 DEF ImportTypes
  <2>5. \A s \in Import!Requests : /\ place'[s] \in UnderWay <=> place[s] \in UnderWay
                                   /\ place'[s] = "created" <=> place[s] = "created"
                                   /\ place'[s] = "failed" <=> place[s] = "failed"
    BY <1>1, <2>4 DEF UnderWay
  <2>6. Confirming'
    BY <1>1, <2>1, <2>5 DEF Confirming, Import!Requests
  <2>7. Previews'
    BY <1>1, <1>2, <2>1, <2>5 DEF Previews, Import!Requests
  <2> QED
    BY <2>2, <2>3, <2>6, <2>7
<1>5. CASE t \in Import!Live /\ Import!Free(t)
  <2>1. /\ reserved' = (reserved \ expired) \cup {t} /\ place' = [place EXCEPT ![r] = "waiting"]
        /\ token' = [token EXCEPT ![r] = t] /\ work' = [work EXCEPT ![r] = stored[t]]
    BY <1>5 DEF Import!Reserve, Import!Go
  <2>2. t \notin reserved /\ t \notin expired /\ stored[t] \in ImportFiles
    BY <1>5 DEF Import!Live, Import!Free, ImportTypes
  <2>3. ImportTypes'
    <3>1. work' \in [Import!Requests -> Seq(FileCases)]
      BY <2>1, <2>2, FilesOfCases DEF ImportTypes
    <3>2. place' \in [Import!Requests -> ImportPlaces]
      BY <2>1 DEF ImportTypes, ImportPlaces
    <3>3. token' \in [Import!Requests -> Tokens \cup {None}] /\ reserved' \subseteq Tokens
      BY <2>1 DEF ImportTypes
    <3> QED
      BY <1>1, <1>2, <3>1, <3>2, <3>3 DEF ImportTypes
  <2>4. \A s \in Import!Requests : s # r => work'[s] = work[s]
    BY <2>1 DEF ImportTypes
  <2>5. ReadLocked' /\ KeysDiffer'
    BY <1>1, <1>3, <2>1, <2>4, ReadsKept DEF ImportPlaces
  <2>6. /\ place'[r] = "waiting" /\ token'[r] = t
        /\ \A s \in Import!Requests : s # r => place'[s] = place[s] /\ token'[s] = token[s]
    BY <1>1, <2>1 DEF ImportTypes
  <2>7. \A s \in Confirms : place[s] \in UnderWay => token[s] # t
    BY <2>2 DEF Confirming
  <2>8. imported[t] = 0
    <3>1. ~\E s \in Confirms : token[s] = t /\ place[s] = "created"
      BY <2>7 DEF UnderWay
    <3>2. imported[t] \in Nat /\ stored[t] # None
      BY <2>2 DEF ImportTypes
    <3> QED
      BY <2>2, <3>1, <3>2 DEF Previews
  <2>9. Confirming'
    <3>1. \A s \in Singles : token'[s] = None /\ place'[s] # "failed"
      BY <1>1, <2>6 DEF Confirming, Import!Requests
    <3>2. ASSUME NEW s \in Confirms, place'[s] \in UnderWay
          PROVE  /\ token'[s] \in used'
                 /\ token'[s] \in expired' \/ token'[s] \in reserved'
                 /\ imported'[token'[s]] = IF place'[s] = "created" THEN 1 ELSE 0
                 /\ \A q \in Confirms : place'[q] \in UnderWay /\ token'[q] = token'[s] => q = s
      <4>1. CASE s = r
        BY <1>1, <2>1, <2>6, <2>7, <2>8, <4>1 DEF Import!Requests
      <4>2. CASE s # r
        BY <1>1, <2>1, <2>6, <2>7, <3>2, <4>2 DEF Confirming, Import!Requests
      <4> QED
        BY <4>1, <4>2
    <3> QED
      BY <3>1, <3>2 DEF Confirming
  <2>10. Previews'
    <3>1. ASSUME NEW x \in reserved'
          PROVE  \E s \in Confirms : token'[s] = x /\ place'[s] \in UnderWay
      <4>1. CASE x = t
        BY <2>6, <4>1 DEF UnderWay
      <4>2. CASE x # t
        <5>1. PICK s \in Confirms : token[s] = x /\ place[s] \in UnderWay
          BY <2>1, <3>1, <4>2 DEF Previews
        <5>2. s # r
          BY <1>1, <5>1 DEF UnderWay
        <5> QED
          BY <2>6, <5>1, <5>2 DEF Import!Requests
      <4> QED
        BY <4>1, <4>2
    <3>2. ASSUME NEW x \in Tokens
          PROVE  /\ imported'[x] <= 1 /\ (x \notin used' => imported'[x] = 0)
                 /\ x \in used' \ expired' /\ imported'[x] = 0 => stored'[x] # None
                 /\ imported'[x] > 0 =>
                     \/ stored'[x] = None \/ x \in expired'
                     \/ \E s \in Confirms : token'[s] = x /\ place'[s] = "created"
      <4>1. \A s \in Confirms : token[s] = x /\ place[s] = "created"
                => token'[s] = x /\ place'[s] = "created"
        BY <1>1, <2>6 DEF Import!Requests
      <4> QED
        BY <1>1, <1>2, <4>1 DEF Previews
    <3> QED
      BY <3>1, <3>2 DEF Previews
  <2> QED
    BY <2>3, <2>5, <2>9, <2>10
<1> QED
  BY <1>4, <1>5

\* A confirmation or a creation is answered.
LEMMA CompleteKeeps ==
  ASSUME ImportInv, NEW r \in Import!Requests, Import!Complete(r)
  PROVE  ImportInv'
<1> USE ImportConstants DEF ImportInv
<1>1. /\ place[r] = "created" /\ place' = [place EXCEPT ![r] = "done"]
      /\ reserved' = reserved \ {token[r]}
      /\ stored' = IF token[r] = None THEN stored ELSE [stored EXCEPT ![token[r]] = None]
      /\ UNCHANGED <<expired, used, imported, table, held, token, work, snapshot>>
  BY DEF Import!Complete, Import!Go
<1>2. /\ place'[r] = "done" /\ \A s \in Import!Requests : s # r => place'[s] = place[s]
  BY <1>1 DEF ImportTypes
<1>3. /\ stored' \in [Tokens -> ImportFiles \cup {None}]
      /\ \A x \in Tokens : stored'[x] = IF x = token[r] THEN None ELSE stored[x]
  BY <1>1 DEF ImportTypes
<1>4. ImportTypes'
  BY <1>1, <1>3 DEF ImportTypes, ImportPlaces
<1>5. ReadLocked' /\ KeysDiffer'
  <2>1. \A s \in Import!Requests : Import!Holds(s) \subseteq Import!Holds(s)'
    BY <1>1 DEF Import!Holds
  <2> QED
    BY <1>1, <2>1, ReadsKept DEF ImportPlaces
<1>6. CASE r \in Confirms
  <2>1. /\ token[r] \in used /\ imported[token[r]] = 1
        /\ \A s \in Confirms : s # r /\ place[s] \in UnderWay => token[s] # token[r]
    BY <1>1, <1>6 DEF Confirming, UnderWay
  <2>2. \A s \in Confirms : s # r => place'[s] = place[s]
    BY <1>2 DEF Import!Requests
  <2>3. place'[r] \notin UnderWay
    BY <1>2 DEF UnderWay
  <2>4. Confirming'
    <3>1. \A s \in Singles : place'[s] # "failed" /\ token'[s] = None
      BY <1>1, <1>2, <1>6 DEF Confirming, Import!Requests
    <3>2. ASSUME NEW s \in Confirms, place'[s] \in UnderWay
          PROVE  /\ token'[s] \in used'
                 /\ token'[s] \in expired' \/ token'[s] \in reserved'
                 /\ imported'[token'[s]] = IF place'[s] = "created" THEN 1 ELSE 0
                 /\ \A q \in Confirms : place'[q] \in UnderWay /\ token'[q] = token'[s] => q = s
      BY <1>1, <2>1, <2>2, <2>3, <3>2 DEF Confirming
    <3> QED
      BY <3>1, <3>2 DEF Confirming
  <2>5. Previews'
    <3>1. ASSUME NEW x \in reserved'
          PROVE  \E s \in Confirms : token'[s] = x /\ place'[s] \in UnderWay
      <4>1. PICK s \in Confirms : token[s] = x /\ place[s] \in UnderWay
        BY <1>1, <3>1 DEF Previews
      <4>2. s # r
        BY <1>1, <3>1, <4>1
      <4> QED
        BY <1>1, <2>2, <4>1, <4>2
    <3>2. ASSUME NEW x \in Tokens
          PROVE  /\ imported'[x] <= 1 /\ (x \notin used' => imported'[x] = 0)
                 /\ x \in used' \ expired' /\ imported'[x] = 0 => stored'[x] # None
                 /\ imported'[x] > 0 =>
                     \/ stored'[x] = None \/ x \in expired'
                     \/ \E s \in Confirms : token'[s] = x /\ place'[s] = "created"
      <4>1. CASE x = token[r]
        BY <1>1, <1>3, <2>1, <4>1
      <4>2. CASE x # token[r]
        <5>1. \A s \in Confirms : token[s] = x /\ place[s] = "created"
                  => token'[s] = x /\ place'[s] = "created"
          BY <1>1, <2>2, <4>2
        <5> QED
          BY <1>1, <1>3, <4>2, <5>1 DEF Previews
      <4> QED
        BY <4>1, <4>2
    <3> QED
      BY <3>1, <3>2 DEF Previews
  <2> QED
    BY <1>4, <1>5, <2>4, <2>5
<1>7. CASE r \in Singles
  <2>1. token[r] = None /\ reserved' = reserved /\ stored' = stored
    BY <1>1, <1>7 DEF Confirming, ImportTypes
  <2>2. Confirming' /\ Previews'
    BY <1>1, <1>7, <2>1, TokensKept DEF ImportPlaces
  <2> QED
    BY <1>4, <1>5, <2>2
<1> QED
  BY <1>6, <1>7 DEF Import!Requests

\* A confirmation that failed gives its preview back.
LEMMA ReleaseKeeps ==
  ASSUME ImportInv, NEW r \in Import!Requests, Import!Release(r)
  PROVE  ImportInv'
<1> USE ImportConstants DEF ImportInv
<1>1. /\ place[r] = "failed" /\ place' = [place EXCEPT ![r] = "refused"]
      /\ reserved' = reserved \ {token[r]}
      /\ stored' = IF token[r] \in expired THEN [stored EXCEPT ![token[r]] = None] ELSE stored
      /\ UNCHANGED <<expired, used, imported, table, held, token, work, snapshot>>
  BY DEF Import!Release, Import!Go
<1>2. /\ place'[r] = "refused" /\ \A s \in Import!Requests : s # r => place'[s] = place[s]
      /\ r \in Confirms /\ r \notin Singles
  BY <1>1 DEF ImportTypes, Confirming, Import!Requests
<1>3. /\ stored' \in [Tokens -> ImportFiles \cup {None}]
      /\ \A x \in Tokens :
            stored'[x] = IF x = token[r] /\ x \in expired THEN None ELSE stored[x]
  BY <1>1 DEF ImportTypes
<1>4. ImportTypes'
  BY <1>1, <1>3 DEF ImportTypes, ImportPlaces
<1>5. ReadLocked' /\ KeysDiffer'
  <2>1. \A s \in Import!Requests : Import!Holds(s) \subseteq Import!Holds(s)'
    BY <1>1 DEF Import!Holds
  <2> QED
    BY <1>1, <2>1, ReadsKept DEF ImportPlaces
<1>6. /\ token[r] \in used
      /\ \A s \in Confirms : s # r /\ place[s] \in UnderWay => token[s] # token[r]
  BY <1>1, <1>2 DEF Confirming, UnderWay
<1>7. /\ place'[r] \notin UnderWay /\ place'[r] # "created" /\ place[r] # "created"
      /\ \A s \in Confirms : s # r => place'[s] = place[s]
  BY <1>1, <1>2 DEF UnderWay, Import!Requests
<1>8. Confirming'
  <2>1. \A s \in Singles : place'[s] # "failed" /\ token'[s] = None
    BY <1>1, <1>2 DEF Confirming, Import!Requests
  <2>2. ASSUME NEW s \in Confirms, place'[s] \in UnderWay
        PROVE  /\ token'[s] \in used'
               /\ token'[s] \in expired' \/ token'[s] \in reserved'
               /\ imported'[token'[s]] = IF place'[s] = "created" THEN 1 ELSE 0
               /\ \A q \in Confirms : place'[q] \in UnderWay /\ token'[q] = token'[s] => q = s
    BY <1>1, <1>6, <1>7, <2>2 DEF Confirming
  <2> QED
    BY <2>1, <2>2 DEF Confirming
<1>9. Previews'
  <2>1. ASSUME NEW x \in reserved'
        PROVE  \E s \in Confirms : token'[s] = x /\ place'[s] \in UnderWay
    <3>1. PICK s \in Confirms : token[s] = x /\ place[s] \in UnderWay
      BY <1>1, <2>1 DEF Previews
    <3>2. s # r
      BY <1>1, <2>1, <3>1
    <3> QED
      BY <1>1, <1>7, <3>1, <3>2
  <2>2. ASSUME NEW x \in Tokens
        PROVE  /\ imported'[x] <= 1 /\ (x \notin used' => imported'[x] = 0)
               /\ x \in used' \ expired' /\ imported'[x] = 0 => stored'[x] # None
               /\ imported'[x] > 0 =>
                   \/ stored'[x] = None \/ x \in expired'
                   \/ \E s \in Confirms : token'[s] = x /\ place'[s] = "created"
    <3>1. \A s \in Confirms : token[s] = x /\ place[s] = "created"
              => token'[s] = x /\ place'[s] = "created"
      BY <1>1, <1>7
    <3> QED
      BY <1>1, <1>3, <3>1 DEF Previews
  <2> QED
    BY <2>1, <2>2 DEF Previews
<1> QED
  BY <1>4, <1>5, <1>8, <1>9

\* A single case is to be created.
LEMMA BeginSingleKeeps ==
  ASSUME ImportInv, NEW r \in Singles, NEW case \in FileCases, Import!BeginSingle(r, case)
  PROVE  ImportInv'
<1> USE ImportConstants DEF ImportInv
<1>1. /\ r \in Import!Requests /\ r \notin Confirms
      /\ place' = [place EXCEPT ![r] = "waiting"] /\ work' = [work EXCEPT ![r] = <<case>>]
      /\ UNCHANGED <<stored, expired, reserved, used, imported, table, held, token, snapshot>>
  BY DEF Import!BeginSingle, Import!Go, Import!Requests, Import!previews
<1>2. ImportTypes'
  <2>1. <<case>> \in Seq(FileCases)
    OBVIOUS
  <2> QED
    BY <1>1, <2>1 DEF ImportTypes, ImportPlaces
<1>3. ReadLocked' /\ KeysDiffer'
  <2>1. /\ \A s \in Import!Requests : Import!Holds(s) \subseteq Import!Holds(s)'
        /\ \A s \in Import!Requests : s # r => work'[s] = work[s]
    BY <1>1 DEF Import!Holds, ImportTypes
  <2> QED
    BY <1>1, <2>1, ReadsKept DEF ImportPlaces
<1>4. Confirming' /\ Previews'
  BY <1>1, TokensKept DEF ImportPlaces
<1> QED
  BY <1>2, <1>3, <1>4

\* A request takes the write lock of its process.
LEMMA TakeWriteLockKeeps ==
  ASSUME ImportInv, NEW r \in Import!Requests, Import!TakeWriteLock(r)
  PROVE  ImportInv'
<1> USE DEF ImportInv
<1>1. /\ place[r] = "waiting" /\ place' = [place EXCEPT ![r] = "locking"]
      /\ UNCHANGED <<stored, expired, reserved, used, imported, table, held, token, work,
                     snapshot>>
  BY DEF Import!TakeWriteLock, Import!Go, Import!previews
<1>2. ImportTypes'
  BY <1>1 DEF ImportTypes, ImportPlaces
<1>3. ReadLocked' /\ KeysDiffer'
  <2>1. \A s \in Import!Requests : Import!Holds(s) \subseteq Import!Holds(s)'
    BY <1>1 DEF Import!Holds
  <2> QED
    BY <1>1, <2>1, ReadsKept DEF ImportPlaces
<1>4. Confirming' /\ Previews'
  BY <1>1, TokensKept DEF ImportPlaces, UnderWay
<1> QED
  BY <1>2, <1>3, <1>4

\* It takes the lock of a key that nobody holds.
LEMMA LockKeyKeeps ==
  ASSUME ImportInv, NEW r \in Import!Requests, Import!LockKey(r)
  PROVE  ImportInv'
<1> USE ImportConstants DEF ImportInv
<1> DEFINE k == Import!FirstOf(Import!LockKeys(r) \ Import!Holds(r))
<1>1. /\ held[k] = None /\ held' = [held EXCEPT ![k] = r]
      /\ UNCHANGED <<stored, expired, reserved, used, imported, table, place, token, work,
                     snapshot>>
  BY DEF Import!LockKey, Import!previews, Import!request
<1> HIDE DEF k
<1>2. ImportTypes'
  BY <1>1 DEF ImportTypes
<1>3. \A s \in Import!Requests : Import!Holds(s) \subseteq Import!Holds(s)'
  BY <1>1 DEF Import!Holds, ImportTypes, Import!Requests
<1>4. ReadLocked' /\ KeysDiffer'
  BY <1>1, <1>3 DEF ReadLocked, KeysDiffer, Import!LockKeys
<1>5. Confirming' /\ Previews'
  BY <1>1 DEF Confirming, Previews
<1> QED
  BY <1>2, <1>4, <1>5

\* It reads all cases when it holds the locks of its rows.
LEMMA ReadCasesKeeps ==
  ASSUME ImportInv, NEW r \in Import!Requests, Import!ReadCases(r)
  PROVE  ImportInv'
<1> USE DEF ImportInv
<1> DEFINE seen == UNION {Import!LookupKeys(table[i]) : i \in DOMAIN table}
<1>1. /\ place[r] = "locking" /\ Import!LockKeys(r) \subseteq Import!Holds(r)
      /\ place' = [place EXCEPT ![r] = "read"] /\ snapshot' = [snapshot EXCEPT ![r] = seen]
      /\ UNCHANGED <<stored, expired, reserved, used, imported, table, held, token, work>>
  BY DEF Import!ReadCases, Import!Go, Import!previews
<1>2. /\ seen \subseteq CaseKeys /\ \A i \in DOMAIN table : Import!DedupKey(table[i]) \in seen
  <2>1. \A i \in DOMAIN table : table[i] \in FileCases
    BY DEF ImportTypes
  <2> QED
    BY <2>1, FilesOfCases DEF CaseKeys
<1> HIDE DEF seen
<1>3. ImportTypes'
  BY <1>1, <1>2 DEF ImportTypes, ImportPlaces
<1>4. /\ place'[r] = "read" /\ snapshot'[r] = seen
      /\ \A s \in Import!Requests : s # r => place'[s] = place[s] /\ snapshot'[s] = snapshot[s]
  BY <1>1 DEF ImportTypes
<1>5. \A s : Import!Holds(s)' = Import!Holds(s) /\ Import!LockKeys(s)' = Import!LockKeys(s)
  BY <1>1 DEF Import!Holds, Import!LockKeys
<1>6. ReadLocked' /\ KeysDiffer'
  <2>1. KeysDiffer'
    BY <1>1 DEF KeysDiffer
  <2>2. ASSUME NEW s \in Import!Requests, place'[s] = "read"
        PROVE  /\ Import!LockKeys(s) \subseteq Import!Holds(s)
               /\ \A i \in DOMAIN table : Import!DedupKey(table[i]) \in Import!LockKeys(s)
                      => Import!DedupKey(table[i]) \in snapshot'[s]
    <3>1. CASE s = r
      BY <1>1, <1>2, <1>4, <3>1
    <3>2. CASE s # r
      BY <1>4, <2>2, <3>2 DEF ReadLocked
    <3> QED
      BY <3>1, <3>2
  <2>3. ReadLocked'
    BY <1>1, <1>5, <2>2 DEF ReadLocked
  <2> QED
    BY <2>1, <2>3
<1>7. Confirming' /\ Previews'
  BY <1>1, TokensKept DEF ImportPlaces, UnderWay
<1> QED
  BY <1>3, <1>6, <1>7

\* Only the locks of the request are released.
LEMMA LocksReleased ==
  ASSUME ImportInv, NEW r \in Import!Requests, Import!ReleaseLocks(r)
  PROVE  /\ held' \in [Import!Keys -> Import!Requests \cup {None}]
         /\ \A s \in Import!Requests : s # r => Import!Holds(s) \subseteq Import!Holds(s)'
<1> USE DEF ImportInv, ImportTypes, Import!ReleaseLocks
<1>1. held' \in [Import!Keys -> Import!Requests \cup {None}]
  OBVIOUS
<1>2. \A k \in Import!Keys : held'[k] = IF held[k] = r THEN None ELSE held[k]
  OBVIOUS
<1>3. ASSUME NEW s \in Import!Requests, s # r
      PROVE  Import!Holds(s) \subseteq Import!Holds(s)'
  BY <1>2, <1>3 DEF Import!Holds, Import!Keys
<1> QED
  BY <1>1, <1>3

\* The rows that are new are inserted: they have keys that no case has, and that no
\* other transaction that has read the cases is looking for.
LEMMA InsertKeeps ==
  ASSUME ImportInv, NEW r \in Import!Requests, Import!InsertCases(r)
  PROVE  ReadLocked' /\ KeysDiffer' /\ table' \in Seq(FileCases)
<1> USE ImportConstants DEF ImportInv
<1> DEFINE q == Import!NewRows(r)
<1>1. /\ place[r] = "read" /\ table' = table \o q /\ Import!ReleaseLocks(r)
      /\ place' = [place EXCEPT ![r] = IF r \in Singles /\ q = <<>> THEN "refused" ELSE "created"]
      /\ UNCHANGED <<work, snapshot>>
  BY DEF Import!InsertCases, Import!Go
<1>2. FreshRows(snapshot[r], work[r], q)
  BY NewRowsFresh DEF ImportTypes
<1> HIDE DEF q
<1>3. /\ q \in Seq(FileCases) /\ table \in Seq(FileCases)
      /\ \A i \in DOMAIN q : Import!DedupKey(q[i]) \in Import!LockKeys(r)
      /\ \A i \in DOMAIN q : Import!DedupKey(q[i]) \notin snapshot[r]
      /\ \A i, j \in DOMAIN q : i # j => Import!DedupKey(q[i]) # Import!DedupKey(q[j])
  BY <1>2 DEF FreshRows, Import!LockKeys, ImportTypes
<1>4. /\ table' \in Seq(FileCases) /\ DOMAIN table' = 1..(Len(table) + Len(q))
      /\ \A i \in DOMAIN table : table'[i] = table[i]
      /\ \A i \in DOMAIN table' : \/ i \in DOMAIN table
                                  \/ /\ i - Len(table) \in DOMAIN q
                                     /\ table'[i] = q[i - Len(table)]
  BY <1>1, <1>3
<1>5. /\ place'[r] # "read" /\ \A s \in Import!Requests : s # r => place'[s] = place[s]
  BY <1>1 DEF ImportTypes
<1>6. Import!LockKeys(r) \subseteq Import!Holds(r)
  BY <1>1 DEF ReadLocked
<1>7. \A i \in DOMAIN table, j \in DOMAIN q :
          Import!DedupKey(table[i]) # Import!DedupKey(q[j])
  BY <1>1, <1>3 DEF ReadLocked
<1>8. KeysDiffer'
  <2>1. ASSUME NEW i \in DOMAIN table', NEW j \in DOMAIN table', i # j
        PROVE  Import!DedupKey(table'[i]) # Import!DedupKey(table'[j])
    <3>1. CASE i \in DOMAIN table /\ j \in DOMAIN table
      BY <1>4, <2>1, <3>1 DEF KeysDiffer
    <3>2. CASE i \in DOMAIN table /\ j \notin DOMAIN table
      BY <1>4, <1>7, <3>2
    <3>3. CASE i \notin DOMAIN table /\ j \in DOMAIN table
      BY <1>4, <1>7, <3>3
    <3>4. CASE i \notin DOMAIN table /\ j \notin DOMAIN table
      <4>1. /\ i - Len(table) \in DOMAIN q /\ table'[i] = q[i - Len(table)]
            /\ j - Len(table) \in DOMAIN q /\ table'[j] = q[j - Len(table)]
        BY <1>4, <3>4
      <4>2. i - Len(table) # j - Len(table)
        BY <1>3, <1>4, <2>1
      <4> QED
        BY <1>3, <4>1, <4>2
    <3> QED
      BY <3>1, <3>2, <3>3, <3>4
  <2> QED
    BY <2>1 DEF KeysDiffer
<1>9. ReadLocked'
  <2>1. ASSUME NEW s \in Import!Requests, place'[s] = "read"
        PROVE  /\ Import!LockKeys(s) \subseteq Import!Holds(s)'
               /\ \A i \in DOMAIN table' : Import!DedupKey(table'[i]) \in Import!LockKeys(s)
                      => Import!DedupKey(table'[i]) \in snapshot[s]
    <3>1. s # r /\ place[s] = "read" /\ Import!LockKeys(s) \subseteq Import!Holds(s)
      BY <1>5, <2>1 DEF ReadLocked
    <3>2. Import!LockKeys(s) \subseteq Import!Holds(s)'
      BY <1>1, <3>1, LocksReleased
    <3>3. Import!Holds(s) \cap Import!Holds(r) = {}
      BY <3>1 DEF Import!Holds
    <3>4. \A j \in DOMAIN q : Import!DedupKey(q[j]) \notin Import!LockKeys(s)
      BY <1>3, <1>6, <3>1, <3>3
    <3>5. \A i \in DOMAIN table : Import!DedupKey(table[i]) \in Import!LockKeys(s)
              => Import!DedupKey(table[i]) \in snapshot[s]
      BY <3>1 DEF ReadLocked
    <3>6. ASSUME NEW i \in DOMAIN table', Import!DedupKey(table'[i]) \in Import!LockKeys(s)
          PROVE  Import!DedupKey(table'[i]) \in snapshot[s]
      BY <1>4, <3>4, <3>5, <3>6
    <3> QED
      BY <3>2, <3>6
  <2>2. \A s : Import!LockKeys(s)' = Import!LockKeys(s)
    BY <1>1 DEF Import!LockKeys
  <2> QED
    BY <1>1, <2>1, <2>2 DEF ReadLocked
<1> QED
  BY <1>4, <1>8, <1>9

\* A confirmation has created its rows, once, or a single case is created or refused.
LEMMA InsertCasesKeeps ==
  ASSUME ImportInv, NEW r \in Import!Requests, Import!InsertCases(r)
  PROVE  ImportInv'
<1> USE ImportConstants DEF ImportInv
<1> DEFINE p == IF r \in Singles /\ Import!NewRows(r) = <<>> THEN "refused" ELSE "created"
<1>1. /\ place[r] = "read" /\ Import!ReleaseLocks(r) /\ place' = [place EXCEPT ![r] = p]
      /\ imported' = IF r \in Confirms THEN [imported EXCEPT ![token[r]] = @ + 1] ELSE imported
      /\ UNCHANGED <<stored, expired, reserved, used, token, work, snapshot>>
  BY DEF Import!InsertCases, Import!Go
<1>2. p \in {"created", "refused"} /\ (r \in Confirms => p = "created")
  BY DEF Import!Requests
<1> HIDE DEF p
<1>3. /\ place'[r] = p /\ \A s \in Import!Requests : s # r => place'[s] = place[s]
      /\ place' \in [Import!Requests -> ImportPlaces]
  BY <1>1, <1>2 DEF ImportTypes, ImportPlaces
<1>4. ReadLocked' /\ KeysDiffer' /\ table' \in Seq(FileCases)
      /\ held' \in [Import!Keys -> Import!Requests \cup {None}]
  BY <1>1, InsertKeeps, LocksReleased
<1>5. CASE r \in Confirms
  <2>1. /\ token[r] \in Tokens /\ token[r] \in used /\ imported[token[r]] = 0
        /\ token[r] \in expired \/ token[r] \in reserved
        /\ \A s \in Confirms : s # r /\ place[s] \in UnderWay => token[s] # token[r]
    BY <1>1, <1>5 DEF Confirming, UnderWay, ImportTypes
  <2>2. /\ imported' \in [Tokens -> Nat] /\ imported'[token[r]] = 1
        /\ \A x \in Tokens : x # token[r] => imported'[x] = imported[x]
    BY <1>1, <1>5, <2>1 DEF ImportTypes
  <2>3. ImportTypes'
    BY <1>1, <1>3, <1>4, <2>2 DEF ImportTypes
  <2>4. /\ place'[r] = "created" /\ place'[r] \in UnderWay /\ place[r] \in UnderWay
        /\ \A s \in Confirms : s # r => place'[s] = place[s]
    BY <1>1, <1>2, <1>3, <1>5 DEF UnderWay, Import!Requests
  <2>5. Confirming'
    <3>1. \A s \in Singles : place'[s] # "failed" /\ token'[s] = None
      BY <1>1, <1>2, <1>3 DEF Confirming, Import!Requests
    <3>2. ASSUME NEW s \in Confirms, place'[s] \in UnderWay
          PROVE  /\ token'[s] \in used'
                 /\ token'[s] \in expired' \/ token'[s] \in reserved'
                 /\ imported'[token'[s]] = IF place'[s] = "created" THEN 1 ELSE 0
                 /\ \A q \in Confirms : place'[q] \in UnderWay /\ token'[q] = token'[s] => q = s
      <4>1. CASE s = r
        BY <1>1, <2>1, <2>2, <2>4, <4>1
      <4>2. CASE s # r
        <5>1. /\ place[s] \in UnderWay /\ place'[s] = place[s] /\ token[s] # token[r]
              /\ token[s] \in used /\ (token[s] \in expired \/ token[s] \in reserved)
              /\ imported[token[s]] = IF place[s] = "created" THEN 1 ELSE 0
              /\ \A q \in Confirms : place[q] \in UnderWay /\ token[q] = token[s] => q = s
          BY <2>1, <2>4, <3>2, <4>2 DEF Confirming
        <5>2. token[s] \in Tokens
          BY <5>1 DEF ImportTypes
        <5> QED
          BY <1>1, <2>2, <2>4, <5>1, <5>2
      <4> QED
        BY <4>1, <4>2
    <3> QED
      BY <3>1, <3>2 DEF Confirming
  <2>6. Previews'
    <3>1. ASSUME NEW x \in reserved'
          PROVE  \E s \in Confirms : token'[s] = x /\ place'[s] \in UnderWay
      <4>1. PICK s \in Confirms : token[s] = x /\ place[s] \in UnderWay
        BY <1>1, <3>1 DEF Previews
      <4>2. place'[s] \in UnderWay
        BY <2>4, <4>1
      <4> QED
        BY <1>1, <4>1, <4>2
    <3>2. ASSUME NEW x \in Tokens
          PROVE  /\ imported'[x] <= 1 /\ (x \notin used' => imported'[x] = 0)
                 /\ x \in used' \ expired' /\ imported'[x] = 0 => stored'[x] # None
                 /\ imported'[x] > 0 =>
                     \/ stored'[x] = None \/ x \in expired'
                     \/ \E s \in Confirms : token'[s] = x /\ place'[s] = "created"
      <4>1. CASE x = token[r]
        BY <1>1, <1>5, <2>1, <2>2, <2>4, <4>1
      <4>2. CASE x # token[r]
        <5>1. \A s \in Confirms : token[s] = x /\ place[s] = "created"
                  => token'[s] = x /\ place'[s] = "created"
          BY <1>1, <2>4, <4>2
        <5> QED
          BY <1>1, <2>2, <4>2, <5>1 DEF Previews
      <4> QED
        BY <4>1, <4>2
    <3> QED
      BY <3>1, <3>2 DEF Previews
  <2> QED
    BY <1>4, <2>3, <2>5, <2>6
<1>6. CASE r \in Singles
  <2>1. imported' = imported /\ r \notin Confirms
    BY <1>1, <1>6
  <2>2. ImportTypes'
    BY <1>1, <1>3, <1>4, <2>1 DEF ImportTypes
  <2>3. p \in ImportPlaces /\ p # "failed"
    BY <1>2 DEF ImportPlaces
  <2>4. Confirming' /\ Previews'
    BY <1>1, <2>1, <2>3, TokensKept
  <2> QED
    BY <1>4, <2>2, <2>4
<1> QED
  BY <1>5, <1>6 DEF Import!Requests

\* A transaction fails: its locks are gone, and a confirmation will say so.
LEMMA TransactionFailsKeeps ==
  ASSUME ImportInv, NEW r \in Import!Requests, Import!TransactionFails(r)
  PROVE  ImportInv'
<1> USE ImportConstants DEF ImportInv
<1> DEFINE p == IF r \in Confirms THEN "failed" ELSE "refused"
<1>1. /\ place[r] \in {"locking", "read"} /\ Import!ReleaseLocks(r)
      /\ place' = [place EXCEPT ![r] = p]
      /\ UNCHANGED <<stored, expired, reserved, used, imported, table, token, work, snapshot>>
  BY DEF Import!TransactionFails, Import!Go, Import!previews
<1>2. /\ p \in ImportPlaces \ {"read"} /\ (r \in Singles => p # "failed")
      /\ r \in Confirms => p = "failed"
  BY DEF ImportPlaces
<1> HIDE DEF p
<1>3. ImportTypes'
  BY <1>1, <1>2, LocksReleased DEF ImportTypes
<1>4. ReadLocked' /\ KeysDiffer'
  <2>1. place'[r] # "read" /\ \A s \in Import!Requests : s # r => place'[s] = place[s]
    BY <1>1, <1>2 DEF ImportTypes
  <2>2. \A s : Import!LockKeys(s)' = Import!LockKeys(s)
    BY <1>1 DEF Import!LockKeys
  <2>3. ASSUME NEW s \in Import!Requests, place'[s] = "read"
        PROVE  /\ Import!LockKeys(s) \subseteq Import!Holds(s)'
               /\ \A i \in DOMAIN table : Import!DedupKey(table[i]) \in Import!LockKeys(s)
                      => Import!DedupKey(table[i]) \in snapshot[s]
    <3>1. s # r /\ place[s] = "read"
      BY <2>1, <2>3
    <3>2. Import!Holds(s) \subseteq Import!Holds(s)'
      BY <1>1, <3>1, LocksReleased
    <3> QED
      BY <3>1, <3>2 DEF ReadLocked
  <2>4. ReadLocked'
    BY <1>1, <2>2, <2>3 DEF ReadLocked
  <2>5. KeysDiffer'
    BY <1>1 DEF KeysDiffer
  <2> QED
    BY <2>4, <2>5
<1>5. Confirming' /\ Previews'
  <2>1. r \in Confirms => {place[r], p} \subseteq UnderWay \ {"created"}
    BY <1>1, <1>2 DEF UnderWay
  <2> QED
    BY <1>1, <1>2, <2>1, TokensKept
<1> QED
  BY <1>3, <1>4, <1>5

\* Every step of the import keeps the invariant.
LEMMA ImportStep == ImportInv /\ Import!Next => ImportInv'
<1> SUFFICES ASSUME ImportInv, Import!Next PROVE ImportInv'
  OBVIOUS
<1>1. ASSUME NEW t \in Tokens,
             Import!Expire(t) \/ \E file \in ImportFiles : Import!Preview(t, file)
      PROVE  ImportInv'
  BY <1>1, ExpireKeeps, PreviewKeeps
<1>2. CASE \E r \in Confirms, t \in Tokens : Import!Reserve(r, t)
  BY <1>2, ReserveKeeps
<1>3. CASE \E r \in Singles, file \in ImportFiles : Import!BeginSingle(r, file[1])
  <2>1. PICK r \in Singles, file \in ImportFiles : Import!BeginSingle(r, file[1])
    BY <1>3
  <2>2. file[1] \in FileCases
    BY DEF FileCases, ImportFiles
  <2> QED
    BY <2>1, <2>2, BeginSingleKeeps
<1>4. ASSUME NEW r \in Import!Requests, Import!Step(r) \/ Import!TransactionFails(r)
      PROVE  ImportInv'
  BY <1>4, TakeWriteLockKeeps, LockKeyKeeps, ReadCasesKeeps, InsertCasesKeeps, CompleteKeeps,
     ReleaseKeeps, TransactionFailsKeeps DEF Import!Step
<1> QED
  BY <1>1, <1>2, <1>3, <1>4 DEF Import!Next

-----------------------------------------------------------------------------
\* The requests that write the tables of chat and evaluation leave them as their
\* readers expect: no case twice, no preview imported twice, lost or kept for ever
\* (create_evaluation_cases, confirm_evaluation_import); no conversation without
\* its messages, no half exchange, and the counter of turns never ahead of what was
\* said (SqlChatRepository.send_message).
THEOREM WritesAreSound == RepositorySpec => []WritesSound
<1>1. RepositoryInit => ChatInv /\ ImportInv
  BY ChatStart, ImportStart DEF RepositoryInit
<1>2. ASSUME ChatInv, ImportInv,
             [RepositoryNext]_<<part, vars, chat, import, pages>>
      PROVE  ChatInv' /\ ImportInv'
  <2>1. \/ Chat!Next /\ UNCHANGED import
        \/ Import!Next /\ UNCHANGED chat
        \/ UNCHANGED <<chat, import>>
    BY <1>2, Zenon DEF RepositoryNext
  <2> QED
    BY <1>2, <2>1, ChatStep, ChatStutters, ImportStep, ImportStutters
<1>3. ChatInv /\ ImportInv => WritesSound
  BY ChatInvSuffices, ImportInvSuffices DEF WritesSound
<1> QED
  BY <1>1, <1>2, <1>3, PTL DEF RepositorySpec

-----------------------------------------------------------------------------
(* The chat page.                                                          *)

ViewTypes ==
    /\ chatActive \in Shown \cup {None}
    /\ shownMessages \in [of : Shown \cup {None}, local : {"none", "pending", "asked"},
                          frame : Nat]
    /\ sending \in BOOLEAN /\ mixed \in BOOLEAN
    /\ revealTimer \in [of : Shown \cup {None}, frame : Nat] \cup {None}
    /\ waiter \in Calls \cup {None}
    /\ chatCall \in
        [Calls -> [op : {"none", "load", "fresh", "start", "remove", "select", "send"},
                   at : {"idle", "asked", "creating", "revealing", "resumed"},
                   for : Shown \cup {None}]]
\* An operation that is over has no kind; only a question is typed out, by the timer
\* for which it waits.
Revealing ==
    /\ \A k \in Calls : /\ chatCall[k].at = "idle" <=> chatCall[k].op = "none"
                        /\ chatCall[k].at \in {"revealing", "resumed"} => chatCall[k].op = "send"
                        /\ chatCall[k].at = "creating" => chatCall[k].op = "fresh"
                        /\ chatCall[k].at = "revealing" <=> waiter = k
    /\ revealTimer # None <=> waiter # None
    /\ revealTimer # None => revealTimer.of = chatActive
\* The question under way.
Questions ==
    /\ \A k, l \in Calls : chatCall[k].op = "send" /\ chatCall[l].op = "send" => k = l
    /\ sending <=> \E k \in Calls : chatCall[k].op = "send"
    /\ shownMessages.local = "pending" =>
        \E k \in Calls : chatCall[k].op = "send" /\ chatCall[k].at = "asked"
\* Operations that did not overlap: the last selection has its messages, or waits
\* for them.
Selecting == \E k \in Page!Chat!Asked : chatCall[k].op = "select"
NotMixed ==
    ~mixed =>
        /\ \A k, l \in Page!Chat!Asked : k = l
        /\ \A k \in Page!Chat!Asked : chatCall[k].op = "select" => chatCall[k].for = chatActive
        /\ Selecting \/ shownMessages.of = chatActive
        /\ Selecting \/ revealTimer # None \/ shownMessages.frame = Frames
ViewInv == ViewTypes /\ Revealing /\ Questions /\ NotMixed

\* It holds when the page opens.
LEMMA ViewStart == Page!Chat!Init => ViewInv
<1> SUFFICES ASSUME Page!Chat!Init PROVE ViewInv
  OBVIOUS
<1> USE PageConstants DEF Page!Chat!Init, Page!Chat!Whole, Page!Chat!Idle
<1>1. ViewTypes
  BY PageConstants DEF ViewTypes
<1>2. Revealing /\ Questions /\ NotMixed
  BY DEF Revealing, Questions, NotMixed, Selecting, Page!Chat!Asked
<1> QED
  BY <1>1, <1>2 DEF ViewInv

\* It gives what the page promises.
LEMMA ViewInvSuffices == ViewInv => Page!Chat!ChatViewSound
<1> SUFFICES ASSUME ViewInv PROVE Page!Chat!ChatViewSound
  OBVIOUS
<1> USE PageConstants DEF ViewInv, ViewTypes
<1>1. Page!Chat!OneQuestion
  BY DEF Revealing, Questions, Page!Chat!OneQuestion
<1>2. Page!Chat!RightConversation
  BY DEF Revealing, NotMixed, Selecting, Page!Chat!Asked, Page!Chat!Idle,
         Page!Chat!RightConversation
<1> QED
  BY <1>1, <1>2 DEF Page!Chat!ChatViewSound

\* The variables of the page, and of none of its operations.
view == <<chatActive, shownMessages, sending, revealTimer, waiter, chatCall, begun, mixed>>
LEMMA ViewStutters == ViewInv /\ UNCHANGED view => ViewInv'
<1> SUFFICES ASSUME ViewInv, UNCHANGED view PROVE ViewInv'
  OBVIOUS
<1> QED
  BY DEF ViewInv, view, ViewTypes, Revealing, Questions, NotMixed, Selecting, Page!Chat!Asked

\* Whoever waited for the timer goes on.
LEMMA Resolving ==
  ASSUME ViewInv, NEW calls,
         calls \in [Calls -> [op : {"none", "load", "fresh", "start", "remove", "select", "send"},
                              at : {"idle", "asked", "creating", "revealing", "resumed"},
                              for : Shown \cup {None}]]
  PROVE  /\ Page!Chat!Resolved(calls) \in
                [Calls -> [op : {"none", "load", "fresh", "start", "remove", "select", "send"},
                           at : {"idle", "asked", "creating", "revealing", "resumed"},
                           for : Shown \cup {None}]]
         /\ \A k \in Calls : /\ Page!Chat!Resolved(calls)[k].op = calls[k].op
                             /\ Page!Chat!Resolved(calls)[k].for = calls[k].for
                             /\ Page!Chat!Resolved(calls)[k].at =
                                    IF k = waiter THEN "resumed" ELSE calls[k].at
  BY DEF Page!Chat!Resolved

\* An operation starts.
LEMMA AskBundleKeeps ==
  ASSUME ViewInv, NEW k \in Calls, NEW op \in Page!Chat!Bundles, Page!Chat!AskBundle(k, op)
  PROVE  ViewInv'
<1> USE PageConstants DEF ViewInv, ViewTypes, Page!Chat!Bundles
<1>1. /\ chatCall[k].at = "idle" /\ chatCall[k].op = "none"
      /\ chatCall' = [chatCall EXCEPT ![k] = [op |-> op, at |-> "asked", for |-> None]]
      /\ mixed' = (mixed \/ Page!Chat!Asked # {})
      /\ UNCHANGED <<chatActive, shownMessages, sending, revealTimer, waiter>>
  BY DEF Page!Chat!AskBundle, Page!Chat!Begin, Page!Chat!Idle
<1>2. ViewTypes'
  BY <1>1
<1>3. /\ chatCall'[k] = [op |-> op, at |-> "asked", for |-> None]
      /\ \A l \in Calls : l # k => chatCall'[l] = chatCall[l]
  BY <1>1
<1>4. Revealing' /\ Questions'
  BY <1>1, <1>3 DEF Revealing, Questions
<1>5. NotMixed'
  <2> SUFFICES ASSUME ~mixed' PROVE NotMixed'
    BY DEF NotMixed
  <2>1. ~mixed /\ Page!Chat!Asked = {}
    BY <1>1
  <2>2. Page!Chat!Asked' = {k}
    BY <1>3, <2>1 DEF Page!Chat!Asked
  <2>3. ~Selecting
    BY <2>1 DEF Selecting
  <2> QED
    BY <1>1, <1>3, <2>1, <2>2, <2>3 DEF NotMixed, Selecting
<1> QED
  BY <1>2, <1>4, <1>5

\* loadFreshSession creates a conversation.
LEMMA NotFreshKeeps ==
  ASSUME ViewInv, NEW k \in Calls, Page!Chat!NotFresh(k)
  PROVE  ViewInv'
<1> USE PageConstants DEF ViewInv, ViewTypes
<1>1. /\ chatCall[k].op = "fresh" /\ chatCall[k].at = "asked"
      /\ chatCall' = [chatCall EXCEPT ![k].at = "creating"]
      /\ UNCHANGED <<chatActive, shownMessages, sending, revealTimer, waiter, mixed>>
  BY DEF Page!Chat!NotFresh
<1>2. ViewTypes'
  BY <1>1
<1>3. /\ chatCall'[k].at = "creating" /\ chatCall'[k].op = "fresh"
      /\ \A l \in Calls : l # k => chatCall'[l] = chatCall[l]
  BY <1>1
<1>4. Revealing' /\ Questions'
  BY <1>1, <1>3 DEF Revealing, Questions
<1>5. Page!Chat!Asked' = Page!Chat!Asked /\ Selecting' = Selecting
  BY <1>1, <1>3 DEF Page!Chat!Asked, Selecting
<1>6. NotMixed'
  BY <1>1, <1>3, <1>5 DEF NotMixed
<1> QED
  BY <1>2, <1>4, <1>6

\* A bundle replaces what is shown.
LEMMA ApplyBundleKeeps ==
  ASSUME ViewInv, NEW k \in Calls, NEW c \in Shown, Page!Chat!ApplyBundle(k, c)
  PROVE  ViewInv'
<1> USE PageConstants DEF ViewInv, ViewTypes
<1> DEFINE calls == [chatCall EXCEPT ![k] = Page!Chat!Idle]
<1>1. /\ k \in Page!Chat!Asked /\ chatCall[k].op \in Page!Chat!Bundles
      /\ chatActive' = c /\ shownMessages' = Page!Chat!Whole(c)
      /\ revealTimer' = None /\ waiter' = None
      /\ chatCall' = Page!Chat!Resolved(calls)
      /\ UNCHANGED <<sending, mixed>>
  BY DEF Page!Chat!ApplyBundle, Page!Chat!ClearReveal
<1>2. /\ chatCall[k].op # "send" /\ chatCall[k].op # "select"
      /\ chatCall[k].at \in {"asked", "creating"} /\ waiter # k
  BY <1>1 DEF Page!Chat!Bundles, Page!Chat!Asked, Revealing
<1>3. /\ chatCall' \in
           [Calls -> [op : {"none", "load", "fresh", "start", "remove", "select", "send"},
                      at : {"idle", "asked", "creating", "revealing", "resumed"},
                      for : Shown \cup {None}]]
      /\ chatCall'[k].at = "idle" /\ chatCall'[k].op = "none"
      /\ \A l \in Calls : l # k =>
            /\ chatCall'[l].op = chatCall[l].op /\ chatCall'[l].for = chatCall[l].for
            /\ chatCall'[l].at = IF l = waiter THEN "resumed" ELSE chatCall[l].at
  <2>1. calls \in [Calls -> [op : {"none", "load", "fresh", "start", "remove", "select", "send"},
                             at : {"idle", "asked", "creating", "revealing", "resumed"},
                             for : Shown \cup {None}]]
    BY DEF Page!Chat!Idle
  <2>2. /\ calls[k].at = "idle" /\ calls[k].op = "none"
        /\ \A l \in Calls : l # k => calls[l] = chatCall[l]
    BY DEF Page!Chat!Idle
  <2> HIDE DEF calls
  <2> QED
    BY <1>1, <1>2, <2>1, <2>2, Resolving
<1> HIDE DEF calls
<1>4. ViewTypes'
  BY <1>1, <1>3 DEF Page!Chat!Whole
<1>5. Revealing'
  BY <1>1, <1>3 DEF Revealing
<1>6. Questions'
  BY <1>1, <1>2, <1>3 DEF Questions, Page!Chat!Whole
<1>7. NotMixed'
  <2> SUFFICES ASSUME ~mixed' PROVE NotMixed'
    BY DEF NotMixed
  <2>1. Page!Chat!Asked = {k}
    BY <1>1 DEF NotMixed
  <2>2. Page!Chat!Asked' = {}
    BY <1>3, <2>1 DEF Page!Chat!Asked
  <2> QED
    BY <1>1, <2>2 DEF NotMixed, Selecting, Page!Chat!Whole
<1> QED
  BY <1>4, <1>5, <1>6, <1>7

\* Another conversation is selected.
LEMMA SelectKeeps ==
  ASSUME ViewInv, NEW k \in Calls, NEW c \in Shown, Page!Chat!Select(k, c)
  PROVE  ViewInv'
<1> USE PageConstants DEF ViewInv, ViewTypes
<1> DEFINE calls == [chatCall EXCEPT ![k] = [op |-> "select", at |-> "asked", for |-> c]]
<1>1. /\ chatCall[k].at = "idle" /\ chatCall[k].op = "none"
      /\ mixed' = (mixed \/ Page!Chat!Asked # {})
      /\ chatCall' = Page!Chat!Resolved(calls)
      /\ chatActive' = c /\ revealTimer' = None /\ waiter' = None
      /\ UNCHANGED <<shownMessages, sending>>
  BY DEF Page!Chat!Select, Page!Chat!ClearReveal, Page!Chat!Idle
<1>2. waiter # k
  BY <1>1 DEF Revealing
<1>3. /\ chatCall' \in
           [Calls -> [op : {"none", "load", "fresh", "start", "remove", "select", "send"},
                      at : {"idle", "asked", "creating", "revealing", "resumed"},
                      for : Shown \cup {None}]]
      /\ chatCall'[k].at = "asked" /\ chatCall'[k].op = "select" /\ chatCall'[k].for = c
      /\ \A l \in Calls : l # k =>
            /\ chatCall'[l].op = chatCall[l].op /\ chatCall'[l].for = chatCall[l].for
            /\ chatCall'[l].at = IF l = waiter THEN "resumed" ELSE chatCall[l].at
  <2>1. calls \in [Calls -> [op : {"none", "load", "fresh", "start", "remove", "select", "send"},
                             at : {"idle", "asked", "creating", "revealing", "resumed"},
                             for : Shown \cup {None}]]
    OBVIOUS
  <2>2. /\ calls[k].at = "asked" /\ calls[k].op = "select" /\ calls[k].for = c
        /\ \A l \in Calls : l # k => calls[l] = chatCall[l]
    OBVIOUS
  <2> HIDE DEF calls
  <2> QED
    BY <1>1, <1>2, <2>1, <2>2, Resolving
<1> HIDE DEF calls
<1>4. ViewTypes'
  BY <1>1, <1>3
<1>5. Revealing'
  BY <1>1, <1>3 DEF Revealing
<1>6. Questions'
  BY <1>1, <1>2, <1>3 DEF Questions, Revealing
<1>7. NotMixed'
  <2> SUFFICES ASSUME ~mixed' PROVE NotMixed'
    BY DEF NotMixed
  <2>1. Page!Chat!Asked = {}
    BY <1>1
  <2>2. Page!Chat!Asked' = {k}
    BY <1>3, <2>1 DEF Page!Chat!Asked
  <2>3. Selecting'
    BY <1>3, <2>2 DEF Selecting
  <2> QED
    BY <1>1, <1>3, <2>2, <2>3 DEF NotMixed
<1> QED
  BY <1>4, <1>5, <1>6, <1>7

\* The messages of the selected conversation come.
LEMMA ShowSelectedKeeps ==
  ASSUME ViewInv, NEW k \in Calls, Page!Chat!ShowSelected(k)
  PROVE  ViewInv'
<1> USE PageConstants DEF ViewInv, ViewTypes
<1>1. /\ k \in Page!Chat!Asked /\ chatCall[k].op = "select"
      /\ shownMessages' = Page!Chat!Whole(chatCall[k].for)
      /\ chatCall' = [chatCall EXCEPT ![k] = Page!Chat!Idle]
      /\ UNCHANGED <<chatActive, sending, revealTimer, waiter, mixed>>
  BY DEF Page!Chat!ShowSelected
<1>2. /\ chatCall'[k].op = "none" /\ chatCall'[k].at = "idle"
      /\ \A l \in Calls : l # k => chatCall'[l] = chatCall[l]
  BY <1>1 DEF Page!Chat!Idle
<1>3. ViewTypes'
  BY <1>1 DEF Page!Chat!Whole, Page!Chat!Idle
<1>4. Revealing'
  BY <1>1, <1>2 DEF Revealing, Page!Chat!Asked
<1>5. Questions'
  BY <1>1, <1>2 DEF Questions, Page!Chat!Whole
<1>6. NotMixed'
  <2> SUFFICES ASSUME ~mixed' PROVE NotMixed'
    BY DEF NotMixed
  <2>1. Page!Chat!Asked = {k} /\ chatCall[k].for = chatActive
    BY <1>1 DEF NotMixed
  <2>2. Page!Chat!Asked' = {}
    BY <1>2, <2>1 DEF Page!Chat!Asked
  <2> QED
    BY <1>1, <2>1, <2>2 DEF NotMixed, Selecting, Page!Chat!Whole
<1> QED
  BY <1>3, <1>4, <1>5, <1>6

\* A question is sent.
LEMMA SendKeeps ==
  ASSUME ViewInv, NEW k \in Calls, Page!Chat!Send(k)
  PROVE  ViewInv'
<1> USE PageConstants DEF ViewInv, ViewTypes
<1>1. /\ chatActive # None /\ ~sending
      /\ chatCall[k].at = "idle" /\ chatCall[k].op = "none"
      /\ chatCall' = [chatCall EXCEPT ![k] = [op |-> "send", at |-> "asked",
                                              for |-> chatActive]]
      /\ mixed' = (mixed \/ Page!Chat!Asked # {})
      /\ sending' = TRUE
      /\ shownMessages' = [shownMessages EXCEPT !.local = "pending"]
      /\ UNCHANGED <<chatActive, revealTimer, waiter>>
  BY DEF Page!Chat!Send, Page!Chat!Begin, Page!Chat!Idle
<1>2. /\ chatCall'[k].op = "send" /\ chatCall'[k].at = "asked"
      /\ \A l \in Calls : l # k => chatCall'[l] = chatCall[l]
      /\ \A l \in Calls : chatCall[l].op # "send"
  BY <1>1 DEF Questions
<1>3. ViewTypes'
  BY <1>1
<1>4. Revealing'
  BY <1>1, <1>2 DEF Revealing
<1>5. Questions'
  BY <1>1, <1>2 DEF Questions
<1>6. NotMixed'
  <2> SUFFICES ASSUME ~mixed' PROVE NotMixed'
    BY DEF NotMixed
  <2>1. ~mixed /\ Page!Chat!Asked = {}
    BY <1>1
  <2>2. Page!Chat!Asked' = {k}
    BY <1>2, <2>1 DEF Page!Chat!Asked
  <2>3. ~Selecting
    BY <2>1 DEF Selecting
  <2> QED
    BY <1>1, <1>2, <2>1, <2>2, <2>3 DEF NotMixed, Selecting
<1> QED
  BY <1>3, <1>4, <1>5, <1>6

\* The answer is there: it is typed out, or shown at once when it has no text.
LEMMA RevealKeeps ==
  ASSUME ViewInv, NEW k \in Calls, NEW hasText \in BOOLEAN, Page!Chat!Reveal(k, hasText)
  PROVE  ViewInv'
<1> USE PageConstants DEF ViewInv, ViewTypes
<1> DEFINE c == chatCall[k].for
           calls == [chatCall EXCEPT ![k].at = IF hasText THEN "revealing" ELSE "resumed"]
<1>1. /\ k \in Page!Chat!Asked /\ chatCall[k].op = "send" /\ chatActive' = c
      /\ chatCall' = Page!Chat!Resolved(calls)
      /\ shownMessages' = IF hasText THEN [Page!Chat!Whole(c) EXCEPT !.frame = 0]
                          ELSE Page!Chat!Whole(c)
      /\ revealTimer' = IF hasText THEN [of |-> c, frame |-> 1] ELSE None
      /\ waiter' = IF hasText THEN k ELSE None
      /\ UNCHANGED <<sending, mixed>>
  BY DEF Page!Chat!Reveal, Page!Chat!ClearReveal
<1>2. waiter = None /\ chatCall[k].at = "asked"
  BY <1>1 DEF Revealing, Questions, Page!Chat!Asked
<1>3. /\ chatCall' \in
           [Calls -> [op : {"none", "load", "fresh", "start", "remove", "select", "send"},
                      at : {"idle", "asked", "creating", "revealing", "resumed"},
                      for : Shown \cup {None}]]
      /\ chatCall'[k].op = "send"
      /\ chatCall'[k].at = IF hasText THEN "revealing" ELSE "resumed"
      /\ \A l \in Calls : l # k =>
            /\ chatCall'[l].op = chatCall[l].op /\ chatCall'[l].for = chatCall[l].for
            /\ chatCall'[l].at = chatCall[l].at
  <2>1. calls \in [Calls -> [op : {"none", "load", "fresh", "start", "remove", "select", "send"},
                             at : {"idle", "asked", "creating", "revealing", "resumed"},
                             for : Shown \cup {None}]]
    OBVIOUS
  <2>2. /\ calls[k].at = IF hasText THEN "revealing" ELSE "resumed"
        /\ calls[k].op = chatCall[k].op
        /\ \A l \in Calls : l # k => calls[l] = chatCall[l]
    OBVIOUS
  <2> HIDE DEF calls
  <2> QED
    BY <1>1, <1>2, <2>1, <2>2, Resolving
<1> HIDE DEF calls
<1>4. shownMessages'.local = "none" /\ shownMessages'.of = c
      /\ (~hasText => shownMessages'.frame = Frames)
  BY <1>1 DEF Page!Chat!Whole
<1>5. ViewTypes'
  <2>1. c \in Shown \cup {None}
    OBVIOUS
  <2> HIDE DEF c
  <2>2. shownMessages' \in [of : Shown \cup {None}, local : {"none", "pending", "asked"},
                            frame : Nat]
    BY <1>1, <2>1 DEF Page!Chat!Whole
  <2>3. revealTimer' \in [of : Shown \cup {None}, frame : Nat] \cup {None}
    BY <1>1, <2>1
  <2> QED
    BY <1>1, <1>3, <2>1, <2>2, <2>3
<1>6. Revealing'
  <2>1. c \in Shown \cup {None} /\ (hasText => revealTimer' # None)
    BY <1>1
  <2>2. revealTimer' # None => revealTimer'.of = chatActive'
    BY <1>1
  <2>3. revealTimer' # None <=> waiter' # None
    BY <1>1, <2>1
  <2>4. \A l \in Calls :
            /\ chatCall'[l].at = "idle" <=> chatCall'[l].op = "none"
            /\ chatCall'[l].at \in {"revealing", "resumed"} => chatCall'[l].op = "send"
            /\ chatCall'[l].at = "creating" => chatCall'[l].op = "fresh"
            /\ chatCall'[l].at = "revealing" <=> waiter' = l
    BY <1>1, <1>2, <1>3 DEF Revealing
  <2> QED
    BY <2>2, <2>3, <2>4 DEF Revealing
<1>7. Questions'
  BY <1>1, <1>3, <1>4 DEF Questions
<1>8. NotMixed'
  <2> SUFFICES ASSUME ~mixed' PROVE NotMixed'
    BY DEF NotMixed
  <2>1. Page!Chat!Asked = {k}
    BY <1>1 DEF NotMixed
  <2>2. Page!Chat!Asked' = {}
    BY <1>3, <2>1 DEF Page!Chat!Asked
  <2>3. hasText => revealTimer' # None
    BY <1>1
  <2> QED
    BY <1>1, <1>4, <2>2, <2>3 DEF NotMixed, Selecting
<1> QED
  BY <1>5, <1>6, <1>7, <1>8

\* The timer ticks, and the last time resolves.
LEMMA RenderFrameKeeps == ViewInv /\ Page!Chat!RenderFrame => ViewInv'
<1> SUFFICES ASSUME ViewInv, Page!Chat!RenderFrame PROVE ViewInv'
  OBVIOUS
<1> USE PageConstants DEF ViewInv, ViewTypes
<1>1. /\ revealTimer # None
      /\ shownMessages' = [Page!Chat!Whole(revealTimer.of) EXCEPT !.frame = revealTimer.frame]
      /\ UNCHANGED <<chatActive, sending, mixed>>
  BY DEF Page!Chat!RenderFrame
<1>2. /\ revealTimer \in [of : Shown \cup {None}, frame : Nat]
      /\ revealTimer.of = chatActive /\ waiter \in Calls /\ chatCall[waiter].op = "send"
      /\ chatCall[waiter].at = "revealing"
  BY <1>1 DEF Revealing
<1>3. /\ shownMessages'.of = chatActive /\ shownMessages'.local = "none"
      /\ shownMessages'.frame = revealTimer.frame
      /\ shownMessages' \in [of : Shown \cup {None}, local : {"none", "pending", "asked"},
                             frame : Nat]
  BY <1>1, <1>2 DEF Page!Chat!Whole
<1>4. CASE revealTimer.frame = Frames
  <2>1. revealTimer' = None /\ waiter' = None /\ chatCall' = Page!Chat!Resolved(chatCall)
    BY <1>4 DEF Page!Chat!RenderFrame, Page!Chat!ClearReveal
  <2>2. /\ chatCall' \in
             [Calls -> [op : {"none", "load", "fresh", "start", "remove", "select", "send"},
                        at : {"idle", "asked", "creating", "revealing", "resumed"},
                        for : Shown \cup {None}]]
        /\ \A l \in Calls :
              /\ chatCall'[l].op = chatCall[l].op /\ chatCall'[l].for = chatCall[l].for
              /\ chatCall'[l].at = IF l = waiter THEN "resumed" ELSE chatCall[l].at
    BY <2>1, Resolving
  <2>3. ViewTypes'
    BY <1>1, <1>3, <2>1, <2>2
  <2>4. Revealing'
    BY <1>2, <2>1, <2>2 DEF Revealing
  <2>5. Questions'
    BY <1>1, <1>3, <2>2 DEF Questions
  <2>6. Page!Chat!Asked' = Page!Chat!Asked
    BY <1>2, <2>2 DEF Page!Chat!Asked
  <2>7. Selecting' = Selecting
    BY <2>2, <2>6 DEF Selecting, Page!Chat!Asked
  <2>8. NotMixed'
    <3>1. \A l \in Page!Chat!Asked : l \in Calls
      BY DEF Page!Chat!Asked
    <3> QED
      BY <1>1, <1>3, <1>4, <2>2, <2>6, <2>7, <3>1 DEF NotMixed
  <2> QED
    BY <2>3, <2>4, <2>5, <2>8
<1>5. CASE revealTimer.frame # Frames
  <2>1. /\ revealTimer' = [revealTimer EXCEPT !.frame = @ + 1]
        /\ UNCHANGED <<waiter, chatCall>>
    BY <1>5 DEF Page!Chat!RenderFrame
  <2>2. /\ revealTimer' \in [of : Shown \cup {None}, frame : Nat]
        /\ revealTimer'.of = revealTimer.of
    BY <1>2, <2>1
  <2>3. ViewTypes'
    BY <1>1, <1>3, <2>1, <2>2
  <2>4. Revealing'
    BY <1>1, <1>2, <2>1, <2>2 DEF Revealing
  <2>5. Questions'
    BY <1>1, <1>3, <2>1 DEF Questions
  <2>6. NotMixed'
    BY <1>1, <1>3, <2>1, <2>2 DEF NotMixed, Selecting, Page!Chat!Asked
  <2> QED
    BY <2>3, <2>4, <2>5, <2>6
<1> QED
  BY <1>4, <1>5

\* The operation that sent the question ends.
LEMMA EndSendKeeps ==
  ASSUME ViewInv, NEW k \in Calls, Page!Chat!EndSend(k)
  PROVE  ViewInv'
<1> USE PageConstants DEF ViewInv, ViewTypes
<1>1. /\ chatCall[k].at = "resumed" /\ sending' = FALSE
      /\ chatCall' = [chatCall EXCEPT ![k] = Page!Chat!Idle]
      /\ UNCHANGED <<chatActive, shownMessages, revealTimer, waiter, mixed>>
  BY DEF Page!Chat!EndSend
<1>2. chatCall[k].op = "send" /\ waiter # k
  BY <1>1 DEF Revealing
<1>3. /\ chatCall'[k].op = "none" /\ chatCall'[k].at = "idle"
      /\ \A l \in Calls : l # k => chatCall'[l] = chatCall[l]
  BY <1>1 DEF Page!Chat!Idle
<1>4. ViewTypes'
  BY <1>1 DEF Page!Chat!Idle
<1>5. Revealing'
  BY <1>1, <1>2, <1>3 DEF Revealing
<1>6. Questions'
  BY <1>1, <1>2, <1>3 DEF Questions
<1>7. Page!Chat!Asked' = Page!Chat!Asked /\ Selecting' = Selecting
  BY <1>1, <1>3 DEF Page!Chat!Asked, Selecting
<1>8. NotMixed'
  BY <1>1, <1>3, <1>7 DEF NotMixed, Page!Chat!Asked
<1> QED
  BY <1>4, <1>5, <1>6, <1>8

\* A request fails.
LEMMA ViewCallFailsKeeps ==
  ASSUME ViewInv, NEW k \in Calls, Page!Chat!CallFails(k)
  PROVE  ViewInv'
<1> USE PageConstants DEF ViewInv, ViewTypes
<1>1. /\ k \in Page!Chat!Asked
      /\ chatCall' = [chatCall EXCEPT ![k] = Page!Chat!Idle]
      /\ mixed' = (mixed \/ chatCall[k].op = "select")
      /\ UNCHANGED <<chatActive, revealTimer, waiter>>
      /\ shownMessages'.of = shownMessages.of /\ shownMessages'.frame = shownMessages.frame
      /\ shownMessages' \in [of : Shown \cup {None}, local : {"none", "pending", "asked"},
                             frame : Nat]
      /\ sending' = IF chatCall[k].op = "send" THEN FALSE ELSE sending
      /\ chatCall[k].op = "send" => shownMessages'.local # "pending"
      /\ chatCall[k].op # "send" => shownMessages' = shownMessages
  BY DEF Page!Chat!CallFails
<1>2. waiter # k
  BY <1>1 DEF Revealing, Page!Chat!Asked
<1>3. /\ chatCall'[k].op = "none" /\ chatCall'[k].at = "idle"
      /\ \A l \in Calls : l # k => chatCall'[l] = chatCall[l]
  BY <1>1 DEF Page!Chat!Idle
<1>4. ViewTypes'
  <2>1. chatCall' \in [Calls -> [op : {"none", "load", "fresh", "start", "remove", "select",
                                       "send"},
                                 at : {"idle", "asked", "creating", "revealing", "resumed"},
                                 for : Shown \cup {None}]]
    BY <1>1 DEF Page!Chat!Idle
  <2> QED
    BY <1>1, <2>1
<1>5. Revealing'
  BY <1>1, <1>2, <1>3 DEF Revealing
<1>6. Questions'
  <2>1. CASE chatCall[k].op = "send"
    BY <1>1, <1>3, <2>1 DEF Questions
  <2>2. CASE chatCall[k].op # "send"
    BY <1>1, <1>3, <2>2 DEF Questions
  <2> QED
    BY <2>1, <2>2
<1>7. NotMixed'
  <2> SUFFICES ASSUME ~mixed' PROVE NotMixed'
    BY DEF NotMixed
  <2>1. ~mixed /\ Page!Chat!Asked = {k} /\ chatCall[k].op # "select"
    <3>1. ~mixed /\ k \in Page!Chat!Asked /\ chatCall[k].op # "select"
      BY <1>1
    <3>2. \A l \in Page!Chat!Asked : l = k
      BY <3>1 DEF NotMixed
    <3> QED
      BY <3>1, <3>2
  <2>2. Page!Chat!Asked' = {} /\ ~Selecting
    BY <1>3, <2>1 DEF Page!Chat!Asked, Selecting
  <2> QED
    BY <1>1, <2>1, <2>2 DEF NotMixed
<1> QED
  BY <1>4, <1>5, <1>6, <1>7

\* Every step of the chat page keeps the invariant.
LEMMA ViewStep == ViewInv /\ Page!Chat!Next => ViewInv'
<1> SUFFICES ASSUME ViewInv, Page!Chat!Next PROVE ViewInv'
  OBVIOUS
<1>1. CASE Page!Chat!Operation
  BY <1>1, SendKeeps, AskBundleKeeps, SelectKeeps DEF Page!Chat!Operation
<1>2. CASE Page!Chat!Moves
  BY <1>2, RenderFrameKeeps, EndSendKeeps, NotFreshKeeps, ShowSelectedKeeps,
     ViewCallFailsKeeps, ApplyBundleKeeps, RevealKeeps DEF Page!Chat!Moves, Page!Chat!Reply
<1> QED
  BY <1>1, <1>2 DEF Page!Chat!Next
-----------------------------------------------------------------------------
(* The list of evaluation cases.                                           *)

CaseFilters == Filters \cup {None}
CasesTypes ==
    /\ version \in Nat /\ filter \in CaseFilters /\ failed \in BOOLEAN /\ behind \in BOOLEAN
    /\ caseList \in [filter : CaseFilters, version : Nat]
    /\ request \in [Calls -> [at : {"free", "sent", "served"}, filter : CaseFilters,
                              counts : BOOLEAN, seen : Nat,
                              by : Writes \cup {"page", "initial"}]]
    /\ write \in [Writes -> [at : {"idle", "sent", "done", "served", "refreshing"}, seen : Nat]]
    /\ initial \in [dashboard : {"none", "sent", "served", "received", "failed", "over"}, seen : Nat,
                    sources : {"none", "sent", "settled"},
                    collection : {"none", "sent", "applied", "stale", "failed"}]
\* A write waits for the one request that it asked for.
Refreshing ==
    /\ \A k \in Calls : request[k].counts => request[k].at # "free"
    /\ \A k \in Calls : request[k].at # "free" /\ request[k].by \in Writes =>
        /\ write[request[k].by].at = "refreshing"
        /\ \A l \in Calls : request[l].at # "free" /\ request[l].by = request[k].by => l = k
\* Only the latest request counts, and it asked with the filter of now.
LatestCounts ==
    /\ \A k, l \in Calls : request[k].counts /\ request[l].counts => k = l
    /\ \A k \in Calls : request[k].counts => request[k].filter = filter
    /\ caseList.filter # filter => failed \/ \E k \in Calls : request[k].counts
\* What the server has done and the page has not seen is still on its way.
OnItsWay == \E w \in Writes : write[w].at \in {"done", "served"}
Seen ==
    /\ initial.seen <= version
    /\ \A k \in Calls : request[k].counts /\ request[k].at = "served"
            => request[k].seen = version \/ behind \/ OnItsWay
    /\ failed \/ behind \/ caseList.version = version \/ OnItsWay
       \/ \E k \in Calls : request[k].counts
CasesInv == CasesTypes /\ Refreshing /\ LatestCounts /\ Seen

\* It holds when the page opens.
LEMMA CasesStart == Page!Case!Init => CasesInv
<1> SUFFICES ASSUME Page!Case!Init PROVE CasesInv
  OBVIOUS
<1> USE PageConstants DEF Page!Case!Init, Page!Case!Free, Page!Case!Listed,
        Page!Case!NoWrite, Page!Case!NotLoaded
<1>1. CasesTypes
  BY DEF CasesTypes, CaseFilters
<1>2. Refreshing /\ LatestCounts /\ Seen
  BY DEF Refreshing, LatestCounts, Seen
<1> QED
  BY <1>1, <1>2 DEF CasesInv

\* It gives what the page promises.
LEMMA CasesInvSuffices == CasesInv => Page!Case!CasesPageSound
<1> SUFFICES ASSUME CasesInv PROVE Page!Case!CasesPageSound
  OBVIOUS
<1> USE DEF CasesInv
<1>1. ASSUME Page!Case!Quiet, ~failed, ~behind
      PROVE  caseList = Page!Case!Listed(filter, version)
  <2>1. \A k \in Calls : ~request[k].counts
    BY <1>1 DEF Page!Case!Quiet, Page!Case!Free
  <2>2. ~OnItsWay
    BY <1>1 DEF Page!Case!Quiet, Page!Case!NoWrite, OnItsWay
  <2>3. caseList.filter = filter /\ caseList.version = version
    BY <1>1, <2>1, <2>2 DEF LatestCounts, Seen
  <2> QED
    BY <2>3 DEF CasesTypes, Page!Case!Listed
<1> QED
  BY <1>1 DEF LatestCounts, Page!Case!CasesPageSound

\* Nothing of the page changes.
caseVars == <<version, filter, caseList, request, write, initial, acts, failed, behind>>
LEMMA CasesStutter == CasesInv /\ UNCHANGED caseVars => CasesInv'
  BY DEF CasesInv, caseVars, CasesTypes, Refreshing, LatestCounts, Seen, OnItsWay

\* A new request for the list is the only one that counts.
LEMMA NewRequest ==
  ASSUME CasesInv, NEW k \in Calls, NEW f \in CaseFilters,
         NEW by \in Writes \cup {"page", "initial"},
         request[k].at = "free", request' = Page!Case!Latest(k, f, by)
  PROVE  /\ request' \in [Calls -> [at : {"free", "sent", "served"}, filter : CaseFilters,
                                    counts : BOOLEAN, seen : Nat,
                                    by : Writes \cup {"page", "initial"}]]
         /\ request'[k] = [at |-> "sent", filter |-> f, counts |-> TRUE, seen |-> 0, by |-> by]
         /\ \A l \in Calls : l # k =>
                /\ ~request'[l].counts /\ request'[l].at = request[l].at
                /\ request'[l].by = request[l].by
<1> USE DEF CasesInv, CasesTypes
<1>1. \A l \in Calls : request'[l] =
          IF l = k THEN [at |-> "sent", filter |-> f, counts |-> TRUE, seen |-> 0, by |-> by]
          ELSE [request[l] EXCEPT !.counts = FALSE]
  BY DEF Page!Case!Latest
<1> DEFINE R == [at : {"free", "sent", "served"}, filter : CaseFilters, counts : BOOLEAN,
                 seen : Nat, by : Writes \cup {"page", "initial"}]
<1>2. ASSUME NEW l \in Calls PROVE [request[l] EXCEPT !.counts = FALSE] \in R
  <2>1. request[l] \in R
    OBVIOUS
  <2> QED
    BY <2>1
<1>3. [at |-> "sent", filter |-> f, counts |-> TRUE, seen |-> 0, by |-> by] \in R
  OBVIOUS
<1> HIDE DEF R
<1>4. request' \in [Calls -> R]
  BY <1>2, <1>3 DEF Page!Case!Latest
<1> QED
  BY <1>1, <1>4 DEF R

\* The filter is set or the page loads: the list is asked for.
LEMMA AskingKeeps ==
  ASSUME CasesInv, NEW k \in Calls,
         Page!Case!LoadAll(k) \/ \E f \in Filters \cup {None} : Page!Case!SetFilter(k, f)
  PROVE  CasesInv'
<1> USE PageConstants DEF CasesInv
<1>1. PICK by \in {"page", "initial"} :
      /\ request[k].at = "free" /\ filter' \in CaseFilters
      /\ request' = Page!Case!Latest(k, filter', by)
      /\ UNCHANGED <<version, caseList, write, failed, behind>>
      /\ initial' \in {initial, [dashboard |-> "sent", seen |-> 0, sources |-> "sent",
                                 collection |-> "sent"]}
  BY DEF Page!Case!LoadAll, Page!Case!SetFilter, Page!Case!Free, CaseFilters, CasesTypes
<1>2. /\ request' \in [Calls -> [at : {"free", "sent", "served"}, filter : CaseFilters,
                                 counts : BOOLEAN, seen : Nat,
                                 by : Writes \cup {"page", "initial"}]]
      /\ request'[k] = [at |-> "sent", filter |-> filter', counts |-> TRUE, seen |-> 0,
                        by |-> by]
      /\ \A l \in Calls : l # k =>
             /\ ~request'[l].counts /\ request'[l].at = request[l].at
             /\ request'[l].by = request[l].by
  BY <1>1, NewRequest
<1>3. CasesTypes'
  BY <1>1, <1>2 DEF CasesTypes
<1>4. Refreshing'
  BY <1>1, <1>2 DEF Refreshing
<1>5. LatestCounts'
  BY <1>1, <1>2 DEF LatestCounts
<1>6. Seen'
  <2>1. initial'.seen <= version'
    BY <1>1 DEF Seen, CasesTypes
  <2>2. request'[k].counts /\ request'[k].at = "sent"
    BY <1>2
  <2> QED
    BY <1>2, <2>1, <2>2 DEF Seen
<1> QED
  BY <1>3, <1>4, <1>5, <1>6

\* The server reads the list.
LEMMA ServeCollectionKeeps ==
  ASSUME CasesInv, NEW k \in Calls, Page!Case!ServeCollection(k)
  PROVE  CasesInv'
<1> USE PageConstants DEF CasesInv
<1>1. /\ request[k].at = "sent"
      /\ request' = [request EXCEPT ![k].at = "served", ![k].seen = version]
      /\ UNCHANGED <<version, filter, caseList, write, initial, failed, behind>>
  BY DEF Page!Case!ServeCollection
<1>2. /\ request'[k].at = "served" /\ request'[k].seen = version
      /\ request'[k].counts = request[k].counts /\ request'[k].by = request[k].by
      /\ request'[k].filter = request[k].filter
      /\ \A l \in Calls : l # k => request'[l] = request[l]
  BY <1>1 DEF CasesTypes
<1> DEFINE R == [at : {"free", "sent", "served"}, filter : CaseFilters, counts : BOOLEAN,
                 seen : Nat, by : Writes \cup {"page", "initial"}]
<1>3. CasesTypes'
  <2>1. request \in [Calls -> R] /\ version \in Nat
    BY DEF CasesTypes
  <2>2. [request[k] EXCEPT !.at = "served", !.seen = version] \in R
    BY <2>1
  <2> HIDE DEF R
  <2>3. request' \in [Calls -> R]
    BY <1>1, <2>1, <2>2
  <2> QED
    BY <1>1, <2>3 DEF CasesTypes, R
<1>4. \A l \in Calls : /\ request'[l].counts <=> request[l].counts
                       /\ request'[l].by = request[l].by
                       /\ request'[l].filter = request[l].filter
                       /\ request'[l].at # "free" <=> request[l].at # "free"
  BY <1>1, <1>2
<1>5. Refreshing' /\ LatestCounts'
  <2> HIDE DEF R
  <2>1. Refreshing'
    <3>1. \A l \in Calls : request'[l].counts => request'[l].at # "free"
      BY <1>4 DEF Refreshing
    <3>2. ASSUME NEW l \in Calls, request'[l].at # "free", request'[l].by \in Writes
          PROVE  /\ write'[request'[l].by].at = "refreshing"
                 /\ \A m \in Calls : request'[m].at # "free" /\ request'[m].by = request'[l].by
                        => m = l
      <4>1. request[l].at # "free" /\ request[l].by \in Writes /\ request'[l].by = request[l].by
        BY <1>4, <3>2
      <4>2. write'[request[l].by].at = "refreshing"
        BY <1>1, <4>1 DEF Refreshing
      <4>3. \A m \in Calls : request[m].at # "free" /\ request[m].by = request[l].by => m = l
        BY <4>1 DEF Refreshing
      <4> QED
        BY <1>4, <4>1, <4>2, <4>3
    <3> QED
      BY <3>1, <3>2 DEF Refreshing
  <2>2. LatestCounts'
    <3>1. filter' = filter /\ failed' = failed /\ caseList' = caseList
      BY <1>1
    <3>2. \A l, m \in Calls : request'[l].counts /\ request'[m].counts => l = m
      BY <1>4 DEF LatestCounts
    <3>3. \A l \in Calls : request'[l].counts => request'[l].filter = filter
      BY <1>4 DEF LatestCounts
    <3>4. caseList.filter # filter => failed \/ \E l \in Calls : request'[l].counts
      BY <1>4 DEF LatestCounts
    <3> QED
      BY <3>1, <3>2, <3>3, <3>4 DEF LatestCounts
  <2> QED
    BY <2>1, <2>2
<1>6. Seen'
  BY <1>1, <1>2 DEF Seen, OnItsWay
<1> QED
  BY <1>3, <1>5, <1>6

\* Whoever asked for the list goes on: a write that waited for it is over.
LEMMA Continuing ==
  ASSUME CasesInv, NEW k \in Calls, NEW result \in {"applied", "stale", "failed"},
         request[k].at # "free", request' = [request EXCEPT ![k] = Page!Case!Free],
         Page!Case!Continues(request[k].by, result)
  PROVE  /\ request' \in [Calls -> [at : {"free", "sent", "served"}, filter : CaseFilters,
                                    counts : BOOLEAN, seen : Nat,
                                    by : Writes \cup {"page", "initial"}]]
         /\ ~request'[k].counts /\ request'[k].at = "free"
         /\ \A l \in Calls : l # k => request'[l] = request[l]
         /\ write' \in [Writes -> [at : {"idle", "sent", "done", "served", "refreshing"}, seen : Nat]]
         /\ \A w \in Writes : w # request[k].by => write'[w] = write[w]
         /\ initial' \in [dashboard : {"none", "sent", "served", "received", "failed", "over"},
                          seen : Nat, sources : {"none", "sent", "settled"},
                          collection : {"none", "sent", "applied", "stale", "failed"}]
         /\ initial'.seen = initial.seen
         /\ OnItsWay => OnItsWay'
         /\ Refreshing'
<1> USE PageConstants DEF CasesInv
<1>1. /\ \A l \in Calls : l # k => request'[l] = request[l]
      /\ request'[k] = Page!Case!Free
      /\ request' \in [Calls -> [at : {"free", "sent", "served"}, filter : CaseFilters,
                                 counts : BOOLEAN, seen : Nat,
                                 by : Writes \cup {"page", "initial"}]]
  BY DEF CasesTypes, Page!Case!Free, CaseFilters
<1>2. /\ write' \in [Writes -> [at : {"idle", "sent", "done", "served", "refreshing"}, seen : Nat]]
      /\ \A w \in Writes : w # request[k].by => write'[w] = write[w]
  BY DEF CasesTypes, Page!Case!Continues, Page!Case!NoWrite
<1>3. /\ initial' \in [dashboard : {"none", "sent", "served", "received", "failed", "over"},
                       seen : Nat, sources : {"none", "sent", "settled"},
                       collection : {"none", "sent", "applied", "stale", "failed"}]
      /\ initial'.seen = initial.seen
  BY DEF CasesTypes, Page!Case!Continues
<1>4. ~request'[k].counts /\ request'[k].at = "free"
  BY <1>1 DEF Page!Case!Free
<1>5. OnItsWay => OnItsWay'
  BY <1>2 DEF OnItsWay, Refreshing
<1>6. Refreshing'
  <2>1. ASSUME NEW l \in Calls, request'[l].at # "free", request'[l].by \in Writes
        PROVE  /\ write'[request'[l].by].at = "refreshing"
               /\ \A m \in Calls : request'[m].at # "free" /\ request'[m].by = request'[l].by
                      => m = l
    <3>1. l # k /\ request'[l] = request[l]
      BY <1>1, <1>4, <2>1
    <3>2. request[l].by # request[k].by
      BY <2>1, <3>1 DEF Refreshing
    <3> QED
      BY <1>1, <1>2, <1>4, <2>1, <3>1, <3>2 DEF Refreshing
  <2>2. \A l \in Calls : request'[l].counts => request'[l].at # "free"
    BY <1>1, <1>4 DEF Refreshing
  <2> QED
    BY <2>1, <2>2 DEF Refreshing
<1> QED
  BY <1>1, <1>2, <1>3, <1>4, <1>5, <1>6

\* The list comes, and is shown if it was asked for last.
LEMMA CollectionReceivedKeeps ==
  ASSUME CasesInv, NEW k \in Calls, Page!Case!CollectionReceived(k)
  PROVE  CasesInv'
<1> USE PageConstants DEF CasesInv
<1>1. PICK result \in {"applied", "stale"} :
      /\ request[k].at = "served" /\ request' = [request EXCEPT ![k] = Page!Case!Free]
      /\ Page!Case!Continues(request[k].by, result)
      /\ UNCHANGED <<version, filter, behind>>
  BY DEF Page!Case!CollectionReceived
<1>2. /\ request' \in [Calls -> [at : {"free", "sent", "served"}, filter : CaseFilters,
                                 counts : BOOLEAN, seen : Nat,
                                 by : Writes \cup {"page", "initial"}]]
      /\ ~request'[k].counts /\ request'[k].at = "free"
      /\ \A l \in Calls : l # k => request'[l] = request[l]
      /\ write' \in [Writes -> [at : {"idle", "sent", "done", "served", "refreshing"}, seen : Nat]]
      /\ initial' \in [dashboard : {"none", "sent", "served", "received", "failed", "over"},
                       seen : Nat, sources : {"none", "sent", "settled"},
                       collection : {"none", "sent", "applied", "stale", "failed"}]
      /\ initial'.seen = initial.seen
      /\ OnItsWay => OnItsWay'
      /\ Refreshing'
  BY <1>1, Continuing
<1>3. CASE request[k].counts
  <2>1. /\ caseList' = Page!Case!Listed(request[k].filter, request[k].seen) /\ failed' = FALSE
        /\ request[k].filter = filter /\ filter \in CaseFilters /\ request[k].seen \in Nat
    BY <1>3 DEF Page!Case!CollectionReceived, LatestCounts, CasesTypes
  <2>2. caseList'.filter = filter /\ caseList'.version = request[k].seen
    BY <2>1 DEF Page!Case!Listed
  <2>3. CasesTypes'
    BY <1>1, <1>2, <2>1 DEF CasesTypes, Page!Case!Listed
  <2>4. \A l \in Calls : ~request'[l].counts
    BY <1>2, <1>3 DEF LatestCounts
  <2>5. LatestCounts'
    BY <1>1, <2>2, <2>4 DEF LatestCounts
  <2>6. Seen'
    <3>1. request[k].seen = version \/ behind \/ OnItsWay
      BY <1>1, <1>3 DEF Seen
    <3> QED
      BY <1>1, <1>2, <2>2, <2>4, <3>1 DEF Seen
  <2> QED
    BY <1>2, <2>3, <2>5, <2>6
<1>4. CASE ~request[k].counts
  <2>1. UNCHANGED <<caseList, failed>>
    BY <1>4 DEF Page!Case!CollectionReceived
  <2>2. CasesTypes'
    BY <1>1, <1>2, <2>1 DEF CasesTypes
  <2>3. \A l \in Calls : /\ request'[l].counts <=> request[l].counts
                         /\ request'[l].counts => request'[l] = request[l]
    BY <1>2, <1>4 DEF CasesTypes
  <2>4. LatestCounts'
    BY <1>1, <2>1, <2>3 DEF LatestCounts
  <2>5. Seen'
    BY <1>1, <1>2, <2>1, <2>3 DEF Seen
  <2> QED
    BY <1>2, <2>2, <2>4, <2>5
<1> QED
  BY <1>3, <1>4

\* The list could not be read.
LEMMA CollectionFailsKeeps ==
  ASSUME CasesInv, NEW k \in Calls, Page!Case!CollectionFails(k)
  PROVE  CasesInv'
<1> USE PageConstants DEF CasesInv
<1>1. PICK result \in {"failed", "stale"} :
      /\ request[k].at # "free" /\ request' = [request EXCEPT ![k] = Page!Case!Free]
      /\ Page!Case!Continues(request[k].by, result)
      /\ failed' = (failed \/ request[k].counts)
      /\ UNCHANGED <<version, filter, caseList, behind>>
  BY DEF Page!Case!CollectionFails
<1>2. /\ request' \in [Calls -> [at : {"free", "sent", "served"}, filter : CaseFilters,
                                 counts : BOOLEAN, seen : Nat,
                                 by : Writes \cup {"page", "initial"}]]
      /\ ~request'[k].counts /\ request'[k].at = "free"
      /\ \A l \in Calls : l # k => request'[l] = request[l]
      /\ write' \in [Writes -> [at : {"idle", "sent", "done", "served", "refreshing"}, seen : Nat]]
      /\ initial' \in [dashboard : {"none", "sent", "served", "received", "failed", "over"},
                       seen : Nat, sources : {"none", "sent", "settled"},
                       collection : {"none", "sent", "applied", "stale", "failed"}]
      /\ initial'.seen = initial.seen
      /\ OnItsWay => OnItsWay'
      /\ Refreshing'
  BY <1>1, Continuing
<1>3. CasesTypes'
  BY <1>1, <1>2 DEF CasesTypes
<1>4. \A l \in Calls : request'[l].counts => request'[l] = request[l]
  BY <1>2
<1>5. failed' \/ \A l \in Calls : request[l].counts => request'[l].counts
  BY <1>1, <1>2
<1>6. LatestCounts'
  BY <1>1, <1>4, <1>5 DEF LatestCounts
<1>7. Seen'
  <2>1. /\ initial.seen <= version
        /\ \A l \in Calls : request[l].counts /\ request[l].at = "served"
              => request[l].seen = version \/ behind \/ OnItsWay
        /\ failed \/ behind \/ caseList.version = version \/ OnItsWay
           \/ \E l \in Calls : request[l].counts
    BY DEF Seen
  <2>2. initial'.seen <= version'
    BY <1>1, <1>2, <2>1
  <2>3. ASSUME NEW l \in Calls, request'[l].counts, request'[l].at = "served"
        PROVE  request'[l].seen = version' \/ behind' \/ OnItsWay'
    <3>1. request'[l] = request[l]
      BY <1>4, <2>3
    <3>2. request[l].seen = version \/ behind \/ OnItsWay
      BY <2>1, <2>3, <3>1
    <3> QED
      BY <1>1, <1>2, <3>1, <3>2
  <2>4. failed' \/ behind' \/ caseList'.version = version' \/ OnItsWay'
        \/ \E l \in Calls : request'[l].counts
    <3>1. failed \/ behind \/ caseList.version = version \/ OnItsWay
          => failed' \/ behind' \/ caseList'.version = version' \/ OnItsWay'
      BY <1>1, <1>2
    <3>2. (\E l \in Calls : request[l].counts) => failed' \/ \E l \in Calls : request'[l].counts
      BY <1>5
    <3> QED
      BY <2>1, <3>1, <3>2
  <2> QED
    BY <2>2, <2>3, <2>4 DEF Seen
<1> QED
  BY <1>2, <1>3, <1>6, <1>7

\* A write is sent, done by the server and answered with a dashboard.
LEMMA WritingKeeps ==
  ASSUME CasesInv, NEW w \in Writes,
         Page!Case!BeginWrite(w) \/ Page!Case!ServeWrite(w) \/ Page!Case!ReadDashboard(w)
  PROVE  CasesInv'
<1> USE PageConstants DEF CasesInv
<1>1. UNCHANGED <<filter, caseList, request, initial, failed, behind>>
  BY DEF Page!Case!BeginWrite, Page!Case!ServeWrite, Page!Case!ReadDashboard
<1>2. CASE Page!Case!BeginWrite(w)
  <2>1. /\ write[w].at = "idle" /\ version' = version
        /\ write' = [write EXCEPT ![w] = [at |-> "sent", seen |-> 0]]
    BY <1>2 DEF Page!Case!BeginWrite
  <2>2. write'[w].at = "sent" /\ \A v \in Writes : v # w => write'[v] = write[v]
    BY <2>1 DEF CasesTypes
  <2>3. CasesTypes' /\ LatestCounts'
    BY <1>1, <2>1 DEF CasesTypes, LatestCounts
  <2>4. Refreshing'
    BY <1>1, <2>1, <2>2 DEF Refreshing
  <2>5. OnItsWay => OnItsWay'
    BY <2>1, <2>2 DEF OnItsWay
  <2>6. Seen'
    BY <1>1, <2>1, <2>5 DEF Seen
  <2> QED
    BY <2>3, <2>4, <2>6
<1>3. CASE Page!Case!ServeWrite(w)
  <2>1. /\ write[w].at = "sent" /\ version' = version + 1
        /\ write' = [write EXCEPT ![w].at = "done"]
    BY <1>3 DEF Page!Case!ServeWrite
  <2>2. write'[w].at = "done" /\ \A v \in Writes : v # w => write'[v] = write[v]
    BY <2>1 DEF CasesTypes
  <2>3. CasesTypes' /\ LatestCounts'
    BY <1>1, <2>1 DEF CasesTypes, LatestCounts
  <2>4. Refreshing'
    BY <1>1, <2>1, <2>2 DEF Refreshing
  <2>5. OnItsWay' /\ initial'.seen <= version'
    BY <1>1, <2>1, <2>2 DEF OnItsWay, Seen, CasesTypes
  <2>6. Seen'
    BY <2>5 DEF Seen
  <2> QED
    BY <2>3, <2>4, <2>6
<1>4. CASE Page!Case!ReadDashboard(w)
  <2>1. /\ write[w].at = "done" /\ version' = version
        /\ write' = [write EXCEPT ![w] = [at |-> "served", seen |-> version]]
    BY <1>4 DEF Page!Case!ReadDashboard
  <2>2. write'[w].at = "served" /\ \A v \in Writes : v # w => write'[v] = write[v]
    BY <2>1 DEF CasesTypes
  <2>3. CasesTypes' /\ LatestCounts'
    BY <1>1, <2>1 DEF CasesTypes, LatestCounts
  <2>4. Refreshing'
    BY <1>1, <2>1, <2>2 DEF Refreshing
  <2>5. OnItsWay' /\ initial'.seen <= version'
    BY <1>1, <2>1, <2>2 DEF OnItsWay, Seen, CasesTypes
  <2>6. Seen'
    BY <2>5 DEF Seen
  <2> QED
    BY <2>3, <2>4, <2>6
<1> QED
  BY <1>2, <1>3, <1>4

\* Its reply comes: the list it carries is shown and another one is asked for.
LEMMA WriteReceivedKeeps ==
  ASSUME CasesInv, NEW w \in Writes, NEW k \in Calls, Page!Case!WriteReceived(w, k)
  PROVE  CasesInv'
<1> USE PageConstants DEF CasesInv
<1>1. /\ write[w].at = "served" /\ request[k].at = "free"
      /\ caseList' = Page!Case!Listed(filter, write[w].seen)
      /\ write' = [write EXCEPT ![w].at = "refreshing"]
      /\ request' = Page!Case!Latest(k, filter, w)
      /\ UNCHANGED <<version, filter, initial, failed, behind>>
  BY DEF Page!Case!WriteReceived, Page!Case!Free
<1>2. /\ request' \in [Calls -> [at : {"free", "sent", "served"}, filter : CaseFilters,
                                 counts : BOOLEAN, seen : Nat,
                                 by : Writes \cup {"page", "initial"}]]
      /\ request'[k] = [at |-> "sent", filter |-> filter, counts |-> TRUE, seen |-> 0, by |-> w]
      /\ \A l \in Calls : l # k =>
             /\ ~request'[l].counts /\ request'[l].at = request[l].at
             /\ request'[l].by = request[l].by
  <2>1. filter \in CaseFilters
    BY DEF CasesTypes
  <2> QED
    BY <1>1, <2>1, NewRequest
<1>3. /\ write'[w].at = "refreshing" /\ \A v \in Writes : v # w => write'[v] = write[v]
      /\ write' \in [Writes -> [at : {"idle", "sent", "done", "served", "refreshing"}, seen : Nat]]
  BY <1>1 DEF CasesTypes
<1>4. CasesTypes'
  <2>1. caseList' \in [filter : CaseFilters, version : Nat]
    BY <1>1 DEF CasesTypes, Page!Case!Listed
  <2> QED
    BY <1>1, <1>2, <1>3, <2>1 DEF CasesTypes
<1>5. Refreshing'
  <2>1. \A l \in Calls : l # k /\ request'[l].at # "free" => request'[l].by # w
    BY <1>1, <1>2 DEF Refreshing
  <2>2. ASSUME NEW l \in Calls, request'[l].at # "free", request'[l].by \in Writes
        PROVE  /\ write'[request'[l].by].at = "refreshing"
               /\ \A m \in Calls : request'[m].at # "free" /\ request'[m].by = request'[l].by
                      => m = l
    <3>1. CASE l = k
      BY <1>2, <1>3, <2>1, <3>1
    <3>2. CASE l # k
      BY <1>2, <1>3, <2>1, <2>2, <3>2 DEF Refreshing
    <3> QED
      BY <3>1, <3>2
  <2>3. \A l \in Calls : request'[l].counts => request'[l].at # "free"
    BY <1>2
  <2> QED
    BY <2>2, <2>3 DEF Refreshing
<1>6. LatestCounts'
  <2>1. caseList'.filter = filter
    BY <1>1 DEF Page!Case!Listed
  <2> QED
    BY <1>1, <1>2, <2>1 DEF LatestCounts
<1>7. Seen'
  <2>1. request'[k].counts /\ request'[k].at = "sent"
    BY <1>2
  <2> QED
    BY <1>1, <1>2, <2>1 DEF Seen
<1> QED
  BY <1>4, <1>5, <1>6, <1>7

\* It is refused, or its reply is lost.
LEMMA WriteFailsKeeps ==
  ASSUME CasesInv, NEW w \in Writes, Page!Case!WriteFails(w)
  PROVE  CasesInv'
<1> USE PageConstants DEF CasesInv
<1>1. /\ write[w].at \in {"sent", "done", "served"}
      /\ write' = [write EXCEPT ![w] = Page!Case!NoWrite]
      /\ behind' = (behind \/ write[w].at # "sent")
      /\ UNCHANGED <<version, filter, caseList, request, initial, failed>>
  BY DEF Page!Case!WriteFails
<1>2. \A v \in Writes : v # w => write'[v] = write[v]
  BY <1>1 DEF CasesTypes
<1>3. CasesTypes' /\ LatestCounts'
  BY <1>1 DEF CasesTypes, LatestCounts, Page!Case!NoWrite
<1>4. Refreshing'
  BY <1>1, <1>2 DEF Refreshing
<1>5. (behind => behind') /\ (write[w].at \in {"done", "served"} => behind')
  BY <1>1
<1>6. OnItsWay => OnItsWay' \/ behind'
  BY <1>2, <1>5 DEF OnItsWay
<1>7. Seen'
  BY <1>1, <1>5, <1>6 DEF Seen
<1> QED
  BY <1>3, <1>4, <1>7

\* The three replies of the initial load.
LEMMA LoadingKeeps ==
  ASSUME CasesInv,
         \/ Page!Case!ServeDashboard \/ Page!Case!DashboardReceived
         \/ Page!Case!SourcesSettled \/ Page!Case!AllLoaded
  PROVE  CasesInv'
<1> USE PageConstants DEF CasesInv
<1>1. CASE Page!Case!ServeDashboard \/ Page!Case!DashboardReceived \/ Page!Case!SourcesSettled
  <2>1. UNCHANGED <<version, filter, caseList, request, write, failed, behind>>
    BY <1>1 DEF Page!Case!ServeDashboard, Page!Case!DashboardReceived, Page!Case!SourcesSettled
  <2>2. /\ initial'.seen \in {initial.seen, version}
        /\ initial' \in [dashboard : {"none", "sent", "served", "received", "failed", "over"}, seen : Nat,
                         sources : {"none", "sent", "settled"},
                         collection : {"none", "sent", "applied", "stale", "failed"}]
    <3>1. initial \in [dashboard : {"none", "sent", "served", "received", "failed", "over"}, seen : Nat,
                       sources : {"none", "sent", "settled"},
                       collection : {"none", "sent", "applied", "stale", "failed"}]
          /\ version \in Nat
      BY DEF CasesTypes
    <3>2. \/ initial' = [initial EXCEPT !.dashboard = "served", !.seen = version]
          \/ initial' = [initial EXCEPT !.dashboard = "received"]
          \/ initial' = [initial EXCEPT !.dashboard = "failed"]
          \/ initial' = [initial EXCEPT !.sources = "settled"]
      BY <1>1 DEF Page!Case!ServeDashboard, Page!Case!DashboardReceived, Page!Case!SourcesSettled
    <3>3. CASE initial' = [initial EXCEPT !.dashboard = "served", !.seen = version]
      BY <3>1, <3>3
    <3>6. CASE initial' = [initial EXCEPT !.dashboard = "received"]
      BY <3>1, <3>6
    <3>4. CASE initial' = [initial EXCEPT !.dashboard = "failed"]
      BY <3>1, <3>4
    <3>5. CASE initial' = [initial EXCEPT !.sources = "settled"]
      BY <3>1, <3>5
    <3> QED
      BY <3>2, <3>3, <3>4, <3>5, <3>6
  <2>3. CasesTypes' /\ LatestCounts' /\ Refreshing'
    BY <2>1, <2>2 DEF CasesTypes, LatestCounts, Refreshing
  <2>4. Seen'
    BY <2>1, <2>2 DEF Seen, OnItsWay, CasesTypes
  <2> QED
    BY <2>3, <2>4
<1>2. CASE Page!Case!AllLoaded
  <2>1. /\ UNCHANGED <<version, filter, request, write, failed>>
        /\ initial' = [initial EXCEPT !.dashboard = "over", !.seen = 0]
        /\ \/ UNCHANGED <<caseList, behind>>
           \/ /\ caseList' = Page!Case!Listed(filter, initial.seen)
              /\ behind' = (behind \/ initial.seen < caseList.version)
    BY <1>2 DEF Page!Case!AllLoaded
  <2>2. CasesTypes'
    <3>1. initial' \in [dashboard : {"none", "sent", "served", "received", "failed", "over"}, seen : Nat,
                         sources : {"none", "sent", "settled"},
                         collection : {"none", "sent", "applied", "stale", "failed"}]
      BY <2>1 DEF CasesTypes
    <3>2. caseList' \in [filter : CaseFilters, version : Nat]
      BY <2>1 DEF CasesTypes, Page!Case!Listed
    <3>3. behind' \in BOOLEAN
      BY <2>1 DEF CasesTypes
    <3> QED
      BY <2>1, <3>1, <3>2, <3>3 DEF CasesTypes
  <2>3. Refreshing'
    BY <2>1 DEF Refreshing
  <2>4. LatestCounts'
    BY <2>1 DEF LatestCounts, Page!Case!Listed
  <2>5. Seen'
    <3>1. initial'.seen <= version' /\ OnItsWay' = OnItsWay
      BY <2>1 DEF CasesTypes, OnItsWay
    <3>2. CASE UNCHANGED <<caseList, behind>>
      BY <2>1, <3>1, <3>2 DEF Seen
    <3>3. CASE /\ caseList' = Page!Case!Listed(filter, initial.seen)
               /\ behind' = (behind \/ initial.seen < caseList.version)
      <4>1. caseList'.version = initial.seen /\ initial.seen <= version
        BY <3>3 DEF Seen, Page!Case!Listed
      <4>2. caseList.version \in Nat /\ initial.seen \in Nat /\ version \in Nat
        BY DEF CasesTypes
      <4>3. caseList.version = version => behind' \/ caseList'.version = version
        <5>1. initial.seen < caseList.version => behind'
          BY <3>3
        <5> QED
          BY <4>1, <4>2, <5>1
      <4>4. behind => behind'
        BY <3>3
      <4> QED
        BY <2>1, <3>1, <4>3, <4>4 DEF Seen
    <3> QED
      BY <2>1, <3>2, <3>3
  <2> QED
    BY <2>2, <2>3, <2>4, <2>5
<1> QED
  BY <1>1, <1>2

\* Every step of the page keeps the invariant.
LEMMA CasesStep == CasesInv /\ Page!Case!Next => CasesInv'
<1> SUFFICES ASSUME CasesInv, Page!Case!Next PROVE CasesInv'
  OBVIOUS
<1>1. CASE Page!Case!User
  BY <1>1, AskingKeeps, WritingKeeps DEF Page!Case!User
<1>2. CASE Page!Case!Replies
  BY <1>2, LoadingKeeps, ServeCollectionKeeps, CollectionReceivedKeeps, CollectionFailsKeeps,
     WriteReceivedKeeps, WritingKeeps, WriteFailsKeeps DEF Page!Case!Replies
<1> QED
  BY <1>1, <1>2 DEF Page!Case!Next
-----------------------------------------------------------------------------
(* The pages of evaluation batches.                                        *)

BatchStages == {"none", "pending", "ended"}
BatchOps == {"none", "list", "create", "compare", "poll", "first", "detail"}
BatchRequest == [op : BatchOps, at : {"idle", "sent", "answered"}, for : Shown \cup {None},
                 counts : BOOLEAN, seen : [Shown -> BatchStages]]
ReportTypes ==
    /\ stage \in [Shown -> BatchStages] /\ batchList \in [Shown -> BatchStages]
    /\ detail \in {Page!Batch!NoDetail} \cup [batch : Shown, status : BatchStages]
    /\ {active, polled} \subseteq Shown \cup {None}
    /\ timer \in BOOLEAN /\ broken \in BOOLEAN
    /\ batchCall \in [Calls -> BatchRequest]
\* What is asked for exists, a batch that is being created but for the answer; and
\* what the page or a reply says was so at the server.
ServerKnows ==
    /\ \A k \in Calls :
        /\ batchCall[k].at = "idle" <=> batchCall[k].op = "none"
        /\ batchCall[k].op \in {"create", "poll", "first", "detail"} => batchCall[k].for \in Shown
        /\ batchCall[k].op \in {"poll", "first", "detail"} => stage[batchCall[k].for] # "none"
        /\ batchCall[k].op = "create" =>
            (batchCall[k].at = "sent" <=> stage[batchCall[k].for] = "none")
        /\ \A l \in Calls : batchCall[k].op = "create" /\ batchCall[l].op = "create" => k = l
        /\ \A b \in Shown : batchCall[k].seen[b] = "ended" => stage[b] = "ended"
        /\ batchCall[k].op \in {"poll", "first", "detail"} /\ batchCall[k].at = "answered"
            => batchCall[k].seen[batchCall[k].for] # "none"
    /\ \A b \in Shown : batchList[b] = "ended" => stage[b] = "ended"
    /\ polled # None => stage[polled] # "none"
\* A request that counts is for what the page is about.
CallsFor ==
    /\ \A k \in Calls : batchCall[k].op \in Page!Batch!Polls /\ batchCall[k].counts =>
        /\ polled # None /\ batchCall[k].for = polled
        /\ \A l \in Calls : batchCall[l].op \in Page!Batch!Polls /\ batchCall[l].counts => l = k
    /\ \A k \in Calls : batchCall[k].counts =>
        /\ batchCall[k].op = "detail" => batchCall[k].for = active /\ polled = None
        /\ batchCall[k].op = "compare" => batchCall[k].for = selected
CountedCalls ==
    /\ CallsFor
    /\ polled # None => polled = active /\ (timer \/ Page!Batch!InFlight)
    /\ polled = None => ~timer
    /\ comparison # None => comparison = selected
\* The detail is that of the active batch, and followed while it is pending.
DetailFollowed ==
    /\ detail # Page!Batch!NoDetail => detail.batch = active
    /\ detail.status = "pending" => batchList[detail.batch] = "pending"
    /\ detail.status = "pending" => polled # None \/ broken
ReportInv == ReportTypes /\ ServerKnows /\ CountedCalls /\ DetailFollowed

\* It holds when the pages open.
LEMMA ReportStart == Page!Batch!Init => ReportInv
<1> SUFFICES ASSUME Page!Batch!Init PROVE ReportInv
  OBVIOUS
<1> USE PageConstants DEF Page!Batch!Init, Page!Batch!Idle, Page!Batch!Unknown,
        Page!Batch!NoDetail
<1>1. ReportTypes
  BY DEF ReportTypes, BatchStages, BatchOps, BatchRequest
<1>2. ServerKnows /\ CountedCalls /\ DetailFollowed
  BY DEF ServerKnows, CountedCalls, CallsFor, DetailFollowed
<1> QED
  BY <1>1, <1>2 DEF ReportInv

\* It gives what the pages promise.
LEMMA ReportInvSuffices == ReportInv => Page!Batch!BatchPagesSound
<1> SUFFICES ASSUME ReportInv PROVE Page!Batch!BatchPagesSound
  OBVIOUS
<1> USE DEF ReportInv
<1>1. Page!Batch!ShowsWhatWasAsked
  BY DEF Page!Batch!ShowsWhatWasAsked, DetailFollowed, ServerKnows, CountedCalls, CallsFor
<1>2. Page!Batch!PollsOne
  <2>1. ASSUME polled = None PROVE ~Page!Batch!InFlight
    BY <2>1 DEF CountedCalls, CallsFor, Page!Batch!InFlight
  <2>2. \A k, l \in Calls :
          {batchCall[k].op, batchCall[l].op} \subseteq Page!Batch!Polls
          /\ batchCall[k].counts /\ batchCall[l].counts => k = l
    BY DEF CountedCalls, CallsFor
  <2> QED
    BY <2>1, <2>2 DEF CountedCalls, Page!Batch!PollsOne
<1>3. Page!Batch!NeverStale
  BY DEF Page!Batch!NeverStale, DetailFollowed
<1> QED
  BY <1>1, <1>2, <1>3 DEF Page!Batch!BatchPagesSound

\* Nothing of the pages changes.
reportVars == <<stage, batchList, detail, active, polled, timer, batchCall, selected,
                comparison, asked, batchLeft, broken>>
LEMMA ReportStutters == ReportInv /\ UNCHANGED reportVars => ReportInv'
  BY DEF ReportInv, reportVars, ReportTypes, ServerKnows, CountedCalls, CallsFor, DetailFollowed,
         Page!Batch!InFlight

\* All requests but one are as they were, but that those of some kinds count no more.
OthersStay(k, ops) ==
    /\ batchCall' \in [Calls -> BatchRequest]
    /\ \A l \in Calls : l # k =>
        /\ batchCall'[l].op = batchCall[l].op /\ batchCall'[l].at = batchCall[l].at
        /\ batchCall'[l].for = batchCall[l].for /\ batchCall'[l].seen = batchCall[l].seen
        /\ batchCall'[l].counts <=> batchCall[l].counts /\ batchCall[l].op \notin ops

\* The three ways in which the requests change.
LEMMA RenumberedRequests ==
  ASSUME NEW c \in [Calls -> BatchRequest], NEW ops
  PROVE  /\ Page!Batch!Outdated(c, ops) \in [Calls -> BatchRequest]
         /\ \A l \in Calls :
              LET r == Page!Batch!Outdated(c, ops)[l] IN
              /\ r.op = c[l].op /\ r.at = c[l].at /\ r.for = c[l].for /\ r.seen = c[l].seen
              /\ r.counts <=> c[l].counts /\ c[l].op \notin ops
<1>1. ASSUME NEW l \in Calls
      PROVE  /\ [c[l] EXCEPT !.counts = @ /\ c[l].op \notin ops] \in BatchRequest
             /\ LET r == [c[l] EXCEPT !.counts = @ /\ c[l].op \notin ops] IN
                /\ r.op = c[l].op /\ r.at = c[l].at /\ r.for = c[l].for /\ r.seen = c[l].seen
                /\ r.counts <=> c[l].counts /\ c[l].op \notin ops
  <2>1. c[l] \in BatchRequest
    OBVIOUS
  <2> QED
    BY <2>1 DEF BatchRequest
<1> QED
  BY <1>1 DEF Page!Batch!Outdated
LEMMA EndedRequest ==
  ASSUME NEW c \in [Calls -> BatchRequest], NEW k \in Calls
  PROVE  /\ Page!Batch!Ended(c, k) \in [Calls -> BatchRequest]
         /\ Page!Batch!Ended(c, k)[k] = Page!Batch!Idle
         /\ \A l \in Calls : l # k => Page!Batch!Ended(c, k)[l] = c[l]
<1>1. Page!Batch!Idle \in BatchRequest
  BY DEF Page!Batch!Idle, Page!Batch!Unknown, BatchRequest, BatchOps, BatchStages
<1> QED
  BY <1>1 DEF Page!Batch!Ended
LEMMA SentRequest ==
  ASSUME NEW c \in [Calls -> BatchRequest], NEW k \in Calls, NEW op \in BatchOps,
         NEW b \in Shown \cup {None}
  PROVE  /\ Page!Batch!Sent(c, k, op, b) \in [Calls -> BatchRequest]
         /\ Page!Batch!Sent(c, k, op, b)[k] =
                [op |-> op, at |-> "sent", for |-> b, counts |-> TRUE,
                 seen |-> Page!Batch!Unknown]
         /\ \A l \in Calls : l # k => Page!Batch!Sent(c, k, op, b)[l] = c[l]
<1>1. [op |-> op, at |-> "sent", for |-> b, counts |-> TRUE, seen |-> Page!Batch!Unknown]
      \in BatchRequest
  BY DEF Page!Batch!Unknown, BatchRequest, BatchStages
<1> QED
  BY <1>1 DEF Page!Batch!Sent

\* A request is sent, in its own place or in that of one that was answered.
LEMMA RequestSent ==
  ASSUME ReportInv, NEW k \in Calls, NEW ops, NEW op \in BatchOps, NEW b \in Shown \cup {None},
         \/ batchCall' = Page!Batch!Sent(Page!Batch!Outdated(batchCall, ops), k, op, b)
         \/ batchCall' = Page!Batch!Sent(Page!Batch!Outdated(Page!Batch!Ended(batchCall, k),
                                                              ops), k, op, b)
         \/ ops = {} /\ batchCall' = Page!Batch!Sent(batchCall, k, op, b)
  PROVE  /\ OthersStay(k, ops)
         /\ batchCall'[k] = [op |-> op, at |-> "sent", for |-> b, counts |-> TRUE,
                             seen |-> Page!Batch!Unknown]
<1> DEFINE d == Page!Batch!Outdated(batchCall, ops)
           e == Page!Batch!Ended(batchCall, k)
           f == Page!Batch!Outdated(e, ops)
<1>0. batchCall \in [Calls -> BatchRequest]
  BY DEF ReportInv, ReportTypes
<1>1. CASE batchCall' = Page!Batch!Sent(d, k, op, b)
  <2>1. d \in [Calls -> BatchRequest] /\ \A l \in Calls :
            /\ d[l].op = batchCall[l].op /\ d[l].at = batchCall[l].at
            /\ d[l].for = batchCall[l].for /\ d[l].seen = batchCall[l].seen
            /\ d[l].counts <=> batchCall[l].counts /\ batchCall[l].op \notin ops
    BY <1>0, RenumberedRequests
  <2> HIDE DEF d
  <2> QED
    BY <1>1, <2>1, SentRequest DEF OthersStay
<1>2. CASE batchCall' = Page!Batch!Sent(f, k, op, b)
  <2>1. e \in [Calls -> BatchRequest] /\ \A l \in Calls : l # k => e[l] = batchCall[l]
    BY <1>0, EndedRequest
  <2> HIDE DEF e
  <2>2. f \in [Calls -> BatchRequest] /\ \A l \in Calls :
            /\ f[l].op = e[l].op /\ f[l].at = e[l].at
            /\ f[l].for = e[l].for /\ f[l].seen = e[l].seen
            /\ f[l].counts <=> e[l].counts /\ e[l].op \notin ops
    BY <2>1, RenumberedRequests
  <2> HIDE DEF f
  <2> QED
    BY <1>2, <2>1, <2>2, SentRequest DEF OthersStay
<1>3. CASE ops = {} /\ batchCall' = Page!Batch!Sent(batchCall, k, op, b)
  BY <1>0, <1>3, SentRequest DEF OthersStay
<1> QED
  BY <1>1, <1>2, <1>3

\* A request is over.
LEMMA RequestOver ==
  ASSUME ReportInv, NEW k \in Calls, NEW ops,
         \/ batchCall' = Page!Batch!Outdated(Page!Batch!Ended(batchCall, k), ops)
         \/ ops = {} /\ batchCall' = Page!Batch!Ended(batchCall, k)
  PROVE  /\ OthersStay(k, ops)
         /\ batchCall'[k].op = "none" /\ batchCall'[k].at = "idle" /\ ~batchCall'[k].counts
         /\ batchCall'[k].seen = Page!Batch!Unknown
<1> DEFINE e == Page!Batch!Ended(batchCall, k)
<1>0. batchCall \in [Calls -> BatchRequest]
  BY DEF ReportInv, ReportTypes
<1>1. /\ e \in [Calls -> BatchRequest] /\ e[k] = Page!Batch!Idle
      /\ \A l \in Calls : l # k => e[l] = batchCall[l]
  BY <1>0, EndedRequest
<1> HIDE DEF e
<1>2. CASE batchCall' = Page!Batch!Outdated(e, ops)
  <2>1. batchCall' \in [Calls -> BatchRequest] /\ \A l \in Calls :
            /\ batchCall'[l].op = e[l].op /\ batchCall'[l].at = e[l].at
            /\ batchCall'[l].for = e[l].for /\ batchCall'[l].seen = e[l].seen
            /\ batchCall'[l].counts <=> e[l].counts /\ e[l].op \notin ops
    BY <1>1, <1>2, RenumberedRequests
  <2> QED
    BY <1>1, <2>1 DEF OthersStay, Page!Batch!Idle
<1>3. CASE ops = {} /\ batchCall' = e
  BY <1>1, <1>3 DEF OthersStay, Page!Batch!Idle
<1> QED
  BY <1>2, <1>3 DEF e

\* What is asked for exists after one request was sent or is over.
LEMMA ServerStillKnows ==
  ASSUME ReportInv, NEW k \in Calls, NEW ops, OthersStay(k, ops), UNCHANGED stage,
         batchCall'[k].at = "idle" <=> batchCall'[k].op = "none",
         batchCall'[k].at # "answered", batchCall'[k].seen = Page!Batch!Unknown,
         batchCall'[k].op \in {"create", "poll", "first", "detail"}
            => batchCall'[k].for \in Shown,
         batchCall'[k].op \in {"poll", "first", "detail"}
            => stage[batchCall'[k].for] # "none",
         batchCall'[k].op = "create"
            => /\ batchCall'[k].at = "sent" <=> stage[batchCall'[k].for] = "none"
               /\ \A l \in Calls : l # k => batchCall[l].op # "create",
         \A b \in Shown : batchList'[b] = "ended" => stage[b] = "ended",
         polled' # None => stage[polled'] # "none"
  PROVE  ServerKnows'
<1>1. \A b \in Shown : batchCall'[k].seen[b] # "ended"
  BY DEF Page!Batch!Unknown
<1>2. ASSUME NEW l \in Calls, l # k
      PROVE  /\ batchCall'[l].op = batchCall[l].op /\ batchCall'[l].at = batchCall[l].at
             /\ batchCall'[l].for = batchCall[l].for /\ batchCall'[l].seen = batchCall[l].seen
  BY <1>2 DEF OthersStay
<1>3. \A l \in Calls :
        /\ batchCall'[l].at = "idle" <=> batchCall'[l].op = "none"
        /\ batchCall'[l].op \in {"create", "poll", "first", "detail"}
           => batchCall'[l].for \in Shown
        /\ batchCall'[l].op \in {"poll", "first", "detail"} => stage[batchCall'[l].for] # "none"
        /\ batchCall'[l].op = "create" =>
            (batchCall'[l].at = "sent" <=> stage[batchCall'[l].for] = "none")
  BY <1>2 DEF ReportInv, ServerKnows
<1>4. \A l \in Calls :
        /\ \A b \in Shown : batchCall'[l].seen[b] = "ended" => stage[b] = "ended"
        /\ batchCall'[l].op \in {"poll", "first", "detail"} /\ batchCall'[l].at = "answered"
            => batchCall'[l].seen[batchCall'[l].for] # "none"
  BY <1>1, <1>2 DEF ReportInv, ServerKnows
<1>5. \A l, m \in Calls : batchCall'[l].op = "create" /\ batchCall'[m].op = "create" => l = m
  BY <1>2 DEF ReportInv, ServerKnows
<1> QED
  BY <1>3, <1>4, <1>5 DEF ServerKnows

\* The server answers a request.
LEMMA AnswerKeeps ==
  ASSUME ReportInv, NEW k \in Calls, Page!Batch!Answer(k)
  PROVE  ReportInv' /\ UNCHANGED batchList
<1> USE PageConstants DEF ReportInv
<1> DEFINE seen == Page!Batch!Reported(batchCall[k], stage')
<1>1. /\ batchCall[k].at = "sent"
      /\ stage' = IF batchCall[k].op = "create"
                  THEN [stage EXCEPT ![batchCall[k].for] = "pending"] ELSE stage
      /\ batchCall' = [batchCall EXCEPT ![k].at = "answered", ![k].seen = seen]
      /\ UNCHANGED <<batchList, detail, active, polled, timer, selected, comparison, broken>>
  BY DEF Page!Batch!Answer
<1>2. /\ stage' \in [Shown -> BatchStages]
      /\ \A b \in Shown : stage'[b] = IF batchCall[k].op = "create" /\ b = batchCall[k].for
                                      THEN "pending" ELSE stage[b]
      /\ batchCall[k].op = "create" => batchCall[k].for \in Shown
                                       /\ stage[batchCall[k].for] = "none"
  BY <1>1 DEF ReportTypes, BatchStages, ServerKnows
<1>3. /\ seen \in [Shown -> BatchStages]
      /\ \A b \in Shown : seen[b] = "ended" => stage'[b] = "ended"
      /\ batchCall[k].op \in {"poll", "first", "detail"}
         => seen[batchCall[k].for] = stage'[batchCall[k].for]
  BY <1>2 DEF Page!Batch!Reported, BatchStages, ServerKnows
<1> HIDE DEF seen
<1>4. /\ batchCall' \in [Calls -> BatchRequest]
      /\ batchCall'[k].at = "answered" /\ batchCall'[k].seen = seen
      /\ batchCall'[k].op = batchCall[k].op /\ batchCall'[k].for = batchCall[k].for
      /\ batchCall'[k].counts = batchCall[k].counts
      /\ \A l \in Calls : l # k => batchCall'[l] = batchCall[l]
  <2> DEFINE r == [batchCall[k] EXCEPT !.at = "answered", !.seen = seen]
  <2>1. batchCall \in [Calls -> BatchRequest] /\ batchCall[k] \in BatchRequest
    BY DEF ReportTypes
  <2>2. /\ r \in BatchRequest /\ r.at = "answered" /\ r.seen = seen
        /\ r.op = batchCall[k].op /\ r.for = batchCall[k].for
        /\ r.counts = batchCall[k].counts
    BY <1>3, <2>1 DEF BatchRequest
  <2>3. batchCall' = [batchCall EXCEPT ![k] = r]
    BY <1>1, <2>1
  <2> HIDE DEF r
  <2> QED
    BY <2>1, <2>2, <2>3
<1>5. ReportTypes'
  BY <1>1, <1>2, <1>4 DEF ReportTypes
<1>6. ServerKnows'
  <2>1. \A b \in Shown : (stage[b] # "none" => stage'[b] # "none")
                         /\ (stage[b] = "ended" => stage'[b] = "ended")
    BY <1>2
  <2>2. \A l \in Calls : /\ batchCall'[l].op = batchCall[l].op
                         /\ batchCall'[l].for = batchCall[l].for
                         /\ l # k => batchCall'[l] = batchCall[l]
    BY <1>4
  <2>3. \A l \in Calls :
        /\ batchCall'[l].at = "idle" <=> batchCall'[l].op = "none"
        /\ batchCall'[l].op \in {"create", "poll", "first", "detail"}
           => batchCall'[l].for \in Shown
        /\ batchCall'[l].op \in {"poll", "first", "detail"}
           => stage'[batchCall'[l].for] # "none"
    BY <1>1, <1>4, <2>1, <2>2 DEF ServerKnows
  <2>4. \A l \in Calls : batchCall'[l].op = "create" =>
            (batchCall'[l].at = "sent" <=> stage'[batchCall'[l].for] = "none")
    BY <1>2, <1>4, <2>2 DEF ServerKnows
  <2>5. \A l, m \in Calls : batchCall'[l].op = "create" /\ batchCall'[m].op = "create" => l = m
    BY <2>2 DEF ServerKnows
  <2>6. \A l \in Calls :
        /\ \A b \in Shown : batchCall'[l].seen[b] = "ended" => stage'[b] = "ended"
        /\ batchCall'[l].op \in {"poll", "first", "detail"} /\ batchCall'[l].at = "answered"
            => batchCall'[l].seen[batchCall'[l].for] # "none"
    BY <1>3, <1>4, <2>1, <2>2, <2>3 DEF ServerKnows
  <2>7. polled' # None => stage'[polled'] # "none"
    BY <1>1, <2>1 DEF ServerKnows, ReportTypes
  <2>8. \A b \in Shown : batchList'[b] = "ended" => stage'[b] = "ended"
    BY <1>1, <2>1 DEF ServerKnows
  <2> QED
    BY <2>3, <2>4, <2>5, <2>6, <2>7, <2>8 DEF ServerKnows
<1>7. \A l \in Calls : /\ batchCall'[l].op = batchCall[l].op
                       /\ batchCall'[l].for = batchCall[l].for
                       /\ batchCall'[l].counts = batchCall[l].counts
  BY <1>4
<1>8. Page!Batch!InFlight' = Page!Batch!InFlight
  BY <1>7 DEF Page!Batch!InFlight
<1>9. CountedCalls'
  <2>1. CallsFor'
    <3>1. CallsFor
      BY DEF CountedCalls
    <3>2. \A l \in Calls :
            batchCall'[l].op \in Page!Batch!Polls /\ batchCall'[l].counts <=>
            batchCall[l].op \in Page!Batch!Polls /\ batchCall[l].counts
      BY <1>7
    <3>3. \A l \in Calls : batchCall'[l].op \in Page!Batch!Polls /\ batchCall'[l].counts =>
            /\ polled' # None /\ batchCall'[l].for = polled'
            /\ \A m \in Calls : batchCall'[m].op \in Page!Batch!Polls /\ batchCall'[m].counts
                  => m = l
      <4> DEFINE Poll(l) == batchCall[l].op \in Page!Batch!Polls /\ batchCall[l].counts
      <4>1. ASSUME NEW l \in Calls, Poll(l)
            PROVE  /\ polled # None /\ batchCall[l].for = polled
                   /\ \A m \in Calls : Poll(m) => m = l
        BY <3>1, <4>1 DEF CallsFor
      <4>2. ASSUME NEW l \in Calls,
                   batchCall'[l].op \in Page!Batch!Polls /\ batchCall'[l].counts
            PROVE  /\ polled' # None /\ batchCall'[l].for = polled'
                   /\ \A m \in Calls :
                         batchCall'[m].op \in Page!Batch!Polls /\ batchCall'[m].counts => m = l
        BY <1>1, <1>7, <3>2, <4>1, <4>2
      <4> QED
        BY <4>2
    <3>4. \A l \in Calls : batchCall'[l].counts <=> batchCall[l].counts
      BY <1>7
    <3>5. \A l \in Calls : batchCall'[l].counts =>
            /\ batchCall'[l].op = "detail" => batchCall'[l].for = active' /\ polled' = None
            /\ batchCall'[l].op = "compare" => batchCall'[l].for = selected'
      <4>1. ASSUME NEW l \in Calls, batchCall[l].counts
            PROVE  /\ batchCall[l].op = "detail" => batchCall[l].for = active /\ polled = None
                   /\ batchCall[l].op = "compare" => batchCall[l].for = selected
        BY <3>1, <4>1 DEF CallsFor
      <4>2. ASSUME NEW l \in Calls, batchCall'[l].counts
            PROVE  /\ batchCall'[l].op = "detail" => batchCall'[l].for = active' /\ polled' = None
                   /\ batchCall'[l].op = "compare" => batchCall'[l].for = selected'
        BY <1>1, <1>7, <3>4, <4>1, <4>2
      <4> QED
        BY <4>2
    <3> QED
      BY <3>3, <3>5 DEF CallsFor, Page!Batch!Polls
  <2> QED
    BY <1>1, <1>8, <2>1 DEF CountedCalls
<1>10. DetailFollowed'
  BY <1>1 DEF DetailFollowed
<1> QED
  BY <1>9, <1>10, <1>1, <1>5, <1>6

\* A batch ends at the server.
LEMMA EndBatchKeeps ==
  ASSUME ReportInv, NEW b \in Shown, Page!Batch!EndBatch(b)
  PROVE  ReportInv' /\ UNCHANGED batchList
<1> USE PageConstants DEF ReportInv
<1>1. /\ stage[b] = "pending" /\ stage' = [stage EXCEPT ![b] = "ended"]
      /\ UNCHANGED <<batchList, detail, active, polled, timer, batchCall, selected, comparison,
                     broken>>
  BY DEF Page!Batch!EndBatch
<1>2. stage' \in [Shown -> BatchStages]
  BY <1>1 DEF ReportTypes, BatchStages
<1>3. \A c \in Shown : (stage[c] = "none" <=> stage'[c] = "none")
                       /\ (stage[c] = "ended" => stage'[c] = "ended")
  BY <1>1 DEF ReportTypes
<1>4. ReportTypes'
  BY <1>1, <1>2 DEF ReportTypes
<1>5. ServerKnows'
  BY <1>1, <1>3 DEF ServerKnows, ReportTypes
<1>6. CountedCalls' /\ DetailFollowed'
  BY <1>1 DEF CountedCalls, CallsFor, DetailFollowed, Page!Batch!InFlight
<1> QED
  BY <1>1, <1>4, <1>5, <1>6

\* What a page knows of one batch after it heard of it again.
LEMMA Preferred ==
  ASSUME NEW old \in BatchStages, NEW new \in BatchStages
  PROVE  /\ Page!Batch!preferBatch(old, new) \in {old, new}
         /\ old = "ended" /\ new # "none" => Page!Batch!preferBatch(old, new) = "ended"
         /\ old = "pending" /\ new # "none"
            => Page!Batch!preferBatch(old, new) \in {"pending", "ended"}
  BY DEF Page!Batch!preferBatch, BatchStages

\* The list after a reply of some requests, and the detail that goes with it.
Learns(known) ==
    /\ known \in [Shown -> BatchStages]
    /\ \A b \in Shown :
        /\ known[b] = "ended" => stage[b] = "ended"
        /\ batchList[b] = "ended" => known[b] = "ended"
        /\ batchList[b] = "pending" => known[b] \in {"pending", "ended"}
LEMMA UpsertLearns ==
  ASSUME ReportInv, NEW b \in Shown, NEW new \in BatchStages, new # "none",
         new = "ended" => stage[b] = "ended"
  PROVE  Learns(Page!Batch!upsertBatch(b, new))
<1> DEFINE p == Page!Batch!preferBatch(batchList[b], new)
           known == Page!Batch!upsertBatch(b, new)
<1>1. batchList \in [Shown -> BatchStages]
  BY DEF ReportInv, ReportTypes
<1>2. /\ p \in {batchList[b], new} /\ p \in BatchStages
      /\ batchList[b] = "ended" => p = "ended"
      /\ batchList[b] = "pending" => p \in {"pending", "ended"}
  BY <1>1, Preferred
<1>3. known = [batchList EXCEPT ![b] = p]
  BY DEF Page!Batch!upsertBatch
<1> HIDE DEF p, known
<1>4. known \in [Shown -> BatchStages] /\ known[b] = p
      /\ \A c \in Shown : c # b => known[c] = batchList[c]
  BY <1>1, <1>2, <1>3
<1>5. \A c \in Shown : batchList[c] = "ended" => stage[c] = "ended"
  BY DEF ReportInv, ServerKnows
<1>6. Learns(known)
  BY <1>2, <1>4, <1>5 DEF Learns
<1> QED
  BY <1>6 DEF known
LEMMA NormalizedDetail ==
  ASSUME ReportInv, NEW known, Learns(known)
  PROVE  LET d == Page!Batch!Normalized(known) IN
         /\ d \in {detail, Page!Batch!NoDetail}
         /\ d.status = "pending" => known[d.batch] = "pending" /\ d = detail
<1> USE DEF Page!Batch!Normalized, Page!Batch!NoDetail
<1>1. CASE detail = Page!Batch!NoDetail
  BY <1>1
<1>2. CASE detail \in [batch : Shown, status : BatchStages]
  <2>1. detail # Page!Batch!NoDetail
    BY <1>2, PageConstants
  <2>2. detail.batch \in Shown /\ detail.batch = active
    BY <1>2, <2>1 DEF ReportInv, DetailFollowed
  <2>3. detail.status = "pending" => batchList[detail.batch] = "pending"
    BY DEF ReportInv, DetailFollowed
  <2>4. detail.status = "pending" => known[detail.batch] \in {"pending", "ended"}
    BY <2>2, <2>3 DEF Learns
  <2> QED
    BY <2>2, <2>4
<1> QED
  BY <1>1, <1>2 DEF ReportInv, ReportTypes

\* What counts is for what the page is about after requests were numbered anew.
IsPoll(l) == batchCall[l].op \in Page!Batch!Polls /\ batchCall[l].counts
LEMMA StillFor ==
  ASSUME ReportInv, NEW k, NEW ops, OthersStay(k, ops),
         k \in Calls /\ batchCall'[k].op \in Page!Batch!Polls /\ batchCall'[k].counts
            => /\ polled' # None /\ batchCall'[k].for = polled'
               /\ \A l \in Calls : l # k /\ IsPoll(l) => batchCall[l].op \in ops,
         k \in Calls /\ batchCall'[k].counts
            => /\ batchCall'[k].op = "detail" => batchCall'[k].for = active' /\ polled' = None
               /\ batchCall'[k].op = "compare" => batchCall'[k].for = selected',
         polled' = polled \/ \A l \in Calls : l # k /\ IsPoll(l) => batchCall[l].op \in ops,
         (active' = active /\ polled' \in {polled, None}) \/ "detail" \in ops,
         selected' = selected \/ "compare" \in ops
  PROVE  CallsFor'
<1>1. CallsFor
  BY DEF ReportInv, CountedCalls
<1>2. ASSUME NEW l \in Calls, IsPoll(l)
      PROVE  /\ polled # None /\ batchCall[l].for = polled
             /\ \A m \in Calls : IsPoll(m) => m = l
  BY <1>1, <1>2 DEF CallsFor, IsPoll
<1>3. ASSUME NEW l \in Calls, l # k, batchCall'[l].counts
      PROVE  /\ batchCall'[l].op = batchCall[l].op /\ batchCall'[l].for = batchCall[l].for
             /\ batchCall[l].counts /\ batchCall[l].op \notin ops
  BY <1>3 DEF OthersStay
<1>4. ASSUME NEW l \in Calls, batchCall'[l].op \in Page!Batch!Polls, batchCall'[l].counts
      PROVE  /\ polled' # None /\ batchCall'[l].for = polled'
             /\ \A m \in Calls :
                  batchCall'[m].op \in Page!Batch!Polls /\ batchCall'[m].counts => m = l
  <2>1. ASSUME NEW m \in Calls, m # k,
               batchCall'[m].op \in Page!Batch!Polls, batchCall'[m].counts
        PROVE  IsPoll(m) /\ batchCall[m].op \notin ops /\ batchCall'[m].for = batchCall[m].for
    BY <1>3, <2>1 DEF IsPoll
  <2>2. CASE l = k
    BY <1>4, <2>1, <2>2
  <2>3. CASE l # k
    <3>1. IsPoll(l) /\ batchCall[l].op \notin ops /\ batchCall'[l].for = batchCall[l].for
      BY <1>4, <2>1, <2>3
    <3>2. polled' = polled
      BY <2>3, <3>1
    <3>3. polled # None /\ batchCall[l].for = polled
      BY <1>2, <3>1
    <3>4. ASSUME NEW m \in Calls,
                 batchCall'[m].op \in Page!Batch!Polls, batchCall'[m].counts
          PROVE  m = l
      BY <1>2, <2>1, <2>3, <3>1, <3>4
    <3> QED
      BY <3>1, <3>2, <3>3, <3>4
  <2> QED
    BY <2>2, <2>3
<1>5. ASSUME NEW l \in Calls, batchCall'[l].counts
      PROVE  /\ batchCall'[l].op = "detail" => batchCall'[l].for = active' /\ polled' = None
             /\ batchCall'[l].op = "compare" => batchCall'[l].for = selected'
  <2>1. CASE l = k
    BY <1>5, <2>1
  <2>2. CASE l # k
    <3>1. /\ batchCall'[l].op = batchCall[l].op /\ batchCall'[l].for = batchCall[l].for
          /\ batchCall[l].counts /\ batchCall[l].op \notin ops
      BY <1>3, <1>5, <2>2
    <3>2. batchCall[l].op = "detail" => batchCall[l].for = active /\ polled = None
      BY <1>1, <3>1 DEF CallsFor
    <3>3. batchCall[l].op = "compare" => batchCall[l].for = selected
      BY <1>1, <3>1 DEF CallsFor
    <3>4. CASE batchCall[l].op = "detail"
      BY <3>1, <3>2, <3>4
    <3>5. CASE batchCall[l].op # "detail"
      BY <3>1, <3>3, <3>5
    <3> QED
      BY <3>4, <3>5
  <2> QED
    BY <2>1, <2>2
<1> QED
  BY <1>4, <1>5 DEF CallsFor, Page!Batch!Polls

\* A poll that is under way stays so while others come and go.
LEMMA StillInFlight ==
  ASSUME NEW k \in Calls, NEW ops, OthersStay(k, ops), ops \cap Page!Batch!Polls = {},
         ~IsPoll(k), Page!Batch!InFlight
  PROVE  Page!Batch!InFlight'
<1>1. PICK l \in Calls : IsPoll(l)
  BY DEF Page!Batch!InFlight, IsPoll
<1>2. l # k /\ batchCall'[l].op \in Page!Batch!Polls /\ batchCall'[l].counts
  BY <1>1 DEF OthersStay, IsPoll
<1> QED
  BY <1>2 DEF Page!Batch!InFlight, Page!Batch!Polls

\* A request of a kind is sent that asks nothing of a batch that is shown.
Asks(k, op, ops, b) ==
    /\ batchCall[k].at = "idle"
    /\ OthersStay(k, ops)
    /\ batchCall'[k] = [op |-> op, at |-> "sent", for |-> b, counts |-> TRUE,
                        seen |-> Page!Batch!Unknown]
    /\ op = "create" => /\ b \in Shown /\ stage[b] = "none"
                        /\ \A l \in Calls : batchCall[l].op # "create"
    /\ IF op = "compare" THEN ops = {"compare"} /\ selected' = b /\ comparison' = None
       ELSE UNCHANGED <<selected, comparison>>
    /\ UNCHANGED <<stage, batchList, detail, active, polled, timer, broken>>

\* The list of batches is asked for, and a batch to be created.
LEMMA AskedKeeps ==
  ASSUME ReportInv, NEW k \in Calls,
         \/ Page!Batch!LoadBatches(k)
         \/ \E b \in Shown : Page!Batch!CreateBatch(k, b) \/ Page!Batch!Compare(k, b)
  PROVE  ReportInv' /\ UNCHANGED batchList
<1> USE PageConstants DEF ReportInv
<1>1. PICK op \in {"list", "create", "compare"}, ops \in {{}, {"list"}, {"compare"}},
           b \in Shown \cup {None} :
      Asks(k, op, ops, b)
  <2>1. ASSUME Page!Batch!LoadBatches(k) PROVE Asks(k, "list", {"list"}, None)
    <3>1. batchCall' = Page!Batch!Sent(Page!Batch!Outdated(batchCall, {"list"}), k, "list", None)
      BY <2>1 DEF Page!Batch!LoadBatches
    <3>2. /\ OthersStay(k, {"list"})
          /\ batchCall'[k] = [op |-> "list", at |-> "sent", for |-> None, counts |-> TRUE,
                              seen |-> Page!Batch!Unknown]
      BY <3>1, RequestSent DEF BatchOps
    <3> QED
      BY <2>1, <3>2 DEF Page!Batch!LoadBatches, Page!Batch!Free, Asks
  <2>2. ASSUME NEW b \in Shown, Page!Batch!CreateBatch(k, b)
        PROVE  Asks(k, "create", {}, b)
    <3>1. batchCall' = Page!Batch!Sent(batchCall, k, "create", b)
      BY <2>2 DEF Page!Batch!CreateBatch
    <3>2. /\ OthersStay(k, {})
          /\ batchCall'[k] = [op |-> "create", at |-> "sent", for |-> b, counts |-> TRUE,
                              seen |-> Page!Batch!Unknown]
      BY <3>1, RequestSent DEF BatchOps
    <3> QED
      BY <2>2, <3>2 DEF Page!Batch!CreateBatch, Page!Batch!Free, Asks
  <2>3. ASSUME NEW b \in Shown, Page!Batch!Compare(k, b)
        PROVE  Asks(k, "compare", {"compare"}, b)
    <3>1. batchCall' =
            Page!Batch!Sent(Page!Batch!Outdated(batchCall, {"compare"}), k, "compare", b)
      BY <2>3 DEF Page!Batch!Compare
    <3>2. /\ OthersStay(k, {"compare"})
          /\ batchCall'[k] = [op |-> "compare", at |-> "sent", for |-> b, counts |-> TRUE,
                              seen |-> Page!Batch!Unknown]
      BY <3>1, RequestSent DEF BatchOps
    <3> QED
      BY <2>3, <3>2 DEF Page!Batch!Compare, Page!Batch!Free, Asks
  <2> QED
    BY <2>1, <2>2, <2>3
<1> USE DEF Asks
<1>2. ReportTypes'
  BY <1>1 DEF ReportTypes, OthersStay
<1>3. ServerKnows'
  <2>1. batchCall'[k].op = op /\ batchCall'[k].at = "sent" /\ batchCall'[k].for = b
        /\ batchCall'[k].seen = Page!Batch!Unknown
    BY <1>1
  <2>2. /\ \A c \in Shown : batchList'[c] = "ended" => stage[c] = "ended"
        /\ polled' # None => stage[polled'] # "none"
    BY <1>1 DEF ServerKnows
  <2> QED
    BY <1>1, <2>1, <2>2, ServerStillKnows
<1>4. CallsFor'
  <2>1. batchCall'[k].op = op /\ batchCall'[k].for = b /\ op \notin Page!Batch!Polls
    BY <1>1 DEF Page!Batch!Polls
  <2> QED
    BY <1>1, <2>1, StillFor
<1>5. CountedCalls'
  <2>1. ~IsPoll(k)
    BY <1>1 DEF IsPoll, ServerKnows, Page!Batch!Polls
  <2>2. Page!Batch!InFlight => Page!Batch!InFlight'
    BY <1>1, <2>1, StillInFlight DEF Page!Batch!Polls
  <2> QED
    BY <1>1, <1>4, <2>2 DEF CountedCalls
<1>6. DetailFollowed'
  BY <1>1 DEF DetailFollowed
<1> QED
  BY <1>1, <1>2, <1>3, <1>5, <1>6

\* What a page that learnt shows is no worse than before.
LEMMA LearnsEnds == Learns(batchList') => Page!Batch!EndedStays
  BY DEF Learns, Page!Batch!EndedStays

\* A list is read.
LEMMA MergeListKeeps ==
  ASSUME ReportInv, NEW k \in Calls, Page!Batch!MergeList(k)
  PROVE  ReportInv' /\ Page!Batch!EndedStays
<1> USE PageConstants DEF ReportInv
<1> DEFINE known == [b \in Shown |-> IF batchCall[k].seen[b] = "none" THEN batchList[b]
                         ELSE Page!Batch!preferBatch(batchList[b], batchCall[k].seen[b])]
<1>1. /\ batchCall[k].op = "list"
      /\ IF batchCall[k].counts THEN batchList' = known /\ detail' = Page!Batch!Normalized(known)
         ELSE UNCHANGED <<batchList, detail>>
      /\ batchCall' = Page!Batch!Ended(batchCall, k)
      /\ UNCHANGED <<stage, active, polled, timer, selected, comparison, broken>>
  BY DEF Page!Batch!MergeList
<1>2. Learns(known)
  <2>1. batchList \in [Shown -> BatchStages] /\ batchCall[k].seen \in [Shown -> BatchStages]
    BY DEF ReportTypes, BatchRequest
  <2>2. ASSUME NEW b \in Shown
        PROVE  /\ known[b] \in BatchStages
               /\ known[b] = "ended" => stage[b] = "ended"
               /\ batchList[b] = "ended" => known[b] = "ended"
               /\ batchList[b] = "pending" => known[b] \in {"pending", "ended"}
    <3>1. /\ batchList[b] \in BatchStages /\ batchCall[k].seen[b] \in BatchStages
          /\ batchList[b] = "ended" => stage[b] = "ended"
          /\ batchCall[k].seen[b] = "ended" => stage[b] = "ended"
      BY <2>1 DEF ServerKnows
    <3>2. CASE batchCall[k].seen[b] = "none"
      BY <3>1, <3>2
    <3>3. CASE batchCall[k].seen[b] # "none"
      <4>1. known[b] = Page!Batch!preferBatch(batchList[b], batchCall[k].seen[b])
        BY <3>3
      <4> HIDE DEF known
      <4> QED
        BY <3>1, <3>3, <4>1, Preferred
    <3> QED
      BY <3>2, <3>3
  <2>3. known \in [Shown -> BatchStages]
    BY <2>2
  <2> HIDE DEF known
  <2> QED
    BY <2>2, <2>3 DEF Learns
<1>3. Learns(batchList)
  BY DEF Learns, ReportTypes, ServerKnows
<1> HIDE DEF known
<1>4. /\ Learns(batchList')
      /\ detail' \in {detail, Page!Batch!NoDetail}
      /\ detail'.status = "pending" => batchList'[detail'.batch] = "pending" /\ detail' = detail
  <2>1. CASE batchCall[k].counts
    BY <1>1, <1>2, <2>1, NormalizedDetail
  <2>2. CASE ~batchCall[k].counts
    BY <1>1, <1>3, <2>2 DEF DetailFollowed
  <2> QED
    BY <2>1, <2>2
<1>5. /\ OthersStay(k, {})
      /\ batchCall'[k].op = "none" /\ batchCall'[k].at = "idle" /\ ~batchCall'[k].counts
      /\ batchCall'[k].seen = Page!Batch!Unknown
  BY <1>1, RequestOver
<1>6. ReportTypes'
  BY <1>1, <1>4, <1>5 DEF ReportTypes, OthersStay, Learns
<1>7. ServerKnows'
  <2>1. /\ \A b \in Shown : batchList'[b] = "ended" => stage[b] = "ended"
        /\ polled' # None => stage[polled'] # "none"
    BY <1>1, <1>4 DEF Learns, ServerKnows
  <2> QED
    BY <1>1, <1>5, <2>1, ServerStillKnows
<1>8. CountedCalls'
  <2>1. CallsFor'
    BY <1>1, <1>5, StillFor
  <2>2. ~IsPoll(k)
    BY <1>1 DEF IsPoll, Page!Batch!Polls
  <2>3. Page!Batch!InFlight => Page!Batch!InFlight'
    BY <1>5, <2>2, StillInFlight
  <2> QED
    BY <1>1, <2>1, <2>3 DEF CountedCalls
<1>9. DetailFollowed'
  BY <1>1, <1>4 DEF DetailFollowed
<1> QED
  BY <1>4, <1>6, <1>7, <1>8, <1>9, LearnsEnds

\* Two batches are compared.
LEMMA ComparedKeeps ==
  ASSUME ReportInv, NEW k \in Calls, Page!Batch!Compared(k)
  PROVE  ReportInv' /\ UNCHANGED batchList
<1> USE PageConstants DEF ReportInv
<1>1. /\ batchCall[k].op = "compare"
      /\ comparison' = IF batchCall[k].counts THEN batchCall[k].for ELSE comparison
      /\ batchCall' = Page!Batch!Ended(batchCall, k)
      /\ UNCHANGED <<stage, batchList, detail, active, polled, timer, selected, broken>>
  BY DEF Page!Batch!Compared
<1>2. /\ OthersStay(k, {})
      /\ batchCall'[k].op = "none" /\ batchCall'[k].at = "idle" /\ ~batchCall'[k].counts
      /\ batchCall'[k].seen = Page!Batch!Unknown
  BY <1>1, RequestOver
<1>3. ReportTypes'
  BY <1>1, <1>2 DEF ReportTypes, OthersStay
<1>4. ServerKnows'
  <2>1. /\ \A b \in Shown : batchList'[b] = "ended" => stage[b] = "ended"
        /\ polled' # None => stage[polled'] # "none"
    BY <1>1 DEF ServerKnows
  <2> QED
    BY <1>1, <1>2, <2>1, ServerStillKnows
<1>5. CountedCalls'
  <2>1. CallsFor'
    BY <1>1, <1>2, StillFor
  <2>2. ~IsPoll(k)
    BY <1>1 DEF IsPoll, Page!Batch!Polls
  <2>3. Page!Batch!InFlight => Page!Batch!InFlight'
    BY <1>2, <2>2, StillInFlight
  <2>4. comparison' # None => comparison' = selected'
    BY <1>1 DEF CountedCalls, CallsFor
  <2> QED
    BY <1>1, <2>1, <2>3, <2>4 DEF CountedCalls
<1>6. DetailFollowed'
  BY <1>1 DEF DetailFollowed
<1> QED
  BY <1>1, <1>3, <1>4, <1>5, <1>6

\* A created batch becomes the active one, and is polled at once.
LEMMA BatchCreatedKeeps ==
  ASSUME ReportInv, NEW k \in Calls, Page!Batch!BatchCreated(k)
  PROVE  ReportInv' /\ Page!Batch!EndedStays
<1> USE PageConstants DEF ReportInv
<1>1. PICK b \in Shown :
      /\ b = batchCall[k].for /\ batchCall[k].at = "answered" /\ batchCall[k].op = "create"
      /\ batchList' = Page!Batch!upsertBatch(b, "pending")
      /\ active' = b
      /\ detail' = IF detail.batch = b THEN detail ELSE Page!Batch!NoDetail
      /\ polled' = b /\ timer' = FALSE /\ broken' = FALSE
      /\ batchCall' = Page!Batch!Sent(Page!Batch!Outdated(Page!Batch!Ended(batchCall, k),
                                        Page!Batch!Polls \cup {"detail"}), k, "first", b)
      /\ UNCHANGED <<stage, selected, comparison>>
  BY DEF Page!Batch!BatchCreated, Page!Batch!SelectActive, ServerKnows
<1>2. stage[b] # "none"
  BY <1>1 DEF ServerKnows
<1>3. Learns(batchList')
  BY <1>1, UpsertLearns DEF BatchStages
<1>4. /\ OthersStay(k, Page!Batch!Polls \cup {"detail"})
      /\ batchCall'[k] = [op |-> "first", at |-> "sent", for |-> b, counts |-> TRUE,
                          seen |-> Page!Batch!Unknown]
  <2>1. "first" \in BatchOps /\ b \in Shown \cup {None}
    BY DEF BatchOps
  <2> QED
    BY <1>1, <2>1, RequestSent, SMTT(90)
<1>5. ReportTypes'
  BY <1>1, <1>3, <1>4 DEF ReportTypes, OthersStay, Learns
<1>6. ServerKnows'
  <2>1. \A c \in Shown : batchList'[c] = "ended" => stage[c] = "ended"
    BY <1>3 DEF Learns
  <2>2. /\ batchCall'[k].op = "first" /\ batchCall'[k].at = "sent" /\ batchCall'[k].for = b
        /\ batchCall'[k].seen = Page!Batch!Unknown
    BY <1>4
  <2>3. polled' = b /\ UNCHANGED stage
    BY <1>1
  <2> HIDE DEF ReportInv
  <2> QED
    BY <1>2, <1>4, <2>1, <2>2, <2>3, ServerStillKnows
<1>7. CountedCalls'
  <2>1. CallsFor'
    <3>1. \A l \in Calls : IsPoll(l) => batchCall[l].op \in Page!Batch!Polls \cup {"detail"}
      BY DEF IsPoll
    <3>2. batchCall'[k].op = "first" /\ batchCall'[k].for = b /\ polled' = b /\ b # None
      BY <1>1, <1>4
    <3>3. "detail" \in Page!Batch!Polls \cup {"detail"} /\ UNCHANGED selected
      BY <1>1
    <3> HIDE DEF ReportInv
    <3> QED
      BY <1>4, <3>1, <3>2, <3>3, StillFor
  <2>2. Page!Batch!InFlight'
    BY <1>4 DEF Page!Batch!InFlight, Page!Batch!Polls
  <2> QED
    BY <1>1, <2>1, <2>2 DEF CountedCalls
<1>8. DetailFollowed'
  <2>1. CASE detail.batch = b
    <3>1. detail' = detail /\ detail'.batch = active'
      BY <1>1, <2>1
    <3>2. detail.status = "pending" => batchList'[b] \in {"pending", "ended"}
      BY <1>3, <2>1 DEF DetailFollowed, Learns
    <3>3. detail.status = "pending" => batchList'[b] = "pending"
      <4>1. batchList' = [batchList EXCEPT ![b] =
                            Page!Batch!preferBatch(batchList[b], "pending")]
        BY <1>1 DEF Page!Batch!upsertBatch
      <4>2. batchList'[b] = Page!Batch!preferBatch(batchList[b], "pending")
        BY <4>1 DEF ReportTypes
      <4> QED
        BY <2>1, <4>2 DEF DetailFollowed, Page!Batch!preferBatch
    <3> QED
      BY <1>1, <2>1, <3>1, <3>3 DEF DetailFollowed
  <2>2. CASE detail.batch # b
    BY <1>1, <2>2 DEF DetailFollowed, Page!Batch!NoDetail
  <2> QED
    BY <2>1, <2>2
<1> QED
  BY <1>3, <1>5, <1>6, <1>7, <1>8, LearnsEnds

\* The interval asks for the batch that is polled.
LEMMA TickKeeps ==
  ASSUME ReportInv, NEW k \in Calls, Page!Batch!Tick(k)
  PROVE  ReportInv' /\ UNCHANGED batchList
<1> USE PageConstants DEF ReportInv
<1>1. /\ timer /\ ~Page!Batch!InFlight /\ batchCall[k].at = "idle"
      /\ batchCall' = Page!Batch!Sent(batchCall, k, "poll", polled)
      /\ UNCHANGED <<stage, batchList, detail, active, polled, timer, selected, comparison,
                     broken>>
  BY DEF Page!Batch!Tick, Page!Batch!Free
<1>2. polled # None /\ polled \in Shown /\ stage[polled] # "none" /\ polled = active
  BY <1>1 DEF CountedCalls, ServerKnows, ReportTypes
<1>3. /\ OthersStay(k, {})
      /\ batchCall'[k] = [op |-> "poll", at |-> "sent", for |-> polled, counts |-> TRUE,
                          seen |-> Page!Batch!Unknown]
  BY <1>1, <1>2, RequestSent DEF BatchOps
<1>4. ReportTypes'
  BY <1>1, <1>3 DEF ReportTypes, OthersStay
<1>5. ServerKnows'
  <2>1. \A b \in Shown : batchList'[b] = "ended" => stage[b] = "ended"
    BY <1>1 DEF ServerKnows
  <2> QED
    BY <1>1, <1>2, <1>3, <2>1, ServerStillKnows
<1>6. CountedCalls'
  <2>1. CallsFor'
    <3>1. \A l \in Calls : ~IsPoll(l)
      BY <1>1 DEF IsPoll, Page!Batch!InFlight
    <3> QED
      BY <1>1, <1>2, <1>3, <3>1, StillFor
  <2> QED
    BY <1>1, <1>2, <2>1 DEF CountedCalls
<1>7. DetailFollowed'
  BY <1>1 DEF DetailFollowed
<1> QED
  BY <1>1, <1>4, <1>5, <1>6, <1>7

\* A request that follows nothing is over and the page learns nothing from it.
LEMMA OverKeeps ==
  ASSUME ReportInv, NEW k \in Calls, ~IsPoll(k), batchCall' = Page!Batch!Ended(batchCall, k),
         UNCHANGED <<stage, batchList, detail, active, polled, timer, selected, comparison,
                     broken>>
  PROVE  ReportInv' /\ UNCHANGED batchList
<1> USE PageConstants DEF ReportInv
<1>1. /\ OthersStay(k, {})
      /\ batchCall'[k].op = "none" /\ batchCall'[k].at = "idle" /\ ~batchCall'[k].counts
      /\ batchCall'[k].seen = Page!Batch!Unknown
  BY RequestOver
<1>2. ReportTypes'
  BY <1>1 DEF ReportTypes, OthersStay
<1>3. ServerKnows'
  <2>1. /\ \A b \in Shown : batchList'[b] = "ended" => stage[b] = "ended"
        /\ polled' # None => stage[polled'] # "none"
    BY DEF ServerKnows
  <2> QED
    BY <1>1, <2>1, ServerStillKnows
<1>4. CountedCalls'
  <2>1. CallsFor'
    BY <1>1, StillFor
  <2>2. Page!Batch!InFlight => Page!Batch!InFlight'
    BY <1>1, StillInFlight
  <2> QED
    BY <2>1, <2>2 DEF CountedCalls
<1>5. DetailFollowed'
  BY DEF DetailFollowed
<1> QED
  BY <1>2, <1>3, <1>4, <1>5

\* What a page shows of the active batch after a reply about it.
LEMMA AppliedDetail ==
  ASSUME ReportInv, NEW b \in Shown, NEW st \in BatchStages, st # "none",
         st = "ended" => stage[b] = "ended", active = b, Page!Batch!Apply(b, st)
  PROVE  /\ Learns(batchList') /\ batchList'[b] \in {"pending", "ended"}
         /\ detail' \in {Page!Batch!NoDetail} \cup [batch : Shown, status : BatchStages]
         /\ detail' # Page!Batch!NoDetail => detail'.batch = b
         /\ detail'.status = "pending" => detail'.batch = b /\ batchList'[b] = "pending"
<1> USE DEF ReportInv
<1>1. /\ batchList' = Page!Batch!upsertBatch(b, st)
      /\ detail' = IF st = "ended" \/ batchList'[b] = "pending"
                   THEN [batch |-> b, status |-> st] ELSE Page!Batch!Normalized(batchList')
  BY DEF Page!Batch!Apply
<1>2. Learns(batchList')
  BY <1>1, UpsertLearns
<1>3. batchList'[b] \in {"pending", "ended"}
  <2>1. batchList' = [batchList EXCEPT ![b] = Page!Batch!preferBatch(batchList[b], st)]
    BY <1>1 DEF Page!Batch!upsertBatch
  <2>2. batchList'[b] = Page!Batch!preferBatch(batchList[b], st)
    BY <2>1 DEF ReportTypes
  <2> QED
    BY <2>2 DEF Page!Batch!preferBatch, BatchStages
<1>4. CASE st = "ended" \/ batchList'[b] = "pending"
  <2>1. detail' = [batch |-> b, status |-> st]
    BY <1>1, <1>4
  <2>2. detail'.batch = b /\ detail'.status = st
    BY <2>1
  <2> QED
    BY <1>2, <1>3, <1>4, <2>1, <2>2
<1>5. CASE ~(st = "ended" \/ batchList'[b] = "pending")
  <2>1. detail' = Page!Batch!Normalized(batchList')
    BY <1>1, <1>5
  <2>2. /\ detail' \in {detail, Page!Batch!NoDetail}
        /\ detail'.status = "pending"
           => batchList'[detail'.batch] = "pending" /\ detail' = detail
    BY <1>2, <2>1, NormalizedDetail
  <2>3. detail # Page!Batch!NoDetail => detail.batch = b
    BY DEF DetailFollowed
  <2>4. detail'.status = "pending" => detail # Page!Batch!NoDetail
    BY <2>2 DEF Page!Batch!NoDetail
  <2> QED
    BY <1>2, <1>3, <2>2, <2>3, <2>4 DEF ReportTypes
<1> QED
  BY <1>4, <1>5

\* The reply of a poll.
LEMMA PolledKeeps ==
  ASSUME ReportInv, NEW k \in Calls, Page!Batch!Polled(k)
  PROVE  ReportInv' /\ Page!Batch!EndedStays
<1> USE PageConstants DEF ReportInv
<1>1. /\ batchCall[k].at = "answered" /\ batchCall[k].op \in Page!Batch!Polls
      /\ UNCHANGED <<stage, active, selected, comparison, broken>>
  BY DEF Page!Batch!Polled
<1>2. CASE batchCall[k].counts
  <2>1. /\ polled # None /\ polled \in Shown /\ polled = active /\ batchCall[k].for = polled
        /\ stage[polled] # "none"
        /\ \A l \in Calls : IsPoll(l) => l = k
    BY <1>1, <1>2 DEF CountedCalls, CallsFor, ReportTypes, ServerKnows, IsPoll
  <2> DEFINE st == batchCall[k].seen[polled]
  <2>2. st \in BatchStages /\ st # "none" /\ (st = "ended" => stage[polled] = "ended")
    BY <1>1, <2>1 DEF ReportTypes, BatchRequest, ServerKnows, Page!Batch!Polls
  <2>3. /\ Page!Batch!Apply(polled, st)
        /\ \/ /\ batchList'[polled] = "ended" /\ polled' = None /\ timer' = FALSE
              /\ batchCall' = Page!Batch!Outdated(Page!Batch!Ended(batchCall, k), Page!Batch!Polls)
           \/ /\ batchList'[polled] # "ended" /\ timer' = TRUE /\ polled' = polled
              /\ batchCall' = Page!Batch!Ended(batchCall, k)
    BY <1>2 DEF Page!Batch!Polled
  <2> HIDE DEF st
  <2>4. /\ Learns(batchList') /\ batchList'[polled] \in {"pending", "ended"}
        /\ detail' \in {Page!Batch!NoDetail} \cup [batch : Shown, status : BatchStages]
        /\ detail' # Page!Batch!NoDetail => detail'.batch = polled
        /\ detail'.status = "pending" => detail'.batch = polled /\ batchList'[polled] = "pending"
    BY <2>1, <2>2, <2>3, AppliedDetail
  <2>5. PICK ops \in {{}, Page!Batch!Polls} :
        /\ OthersStay(k, ops)
        /\ batchCall'[k].op = "none" /\ batchCall'[k].at = "idle" /\ ~batchCall'[k].counts
        /\ batchCall'[k].seen = Page!Batch!Unknown
    BY <2>3, RequestOver
  <2>6. ReportTypes'
    <3>1. polled' \in Shown \cup {None} /\ timer' \in BOOLEAN
      BY <2>1, <2>3
    <3>2. batchCall' \in [Calls -> BatchRequest] /\ batchList' \in [Shown -> BatchStages]
      BY <2>4, <2>5 DEF OthersStay, Learns
    <3> QED
      BY <1>1, <2>4, <3>1, <3>2 DEF ReportTypes
  <2>7. ServerKnows'
    <3>1. /\ \A b \in Shown : batchList'[b] = "ended" => stage[b] = "ended"
          /\ polled' # None => stage[polled'] # "none"
      BY <2>1, <2>3, <2>4 DEF Learns
    <3> QED
      BY <1>1, <2>5, <3>1, ServerStillKnows
  <2>8. CountedCalls'
    <3>1. polled' \in {polled, None} /\ (polled' # None => timer') /\ (polled' = None => ~timer')
      BY <2>1, <2>3
    <3>2. CallsFor'
      BY <1>1, <2>1, <2>5, <3>1, StillFor
    <3> QED
      BY <1>1, <2>1, <3>1, <3>2 DEF CountedCalls
  <2>9. DetailFollowed'
    <3>1. batchList'[polled] = "pending" => polled' # None
      BY <2>1, <2>3
    <3> QED
      BY <1>1, <2>1, <2>4, <3>1 DEF DetailFollowed
  <2> QED
    BY <2>4, <2>6, <2>7, <2>8, <2>9, LearnsEnds
<1>3. CASE ~batchCall[k].counts
  <2>1. /\ batchCall' = Page!Batch!Ended(batchCall, k)
        /\ UNCHANGED <<batchList, detail, polled, timer>>
    BY <1>3 DEF Page!Batch!Polled
  <2>2. ReportInv' /\ UNCHANGED batchList
    BY <1>1, <1>3, <2>1, OverKeeps DEF IsPoll
  <2> QED
    BY <2>2 DEF Page!Batch!EndedStays
<1> QED
  BY <1>2, <1>3

\* The route opens a batch.
LEMMA OpenReportKeeps ==
  ASSUME ReportInv, NEW k \in Calls, NEW b \in Shown, Page!Batch!OpenReport(k, b)
  PROVE  ReportInv' /\ UNCHANGED batchList
<1> USE PageConstants DEF ReportInv
<1>1. /\ stage[b] # "none" /\ batchCall[k].at = "idle"
      /\ polled' = None /\ timer' = FALSE /\ broken' = FALSE
      /\ active' = b /\ detail' = Page!Batch!NoDetail
      /\ batchCall' = Page!Batch!Sent(
             Page!Batch!Outdated(batchCall, Page!Batch!Polls \cup {"detail"}), k, "detail", b)
      /\ UNCHANGED <<stage, batchList, selected, comparison>>
  BY DEF Page!Batch!OpenReport, Page!Batch!Free
<1>2. /\ OthersStay(k, Page!Batch!Polls \cup {"detail"})
      /\ batchCall'[k] = [op |-> "detail", at |-> "sent", for |-> b, counts |-> TRUE,
                          seen |-> Page!Batch!Unknown]
  <2>1. "detail" \in BatchOps /\ b \in Shown \cup {None}
    BY DEF BatchOps
  <2> QED
    BY <1>1, <2>1, RequestSent
<1>3. ReportTypes'
  BY <1>1, <1>2 DEF ReportTypes, OthersStay
<1>4. ServerKnows'
  <2>1. \A c \in Shown : batchList'[c] = "ended" => stage[c] = "ended"
    BY <1>1 DEF ServerKnows
  <2>2. /\ batchCall'[k].op = "detail" /\ batchCall'[k].at = "sent" /\ batchCall'[k].for = b
        /\ batchCall'[k].seen = Page!Batch!Unknown
    BY <1>2
  <2> QED
    BY <1>1, <1>2, <2>1, <2>2, ServerStillKnows
<1>5. CountedCalls'
  <2>1. CallsFor'
    <3>1. \A l \in Calls : IsPoll(l) => batchCall[l].op \in Page!Batch!Polls \cup {"detail"}
      BY DEF IsPoll
    <3>2. /\ batchCall'[k].op = "detail" /\ batchCall'[k].for = b /\ active' = b
          /\ polled' = None /\ "detail" \notin Page!Batch!Polls
      BY <1>1, <1>2 DEF Page!Batch!Polls
    <3>3. "detail" \in Page!Batch!Polls \cup {"detail"} /\ UNCHANGED selected
      BY <1>1
    <3> HIDE DEF ReportInv
    <3> QED
      BY <1>2, <3>1, <3>2, <3>3, StillFor
  <2> QED
    BY <1>1, <2>1 DEF CountedCalls
<1>6. DetailFollowed'
  BY <1>1 DEF DetailFollowed, Page!Batch!NoDetail
<1> QED
  BY <1>1, <1>3, <1>4, <1>5, <1>6

\* It is read: polled, if it still runs.
LEMMA ReportLoadedKeeps ==
  ASSUME ReportInv, NEW k \in Calls, Page!Batch!ReportLoaded(k)
  PROVE  ReportInv' /\ Page!Batch!EndedStays
<1> USE PageConstants DEF ReportInv
<1>1. /\ batchCall[k].at = "answered" /\ batchCall[k].op = "detail"
      /\ UNCHANGED <<stage, active, selected, comparison, broken>>
  BY DEF Page!Batch!ReportLoaded
<1>2. CASE batchCall[k].counts
  <2>1. PICK b \in Shown :
        /\ b = batchCall[k].for /\ active = b /\ polled = None /\ stage[b] # "none"
    BY <1>1, <1>2 DEF CountedCalls, CallsFor, ServerKnows
  <2> DEFINE st == batchCall[k].seen[b]
  <2>2. st \in BatchStages /\ st # "none" /\ (st = "ended" => stage[b] = "ended")
    BY <1>1, <2>1 DEF ReportTypes, BatchRequest, ServerKnows
  <2>3. /\ Page!Batch!Apply(b, st)
        /\ polled' = (IF batchList'[b] = "pending" THEN b ELSE None)
        /\ timer' = (batchList'[b] = "pending")
        /\ batchCall' = Page!Batch!Outdated(Page!Batch!Ended(batchCall, k),
                                            Page!Batch!Polls \cup {"detail"})
    BY <1>2, <2>1 DEF Page!Batch!ReportLoaded
  <2> HIDE DEF st
  <2>4. /\ Learns(batchList') /\ batchList'[b] \in {"pending", "ended"}
        /\ detail' \in {Page!Batch!NoDetail} \cup [batch : Shown, status : BatchStages]
        /\ detail' # Page!Batch!NoDetail => detail'.batch = b
        /\ detail'.status = "pending" => detail'.batch = b /\ batchList'[b] = "pending"
    BY <2>1, <2>2, <2>3, AppliedDetail
  <2>5. /\ OthersStay(k, Page!Batch!Polls \cup {"detail"})
        /\ batchCall'[k].op = "none" /\ batchCall'[k].at = "idle" /\ ~batchCall'[k].counts
        /\ batchCall'[k].seen = Page!Batch!Unknown
    BY <2>3, RequestOver
  <2>6. ReportTypes'
    BY <1>1, <2>1, <2>3, <2>4, <2>5 DEF ReportTypes, OthersStay, Learns
  <2>7. ServerKnows'
    <3>1. /\ \A c \in Shown : batchList'[c] = "ended" => stage[c] = "ended"
          /\ polled' # None => stage[polled'] # "none"
      BY <2>1, <2>3, <2>4 DEF Learns
    <3> QED
      BY <1>1, <2>5, <3>1, ServerStillKnows
  <2>8. CountedCalls'
    <3>1. (polled' # None => polled' = b /\ timer') /\ (polled' = None => ~timer')
      BY <2>1, <2>3
    <3>2. CallsFor'
      <4>1. \A l \in Calls : IsPoll(l) => batchCall[l].op \in Page!Batch!Polls \cup {"detail"}
        BY DEF IsPoll
      <4>2. "detail" \in Page!Batch!Polls \cup {"detail"} /\ UNCHANGED selected
        BY <1>1
      <4> HIDE DEF ReportInv
      <4> QED
        BY <2>5, <4>1, <4>2, StillFor
    <3> QED
      BY <1>1, <2>1, <3>1, <3>2 DEF CountedCalls
  <2>9. DetailFollowed'
    BY <1>1, <2>1, <2>3, <2>4 DEF DetailFollowed
  <2> QED
    BY <2>4, <2>6, <2>7, <2>8, <2>9, LearnsEnds
<1>3. CASE ~batchCall[k].counts
  <2>1. /\ batchCall' = Page!Batch!Ended(batchCall, k)
        /\ UNCHANGED <<batchList, detail, polled, timer>>
    BY <1>3 DEF Page!Batch!ReportLoaded
  <2>2. ReportInv' /\ UNCHANGED batchList
    BY <1>1, <1>3, <2>1, OverKeeps DEF IsPoll
  <2> QED
    BY <2>2 DEF Page!Batch!EndedStays
<1> QED
  BY <1>2, <1>3

\* The page is left.
LEMMA LeaveReportKeeps ==
  ASSUME ReportInv, Page!Batch!Leave
  PROVE  ReportInv' /\ UNCHANGED batchList
<1> USE PageConstants DEF ReportInv
<1> DEFINE ops == Page!Batch!Polls \cup {"detail"}
<1>1. /\ polled' = None /\ timer' = FALSE /\ active' = None
      /\ detail' = Page!Batch!NoDetail
      /\ batchCall' = Page!Batch!Outdated(batchCall, ops)
      /\ UNCHANGED <<stage, batchList, selected, comparison, broken>>
  BY DEF Page!Batch!Leave
<1>2. OthersStay(None, ops)
  <2>1. batchCall \in [Calls -> BatchRequest]
    BY DEF ReportTypes
  <2> HIDE DEF ops
  <2> QED
    BY <1>1, <2>1, RenumberedRequests DEF OthersStay
<1>3. ReportTypes'
  BY <1>1, <1>2 DEF ReportTypes, OthersStay
<1>4. ServerKnows'
  <2>1. \A l \in Calls :
        /\ batchCall'[l].op = batchCall[l].op /\ batchCall'[l].at = batchCall[l].at
        /\ batchCall'[l].for = batchCall[l].for /\ batchCall'[l].seen = batchCall[l].seen
    BY <1>2 DEF OthersStay
  <2>2. \A l \in Calls :
        /\ batchCall'[l].at = "idle" <=> batchCall'[l].op = "none"
        /\ batchCall'[l].op \in {"create", "poll", "first", "detail"}
           => batchCall'[l].for \in Shown
        /\ batchCall'[l].op \in {"poll", "first", "detail"} => stage[batchCall'[l].for] # "none"
        /\ batchCall'[l].op = "create" =>
            (batchCall'[l].at = "sent" <=> stage[batchCall'[l].for] = "none")
    BY <2>1 DEF ServerKnows
  <2>3. \A l \in Calls :
        /\ \A b \in Shown : batchCall'[l].seen[b] = "ended" => stage[b] = "ended"
        /\ batchCall'[l].op \in {"poll", "first", "detail"} /\ batchCall'[l].at = "answered"
            => batchCall'[l].seen[batchCall'[l].for] # "none"
    BY <2>1 DEF ServerKnows
  <2>4. \A l, m \in Calls :
            batchCall'[l].op = "create" /\ batchCall'[m].op = "create" => l = m
    BY <2>1 DEF ServerKnows
  <2>5. /\ \A b \in Shown : batchList'[b] = "ended" => stage'[b] = "ended"
        /\ polled' = None
    BY <1>1 DEF ServerKnows
  <2> QED
    BY <1>1, <2>2, <2>3, <2>4, <2>5 DEF ServerKnows
<1>5. CountedCalls'
  <2>1. CallsFor'
    <3>1. \A l \in Calls : IsPoll(l) => batchCall[l].op \in ops
      BY DEF IsPoll
    <3>2. "detail" \in ops /\ UNCHANGED selected /\ None \notin Calls
      BY <1>1
    <3> HIDE DEF ReportInv, ops
    <3> QED
      BY <1>2, <3>1, <3>2, StillFor
  <2> QED
    BY <1>1, <2>1 DEF CountedCalls
<1>6. DetailFollowed'
  BY <1>1 DEF DetailFollowed, Page!Batch!NoDetail
<1> QED
  BY <1>1, <1>3, <1>4, <1>5, <1>6

\* A request fails.
LEMMA CallFailsKeeps ==
  ASSUME ReportInv, NEW k \in Calls, Page!Batch!CallFails(k)
  PROVE  ReportInv' /\ UNCHANGED batchList
<1> USE PageConstants DEF ReportInv
<1>1. /\ batchCall' = Page!Batch!Ended(batchCall, k)
      /\ UNCHANGED <<stage, batchList, detail, active, selected, comparison>>
  BY DEF Page!Batch!CallFails
<1>2. CASE ~IsPoll(k)
  <2>1. UNCHANGED <<polled, timer, broken>>
    BY <1>2 DEF Page!Batch!CallFails, IsPoll
  <2> QED
    BY <1>1, <1>2, <2>1, OverKeeps
<1>3. CASE IsPoll(k)
  <2>1. polled' = None /\ timer' = FALSE /\ broken' = TRUE
    BY <1>3 DEF Page!Batch!CallFails, IsPoll
  <2>2. /\ OthersStay(k, {})
        /\ batchCall'[k].op = "none" /\ batchCall'[k].at = "idle" /\ ~batchCall'[k].counts
        /\ batchCall'[k].seen = Page!Batch!Unknown
    BY <1>1, RequestOver
  <2>3. \A l \in Calls : IsPoll(l) => l = k
    BY <1>3 DEF IsPoll, CountedCalls, CallsFor
  <2>4. ReportTypes'
    BY <1>1, <2>1, <2>2 DEF ReportTypes, OthersStay
  <2>5. ServerKnows'
    <3>1. \A b \in Shown : batchList'[b] = "ended" => stage[b] = "ended"
      BY <1>1 DEF ServerKnows
    <3> QED
      BY <1>1, <2>1, <2>2, <3>1, ServerStillKnows
  <2>6. CountedCalls'
    <3>1. CallsFor'
      BY <1>1, <2>1, <2>2, <2>3, StillFor
    <3> QED
      BY <1>1, <2>1, <3>1 DEF CountedCalls
  <2>7. DetailFollowed'
    BY <1>1, <2>1 DEF DetailFollowed
  <2> QED
    BY <1>1, <2>4, <2>5, <2>6, <2>7
<1> QED
  BY <1>2, <1>3

\* Every step of the pages keeps the invariant, and what has ended ended.
LEMMA ReportStep ==
  ReportInv /\ Page!Batch!Next => ReportInv' /\ Page!Batch!EndedStays
<1> SUFFICES ASSUME ReportInv, Page!Batch!Next PROVE ReportInv' /\ Page!Batch!EndedStays
  OBVIOUS
<1>0. UNCHANGED batchList => Page!Batch!EndedStays
  BY DEF Page!Batch!EndedStays
<1>1. CASE Page!Batch!User
  BY <1>0, <1>1, LeaveReportKeeps, AskedKeeps, OpenReportKeeps DEF Page!Batch!User
<1>2. CASE Page!Batch!Moves
  <2>1. PICK k \in Calls : Page!Batch!Tick(k) \/ Page!Batch!Reply(k) \/ Page!Batch!CallFails(k)
    BY <1>2 DEF Page!Batch!Moves
  <2> QED
    BY <1>0, <2>1, TickKeeps, AnswerKeeps, MergeListKeeps, BatchCreatedKeeps, ComparedKeeps,
       PolledKeeps, ReportLoadedKeeps, CallFailsKeeps DEF Page!Batch!Reply
<1>3. CASE Page!Batch!Ends
  BY <1>0, <1>3, EndBatchKeeps DEF Page!Batch!Ends
<1> QED
  BY <1>1, <1>2, <1>3 DEF Page!Batch!Next
-----------------------------------------------------------------------------
(* The page of a knowledge source.                                         *)

SourceOps == {"none", "sources", "preview", "chunks", "confirm", "enqueue", "status"}
SourceRequest == [op : SourceOps, for : Sources \cup {None}, counts : BOOLEAN]
SourceTypes ==
    /\ {route, publishedFor, loadingFor} \subseteq Sources \cup {None}
    /\ reading \in BOOLEAN /\ listed \in BOOLEAN
    /\ status \in {"none", "pending", "ended"}
    /\ job \in [Sources -> {"none", "pending", "ended"}]
    /\ sourceCall \in [Calls -> SourceRequest]
    /\ \A k \in Calls : sourceCall[k].op # "none" => sourceCall[k].for \in Sources
    /\ \A k \in Calls : sourceCall[k].op = "sources" => route \in Sources
\* Once the sources were read, what counts is for the source of the route.
RouteKept ==
    ~reading =>
        /\ {preview, confirmation, publishedFor} \subseteq {None, route}
        /\ \A k \in Calls : sourceCall[k].op \in {"preview", "confirm"} /\ sourceCall[k].counts
               => sourceCall[k].for = route
\* Requests for chunks that did not cross.
ChunksFollow ==
    ~crossed =>
        /\ \A k \in Calls : sourceCall[k].op = "chunks" =>
            /\ sourceCall[k].for = loadingFor
            /\ \A l \in Calls : sourceCall[l].op = "chunks" => l = k
        /\ ~reading /\ ~(listed /\ route \in Structured) =>
            \/ loadingFor \in Sources /\ loadingFor = route
            \/ loadingFor = None /\ chunks \in {None, route}
\* One publication is followed, that of publishedFor.
IsLoop(k) == sourceCall[k].op \in Page!Source!Publication /\ sourceCall[k].counts
OneFollowed ==
    \A k \in Calls : IsLoop(k) =>
        /\ publishedFor # None /\ sourceCall[k].for = publishedFor
        /\ \A l \in Calls : IsLoop(l) => l = k
Followed ==
    /\ OneFollowed
    /\ status = "pending" => Page!Source!UnderWay("status")
    /\ sourceLeft => publishedFor = None
SourceInv == SourceTypes /\ RouteKept /\ ChunksFollow /\ Followed

\* It holds when the page opens.
LEMMA SourceStart == Page!Source!Init => SourceInv
<1> SUFFICES ASSUME Page!Source!Init PROVE SourceInv
  OBVIOUS
<1> USE PageConstants DEF Page!Source!Init, Page!Source!Idle, Page!Source!Publication
<1>1. SourceTypes
  BY DEF SourceTypes, SourceOps, SourceRequest
<1>2. RouteKept /\ ChunksFollow /\ Followed
  BY DEF RouteKept, ChunksFollow, Followed, OneFollowed, IsLoop
<1> QED
  BY <1>1, <1>2 DEF SourceInv

\* It gives what the page promises.
LEMMA SourceInvSuffices == SourceInv => Page!Source!SourcePageSound
<1> SUFFICES ASSUME SourceInv PROVE Page!Source!SourcePageSound
  OBVIOUS
<1> USE DEF SourceInv
<1>1. Page!Source!OfThisSource
  <2>1. Page!Source!Panel => preview = route
    BY DEF Page!Source!Panel, RouteKept
  <2>2. ~reading => {confirmation, publishedFor} \subseteq {None, route}
    BY DEF RouteKept
  <2>3. CASE Page!Source!Chunks /\ ~crossed
    <3>1. ~reading /\ ~(listed /\ route \in Structured) /\ loadingFor = None
      BY <2>3 DEF Page!Source!Chunks
    <3>2. chunks \in {None, route}
      BY <2>3, <3>1, PageConstants DEF ChunksFollow
    <3> QED
      BY <2>1, <2>2, <3>2 DEF Page!Source!OfThisSource
  <2> QED
    BY <2>1, <2>2, <2>3 DEF Page!Source!OfThisSource
<1>2. \A k, l \in Calls :
        {sourceCall[k].op, sourceCall[l].op} \subseteq Page!Source!Publication
        /\ sourceCall[k].counts /\ sourceCall[l].counts => k = l
  BY DEF Followed, OneFollowed, IsLoop
<1>3. publishedFor = None => ~Page!Source!Publishing
  <2>1. ASSUME publishedFor = None, NEW k \in Calls PROVE ~IsLoop(k)
    BY <2>1 DEF Followed, OneFollowed
  <2>2. ASSUME publishedFor = None
        PROVE  ~Page!Source!UnderWay("enqueue") /\ ~Page!Source!UnderWay("status")
    BY <2>1, <2>2 DEF IsLoop, Page!Source!UnderWay, Page!Source!Publication
  <2> QED
    BY <2>2 DEF Followed, Page!Source!Publishing
<1>4. Page!Source!OneLoop
  BY <1>2, <1>3 DEF Page!Source!OneLoop, Followed
<1> QED
  BY <1>1, <1>4 DEF Page!Source!SourcePageSound

\* Nothing of the page changes.
sourceVars == <<route, reading, listed, preview, confirmation, chunks, loadingFor,
                publishedFor, status, job, sourceCall, sourceActs, sourceLeft, crossed>>
LEMMA SourceStutters == SourceInv /\ UNCHANGED sourceVars => SourceInv'
  BY DEF SourceInv, sourceVars, SourceTypes, RouteKept, ChunksFollow, Followed, OneFollowed,
         IsLoop, Page!Source!UnderWay

\* All requests but one are as they were, but that those of some kinds count no more.
RequestsStay(k, ops) ==
    /\ sourceCall' \in [Calls -> SourceRequest]
    /\ \A l \in Calls : l # k =>
        /\ sourceCall'[l].op = sourceCall[l].op /\ sourceCall'[l].for = sourceCall[l].for
        /\ sourceCall'[l].counts <=> sourceCall[l].counts /\ sourceCall[l].op \notin ops

\* The three ways in which the requests change.
LEMMA RenumberedReading ==
  ASSUME NEW c \in [Calls -> SourceRequest], NEW ops
  PROVE  /\ Page!Source!Outdated(c, ops) \in [Calls -> SourceRequest]
         /\ \A l \in Calls :
              LET r == Page!Source!Outdated(c, ops)[l] IN
              /\ r.op = c[l].op /\ r.for = c[l].for
              /\ r.counts <=> c[l].counts /\ c[l].op \notin ops
<1>1. ASSUME NEW l \in Calls
      PROVE  /\ [c[l] EXCEPT !.counts = @ /\ c[l].op \notin ops] \in SourceRequest
             /\ LET r == [c[l] EXCEPT !.counts = @ /\ c[l].op \notin ops] IN
                /\ r.op = c[l].op /\ r.for = c[l].for
                /\ r.counts <=> c[l].counts /\ c[l].op \notin ops
  <2>1. c[l] \in SourceRequest
    OBVIOUS
  <2> QED
    BY <2>1 DEF SourceRequest
<1> QED
  BY <1>1 DEF Page!Source!Outdated
LEMMA EndedReading ==
  ASSUME NEW c \in [Calls -> SourceRequest], NEW k \in Calls
  PROVE  /\ Page!Source!Ended(c, k) \in [Calls -> SourceRequest]
         /\ Page!Source!Ended(c, k)[k] = Page!Source!Idle
         /\ \A l \in Calls : l # k => Page!Source!Ended(c, k)[l] = c[l]
<1>1. Page!Source!Idle \in SourceRequest
  BY DEF Page!Source!Idle, SourceRequest, SourceOps
<1> QED
  BY <1>1 DEF Page!Source!Ended
LEMMA SentReading ==
  ASSUME NEW c \in [Calls -> SourceRequest], NEW k \in Calls, NEW op \in SourceOps,
         NEW s \in Sources
  PROVE  /\ Page!Source!Sent(c, k, op, s) \in [Calls -> SourceRequest]
         /\ Page!Source!Sent(c, k, op, s)[k] = [op |-> op, for |-> s, counts |-> TRUE]
         /\ \A l \in Calls : l # k => Page!Source!Sent(c, k, op, s)[l] = c[l]
<1>1. [op |-> op, for |-> s, counts |-> TRUE] \in SourceRequest
  BY DEF SourceRequest
<1> QED
  BY <1>1 DEF Page!Source!Sent

\* A request is sent, in its own place or in that of one that was answered.
LEMMA ReadingSent ==
  ASSUME SourceInv, NEW k \in Calls, NEW ops, NEW op \in SourceOps, NEW s \in Sources,
         \/ sourceCall' = Page!Source!Sent(Page!Source!Outdated(sourceCall, ops), k, op, s)
         \/ sourceCall' = Page!Source!Sent(Page!Source!Outdated(Page!Source!Ended(sourceCall, k),
                                                                ops), k, op, s)
         \/ ops = {} /\ sourceCall' = Page!Source!Sent(sourceCall, k, op, s)
  PROVE  /\ RequestsStay(k, ops)
         /\ sourceCall'[k].op = op /\ sourceCall'[k].for = s /\ sourceCall'[k].counts
<1> DEFINE d == Page!Source!Outdated(sourceCall, ops)
           e == Page!Source!Ended(sourceCall, k)
           f == Page!Source!Outdated(e, ops)
<1>0. sourceCall \in [Calls -> SourceRequest]
  BY DEF SourceInv, SourceTypes
<1>1. CASE sourceCall' = Page!Source!Sent(d, k, op, s)
  <2>1. d \in [Calls -> SourceRequest] /\ \A l \in Calls :
            /\ d[l].op = sourceCall[l].op /\ d[l].for = sourceCall[l].for
            /\ d[l].counts <=> sourceCall[l].counts /\ sourceCall[l].op \notin ops
    BY <1>0, RenumberedReading
  <2> HIDE DEF d
  <2> QED
    <3>1. /\ sourceCall' \in [Calls -> SourceRequest]
          /\ sourceCall'[k] = [op |-> op, for |-> s, counts |-> TRUE]
          /\ \A l \in Calls : l # k => sourceCall'[l] = d[l]
      BY <1>1, <2>1, SentReading
    <3> QED
      BY <2>1, <3>1 DEF RequestsStay
<1>2. CASE sourceCall' = Page!Source!Sent(f, k, op, s)
  <2>1. e \in [Calls -> SourceRequest] /\ \A l \in Calls : l # k => e[l] = sourceCall[l]
    BY <1>0, EndedReading
  <2> HIDE DEF e
  <2>2. f \in [Calls -> SourceRequest] /\ \A l \in Calls :
            /\ f[l].op = e[l].op /\ f[l].for = e[l].for
            /\ f[l].counts <=> e[l].counts /\ e[l].op \notin ops
    BY <2>1, RenumberedReading
  <2> HIDE DEF f
  <2> QED
    <3>1. /\ sourceCall' \in [Calls -> SourceRequest]
          /\ sourceCall'[k] = [op |-> op, for |-> s, counts |-> TRUE]
          /\ \A l \in Calls : l # k => sourceCall'[l] = f[l]
      BY <1>2, <2>2, SentReading
    <3> QED
      BY <2>1, <2>2, <3>1 DEF RequestsStay
<1>3. CASE ops = {} /\ sourceCall' = Page!Source!Sent(sourceCall, k, op, s)
  <2>1. /\ sourceCall' \in [Calls -> SourceRequest]
        /\ sourceCall'[k] = [op |-> op, for |-> s, counts |-> TRUE]
        /\ \A l \in Calls : l # k => sourceCall'[l] = sourceCall[l]
    BY <1>0, <1>3, SentReading
  <2> QED
    BY <1>3, <2>1 DEF RequestsStay
<1> QED
  BY <1>1, <1>2, <1>3

\* A request is over.
LEMMA ReadingOver ==
  ASSUME SourceInv, NEW k \in Calls, NEW ops,
         \/ sourceCall' = Page!Source!Outdated(Page!Source!Ended(sourceCall, k), ops)
         \/ ops = {} /\ sourceCall' = Page!Source!Ended(sourceCall, k)
  PROVE  RequestsStay(k, ops) /\ sourceCall'[k].op = "none" /\ ~sourceCall'[k].counts
<1> DEFINE e == Page!Source!Ended(sourceCall, k)
<1>0. sourceCall \in [Calls -> SourceRequest]
  BY DEF SourceInv, SourceTypes
<1>1. /\ e \in [Calls -> SourceRequest] /\ e[k] = Page!Source!Idle
      /\ \A l \in Calls : l # k => e[l] = sourceCall[l]
  BY <1>0, EndedReading
<1> HIDE DEF e
<1>2. CASE sourceCall' = Page!Source!Outdated(e, ops)
  <2>1. sourceCall' \in [Calls -> SourceRequest] /\ \A l \in Calls :
            /\ sourceCall'[l].op = e[l].op /\ sourceCall'[l].for = e[l].for
            /\ sourceCall'[l].counts <=> e[l].counts /\ e[l].op \notin ops
    BY <1>1, <1>2, RenumberedReading
  <2> QED
    BY <1>1, <2>1 DEF RequestsStay, Page!Source!Idle
<1>3. CASE ops = {} /\ sourceCall' = e
  BY <1>1, <1>3 DEF RequestsStay, Page!Source!Idle
<1> QED
  BY <1>2, <1>3 DEF e

\* What is followed stays one when requests of a publication were numbered anew.
LEMMA StillFollowed ==
  ASSUME SourceInv, NEW k, NEW ops, RequestsStay(k, ops),
         k \in Calls /\ sourceCall'[k].op \in Page!Source!Publication /\ sourceCall'[k].counts
            => /\ publishedFor' # None /\ sourceCall'[k].for = publishedFor'
               /\ \A l \in Calls : l # k /\ IsLoop(l) => sourceCall[l].op \in ops,
         publishedFor' = publishedFor
            \/ \A l \in Calls : l # k /\ IsLoop(l) => sourceCall[l].op \in ops
  PROVE  OneFollowed'
<1>1. ASSUME NEW l \in Calls, IsLoop(l)
      PROVE  /\ publishedFor # None /\ sourceCall[l].for = publishedFor
             /\ \A m \in Calls : IsLoop(m) => m = l
  BY <1>1 DEF SourceInv, Followed, OneFollowed
<1>2. ASSUME NEW m \in Calls, m # k,
             sourceCall'[m].op \in Page!Source!Publication, sourceCall'[m].counts
      PROVE  IsLoop(m) /\ sourceCall[m].op \notin ops /\ sourceCall'[m].for = sourceCall[m].for
  BY <1>2 DEF RequestsStay, IsLoop
<1>3. ASSUME NEW l \in Calls, sourceCall'[l].op \in Page!Source!Publication,
             sourceCall'[l].counts
      PROVE  /\ publishedFor' # None /\ sourceCall'[l].for = publishedFor'
             /\ \A m \in Calls : sourceCall'[m].op \in Page!Source!Publication
                                 /\ sourceCall'[m].counts => m = l
  <2>1. CASE l = k
    BY <1>2, <1>3, <2>1
  <2>2. CASE l # k
    <3>1. IsLoop(l) /\ sourceCall[l].op \notin ops /\ sourceCall'[l].for = sourceCall[l].for
      BY <1>2, <1>3, <2>2
    <3>2. publishedFor' = publishedFor
      BY <2>2, <3>1
    <3>3. publishedFor # None /\ sourceCall[l].for = publishedFor
      BY <1>1, <3>1
    <3>4. ASSUME NEW m \in Calls,
                 sourceCall'[m].op \in Page!Source!Publication, sourceCall'[m].counts
          PROVE  m = l
      BY <1>1, <1>2, <2>2, <3>1, <3>4
    <3> QED
      BY <3>1, <3>2, <3>3, <3>4
  <2> QED
    BY <2>1, <2>2
<1> QED
  BY <1>3 DEF OneFollowed, IsLoop, Page!Source!Publication

\* A status that is being read still is.
LEMMA StillRead ==
  ASSUME NEW k, NEW ops, RequestsStay(k, ops), "status" \notin ops,
         Page!Source!UnderWay("status"),
         k \in Calls => (sourceCall[k].op = "status" /\ sourceCall[k].counts =>
                            sourceCall'[k].op = "status" /\ sourceCall'[k].counts)
  PROVE  Page!Source!UnderWay("status")'
<1>1. PICK l \in Calls : sourceCall[l].op = "status" /\ sourceCall[l].counts
  BY DEF Page!Source!UnderWay
<1>2. sourceCall'[l].op = "status" /\ sourceCall'[l].counts
  BY <1>1 DEF RequestsStay
<1> QED
  BY <1>2 DEF Page!Source!UnderWay

\* The types of the requests after one was sent or is over.
RequestTypes ==
    /\ sourceCall \in [Calls -> SourceRequest]
    /\ \A k \in Calls : sourceCall[k].op # "none" => sourceCall[k].for \in Sources
LEMMA StillTyped ==
  ASSUME SourceInv, NEW k, NEW ops, RequestsStay(k, ops),
         k \in Calls => (sourceCall'[k].op # "none" => sourceCall'[k].for \in Sources)
  PROVE  RequestTypes'
  BY DEF RequestsStay, SourceInv, SourceTypes, RequestTypes

\* Requests for chunks stay as they were while others come and go.
LEMMA ChunksStay ==
  ASSUME SourceInv, NEW k, NEW ops, RequestsStay(k, ops),
         k \in Calls => sourceCall'[k].op # "chunks",
         UNCHANGED <<loadingFor, crossed>>,
         \/ ~reading' /\ ~(listed' /\ route' \in Structured) =>
                loadingFor \in Sources /\ loadingFor = route'
         \/ UNCHANGED <<reading, listed, route, chunks>>
  PROVE  ChunksFollow'
<1>1. ChunksFollow
  BY DEF SourceInv
<1>2. ASSUME NEW l \in Calls, sourceCall'[l].op = "chunks"
      PROVE  sourceCall[l].op = "chunks" /\ sourceCall'[l].for = sourceCall[l].for
  BY <1>2 DEF RequestsStay
<1>3. ASSUME ~crossed, NEW l \in Calls, sourceCall'[l].op = "chunks"
      PROVE  /\ sourceCall'[l].for = loadingFor
             /\ \A m \in Calls : sourceCall'[m].op = "chunks" => m = l
  BY <1>1, <1>2, <1>3 DEF ChunksFollow
<1>4. ASSUME ~crossed, ~reading', ~(listed' /\ route' \in Structured)
      PROVE  \/ loadingFor \in Sources /\ loadingFor = route'
             \/ loadingFor = None /\ chunks' \in {None, route'}
  <2>1. CASE loadingFor \in Sources /\ loadingFor = route'
    BY <2>1
  <2>2. CASE UNCHANGED <<reading, listed, route, chunks>>
    BY <1>1, <1>4, <2>2 DEF ChunksFollow
  <2> QED
    BY <1>4, <2>1, <2>2
<1>5. loadingFor' = loadingFor /\ crossed' = crossed
  OBVIOUS
<1> QED
  BY <1>3, <1>4, <1>5 DEF ChunksFollow

\* Another source is gone to.
LEMMA GoToKeeps ==
  ASSUME SourceInv, NEW k \in Calls, NEW s \in Sources, Page!Source!GoTo(k, s)
  PROVE  SourceInv'
<1> USE PageConstants DEF SourceInv
<1>1. /\ sourceCall[k] = Page!Source!Idle /\ route' = s /\ reading' = TRUE
      /\ sourceCall' = Page!Source!Sent(sourceCall, k, "sources", s)
      /\ UNCHANGED <<listed, preview, confirmation, chunks, loadingFor, publishedFor, status,
                     job, sourceLeft, crossed>>
  BY DEF Page!Source!GoTo
<1>2. /\ RequestsStay(k, {})
      /\ sourceCall'[k].op = "sources" /\ sourceCall'[k].for = s /\ sourceCall'[k].counts
  BY <1>1, ReadingSent DEF SourceOps
<1>3. SourceTypes'
  <2>1. RequestTypes'
    BY <1>2, StillTyped
  <2> QED
    BY <1>1, <2>1 DEF SourceTypes, RequestTypes
<1>4. RouteKept'
  BY <1>1 DEF RouteKept
<1>5. ChunksFollow'
  BY <1>1, <1>2 DEF ChunksFollow, RequestsStay
<1>6. Followed'
  <2>1. OneFollowed'
    BY <1>1, <1>2, StillFollowed DEF Page!Source!Publication
  <2>2. Page!Source!UnderWay("status") => Page!Source!UnderWay("status")'
    BY <1>1, <1>2, StillRead DEF Page!Source!Idle
  <2> QED
    BY <1>1, <2>1, <2>2 DEF Followed
<1> QED
  BY <1>3, <1>4, <1>5, <1>6

\* The sources are read: the preview of the source of the route is asked for ...
LEMMA LoadPreviewKeeps ==
  ASSUME SourceInv, NEW k \in Calls, sourceCall[k].op = "sources", reading' = FALSE,
         listed' /\ route \in Structured, listed' \in BOOLEAN,
         UNCHANGED <<route, job, sourceLeft>>, Page!Source!LoadPreview(k)
  PROVE  SourceInv'
<1> USE PageConstants DEF SourceInv
<1>1. PICK ops \in {{"preview", "confirm"}, {"preview", "confirm"} \cup Page!Source!Publication} :
      /\ \/ publishedFor \in {None, route} /\ UNCHANGED <<publishedFor, status>>
            /\ ops = {"preview", "confirm"}
         \/ publishedFor' = None /\ status' = "none"
            /\ ops = {"preview", "confirm"} \cup Page!Source!Publication
      /\ preview' = None /\ confirmation' = None
      /\ sourceCall' = Page!Source!Sent(Page!Source!Outdated(Page!Source!Ended(sourceCall, k),
                                                             ops), k, "preview", route)
      /\ UNCHANGED <<chunks, loadingFor, crossed>>
  <2>1. CASE publishedFor \in {None, route}
    <3>1. {"preview", "confirm"} \cup {} = {"preview", "confirm"}
      OBVIOUS
    <3> QED
      BY <2>1, <3>1 DEF Page!Source!LoadPreview, Page!Source!StatusCancelled
  <2>2. CASE publishedFor \notin {None, route}
    BY <2>2 DEF Page!Source!LoadPreview, Page!Source!StatusCancelled
  <2> QED
    BY <2>1, <2>2
<1>2. route \in Sources /\ "preview" \in SourceOps
  BY DEF SourceTypes, SourceOps
<1>3. /\ RequestsStay(k, ops)
      /\ sourceCall'[k].op = "preview" /\ sourceCall'[k].for = route /\ sourceCall'[k].counts
  BY <1>1, <1>2, ReadingSent
<1>4. {"preview", "confirm"} \subseteq ops
  BY <1>1
<1>5. SourceTypes'
  <2>1. RequestTypes'
    BY <1>2, <1>3, StillTyped
  <2> QED
    BY <1>1, <1>2, <2>1 DEF SourceTypes, RequestTypes
<1>6. RouteKept'
  <2>1. publishedFor' \in {None, route}
    BY <1>1
  <2>2. ASSUME NEW l \in Calls, sourceCall'[l].op \in {"preview", "confirm"},
               sourceCall'[l].counts
        PROVE  sourceCall'[l].for = route
    BY <1>3, <1>4, <2>2 DEF RequestsStay
  <2> QED
    BY <1>1, <2>1, <2>2 DEF RouteKept
<1>7. ChunksFollow'
  BY <1>1, <1>3 DEF ChunksFollow, RequestsStay
<1>8. Followed'
  <2>1. OneFollowed'
    <3>1. publishedFor' = publishedFor \/ \A l \in Calls : IsLoop(l) => sourceCall[l].op \in ops
      BY <1>1 DEF IsLoop
    <3>2. sourceCall'[k].op \notin Page!Source!Publication
      BY <1>3 DEF Page!Source!Publication
    <3> HIDE DEF SourceInv
    <3> QED
      BY <1>3, <3>1, <3>2, StillFollowed
  <2>2. CASE UNCHANGED <<publishedFor, status>> /\ ops = {"preview", "confirm"}
    <3>1. Page!Source!UnderWay("status") => Page!Source!UnderWay("status")'
      BY <1>3, <2>2, StillRead
    <3> QED
      BY <2>1, <2>2, <3>1 DEF Followed
  <2>3. CASE publishedFor' = None /\ status' = "none"
    BY <2>1, <2>3 DEF Followed
  <2> QED
    BY <1>1, <2>2, <2>3
<1> QED
  BY <1>5, <1>6, <1>7, <1>8

\* ... or its chunks.
LEMMA InspectKeeps ==
  ASSUME SourceInv, NEW k \in Calls, sourceCall[k].op = "sources", reading' = FALSE,
         listed' \in BOOLEAN, UNCHANGED <<route, job, sourceLeft>>, Page!Source!Inspect(k)
  PROVE  SourceInv'
<1> USE PageConstants DEF SourceInv
<1> DEFINE ops == {"preview", "confirm"} \cup Page!Source!Publication
           rest == Page!Source!Outdated(Page!Source!Ended(sourceCall, k), ops)
<1>1. /\ publishedFor' = None /\ status' = "none" /\ preview' = None /\ confirmation' = None
      /\ UNCHANGED chunks
      /\ \/ loadingFor = route /\ sourceCall' = rest /\ UNCHANGED <<loadingFor, crossed>>
         \/ /\ sourceCall' = Page!Source!Sent(rest, k, "chunks", route)
            /\ loadingFor' = route
            /\ ~crossed' => ~crossed /\ \A l \in Calls : sourceCall[l].op # "chunks"
  BY DEF Page!Source!Inspect, Page!Source!StatusCancelled
<1>2. route \in Sources /\ "chunks" \in SourceOps
  BY DEF SourceTypes, SourceOps
<1>3. /\ RequestsStay(k, ops)
      /\ sourceCall'[k].op \in {"none", "chunks"}
      /\ sourceCall'[k].op = "chunks" => sourceCall'[k].for = route
  <2> HIDE DEF ops
  <2>1. CASE sourceCall' = rest
    BY <2>1, ReadingOver
  <2>2. CASE sourceCall' = Page!Source!Sent(rest, k, "chunks", route)
    BY <1>2, <2>2, ReadingSent
  <2> QED
    BY <1>1, <2>1, <2>2
<1>4. SourceTypes'
  <2>1. RequestTypes'
    BY <1>2, <1>3, StillTyped
  <2> QED
    BY <1>1, <1>2, <2>1 DEF SourceTypes, RequestTypes
<1>5. RouteKept'
  <2>1. ASSUME NEW l \in Calls, sourceCall'[l].op \in {"preview", "confirm"},
               sourceCall'[l].counts
        PROVE  FALSE
    BY <1>3, <2>1 DEF RequestsStay
  <2> QED
    BY <1>1, <2>1 DEF RouteKept
<1>6. ChunksFollow'
  <2>1. CASE loadingFor = route /\ sourceCall' = rest /\ UNCHANGED <<loadingFor, crossed>>
    <3>1. sourceCall'[k].op = "none"
      BY <2>1, ReadingOver
    <3> QED
      BY <1>2, <1>3, <2>1, <3>1, ChunksStay
  <2>2. CASE /\ loadingFor' = route
             /\ ~crossed' => ~crossed /\ \A l \in Calls : sourceCall[l].op # "chunks"
    <3>1. ASSUME ~crossed', NEW l \in Calls, sourceCall'[l].op = "chunks"
          PROVE  l = k /\ sourceCall'[l].for = route
      BY <1>3, <2>2, <3>1 DEF RequestsStay
    <3> QED
      <4>1. ASSUME ~crossed', NEW l \in Calls, sourceCall'[l].op = "chunks"
            PROVE  /\ sourceCall'[l].for = loadingFor'
                   /\ \A m \in Calls : sourceCall'[m].op = "chunks" => m = l
        BY <2>2, <3>1, <4>1
      <4>2. loadingFor' \in Sources /\ loadingFor' = route'
        BY <1>2, <2>2
      <4> HIDE DEF SourceInv
      <4> QED
        BY <4>1, <4>2 DEF ChunksFollow
  <2> QED
    BY <1>1, <2>1, <2>2
<1>7. Followed'
  <2>1. OneFollowed'
    <3>1. \A l \in Calls : IsLoop(l) => sourceCall[l].op \in ops
      BY DEF IsLoop
    <3>2. sourceCall'[k].op \notin Page!Source!Publication
      BY <1>3 DEF Page!Source!Publication
    <3> HIDE DEF SourceInv, ops
    <3> QED
      BY <1>3, <3>1, <3>2, StillFollowed
  <2> QED
    BY <1>1, <2>1 DEF Followed
<1> QED
  BY <1>4, <1>5, <1>6, <1>7

\* Replies that end a request which is none of a publication nor for chunks; the page
\* shows a preview or a confirmation of the source of its route.
LEMMA ShownKeeps ==
  ASSUME SourceInv, NEW k \in Calls,
         sourceCall[k].op \in {"preview", "confirm"},
         sourceCall' = Page!Source!Ended(sourceCall, k),
         {preview', confirmation'} \subseteq
            {preview, confirmation, None} \cup
            {x \in Sources : x = sourceCall[k].for /\ sourceCall[k].counts},
         UNCHANGED <<route, reading, listed, chunks, loadingFor, publishedFor, status, job,
                     sourceLeft, crossed>>
  PROVE  SourceInv'
<1> USE PageConstants DEF SourceInv
<1>1. RequestsStay(k, {}) /\ sourceCall'[k].op = "none" /\ ~sourceCall'[k].counts
  BY ReadingOver
<1>2. SourceTypes'
  <2>1. RequestTypes'
    BY <1>1, StillTyped
  <2>2. \A l \in Calls : sourceCall'[l].op = "sources" => sourceCall[l].op = "sources"
    BY <1>1 DEF RequestsStay
  <2> QED
    BY <2>1, <2>2 DEF SourceTypes, RequestTypes
<1>3. RouteKept'
  <2>1. ASSUME ~reading
        PROVE  /\ {preview, confirmation, publishedFor} \subseteq {None, route}
               /\ sourceCall[k].counts => sourceCall[k].for = route
    BY <2>1 DEF RouteKept
  <2>2. ASSUME ~reading, NEW l \in Calls, sourceCall'[l].op \in {"preview", "confirm"},
               sourceCall'[l].counts
        PROVE  sourceCall'[l].for = route
    BY <1>1, <2>2 DEF RequestsStay, RouteKept
  <2>3. ASSUME ~reading PROVE {preview', confirmation', publishedFor'} \subseteq {None, route}
    BY <2>1, <2>3
  <2> QED
    BY <2>2, <2>3 DEF RouteKept
<1>4. ChunksFollow'
  BY <1>1, ChunksStay
<1>5. Followed'
  <2>1. OneFollowed'
    BY <1>1, StillFollowed
  <2>2. Page!Source!UnderWay("status") => Page!Source!UnderWay("status")'
    BY <1>1, StillRead
  <2> QED
    BY <2>1, <2>2 DEF Followed
<1> QED
  BY <1>2, <1>3, <1>4, <1>5

LEMMA PreviewLoadedKeeps ==
  ASSUME SourceInv, NEW k \in Calls, Page!Source!PreviewLoaded(k) \/ Page!Source!Confirmed(k)
  PROVE  SourceInv'
<1>1. sourceCall[k].op # "none" => sourceCall[k].for \in Sources
  BY DEF SourceInv, SourceTypes
<1>2. /\ sourceCall[k].op \in {"preview", "confirm"}
      /\ sourceCall' = Page!Source!Ended(sourceCall, k)
      /\ {preview', confirmation'} \subseteq
            {preview, confirmation, None} \cup
            {x \in Sources : x = sourceCall[k].for /\ sourceCall[k].counts}
      /\ UNCHANGED <<route, reading, listed, chunks, loadingFor, publishedFor, status, job,
                     sourceLeft, crossed>>
  BY <1>1 DEF Page!Source!PreviewLoaded, Page!Source!Confirmed
<1> QED
  BY <1>2, ShownKeeps

\* The chunks are read.
LEMMA ChunksLoadedKeeps ==
  ASSUME SourceInv, NEW k \in Calls, Page!Source!ChunksLoaded(k)
  PROVE  SourceInv'
<1> USE PageConstants DEF SourceInv
<1>1. /\ sourceCall[k].op = "chunks" /\ chunks' \in {sourceCall[k].for, None}
      /\ loadingFor' = None /\ sourceCall' = Page!Source!Ended(sourceCall, k)
      /\ UNCHANGED <<route, reading, listed, preview, confirmation, publishedFor, status, job,
                     sourceLeft, crossed>>
  BY DEF Page!Source!ChunksLoaded
<1>2. RequestsStay(k, {}) /\ sourceCall'[k].op = "none" /\ ~sourceCall'[k].counts
  BY <1>1, ReadingOver
<1>3. SourceTypes'
  <2>1. RequestTypes'
    BY <1>2, StillTyped
  <2>2. \A l \in Calls : sourceCall'[l].op = "sources" => sourceCall[l].op = "sources"
    BY <1>2 DEF RequestsStay
  <2> QED
    BY <1>1, <2>1, <2>2 DEF SourceTypes, RequestTypes
<1>4. RouteKept'
  BY <1>1, <1>2 DEF RouteKept, RequestsStay
<1>5. ChunksFollow'
  <2>1. ASSUME ~crossed, NEW l \in Calls PROVE sourceCall'[l].op # "chunks"
    BY <1>1, <1>2, <2>1 DEF ChunksFollow, RequestsStay
  <2>2. ASSUME ~crossed, ~reading, ~(listed /\ route \in Structured)
        PROVE  chunks' \in {None, route}
    <3>1. sourceCall[k].for = loadingFor /\ sourceCall[k].for \in Sources
      BY <1>1, <2>2 DEF ChunksFollow, SourceTypes
    <3>2. loadingFor = route
      BY <2>2, <3>1 DEF ChunksFollow
    <3> QED
      BY <1>1, <3>1, <3>2
  <2> QED
    BY <1>1, <2>1, <2>2 DEF ChunksFollow
<1>6. Followed'
  <2>1. OneFollowed'
    BY <1>1, <1>2, StillFollowed
  <2>2. Page!Source!UnderWay("status") => Page!Source!UnderWay("status")'
    BY <1>1, <1>2, StillRead
  <2> QED
    BY <1>1, <2>1, <2>2 DEF Followed
<1> QED
  BY <1>3, <1>4, <1>5, <1>6

\* A schema is to be confirmed.
LEMMA ConfirmKeeps ==
  ASSUME SourceInv, NEW k \in Calls, Page!Source!Confirm(k)
  PROVE  SourceInv'
<1> USE PageConstants DEF SourceInv
<1>1. /\ ~reading /\ listed /\ preview # None /\ sourceCall[k] = Page!Source!Idle
      /\ sourceCall' = Page!Source!Sent(sourceCall, k, "confirm", route)
      /\ UNCHANGED <<route, reading, listed, preview, confirmation, chunks, loadingFor,
                     publishedFor, status, job, sourceLeft, crossed>>
  BY DEF Page!Source!Confirm, Page!Source!Panel
<1>2. route \in Sources /\ "confirm" \in SourceOps
  BY <1>1 DEF SourceTypes, SourceOps, RouteKept
<1>3. /\ RequestsStay(k, {})
      /\ sourceCall'[k].op = "confirm" /\ sourceCall'[k].for = route /\ sourceCall'[k].counts
  BY <1>1, <1>2, ReadingSent
<1>4. SourceTypes'
  <2>1. RequestTypes'
    BY <1>2, <1>3, StillTyped
  <2> QED
    BY <1>1, <1>2, <2>1 DEF SourceTypes, RequestTypes
<1>5. RouteKept'
  <2>1. ASSUME NEW l \in Calls, sourceCall'[l].op \in {"preview", "confirm"},
               sourceCall'[l].counts
        PROVE  sourceCall'[l].for = route
    BY <1>1, <1>3, <2>1 DEF RequestsStay, RouteKept
  <2> QED
    BY <1>1, <2>1 DEF RouteKept
<1>6. ChunksFollow'
  BY <1>1, <1>3, ChunksStay
<1>7. Followed'
  <2>1. OneFollowed'
    <3>1. sourceCall'[k].op \notin Page!Source!Publication
      BY <1>3 DEF Page!Source!Publication
    <3> QED
      BY <1>1, <1>3, <3>1, StillFollowed
  <2>2. Page!Source!UnderWay("status") => Page!Source!UnderWay("status")'
    BY <1>1, <1>3, StillRead DEF Page!Source!Idle
  <2> QED
    BY <1>1, <2>1, <2>2 DEF Followed
<1> QED
  BY <1>4, <1>5, <1>6, <1>7

\* A source is to be published.
LEMMA PublishKeeps ==
  ASSUME SourceInv, NEW k \in Calls, Page!Source!Publish(k)
  PROVE  SourceInv'
<1> USE PageConstants DEF SourceInv
<1>1. /\ ~reading /\ listed /\ preview # None /\ sourceCall[k] = Page!Source!Idle
      /\ publishedFor' = route /\ status' = "none" /\ ~sourceLeft
      /\ sourceCall' = Page!Source!Sent(
             Page!Source!Outdated(sourceCall, Page!Source!Publication), k, "enqueue", route)
      /\ UNCHANGED <<route, reading, listed, preview, confirmation, chunks, loadingFor, job,
                     sourceLeft, crossed>>
  BY DEF Page!Source!Publish, Page!Source!Panel, Page!Source!StatusCancelled, Page!Source!Act
<1>2. route \in Sources /\ "enqueue" \in SourceOps
  BY <1>1 DEF SourceTypes, SourceOps, RouteKept
<1>3. /\ RequestsStay(k, Page!Source!Publication)
      /\ sourceCall'[k].op = "enqueue" /\ sourceCall'[k].for = route /\ sourceCall'[k].counts
  BY <1>1, <1>2, ReadingSent
<1>4. SourceTypes'
  <2>1. RequestTypes'
    BY <1>2, <1>3, StillTyped
  <2> QED
    BY <1>1, <1>2, <2>1 DEF SourceTypes, RequestTypes
<1>5. RouteKept'
  <2>1. ASSUME NEW l \in Calls, sourceCall'[l].op \in {"preview", "confirm"},
               sourceCall'[l].counts
        PROVE  sourceCall'[l].for = route
    BY <1>1, <1>3, <2>1 DEF RequestsStay, RouteKept
  <2> QED
    BY <1>1, <2>1 DEF RouteKept
<1>6. ChunksFollow'
  BY <1>1, <1>3, ChunksStay
<1>7. Followed'
  <2>1. OneFollowed'
    <3>1. \A l \in Calls : IsLoop(l) => sourceCall[l].op \in Page!Source!Publication
      BY DEF IsLoop
    <3>2. publishedFor' # None /\ sourceCall'[k].for = publishedFor'
      BY <1>1, <1>2, <1>3
    <3> HIDE DEF SourceInv
    <3> QED
      BY <1>3, <3>1, <3>2, StillFollowed
  <2> QED
    BY <1>1, <2>1 DEF Followed
<1> QED
  BY <1>4, <1>5, <1>6, <1>7

\* The job of a publication exists, and is followed if the page still asks.
LEMMA EnqueuedKeeps ==
  ASSUME SourceInv, NEW k \in Calls, Page!Source!Enqueued(k)
  PROVE  SourceInv'
<1> USE PageConstants DEF SourceInv
<1>1. /\ sourceCall[k].op = "enqueue"
      /\ job' = [job EXCEPT ![sourceCall[k].for] = "pending"]
      /\ sourceCall' = IF sourceCall[k].counts
                       THEN Page!Source!Sent(sourceCall, k, "status", sourceCall[k].for)
                       ELSE Page!Source!Ended(sourceCall, k)
      /\ UNCHANGED <<route, reading, listed, preview, confirmation, chunks, loadingFor,
                     publishedFor, status, sourceLeft, crossed>>
  BY DEF Page!Source!Enqueued
<1>2. sourceCall[k].for \in Sources /\ "status" \in SourceOps
  BY <1>1 DEF SourceTypes, SourceOps
<1>3. /\ RequestsStay(k, {})
      /\ \/ sourceCall'[k].op = "none" /\ ~sourceCall'[k].counts
         \/ /\ sourceCall'[k].op = "status" /\ sourceCall'[k].counts
            /\ sourceCall'[k].for = sourceCall[k].for /\ IsLoop(k)
  <2>1. CASE sourceCall[k].counts
    <3>1. /\ RequestsStay(k, {})
          /\ sourceCall'[k].op = "status" /\ sourceCall'[k].for = sourceCall[k].for
          /\ sourceCall'[k].counts
      BY <1>1, <1>2, <2>1, ReadingSent
    <3> QED
      BY <1>1, <2>1, <3>1 DEF IsLoop, Page!Source!Publication
  <2>2. CASE ~sourceCall[k].counts
    BY <1>1, <2>2, ReadingOver
  <2> QED
    BY <2>1, <2>2
<1>4. SourceTypes'
  <2>1. RequestTypes'
    BY <1>2, <1>3, StillTyped
  <2>2. \A l \in Calls : sourceCall'[l].op = "sources" => sourceCall[l].op = "sources"
    BY <1>3 DEF RequestsStay
  <2>3. job' \in [Sources -> {"none", "pending", "ended"}]
    BY <1>1 DEF SourceTypes
  <2> QED
    BY <1>1, <2>1, <2>2, <2>3 DEF SourceTypes, RequestTypes
<1>5. RouteKept'
  <2>1. ASSUME NEW l \in Calls, sourceCall'[l].op \in {"preview", "confirm"},
               sourceCall'[l].counts
        PROVE  /\ sourceCall[l].op \in {"preview", "confirm"} /\ sourceCall[l].counts
               /\ sourceCall'[l].for = sourceCall[l].for
    BY <1>3, <2>1 DEF RequestsStay
  <2> QED
    BY <1>1, <2>1 DEF RouteKept
<1>6. ChunksFollow'
  BY <1>1, <1>3, ChunksStay
<1>7. Followed'
  <2>1. OneFollowed'
    <3>1. CASE sourceCall'[k].op = "none"
      BY <1>1, <1>3, <3>1, StillFollowed
    <3>2. CASE IsLoop(k) /\ sourceCall'[k].for = sourceCall[k].for
      <4>1. publishedFor # None /\ sourceCall[k].for = publishedFor
            /\ \A l \in Calls : IsLoop(l) => l = k
        BY <3>2 DEF Followed, OneFollowed
      <4> QED
        BY <1>1, <1>3, <3>2, <4>1, StillFollowed
    <3> QED
      BY <1>3, <3>1, <3>2
  <2>2. Page!Source!UnderWay("status") => Page!Source!UnderWay("status")'
    BY <1>1, <1>3, StillRead
  <2> QED
    BY <1>1, <2>1, <2>2 DEF Followed
<1> QED
  BY <1>4, <1>5, <1>6, <1>7

\* A status is read, or the publication fails.
LEMMA StatusKeeps ==
  ASSUME SourceInv, NEW k \in Calls, Page!Source!StatusRead(k) \/ Page!Source!PublicationFails(k)
  PROVE  SourceInv'
<1> USE PageConstants DEF SourceInv
<1>1. /\ sourceCall[k].op \in {"enqueue", "status"}
      /\ UNCHANGED <<route, reading, listed, preview, confirmation, chunks, loadingFor, job,
                     sourceLeft, crossed>>
  BY DEF Page!Source!StatusRead, Page!Source!PublicationFails, Page!Source!Publication
<1>2. sourceCall[k].for \in Sources
  BY <1>1 DEF SourceTypes
<1>3. CASE sourceCall' = sourceCall
  <2>1. /\ sourceCall[k].op = "status" /\ sourceCall[k].counts
        /\ status' = job[sourceCall[k].for] /\ UNCHANGED publishedFor
    <3>1. CASE Page!Source!PublicationFails(k)
      <4>1. sourceCall' = Page!Source!Ended(sourceCall, k)
        BY <3>1 DEF Page!Source!PublicationFails
      <4>2. sourceCall'[k].op = "none"
        BY <4>1, ReadingOver
      <4> QED
        BY <1>1, <1>3, <4>2
    <3>2. CASE Page!Source!StatusRead(k)
      <4>1. ~sourceCall[k].counts => sourceCall' = Page!Source!Ended(sourceCall, k)
        BY <3>2 DEF Page!Source!StatusRead
      <4>2. ~sourceCall[k].counts => sourceCall'[k].op = "none"
        BY <4>1, ReadingOver
      <4> QED
        BY <1>1, <1>3, <3>2, <4>2 DEF Page!Source!StatusRead
    <3> QED
      BY <3>1, <3>2
  <2>2. SourceTypes' /\ RouteKept' /\ ChunksFollow'
    BY <1>1, <1>2, <1>3, <2>1 DEF SourceTypes, RouteKept, ChunksFollow
  <2>3. Page!Source!UnderWay("status")'
    BY <1>3, <2>1 DEF Page!Source!UnderWay
  <2>4. OneFollowed'
    BY <1>3, <2>1 DEF Followed, OneFollowed, IsLoop
  <2> QED
    BY <1>1, <2>1, <2>2, <2>3, <2>4 DEF Followed
<1>4. CASE sourceCall' = Page!Source!Ended(sourceCall, k)
  <2>1. RequestsStay(k, {}) /\ sourceCall'[k].op = "none" /\ ~sourceCall'[k].counts
    BY <1>4, ReadingOver
  <2>2. \/ ~IsLoop(k) /\ UNCHANGED <<status, publishedFor>>
        \/ IsLoop(k) /\ status' \in {"none", "ended"} /\ publishedFor' \in {publishedFor, None}
    <3>1. CASE Page!Source!PublicationFails(k)
      BY <3>1 DEF Page!Source!PublicationFails, IsLoop
    <3>2. CASE Page!Source!StatusRead(k)
      <4>1. sourceCall[k].counts => status' = "ended"
        <5>1. ASSUME sourceCall[k].counts, status' # "ended" PROVE FALSE
          <6>1. sourceCall' = sourceCall
            BY <3>2, <5>1 DEF Page!Source!StatusRead
          <6> QED
            BY <1>1, <2>1, <6>1
        <5> QED
          BY <5>1
      <4> QED
        BY <3>2, <4>1 DEF Page!Source!StatusRead, IsLoop, Page!Source!Publication
    <3> QED
      BY <3>1, <3>2
  <2>3. SourceTypes'
    <3>1. RequestTypes'
      BY <2>1, StillTyped
    <3>2. \A l \in Calls : sourceCall'[l].op = "sources" => sourceCall[l].op = "sources"
      BY <2>1 DEF RequestsStay
    <3>3. status' \in {"none", "pending", "ended"} /\ publishedFor' \in Sources \cup {None}
      BY <2>2 DEF SourceTypes
    <3> QED
      BY <1>1, <3>1, <3>2, <3>3 DEF SourceTypes, RequestTypes
  <2>4. RouteKept'
    <3>1. ASSUME NEW l \in Calls, sourceCall'[l].op \in {"preview", "confirm"},
                 sourceCall'[l].counts
          PROVE  /\ sourceCall[l].op \in {"preview", "confirm"} /\ sourceCall[l].counts
                 /\ sourceCall'[l].for = sourceCall[l].for
      BY <2>1, <3>1 DEF RequestsStay
    <3>2. publishedFor' \in {publishedFor, None}
      BY <2>2
    <3> QED
      BY <1>1, <3>1, <3>2 DEF RouteKept
  <2>5. ChunksFollow'
    BY <1>1, <2>1, ChunksStay
  <2>6. Followed'
    <3>1. CASE ~IsLoop(k) /\ UNCHANGED <<status, publishedFor>>
      <4>1. OneFollowed'
        BY <2>1, <3>1, StillFollowed
      <4>2. Page!Source!UnderWay("status") => Page!Source!UnderWay("status")'
        BY <2>1, <3>1, StillRead DEF IsLoop, Page!Source!Publication
      <4> QED
        BY <1>1, <3>1, <4>1, <4>2 DEF Followed
    <3>2. CASE IsLoop(k) /\ status' \in {"none", "ended"} /\ publishedFor' \in {publishedFor, None}
      <4>1. \A l \in Calls : IsLoop(l) => l = k
        BY <3>2 DEF Followed, OneFollowed
      <4>2. OneFollowed'
        BY <2>1, <4>1, StillFollowed
      <4> QED
        BY <1>1, <3>2, <4>2 DEF Followed
    <3> QED
      BY <2>2, <3>1, <3>2
  <2> QED
    BY <2>3, <2>4, <2>5, <2>6
<1> QED
  BY <1>3, <1>4 DEF Page!Source!StatusRead, Page!Source!PublicationFails

\* A job ends.
LEMMA EndJobKeeps ==
  ASSUME SourceInv, NEW s \in Sources, Page!Source!EndJob(s)
  PROVE  SourceInv'
<1> USE DEF SourceInv
<1>1. /\ job' = [job EXCEPT ![s] = "ended"]
      /\ UNCHANGED <<route, reading, listed, preview, confirmation, chunks, loadingFor,
                     publishedFor, status, sourceCall, sourceLeft, crossed>>
  BY DEF Page!Source!EndJob
<1>2. SourceTypes'
  BY <1>1 DEF SourceTypes
<1>3. RouteKept' /\ ChunksFollow' /\ Followed'
  BY <1>1 DEF RouteKept, ChunksFollow, Followed, OneFollowed, IsLoop, Page!Source!UnderWay
<1> QED
  BY <1>2, <1>3

\* The page is left.
LEMMA LeaveSourceKeeps ==
  ASSUME SourceInv, Page!Source!Leave
  PROVE  SourceInv'
<1> USE PageConstants DEF SourceInv
<1>1. /\ publishedFor' = None /\ status' = "none"
      /\ sourceCall' = Page!Source!Outdated(sourceCall, Page!Source!Publication)
      /\ UNCHANGED <<route, reading, listed, preview, confirmation, chunks, loadingFor, job,
                     crossed>>
  BY DEF Page!Source!Leave, Page!Source!StatusCancelled
<1>2. RequestsStay(None, Page!Source!Publication)
  <2>1. sourceCall \in [Calls -> SourceRequest]
    BY DEF SourceTypes
  <2> QED
    BY <1>1, <2>1, RenumberedReading DEF RequestsStay
<1>3. SourceTypes'
  <2>1. RequestTypes'
    BY <1>2, StillTyped
  <2>2. \A l \in Calls : sourceCall'[l].op = sourceCall[l].op
    BY <1>2 DEF RequestsStay
  <2> QED
    BY <1>1, <2>1, <2>2 DEF SourceTypes, RequestTypes
<1>4. RouteKept'
  <2>1. ASSUME NEW l \in Calls, sourceCall'[l].op \in {"preview", "confirm"},
               sourceCall'[l].counts
        PROVE  /\ sourceCall[l].op \in {"preview", "confirm"} /\ sourceCall[l].counts
               /\ sourceCall'[l].for = sourceCall[l].for
    BY <1>2, <2>1 DEF RequestsStay
  <2> QED
    BY <1>1, <2>1 DEF RouteKept
<1>5. ChunksFollow'
  BY <1>1, <1>2, ChunksStay
<1>6. Followed'
  <2>1. OneFollowed'
    <3>1. \A l \in Calls : IsLoop(l) => sourceCall[l].op \in Page!Source!Publication
      BY DEF IsLoop
    <3> HIDE DEF SourceInv
    <3> QED
      BY <1>2, <3>1, StillFollowed
  <2> QED
    BY <1>1, <2>1 DEF Followed
<1> QED
  BY <1>3, <1>4, <1>5, <1>6

\* Every step of the page keeps the invariant.
LEMMA SourceStep == SourceInv /\ Page!Source!Next => SourceInv'
<1> SUFFICES ASSUME SourceInv, Page!Source!Next PROVE SourceInv'
  OBVIOUS
<1>1. CASE Page!Source!User
  BY <1>1, LeaveSourceKeeps, ConfirmKeeps, PublishKeeps, GoToKeeps DEF Page!Source!User
<1>2. CASE Page!Source!Moves
  <2>1. PICK k \in Calls : Page!Source!Reply(k) \/ Page!Source!PublicationFails(k)
    BY <1>2 DEF Page!Source!Moves
  <2>2. CASE Page!Source!SourcesLoaded(k)
    <3>1. /\ sourceCall[k].op = "sources" /\ reading' = FALSE /\ listed' \in BOOLEAN
          /\ UNCHANGED <<route, job, sourceLeft>>
      BY <2>2 DEF Page!Source!SourcesLoaded, SourceInv, SourceTypes
    <3>2. IF listed' /\ route \in Structured THEN Page!Source!LoadPreview(k)
          ELSE Page!Source!Inspect(k)
      BY <2>2 DEF Page!Source!SourcesLoaded
    <3> QED
      BY <3>1, <3>2, LoadPreviewKeeps, InspectKeeps
  <2> QED
    BY <2>1, <2>2, PreviewLoadedKeeps, ChunksLoadedKeeps, EnqueuedKeeps, StatusKeeps
       DEF Page!Source!Reply
<1>3. CASE Page!Source!Ends
  BY <1>3, EndJobKeeps DEF Page!Source!Ends
<1> QED
  BY <1>1, <1>2, <1>3 DEF Page!Source!Next
-----------------------------------------------------------------------------
(* The four pages and the batches under the repository's specification.    *)

PagesInv == ViewInv /\ ReportInv /\ SourceInv /\ CasesInv
LEMMA PagesStart == RepositoryInit => PagesInv
  BY ViewStart, ReportStart, SourceStart, CasesStart DEF RepositoryInit, Page!Init, PagesInv

\* A page moves and the others stay, or another part moves.
LEMMA PagesStep ==
  ASSUME PagesInv, [RepositoryNext]_<<part, vars, chat, import, pages>>
  PROVE  PagesInv' /\ Page!EndedStays
<1> USE DEF PagesInv
<1>1. \/ Page!Chat!Next /\ UNCHANGED <<reportVars, sourceVars, caseVars>>
      \/ Page!Batch!Next /\ UNCHANGED <<view, sourceVars, caseVars>>
      \/ Page!Source!Next /\ UNCHANGED <<view, reportVars, caseVars>>
      \/ Page!Case!Next /\ UNCHANGED <<view, reportVars, sourceVars>>
      \/ UNCHANGED <<view, reportVars, sourceVars, caseVars>>
  <2> USE DEF view, reportVars, sourceVars, caseVars
  <2>1. CASE Page!Next
    BY <2>1, ZenonT(90) DEF Page!Next, Page!chat, Page!batches, Page!source, Page!cases
  <2>2. CASE UNCHANGED pages
    BY <2>2 DEF pages
  <2>3. Page!Next \/ UNCHANGED pages
    BY Zenon DEF RepositoryNext
  <2> QED
    BY <2>1, <2>2, <2>3
<1>2. UNCHANGED reportVars => Page!EndedStays
  BY DEF reportVars, Page!EndedStays, Page!Batch!EndedStays
<1>3. Page!Batch!EndedStays => Page!EndedStays
  BY DEF Page!EndedStays
<1> HIDE DEF PagesInv
<1>4. ViewInv /\ ReportInv /\ SourceInv /\ CasesInv
  BY DEF PagesInv
<1>5. CASE Page!Chat!Next /\ UNCHANGED <<reportVars, sourceVars, caseVars>>
  BY <1>2, <1>4, <1>5, ViewStep, ReportStutters, SourceStutters, CasesStutter DEF PagesInv
<1>6. CASE Page!Batch!Next /\ UNCHANGED <<view, sourceVars, caseVars>>
  BY <1>3, <1>4, <1>6, ReportStep, ViewStutters, SourceStutters, CasesStutter DEF PagesInv
<1>7. CASE Page!Source!Next /\ UNCHANGED <<view, reportVars, caseVars>>
  BY <1>2, <1>4, <1>7, SourceStep, ViewStutters, ReportStutters, CasesStutter DEF PagesInv
<1>8. CASE Page!Case!Next /\ UNCHANGED <<view, reportVars, sourceVars>>
  BY <1>2, <1>4, <1>8, CasesStep, ViewStutters, ReportStutters, SourceStutters DEF PagesInv
<1>9. CASE UNCHANGED <<view, reportVars, sourceVars, caseVars>>
  BY <1>2, <1>4, <1>9, ViewStutters, ReportStutters, SourceStutters, CasesStutter DEF PagesInv
<1> QED
  BY <1>1, <1>5, <1>6, <1>7, <1>8, <1>9
LEMMA PagesInvHolds == RepositorySpec => []PagesInv
  BY PagesStart, PagesStep, PTL DEF RepositorySpec

\* Whatever order the replies come in, for any number of requests, conversations,
\* batches and sources: a page shows what it was asked for last, one conversation
\* and one list at a time; it follows one batch and one publication, and what it
\* shows as running it is following (useChat, useEvaluationBatches,
\* useChatKnowledgeManagement, useQualityCases).
THEOREM PagesAreSound == RepositorySpec => []PagesSound
<1>1. PagesInv => PagesSound
  BY ViewInvSuffices, ReportInvSuffices, SourceInvSuffices, CasesInvSuffices
     DEF PagesInv, PagesSound, Page!PagesSound
<1> QED
  BY <1>1, PagesInvHolds, PTL

\* The batches keep their invariant while other requests and pages move.
LEMMA BatchInvMeanwhile == RepositorySpec => []BatchInv
<1>1. RepositoryInit => BatchInv
  BY InitHolds DEF BatchInv, RepositoryInit
<1>2. [RepositoryNext]_<<part, vars, chat, import, pages>> => [Next]_vars
  BY Zenon DEF RepositoryNext
<1>3. BatchInv /\ [Next]_vars => BatchInv'
  BY TypesStep, ProgressStep, HistoryStep, CountsStep DEF BatchInv
<1> QED
  BY <1>1, <1>2, <1>3, PTL DEF RepositorySpec

\* What was recorded stands - a batch that ended is never written again, the latest
\* run of a case has the greatest sequence, only a deleted case takes runs along
\* (run_evaluation_batch) - and what a page has shown as ended is not shown as
\* running again, in whatever order the lists, polls and details come (preferBatch).
THEOREM RecordsAreKept == RepositorySpec => RecordsStand
<1>1. [RepositoryNext]_<<part, vars, chat, import, pages>> => [Next]_vars
  BY Zenon DEF RepositoryNext
<1>2. RepositorySpec => [][RecordsKept]_vars
  BY <1>1, RecordsKeptStep, BatchInvMeanwhile, PTL DEF RepositorySpec
<1>3. PagesInv /\ [RepositoryNext]_<<part, vars, chat, import, pages>>
      => [part = "pages" => Page!EndedStays]_pages
  BY PagesStep
<1>4. RepositorySpec => [][part = "pages" => Page!EndedStays]_pages
  BY <1>3, PagesInvHolds, PTL DEF RepositorySpec
<1> QED
  BY <1>2, <1>4 DEF RecordsStand, HistoryStands, RecordsKept

=============================================================================
