---------------------------- MODULE EvaluationImport ----------------------------
(***************************************************************************)
(* How evaluation cases come into being: the preview of an import file     *)
(* with its token, the confirmation, and a single case.                    *)
(*                                                                         *)
(*   backend/app/evaluation_import.py   EvaluationImportService            *)
(*   backend/app/routes.py              preview, confirm, create           *)
(*   backend/app/sql_repository.py      create_evaluation_cases            *)
(*                                                                         *)
(* A case is a question and an external key or None.  It is known by both, *)
(* but a new one is looked up by its external key alone when it has one.   *)
(* A creating transaction takes one advisory lock per key it looks up, in  *)
(* their order, reads all cases and inserts.  Several API processes share  *)
(* the data base; the previews belong to one of them, and so does a lock   *)
(* under which it writes.                                                  *)
(***************************************************************************)
EXTENDS Naturals, Sequences, FiniteSets, SequencesExt

CONSTANTS
    Files,          \* the rows of the files that may be uploaded: sequences of cases
    Tokens,
    ProcessOf,      \* token or single request -> its process
    Confirms,       \* requests that confirm a preview
    Singles,        \* requests that create one case
    MaxPreviews,    \* max_previews
    KeyOrder,       \* the keys, in the order of sorted()
    MaxFaults,      \* bound: transactions that fail
    None

Requests == Confirms \cup Singles

VARIABLES
    stored,     \* token -> its rows, or None
    expired,    \* tokens whose time is over
    reserved,   \* _reserved_tokens
    used,       \* tokens that were handed out
    imported,   \* token -> confirmations that created its rows
    table,      \* evaluation_cases, in the order of insertion
    held,       \* key -> the transaction that holds its advisory lock, or None
    at, home, token, rows, snapshot,    \* a request: where it is, what it works on
    faults

previews == <<stored, expired, reserved, used, imported>>
request == <<at, home, token, rows, snapshot>>
vars == <<previews, table, held, request, faults>>

Keys == {KeyOrder[i] : i \in DOMAIN KeyOrder}

Init ==
    /\ stored = [t \in Tokens |-> None] /\ expired = {} /\ reserved = {}
    /\ used = {} /\ imported = [t \in Tokens |-> 0]
    /\ table = <<>> /\ held = [k \in Keys |-> None]
    /\ at = [r \in Requests |-> "new"] /\ token = [r \in Requests |-> None]
    /\ home = [r \in Requests |-> None]
    /\ rows = [r \in Requests |-> <<>>] /\ snapshot = [r \in Requests |-> {}]
    /\ faults = 0

Go(r, place) == at' = [at EXCEPT ![r] = place]

\* evaluation_case_dedup_key, evaluation_case_lookup_keys
DedupKey(case) == IF case.key # None THEN case.key ELSE case.question
LookupKeys(case) == {case.question} \cup ({case.key} \ {None})

-----------------------------------------------------------------------------
(* EvaluationImportService: every method purges what has expired first.    *)

Live == {t \in Tokens : stored[t] # None /\ t \notin expired}
Purged == [t \in Tokens |-> IF t \in expired THEN None ELSE stored[t]]

\* Expired previews make room; the limit counts the reserved ones.
Preview(t, file) ==
    /\ t \notin used
    /\ Cardinality({other \in Live : ProcessOf[other] = ProcessOf[t]}) < MaxPreviews
    /\ stored' = [Purged EXCEPT ![t] = file]
    /\ used' = used \cup {t}
    /\ reserved' = reserved \ expired
    /\ UNCHANGED <<expired, imported, table, held, request, faults>>

\* ttl_seconds pass.
Expire(t) ==
    /\ t \in used \ expired
    /\ expired' = expired \cup {t}
    /\ UNCHANGED <<stored, reserved, used, imported, table, held, request, faults>>

AlwaysFree(t) == TRUE       \* mutant: two confirmations at a time
Free(t) == t \notin reserved
Reserve(r, t) ==
    /\ at[r] = "new" /\ r \in Confirms /\ t \in used
    /\ stored' = Purged
    /\ IF t \in Live /\ Free(t)
       THEN /\ reserved' = (reserved \ expired) \cup {t}
            /\ token' = [token EXCEPT ![r] = t]
            /\ rows' = [rows EXCEPT ![r] = stored[t]]
            /\ home' = [home EXCEPT ![r] = ProcessOf[t]]
            /\ Go(r, "waiting")
       ELSE reserved' = reserved \ expired /\ Go(r, "refused") /\ UNCHANGED <<home, token, rows>>
    /\ UNCHANGED <<expired, used, imported, table, held, snapshot, faults>>

Complete(r) ==
    /\ at[r] = "created"
    /\ Go(r, "done")
    /\ reserved' = reserved \ {token[r]}
    /\ stored' = IF token[r] = None THEN stored ELSE [stored EXCEPT ![token[r]] = None]
    /\ UNCHANGED <<expired, used, imported, table, held, home, token, rows, snapshot, faults>>

\* An expired preview is dropped when its confirmation failed.
Release(r) ==
    /\ at[r] = "failed"
    /\ Go(r, "refused")
    /\ reserved' = reserved \ {token[r]}
    /\ stored' = IF token[r] \in expired THEN [stored EXCEPT ![token[r]] = None] ELSE stored
    /\ UNCHANGED <<expired, used, imported, table, held, home, token, rows, snapshot, faults>>

-----------------------------------------------------------------------------
(* create_evaluation_cases, create_evaluation_case                         *)

BeginSingle(r, case) ==
    /\ at[r] = "new" /\ r \in Singles
    /\ rows' = [rows EXCEPT ![r] = <<case>>]
    /\ home' = [home EXCEPT ![r] = ProcessOf[r]]
    /\ Go(r, "waiting")
    /\ UNCHANGED <<previews, table, held, token, snapshot, faults>>

\* Database.write_lock
TakeWriteLock(r) ==
    /\ at[r] = "waiting"
    /\ \A other \in Requests : home[other] = home[r] => at[other] \notin {"locking", "read"}
    /\ Go(r, "locking")
    /\ UNCHANGED <<previews, table, held, home, token, rows, snapshot, faults>>

\* _lock_evaluation_case_dedup_keys: the keys in their order, one by one.
FirstRowOnly(r) == {DedupKey(rows[r][1])}       \* mutant
LockKeys(r) == {DedupKey(rows[r][i]) : i \in DOMAIN rows[r]}
Holds(r) == {k \in Keys : held[k] = r}
FirstOf(keys) == KeyOrder[CHOOSE i \in DOMAIN KeyOrder :
    KeyOrder[i] \in keys /\ \A j \in 1..(i - 1) : KeyOrder[j] \notin keys]
LockKey(r) ==
    LET missing == LockKeys(r) \ Holds(r) IN
    /\ at[r] = "locking" /\ missing # {}
    /\ held[FirstOf(missing)] = None
    /\ held' = [held EXCEPT ![FirstOf(missing)] = r]
    /\ UNCHANGED <<previews, table, request, faults>>

ReadCases(r) ==
    /\ at[r] = "locking" /\ LockKeys(r) \subseteq Holds(r)
    /\ snapshot' = [snapshot EXCEPT ![r] = UNION {LookupKeys(table[i]) : i \in DOMAIN table}]
    /\ Go(r, "read")
    /\ UNCHANGED <<previews, table, held, home, token, rows, faults>>

\* The rows that are new, in their order: a row counts as known too when an
\* earlier one of the same file has its key.
AllDifferent(r) == SelectSeq(rows[r], LAMBDA case : DedupKey(case) \notin snapshot[r])  \* mutant
NewRows(r) ==
    FoldLeft(LAMBDA created, case :
                IF \/ DedupKey(case) \in snapshot[r]
                   \/ \E i \in DOMAIN created : DedupKey(case) \in LookupKeys(created[i])
                THEN created ELSE Append(created, case),
             <<>>, rows[r])

ReleaseLocks(r) == held' = [k \in Keys |-> IF held[k] = r THEN None ELSE held[k]]

\* A duplicate is skipped by an import and refused for a single case.
InsertCases(r) ==
    /\ at[r] = "read"
    /\ table' = table \o NewRows(r)
    /\ ReleaseLocks(r)
    /\ Go(r, IF r \in Singles /\ NewRows(r) = <<>> THEN "refused" ELSE "created")
    /\ imported' = IF r \in Confirms THEN [imported EXCEPT ![token[r]] = @ + 1] ELSE imported
    /\ UNCHANGED <<stored, expired, reserved, used, home, token, rows, snapshot, faults>>

TransactionFails(r) ==
    /\ at[r] \in {"locking", "read"} /\ faults < MaxFaults
    /\ faults' = faults + 1
    /\ ReleaseLocks(r)
    /\ Go(r, IF r \in Confirms THEN "failed" ELSE "refused")
    /\ UNCHANGED <<previews, table, home, token, rows, snapshot>>

-----------------------------------------------------------------------------
Step(r) == TakeWriteLock(r) \/ LockKey(r) \/ ReadCases(r) \/ InsertCases(r) \/ Complete(r) \/ Release(r)
Next ==
    \/ \E t \in Tokens : Expire(t) \/ \E file \in Files : Preview(t, file)
    \/ \E r \in Confirms, t \in Tokens : Reserve(r, t)
    \/ \E r \in Singles, file \in Files : BeginSingle(r, file[1])
    \/ \E r \in Requests : Step(r) \/ TransactionFails(r)

Spec == Init /\ [][Next]_vars
Moves == \E r \in Requests : Step(r)
Fairness == WF_vars(Moves)

-----------------------------------------------------------------------------
\* No two cases with the same key, however two processes and the rows of a file
\* are interleaved (create_evaluation_cases); a preview is imported at most
\* once ("确认", confirm_evaluation_import), is never lost by a confirmation
\* that failed before it expired, and never stays reserved after it.
ImportsSound ==
    /\ \A i, j \in DOMAIN table : i # j => DedupKey(table[i]) # DedupKey(table[j])
    /\ \A t \in Tokens :
        /\ imported[t] <= 1
        /\ t \in used \ expired /\ imported[t] = 0 => stored[t] # None
        /\ t \in reserved =>
            \E r \in Confirms : token[r] = t /\ at[r] \in {"waiting", "locking", "read", "created", "failed"}

\* No request is under way.  All end: the locks of several keys are never
\* waited for in a circle (_lock_evaluation_case_dedup_keys).
Quiet == \A r \in Requests : at[r] \in {"new", "done", "refused"}
ConfirmsEnd == []<>Quiet

=============================================================================
