------------------------ MODULE RetrievalPublication ------------------------
(***************************************************************************)
(* Publication of a retrieval index: a builder writes a new versioned      *)
(* Qdrant collection, then moves the alias and the PostgreSQL audit row to *)
(* it.  The two stores share no transaction; the code keeps them together  *)
(* with a PostgreSQL advisory lock (the alias fence), a savepoint for the  *)
(* audit half and a reconciliation protocol for every failure.             *)
(*                                                                         *)
(*   backend/app/retrieval_publication.py   the publisher                  *)
(*   backend/app/retrieval_audit.py         audit rows and the fence       *)
(*   backend/app/retrieval_bootstrap.py     the first publication          *)
(*   backend/app/retrieval_scope.py         the collection a query reads   *)
(*                                                                         *)
(* A publication row and its collection have the same unique name, so one  *)
(* value of Collections stands for both.  There is one alias, as in the    *)
(* deployment.  Every call to Qdrant or PostgreSQL is a step of its own    *)
(* and may fail, before or after it took effect.                           *)
(***************************************************************************)
EXTENDS Naturals, FiniteSets

CONSTANTS
    Collections,     \* names a publication can be given
    Builders,        \* processes that build (index worker, bootstrap, ingestion)
    Maintainers,     \* processes that upsert or delete a source's points
    Readers,         \* queries that resolve the collection to search
    None,            \* Python's None
    MaxFaults,       \* bound: failed calls to Qdrant or PostgreSQL
    MaxCrashes,      \* bound: processes killed
    MaxLost,         \* bound: database sessions lost while they hold the fence
    MaxTroubles      \* bound: all of these together, see Troubles

Processes == Builders \cup Maintainers \cup Readers

ASSUME NoneIsFresh == None \notin Collections \cup Processes
ASSUME ProcessesDisjoint ==
    /\ Builders \cap Maintainers = {}
    /\ Builders \cap Readers = {}
    /\ Maintainers \cap Readers = {}
ASSUME BoundsAreNat ==
    MaxFaults \in Nat /\ MaxCrashes \in Nat /\ MaxLost \in Nat /\ MaxTroubles \in Nat

VARIABLES
    audit,      \* committed status of each publication row
    alias,      \* the collection the Qdrant alias names
    store,      \* what Qdrant holds under each collection name
    lock,       \* the process that holds the advisory lock of the alias
    session,    \* state of each process's fence session
    pc,         \* the next call of each process
    task,       \* what each process is doing
    coll,       \* local: the collection it builds, maintains or searches
    live,       \* local: what its last look at the alias returned
    prev,       \* local: fence_state.previous_alias
    prevPub,    \* local: fence_state.previous_publication_id
    attempt,    \* local: attempts of _restore_alias
    tries,      \* local: attempts of _recover_fence_exit_failure
    faults, crashes, lost   \* failed calls, kills, lost sessions so far

stores == <<audit, alias, store>>
fence == <<lock, session>>
targets == <<task, coll>>
previous == <<prev, prevPub>>
loops == <<attempt, tries>>
local == <<targets, live, previous, loops>>
budget == <<faults, crashes, lost>>
vars == <<stores, fence, pc, local, budget>>

Opt == Collections \cup {None}

Status == {"none", "building", "validated", "active", "retired", "failed"}

\* "pending": the activation sits in a savepoint of the fence session;
\* "recovered": recover_publication_activation has run in it.
SessionState == {"none", "open", "pending", "recovered", "lost"}

BuilderPC ==
    {"bootAlias", "acquire", "reconcile", "reconcileAudit", "resolvePrev",
     "create", "fill", "validate", "markValidated", "switch", "markActive",
     "verify", "commit", "restoreRead", "restoreWrite", "restoreVerify",
     "cleanCheck", "cleanDelete", "rollback", "markFailed", "recAcquire",
     "recLive", "recDecide", "recAudit", "recExit", "cleanAcquire",
     "cleanRelease"}
MaintainerPC == {"mFirst", "mSecond", "mWrite", "mRequire", "mFinalize"}
ReaderPC == {"rAlias", "rSearch"}

\* The steps a builder takes inside a `with alias_publication_lock` block.
FencedPC ==
    BuilderPC \ {"bootAlias", "acquire", "markFailed", "recAcquire",
                 "cleanAcquire"}

\* "build" leaves the alias alone, "activate" and "bootstrap" switch it.
Task == {"none", "build", "activate", "bootstrap", "upsert", "delete", "query"}

\* active_publication: the committed row with status active.
Active == IF \E c \in Collections : audit[c] = "active"
          THEN CHOOSE c \in Collections : audit[c] = "active"
          ELSE None

-----------------------------------------------------------------------------
Init ==
    /\ audit = [c \in Collections |-> "none"]
    /\ alias = None
    /\ store = [c \in Collections |-> "absent"]
    /\ lock = None
    /\ session = [p \in Processes |-> "none"]
    /\ pc = [p \in Processes |-> "idle"]
    /\ task = [p \in Processes |-> "none"]
    /\ coll = [p \in Processes |-> None]
    /\ live = [p \in Processes |-> None]
    /\ prev = [p \in Processes |-> None]
    /\ prevPub = [p \in Processes |-> None]
    /\ attempt = [p \in Processes |-> 1]
    /\ tries = [p \in Processes |-> 0]
    /\ faults = 0 /\ crashes = 0 /\ lost = 0

Goto(p, label) == pc' = [pc EXCEPT ![p] = label]
Look(p, seen) == live' = [live EXCEPT ![p] = seen]
Finish(p) ==
    /\ Goto(p, "idle")
    /\ task' = [task EXCEPT ![p] = "none"]
    /\ coll' = [coll EXCEPT ![p] = None]
    /\ Look(p, None)
    /\ prev' = [prev EXCEPT ![p] = None]
    /\ prevPub' = [prevPub EXCEPT ![p] = None]
    /\ attempt' = [attempt EXCEPT ![p] = 1]
    /\ tries' = [tries EXCEPT ![p] = 0]
Sound == UNCHANGED budget
\* A lost session counts twice: a later statement of it fails as well.
Troubles == faults + crashes + 2 * lost
Fault ==
    /\ faults < MaxFaults /\ Troubles < MaxTroubles
    /\ faults' = faults + 1
    /\ UNCHANGED <<crashes, lost>>

\* Enter and leave the `with alias_publication_lock` block.
Enter(p) ==
    /\ lock = None
    /\ lock' = p
    /\ session' = [session EXCEPT ![p] = "open"]
LeaveHolding(p) ==      \* mutant: the transaction is left open
    /\ session' = [session EXCEPT ![p] = "none"]
    /\ UNCHANGED lock
Leave(p) ==
    /\ lock' = IF lock = p THEN None ELSE lock
    /\ session' = [session EXCEPT ![p] = "none"]

\* A statement of the fence session that fails: the session is lost, or a
\* fault hits the statement.
FenceFails(p) == \/ session[p] = "lost" /\ Sound
                 \/ session[p] # "lost" /\ Fault

-----------------------------------------------------------------------------
(* create_publication and the fence.                                       *)

\* The row is inserted under a name no row has taken.
InsertRow(b, c, t) ==
    /\ audit[c] = "none"
    /\ audit' = [audit EXCEPT ![c] = "building"]
    /\ task' = [task EXCEPT ![b] = t]
    /\ coll' = [coll EXCEPT ![b] = c]
    /\ Goto(b, "acquire")

\* The index worker's `build` command, with or without --activate.
StartBuild(b) ==
    /\ pc[b] = "idle"
    /\ \E c \in Collections, t \in {"build", "activate"} : InsertRow(b, c, t)
    /\ Sound
    /\ UNCHANGED <<alias, store, fence, live, previous, loops>>

\* bootstrap_publisher looks at the audit, then at the alias, with no lock.
BootstrapReadAudit(b) ==
    /\ pc[b] = "idle"
    /\ Look(b, Active)
    /\ Goto(b, "bootAlias") /\ Sound
    /\ UNCHANGED <<stores, fence, targets, previous, loops>>

\* Something is published, the two disagree, or there are no chunks yet.
BootstrapSkipOrRaise(b) ==
    /\ pc[b] = "bootAlias"
    /\ Finish(b)
    /\ Sound
    /\ UNCHANGED <<stores, fence>>

\* Nothing is published: build_and_activate under a name neither the audit
\* nor Qdrant holds.
BootstrapBuild(b) ==
    /\ pc[b] = "bootAlias"
    /\ live[b] = None /\ alias = None
    /\ \E c \in Collections : store[c] = "absent" /\ InsertRow(b, c, "bootstrap")
    /\ Sound
    /\ UNCHANGED <<alias, store, fence, live, previous, loops>>

NotAcquired(b) == Goto(b, "markFailed") /\ UNCHANGED local

Acquire(b) ==
    /\ pc[b] = "acquire"
    /\ \/ Enter(b) /\ Goto(b, "reconcile") /\ Sound /\ UNCHANGED local
       \/ NotAcquired(b) /\ Fault /\ UNCHANGED fence
    /\ UNCHANGED stores

-----------------------------------------------------------------------------
(* _build_with_alias_fence.                                                *)

\* _reconcile_alias_audit: the alias first, then the audit; they must agree.
ReconcileAlias(b) ==
    /\ pc[b] = "reconcile"
    /\ \/ Look(b, alias) /\ Goto(b, "reconcileAudit") /\ Sound
       \/ Goto(b, "rollback") /\ Fault /\ UNCHANGED live
    /\ UNCHANGED <<stores, fence, targets, previous, loops>>

ReconcileAudit(b) ==
    /\ pc[b] = "reconcileAudit"
    /\ \/ /\ live[b] = Active
          /\ prevPub' = [prevPub EXCEPT ![b] = Active]
          /\ Goto(b, "resolvePrev") /\ Sound
       \/ live[b] # Active /\ Goto(b, "rollback") /\ Sound /\ UNCHANGED prevPub
       \/ Goto(b, "rollback") /\ Fault /\ UNCHANGED prevPub
    /\ UNCHANGED <<stores, fence, targets, live, prev, loops>>

ResolvePrevious(b) ==
    /\ pc[b] = "resolvePrev"
    /\ \/ prev' = [prev EXCEPT ![b] = alias] /\ Goto(b, "create") /\ Sound
       \/ Goto(b, "rollback") /\ Fault /\ UNCHANGED prev
    /\ UNCHANGED <<stores, fence, targets, live, prevPub, loops>>

CreateCollection(b) ==
    LET c == coll[b] IN
    /\ pc[b] = "create"
    /\ \/ /\ store[c] = "absent"
          /\ store' = [store EXCEPT ![c] = "partial"]
          /\ \/ Goto(b, "fill") /\ Sound
             \/ Goto(b, "cleanCheck") /\ Fault
       \/ store[c] # "absent" /\ Goto(b, "cleanCheck") /\ Sound /\ UNCHANGED store
       \/ Goto(b, "cleanCheck") /\ Fault /\ UNCHANGED store
    /\ UNCHANGED <<audit, alias, fence, local>>

\* The upsert batches: every point, or some points missing, or an error.
FillCollection(b) ==
    LET c == coll[b] IN
    /\ pc[b] = "fill"
    /\ \/ /\ store[c] # "absent"
          /\ store' = [store EXCEPT ![c] = "complete"]
          /\ Goto(b, "validate") /\ Sound
       \/ store[c] # "absent" /\ Goto(b, "validate") /\ Fault /\ UNCHANGED store
       \/ store[c] = "absent" /\ Goto(b, "cleanCheck") /\ Sound /\ UNCHANGED store
       \/ Goto(b, "cleanCheck") /\ Fault /\ UNCHANGED store
    /\ UNCHANGED <<audit, alias, fence, local>>

\* The point count, then the probes.
CountSkipped(b) == store[coll[b]] # "absent"    \* mutant: any count will do
CountMatches(b) == store[coll[b]] = "complete"
ValidateCollection(b) ==
    /\ pc[b] = "validate"
    /\ \/ CountMatches(b) /\ Goto(b, "markValidated") /\ Sound
       \/ ~CountMatches(b) /\ Goto(b, "cleanCheck") /\ Sound
       \/ Goto(b, "cleanCheck") /\ Fault
    /\ UNCHANGED <<stores, fence, local>>

Activates(b) == task[b] # "build"

\* A transaction of its own, committed at once.
MarkValidated(b) ==
    LET c == coll[b] IN
    /\ pc[b] = "markValidated"
    /\ \/ /\ audit[c] = "building"
          /\ audit' = [audit EXCEPT ![c] = "validated"]
          /\ \/ Goto(b, IF Activates(b) THEN "switch" ELSE "commit") /\ Sound
             \/ Goto(b, "cleanCheck") /\ Fault
       \/ Goto(b, "cleanCheck") /\ Fault /\ UNCHANGED audit
    /\ UNCHANGED <<alias, store, fence, local>>

\* activate_alias in Qdrant, which refuses a collection it does not hold.
PointAlias(c) == store[c] # "absent" /\ alias' = c

SwitchAlias(b) ==
    LET c == coll[b] IN
    /\ pc[b] = "switch"
    /\ \/ PointAlias(c) /\ Goto(b, "markActive") /\ Sound
       \/ PointAlias(c) /\ Goto(b, "restoreRead") /\ Fault
       \/ store[c] = "absent" /\ Goto(b, "restoreRead") /\ Sound /\ UNCHANGED alias
       \/ Goto(b, "restoreRead") /\ Fault /\ UNCHANGED alias
    /\ UNCHANGED <<audit, store, fence, local>>

\* mark_publication_active writes in a savepoint of the fence session.
MarkActive(b) ==
    /\ pc[b] = "markActive"
    /\ \/ /\ session[b] = "open" /\ audit[coll[b]] = "validated"
          /\ session' = [session EXCEPT ![b] = "pending"]
          /\ Goto(b, "verify") /\ Sound
       \/ FenceFails(b) /\ Goto(b, "restoreRead") /\ UNCHANGED session
    /\ UNCHANGED <<stores, lock, local>>

\* _verify_activation reads the alias once more.
VerifyActivation(b) ==
    /\ pc[b] = "verify"
    /\ \/ alias = coll[b] /\ Goto(b, "commit") /\ Sound
       \/ alias # coll[b] /\ Goto(b, "restoreRead") /\ Sound
       \/ Goto(b, "restoreRead") /\ Fault
    /\ UNCHANGED <<stores, fence, local>>

\* What the fence transaction writes when it commits.
ActivatedAlone(c) == [audit EXCEPT ![c] = "active"]     \* mutant: none retired
Activated(c) ==
    [d \in Collections |->
        IF d = c THEN "active"
        ELSE IF audit[d] = "active" THEN "retired" ELSE audit[d]]
Recovered(c, p) ==
    [d \in Collections |->
        IF d = c THEN "failed" ELSE IF d = p THEN "active" ELSE audit[d]]
Committed(b) ==
    IF session[b] = "pending" THEN Activated(coll[b])
    ELSE IF session[b] = "recovered" THEN Recovered(coll[b], prevPub[b])
    ELSE audit

\* The end of the `with` block.  A commit that raises may have been applied.
CommitFence(b) ==
    /\ pc[b] = "commit"
    /\ Leave(b)
    /\ \/ /\ session[b] # "lost"
          /\ audit' = Committed(b)
          /\ Finish(b) /\ Sound
       \/ /\ \/ FenceFails(b) /\ UNCHANGED audit
             \/ session[b] # "lost" /\ Fault /\ audit' = Committed(b)
          /\ IF Activates(b)
             THEN /\ Goto(b, "recAcquire")
                  /\ attempt' = [attempt EXCEPT ![b] = 1]
                  /\ tries' = [tries EXCEPT ![b] = 1]
                  /\ UNCHANGED <<targets, live, previous>>
             ELSE Goto(b, "markFailed") /\ UNCHANGED local
    /\ UNCHANGED <<alias, store>>

-----------------------------------------------------------------------------
(* _restore_alias, used by a failed build and by the recovery.             *)

Recovering(b) == tries[b] > 0
Restored(b) == Goto(b, IF Recovering(b) THEN "recAudit" ELSE "cleanCheck")
                 /\ UNCHANGED local
NotRestored(b) == Goto(b, IF Recovering(b) THEN "recExit" ELSE "cleanCheck")
                    /\ UNCHANGED local

RestoreRead(b) ==
    /\ pc[b] = "restoreRead"
    /\ \/ alias = prev[b] /\ Restored(b) /\ Sound
       \/ alias \notin {prev[b], coll[b]} /\ NotRestored(b) /\ Sound
       \/ /\ alias = coll[b] /\ alias # prev[b]
          /\ Goto(b, "restoreWrite") /\ Sound /\ UNCHANGED local
       \/ Goto(b, "restoreVerify") /\ Fault /\ UNCHANGED local
    /\ UNCHANGED <<stores, fence>>

\* Point the alias back, or remove it when there was none.
RestoreWrite(b) ==
    LET p == prev[b] IN
    /\ pc[b] = "restoreWrite"
    /\ Goto(b, "restoreVerify")
    /\ \/ /\ IF p = None THEN alias' = None ELSE PointAlias(p)
          /\ Sound \/ Fault
       \/ p # None /\ store[p] = "absent" /\ Sound /\ UNCHANGED alias
       \/ Fault /\ UNCHANGED alias
    /\ UNCHANGED <<audit, store, fence, local>>

RestoreOnce(b) == NotRestored(b)       \* mutant: one attempt only
RestoreAgain(b) ==
    IF attempt[b] = 1
    THEN /\ Goto(b, "restoreRead")
         /\ attempt' = [attempt EXCEPT ![b] = 2]
         /\ UNCHANGED <<targets, live, previous, tries>>
    ELSE NotRestored(b)

RestoreVerify(b) ==
    /\ pc[b] = "restoreVerify"
    /\ \/ alias = prev[b] /\ Restored(b) /\ Sound
       \/ alias # prev[b] /\ RestoreAgain(b) /\ Sound
       \/ RestoreAgain(b) /\ Fault
    /\ UNCHANGED <<stores, fence>>

-----------------------------------------------------------------------------
(* _delete_if_unreferenced_by_alias_or_active_audit and the failed mark.   *)

AfterCleanup(b) == Goto(b, IF Recovering(b) THEN "cleanRelease" ELSE "rollback")

ReferencedByAlias(c) == alias = c       \* mutant: the audit is not consulted
Referenced(c) == Active = c \/ alias = c

\* mark_publication_failed(fence) drops the savepoint; its own write is rolled
\* back with the fence.  Then the snapshot of the audit and the alias are read.
CleanupCheck(b) ==
    LET c == coll[b] IN
    /\ pc[b] = "cleanCheck"
    /\ session' = [session EXCEPT ![b] = IF @ = "pending" THEN "open" ELSE @]
    /\ \/ /\ session[b] # "lost" /\ Sound
          /\ IF Referenced(c)
             THEN AfterCleanup(b) ELSE Goto(b, "cleanDelete")
       \/ FenceFails(b) /\ AfterCleanup(b)
    /\ UNCHANGED <<stores, lock, local>>

CleanupDelete(b) ==
    LET c == coll[b] IN
    /\ pc[b] = "cleanDelete"
    /\ AfterCleanup(b)
    /\ \/ store' = [store EXCEPT ![c] = "absent"] /\ (Sound \/ Fault)
       \/ Fault /\ UNCHANGED store
    /\ UNCHANGED <<audit, alias, fence, local>>

\* The build raises: the fence transaction is rolled back.
RollbackFence(b) ==
    /\ pc[b] = "rollback"
    /\ Leave(b)
    /\ Goto(b, "markFailed") /\ Sound
    /\ UNCHANGED <<stores, local>>

\* build() marks the row failed in a transaction of its own.
MarkFailed(b) ==
    LET c == coll[b] IN
    /\ pc[b] = "markFailed"
    /\ Finish(b)
    /\ \/ /\ audit[c] \in {"building", "validated"}
          /\ audit' = [audit EXCEPT ![c] = "failed"] /\ (Sound \/ Fault)
       \/ audit[c] \notin {"building", "validated"} /\ Sound /\ UNCHANGED audit
       \/ Fault /\ UNCHANGED audit
    /\ UNCHANGED <<alias, store, fence>>

-----------------------------------------------------------------------------
(* _recover_fence_exit_failure: the commit raised; find out what happened. *)

\* The recovery loop makes two attempts.
RecoverAgain(b) ==
    IF tries[b] < 2
    THEN /\ Goto(b, "recAcquire")
         /\ attempt' = [attempt EXCEPT ![b] = 1]
         /\ tries' = [tries EXCEPT ![b] = 2]
         /\ UNCHANGED <<targets, live, previous>>
    ELSE Finish(b)

RecoverAcquire(b) ==
    /\ pc[b] = "recAcquire"
    /\ \/ Enter(b) /\ Goto(b, "recLive") /\ Sound /\ UNCHANGED local
       \/ RecoverAgain(b) /\ Fault /\ UNCHANGED fence
    /\ UNCHANGED stores

RecoverReadAlias(b) ==
    /\ pc[b] = "recLive"
    /\ \/ /\ Look(b, alias) /\ Goto(b, "recDecide") /\ Sound
          /\ UNCHANGED <<fence, targets, previous, loops>>
       \/ Leave(b) /\ RecoverAgain(b) /\ Fault
    /\ UNCHANGED stores

NeverCommitted(b) == FALSE      \* mutant: an ambiguous commit is always undone
CommittedAfterAll(b) == live[b] = coll[b] /\ Active = coll[b]

\* publication_recovery_state, then one of: committed after all (return),
\* restore the alias, give up because another generation is live, or undo the
\* audit half.
RecoverDecide(b) ==
    /\ pc[b] = "recDecide"
    /\ \/ /\ session[b] # "lost" /\ Sound
          /\ IF CommittedAfterAll(b)
             THEN Finish(b) /\ Leave(b)
             ELSE /\ Goto(b, IF live[b] = coll[b] THEN "restoreRead"
                             ELSE IF live[b] = prev[b] THEN "recAudit"
                             ELSE "recExit")
                  /\ UNCHANGED <<fence, local>>
       \/ FenceFails(b) /\ Leave(b) /\ RecoverAgain(b)
    /\ UNCHANGED stores

\* recover_publication_activation refuses a target or a previous row in the
\* wrong status and a newer active row.
Recoverable(b) ==
    LET c == coll[b]
        p == prevPub[b]
    IN /\ audit[c] \in {"validated", "active", "failed"}
       /\ p # None => audit[p] \in {"active", "retired"}
       /\ Active \in {None, c, p}

RecoverAudit(b) ==
    /\ pc[b] = "recAudit"
    /\ \/ /\ session[b] = "open" /\ Recoverable(b)
          /\ session' = [session EXCEPT ![b] = "recovered"] /\ Sound
       \/ session[b] = "open" /\ ~Recoverable(b) /\ Sound /\ UNCHANGED session
       \/ FenceFails(b) /\ UNCHANGED session
    /\ Goto(b, "recExit")
    /\ UNCHANGED <<stores, lock, local>>

RecoverExit(b) ==
    /\ pc[b] = "recExit"
    /\ Leave(b)
    /\ \/ /\ session[b] # "lost" /\ Sound
          /\ audit' = Committed(b)
          /\ Goto(b, "cleanAcquire") /\ UNCHANGED local
       \/ RecoverAgain(b) /\ FenceFails(b) /\ UNCHANGED audit
       \/ RecoverAgain(b) /\ session[b] # "lost" /\ Fault /\ audit' = Committed(b)
    /\ UNCHANGED <<alias, store>>

\* The cleanup of the recovery takes the lock a third time.
CleanupAcquire(b) ==
    /\ pc[b] = "cleanAcquire"
    /\ \/ Enter(b) /\ Goto(b, "cleanCheck") /\ Sound /\ UNCHANGED local
       \/ Finish(b) /\ Fault /\ UNCHANGED fence
    /\ UNCHANGED stores

CleanupRelease(b) ==
    /\ pc[b] = "cleanRelease"
    /\ Leave(b)
    /\ Finish(b) /\ Sound
    /\ UNCHANGED stores

-----------------------------------------------------------------------------
(* upsert_source and index_publication ("upsert"), delete_source           *)
(* ("delete"): under the fence, write the points of the live collection.   *)

MaintainStart(m) ==
    /\ pc[m] = "idle"
    /\ Enter(m)
    /\ \E t \in {"upsert", "delete"} : task' = [task EXCEPT ![m] = t]
    /\ Goto(m, "mFirst") /\ Sound
    /\ UNCHANGED <<stores, coll, live, previous, loops>>

\* _audited_live_publication reads the audit first, _destructive_publication
\* the alias first.
MaintainFirstRead(m) ==
    /\ pc[m] = "mFirst"
    /\ \/ /\ task[m] = "upsert"
          /\ coll' = [coll EXCEPT ![m] = Active] /\ UNCHANGED live
       \/ task[m] = "delete" /\ Look(m, alias) /\ UNCHANGED coll
    /\ Goto(m, "mSecond") /\ Sound
    /\ UNCHANGED <<stores, fence, task, previous, loops>>

SomePublication(c, l) == c # None       \* mutant: the alias is not compared
LivePublication(c, l) == c # None /\ c = l

\* Nothing published: a delete goes straight to its database half.
MaintainSecondRead(m) ==
    LET c == IF task[m] = "upsert" THEN coll[m] ELSE Active
        l == IF task[m] = "upsert" THEN alias ELSE live[m]
    IN
    /\ pc[m] = "mSecond"
    /\ \/ LivePublication(c, l) /\ Goto(m, "mWrite")
       \/ task[m] = "delete" /\ c = None /\ l = None /\ Goto(m, "mFinalize")
    /\ coll' = [coll EXCEPT ![m] = c]
    /\ Look(m, None)
    /\ Sound
    /\ UNCHANGED <<stores, fence, task, previous, loops>>

MaintainWrite(m) ==
    /\ pc[m] = "mWrite"
    /\ store[coll[m]] # "absent"
    /\ Goto(m, "mRequire") /\ Sound
    /\ UNCHANGED <<stores, fence, local>>

\* _require_live_alias, before the database half is written.
MaintainRequire(m) ==
    /\ pc[m] = "mRequire"
    /\ alias = coll[m]
    /\ Goto(m, "mFinalize") /\ Sound
    /\ UNCHANGED <<stores, fence, local>>

MaintainFinalize(m) ==
    /\ pc[m] = "mFinalize"
    /\ Leave(m)
    /\ Finish(m) /\ Sound
    /\ UNCHANGED stores

\* Any of the calls above may raise, and the refused cases do.
MaintainRaise(m) ==
    /\ pc[m] # "idle"
    /\ Leave(m)
    /\ Finish(m) /\ Sound
    /\ UNCHANGED stores

-----------------------------------------------------------------------------
(* DynamicRetrievalScopeProvider.resolve and the search that follows.      *)

ReadAudit(r) ==
    /\ pc[r] = "idle"
    /\ task' = [task EXCEPT ![r] = "query"]
    /\ coll' = [coll EXCEPT ![r] = Active]
    /\ Goto(r, "rAlias") /\ Sound
    /\ UNCHANGED <<stores, fence, live, previous, loops>>

ReadAlias(r) ==
    /\ pc[r] = "rAlias"
    /\ IF coll[r] # None /\ alias = coll[r]
       THEN Goto(r, "rSearch") /\ UNCHANGED local
       ELSE Finish(r)
    /\ Sound
    /\ UNCHANGED <<stores, fence>>

Search(r) ==
    /\ pc[r] = "rSearch"
    /\ Finish(r) /\ Sound
    /\ UNCHANGED <<stores, fence>>

-----------------------------------------------------------------------------
(* The environment: a killed process, a database session that drops while  *)
(* its process goes on (PostgreSQL then frees the advisory lock).          *)

Crash(p) ==
    /\ pc[p] # "idle"
    /\ crashes < MaxCrashes /\ Troubles < MaxTroubles
    /\ crashes' = crashes + 1 /\ UNCHANGED <<faults, lost>>
    /\ Leave(p)
    /\ Finish(p)
    /\ UNCHANGED stores

LoseSession(p) ==
    /\ lock = p
    /\ lost < MaxLost /\ Troubles + 1 < MaxTroubles
    /\ lost' = lost + 1 /\ UNCHANGED <<faults, crashes>>
    /\ lock' = None
    /\ session' = [session EXCEPT ![p] = "lost"]
    /\ UNCHANGED <<stores, pc, local>>

-----------------------------------------------------------------------------
Build(b) ==
    \/ ReconcileAlias(b) \/ ReconcileAudit(b) \/ ResolvePrevious(b)
    \/ CreateCollection(b) \/ FillCollection(b) \/ ValidateCollection(b)
    \/ MarkValidated(b) \/ SwitchAlias(b) \/ MarkActive(b)
    \/ VerifyActivation(b) \/ CommitFence(b)
    \/ RestoreRead(b) \/ RestoreWrite(b) \/ RestoreVerify(b)
    \/ CleanupCheck(b) \/ CleanupDelete(b) \/ RollbackFence(b) \/ MarkFailed(b)
Recover(b) ==
    \/ RecoverReadAlias(b) \/ RecoverDecide(b) \/ RecoverAudit(b)
    \/ RecoverExit(b) \/ CleanupRelease(b)
TakeLock(b) == Acquire(b) \/ RecoverAcquire(b) \/ CleanupAcquire(b)
Start(b) == StartBuild(b) \/ BootstrapReadAudit(b)
Bootstrap(b) == BootstrapSkipOrRaise(b) \/ BootstrapBuild(b)
BuilderStep(b) == Build(b) \/ Recover(b) \/ Bootstrap(b)
MaintainStep(m) ==
    \/ MaintainFirstRead(m) \/ MaintainSecondRead(m) \/ MaintainWrite(m)
    \/ MaintainRequire(m) \/ MaintainFinalize(m) \/ MaintainRaise(m)
ReaderStep(r) == ReadAlias(r) \/ Search(r)

Next ==
    \/ \E b \in Builders : Start(b) \/ TakeLock(b) \/ BuilderStep(b)
    \/ \E m \in Maintainers : MaintainStart(m) \/ MaintainStep(m)
    \/ \E r \in Readers : ReadAudit(r) \/ ReaderStep(r)
    \/ \E p \in Processes : Crash(p) \/ LoseSession(p)

Spec == Init /\ [][Next]_vars

\* A live process takes its next step; PostgreSQL queues the waiters of an
\* advisory lock, so one that keeps waiting gets it.
Fairness ==
    /\ \A b \in Builders : WF_vars(BuilderStep(b)) /\ SF_vars(TakeLock(b))
    /\ \A m \in Maintainers : WF_vars(MaintainStep(m))
    /\ \A r \in Readers : WF_vars(ReaderStep(r))

FairSpec == Spec /\ Fairness
-----------------------------------------------------------------------------
(* Correctness.                                                            *)

\* Every variable stays in its type: the audit holds the statuses of
\* _PUBLICATION_TRANSITIONS, the alias names a collection or does not exist.
TypeOK ==
    /\ audit \in [Collections -> Status]
    /\ alias \in Opt
    /\ store \in [Collections -> {"absent", "partial", "complete"}]
    /\ lock \in Processes \cup {None}
    /\ session \in [Processes -> SessionState]
    /\ pc \in [Processes -> BuilderPC \cup MaintainerPC \cup ReaderPC \cup {"idle"}]
    /\ task \in [Processes -> Task]
    /\ coll \in [Processes -> Opt] /\ live \in [Processes -> Opt]
    /\ prev \in [Processes -> Opt] /\ prevPub \in [Processes -> Opt]
    /\ attempt \in [Processes -> 1..2] /\ tries \in [Processes -> 0..2]
    /\ faults \in 0..MaxFaults /\ crashes \in 0..MaxCrashes /\ lost \in 0..MaxLost

\* No sequence of failures leaves two active publications of one alias, also
\* when the lock is lost (what the partial unique index would otherwise reject).
OneActive ==
    \A c, d \in Collections : audit[c] = "active" /\ audit[d] = "active" => c = d

\* The active publication's collection exists and passed validation: builds,
\* roll-backs and clean-ups never leave the audit on a half-built or deleted one,
\* not even when the fence is lost and nothing else goes wrong (a lost fence and
\* two ambiguous commits together can do it).  As long as it is not lost, the
\* alias too only ever names a complete collection, ahead of the audit as well
\* as restored.
ServedComplete ==
    /\ \A c \in Collections : audit[c] = "active" => store[c] = "complete"
    /\ lost = 0 /\ alias # None => store[alias] = "complete"

\* No build or recovery is under way that may still touch alias or audit.
Settled ==
    /\ lock = None
    /\ \A b \in Builders : pc[b] \notin {"recAcquire", "cleanAcquire"}

\* Once the publisher is done, successfully or not, the alias and the audit
\* name the same generation: the restoration's two attempts and the recovery's
\* two attempts absorb any two failed calls.  (A publisher killed between the
\* two, or its session lost there, leaves them apart: see MaintenanceOnLive.)
AgreeWhenSettled == Settled /\ crashes = 0 /\ lost = 0 => alias = Active

\* Source maintenance writes points and its database half only while the audit
\* and the alias agree on the collection it writes to (nothing published:
\* both None).  After a crash between the two it must refuse.
MaintenanceOnLive ==
    lost = 0 => \A m \in Maintainers : pc[m] \in {"mWrite", "mRequire", "mFinalize"} =>
        coll[m] = Active /\ alias = Active

\* A query that resolved its collection with two unsynchronised reads never
\* searches one that is half built.
QueryNotPartial ==
    \A r \in Readers : pc[r] = "rSearch" => store[coll[r]] # "partial"

\* Nothing half built is served, by the audit, the alias or a query that is
\* under way.
ServedSound == TypeOK /\ ServedComplete /\ QueryNotPartial

\* A clean-up deletes neither the audited nor the aliased collection, and one
\* that was ever active only when its own builder is recovering from a commit
\* whose outcome it could not see (again as long as no session is lost: the
\* check and the deletion are two calls).
CleanupSpares ==
    [][lost = 0 => \A c \in Collections : store[c] # "absent" /\ store'[c] = "absent" =>
        /\ c # Active /\ c # alias
        /\ audit[c] = "retired" =>
             \E b \in Builders : coll[b] = c /\ Recovering(b)]_vars

\* Every build ends, whatever fails on the way: no recovery waits for a lock
\* that nobody gives back.
BuildFinishes == \A b \in Builders : pc[b] # "idle" ~> pc[b] = "idle"

\* After at most one failed call no publication row is left "building".
BuildingEnds ==
    \A c \in Collections : audit[c] = "building" ~> audit[c] # "building"

\* A publication comes to its end in its process and in the audit.
PublishingEnds == BuildFinishes /\ BuildingEnds

\* What queries are offered, as the abstract ServedIndex sees it.
Served == IF alias = Active THEN alias ELSE None
Abstract == INSTANCE ServedIndex WITH
    current <- Active,
    served <- Served,
    past <- {c \in Collections : audit[c] = "retired"},
    discarded <- {c \in Collections : audit[c] = "failed"}

\* The two stores and their reconciliation implement an atomic switch of
\* generations with an outage around it: queries get the current generation or
\* none, and a replaced or discarded generation is never served again.
RefinesServedIndex == Abstract!Spec
=============================================================================
