--------------------------- MODULE KnowledgeAnswers ---------------------------
(***************************************************************************)
(* What a question is answered from: a spreadsheet, a fact of a document   *)
(* or passages of documents.                                               *)
(*                                                                         *)
(*   backend/app/knowledge_router.py     the order of the answer services  *)
(*   backend/app/structured_answer.py    catalog, its snapshot, outcomes   *)
(*   backend/app/structured_repository.py    get_catalog                   *)
(*   backend/app/word_fact_answer.py     facts                             *)
(*                                                                         *)
(* Requests run in threads of their own.  The catalog is read in three     *)
(* statements of a READ COMMITTED transaction while schemas are confirmed, *)
(* publications switch and the source may be deleted.  One data set; its   *)
(* publication is known by its schema version.  What a question says is a  *)
(* record: whether it has the language of a query at all, whether that     *)
(* suffices without a catalog ("strong"), the schema versions whose names  *)
(* it holds, and what the parsers make of it.  StructuredQueries has what  *)
(* happens between an intent and its result, EvidenceAgent the documents.  *)
(***************************************************************************)
EXTENDS Naturals, FiniteSets

CONSTANTS
    Requests,
    Versions,   \* 1..n: schema versions, and their publications
    Questions,  \* what the requests may ask: request -> [talk, strong, names, parsed, fact]
    Matches,    \* what a look for a fact may find: sets of <<source, value>>
    Unsafe,     \* values that hold another key and value
    MaxChanges, \* bound: changes of the catalog
    None

VARIABLES
    latest,     \* PostgreSQL: newest confirmed schema version, 0 for none
    active,     \* ... schema version of the published publication, 0 for none
    alive,      \* ... whether the source exists
    changes,    \* how often these changed
    legacy,     \* which of the two routers is installed
    generation, \* counter of catalog requests
    newest,     \* generation of the catalog in the snapshot
    snapshot,   \* the last catalog installed
    pc, question,
    mine,       \* request: its generation
    seen,       \* request: newest schema version its first statement returned
    catalog,    \* request: the catalog it loaded
    reply,      \* request: what it is answered from
    \* history, for the properties
    installer,  \* request whose catalog the snapshot is
    installed,  \* requests whose catalog was ever the snapshot
    before,     \* request: those that had loaded their catalog when it began
    during,     \* request: publications that were active while it ran
    met         \* request: schemas of the catalogs known while it ran

database == <<latest, active, alive, changes>>
service == <<generation, newest, snapshot, installer, installed>>
local == <<pc, mine, seen, catalog, reply>>
vars == <<database, legacy, service, local, question, before, during, met>>

NoCatalog == [schema |-> 0, active |-> 0]

Init ==
    /\ latest \in Versions /\ active \in 0..latest /\ alive = TRUE
    /\ changes = 0
    /\ legacy \in BOOLEAN
    /\ generation = 0 /\ newest = 0 /\ snapshot = None
    /\ pc = [r \in Requests |-> "idle"]
    /\ question \in Questions
    /\ mine = [r \in Requests |-> 0]
    /\ seen = [r \in Requests |-> 0]
    /\ catalog = [r \in Requests |-> None]
    /\ reply = [r \in Requests |-> [kind |-> "none", cites |-> {}]]
    /\ installer = None /\ installed = {}
    /\ before = [r \in Requests |-> {}]
    /\ during = [r \in Requests |-> {}]
    /\ met = [r \in Requests |-> {}]

Goto(r, label) == pc' = [pc EXCEPT ![r] = label]
Cite(r, kind, cites) ==
    Goto(r, "done") /\ reply' = [reply EXCEPT ![r] = [kind |-> kind, cites |-> cites]]
Reply(r, kind) == Cite(r, kind, {})
Running(r) == pc[r] \notin {"idle", "done"}
SchemaOf(c) == IF c = None THEN None ELSE c.schema
Known(sets, c) == [r \in Requests |-> IF Running(r) THEN sets[r] \cup {SchemaOf(c)} ELSE sets[r]]

-----------------------------------------------------------------------------
(* The administrator and the workers                                       *)

Change == alive /\ changes < MaxChanges /\ changes' = changes + 1

ConfirmSchema ==
    /\ Change /\ latest + 1 \in Versions
    /\ latest' = latest + 1
    /\ UNCHANGED <<active, alive, legacy, service, local, question, before, during, met>>

Publish(v) ==
    /\ Change /\ v \in 1..latest /\ v # active
    /\ active' = v
    /\ during' = [r \in Requests |-> IF Running(r) THEN during[r] \cup {v} ELSE during[r]]
    /\ UNCHANGED <<latest, alive, legacy, service, local, question, before, met>>

DeleteSource ==
    /\ Change
    /\ alive' = FALSE /\ latest' = 0 /\ active' = 0
    /\ UNCHANGED <<legacy, service, local, question, before, during, met>>

-----------------------------------------------------------------------------
(* The catalog                                                             *)

\* _has_aggregate_language, _has_row_lookup_markers
Talks(r) == question[r].talk
\* _classify_without_catalog
SoundsStrong(r) == question[r].strong

\* try_answer up to the generation.  A question without the language of a
\* query does not load the catalog.
Begin(r) ==
    /\ pc[r] = "idle"
    /\ IF Talks(r)
       THEN /\ Goto(r, "records")
            /\ generation' = generation + 1
            /\ mine' = [mine EXCEPT ![r] = generation + 1]
       ELSE Goto(r, "router") /\ UNCHANGED <<generation, mine>>
    /\ before' = [before EXCEPT ![r] = {q \in Requests : catalog[q] # None}]
    /\ during' = [during EXCEPT ![r] = {active}]
    /\ met' = [met EXCEPT ![r] = {SchemaOf(snapshot)}]
    /\ UNCHANGED <<database, legacy, newest, snapshot, installer, installed, seen, catalog, reply,
                   question>>

ReadRecords(r) ==
    /\ pc[r] = "records"
    /\ seen' = [seen EXCEPT ![r] = latest]
    /\ Goto(r, "publications")
    /\ UNCHANGED <<database, legacy, service, mine, catalog, reply, question, before, during, met>>

AnySchema(r, v) == [schema |-> seen[r], active |-> v]    \* mutant: versions are not compared
\* The schema of the active publication if the first statement returned it,
\* else the newest schema, as not published.
Entry(r, v) ==
    IF v \in 1..seen[r] THEN [schema |-> v, active |-> v]
    ELSE [schema |-> seen[r], active |-> 0]

ReadPublications(r) ==
    /\ pc[r] = "publications"
    /\ catalog' = [catalog EXCEPT ![r] = Entry(r, active)]
    /\ Goto(r, "sources")
    /\ UNCHANGED <<database, legacy, service, mine, seen, reply, question, before, during, met>>

ReadSources(r) ==
    /\ pc[r] = "sources"
    /\ catalog' = [catalog EXCEPT ![r] = IF alive THEN @ ELSE NoCatalog]
    /\ Goto(r, "install")
    /\ UNCHANGED <<database, legacy, service, mine, seen, reply, question, before, during, met>>

CatalogFails(r) ==
    /\ pc[r] \in {"records", "publications", "sources"}
    /\ catalog' = [catalog EXCEPT ![r] = None]
    /\ Goto(r, "outage")
    /\ UNCHANGED <<database, legacy, service, mine, seen, reply, question, before, during, met>>

-----------------------------------------------------------------------------
(* StructuredAnswerService                                                 *)

\* is_structured_candidate
IsCandidate(r, c) == Talks(r) /\ c.schema \in question[r].names

MayInstall(r) == mine[r] >= newest

\* _replace_catalog_snapshot, then what the question means under the catalog
Install(r) ==
    LET c == catalog[r] IN
    /\ pc[r] = "install"
    /\ IF MayInstall(r)
       THEN /\ snapshot' = c /\ newest' = mine[r]
            /\ installer' = r /\ installed' = installed \cup {r}
       ELSE UNCHANGED <<snapshot, newest, installer, installed>>
    /\ met' = Known([met EXCEPT ![r] = @ \cup {c.schema}], snapshot')
    /\ \/ ~IsCandidate(r, c) /\ Goto(r, "router") /\ UNCHANGED reply
       \/ /\ IsCandidate(r, c)
          /\ \/ question[r].parsed = "clarification" /\ Reply(r, "clarification")
             \/ question[r].parsed = "unavailable" /\ Reply(r, "unavailable")
             \/ /\ question[r].parsed = "intent"
                /\ IF c.active = 0
                   THEN Reply(r, "unavailable")    \* no active publication
                   ELSE \/ Goto(r, "query") /\ UNCHANGED reply
                        \/ Reply(r, "unavailable")    \* the plan is rejected
    /\ UNCHANGED <<database, legacy, generation, mine, seen, catalog, question, before, during>>

\* ClickHouse answers from the publication's table, or does not answer.
QueryTable(r) ==
    /\ pc[r] = "query"
    /\ \/ Reply(r, "result")
       \/ Reply(r, "unavailable")
    /\ UNCHANGED <<database, legacy, service, mine, seen, catalog, question, before, during, met>>

\* Without a catalog the question is refused if the snapshot, or its wording
\* when there is none, says that it is about a spreadsheet.
Refused(r) == IF snapshot # None THEN IsCandidate(r, snapshot) ELSE SoundsStrong(r)
Outage(r) ==
    /\ pc[r] = "outage"
    /\ IF Refused(r) THEN Reply(r, "unavailable") ELSE Goto(r, "router") /\ UNCHANGED reply
    /\ UNCHANGED <<database, legacy, service, mine, seen, catalog, question, before, during, met>>

-----------------------------------------------------------------------------
(* KnowledgeAnswerRouter                                                   *)

\* A question about a spreadsheet ends here.  The legacy router asks the
\* documents at once.
Consult(r) ==
    /\ pc[r] = "router"
    /\ IF legacy THEN Goto(r, "documents") /\ UNCHANGED reply
       ELSE IF snapshot # None /\ IsCandidate(r, snapshot) THEN Reply(r, "clarification")
       ELSE Goto(r, "facts") /\ UNCHANGED reply
    /\ UNCHANGED <<database, legacy, service, mine, seen, catalog, question, before, during, met>>

(* WordFactAnswerService; a match is a source and a value *)
SourcesOf(matches) == {x[1] : x \in matches}
ValuesOf(matches) == {x[2] : x \in matches}
FactAnswer(matches) ==
    IF matches = {} THEN "missing"
    ELSE IF Cardinality(SourcesOf(matches)) # 1 THEN "ambiguous"
    ELSE IF Cardinality(ValuesOf(matches)) # 1 THEN "conflicting"
    ELSE "exact"

\* build_word_fact_run: an answer that does not validate is replaced, and
\* cites nothing.
SafeAnswer(r, matches) ==
    IF ValuesOf(matches) \cap Unsafe # {} THEN Cite(r, "unsafe", {})
    ELSE Cite(r, FactAnswer(matches), matches)

\* resolve_word_factual_intent: no fact, several of them, or one
AskedFor(r) == question[r].fact
Facts(r) ==
    /\ pc[r] = "facts"
    /\ \/ AskedFor(r) = "none" /\ Goto(r, "documents") /\ UNCHANGED reply
       \/ AskedFor(r) = "clarification" /\ Reply(r, "clarification")
       \/ AskedFor(r) = "one" /\ Reply(r, "unavailable")    \* the repository fails
       \/ /\ AskedFor(r) = "one"
          /\ \E matches \in Matches : SafeAnswer(r, matches)
    /\ UNCHANGED <<database, legacy, service, mine, seen, catalog, question, before, during, met>>

Documents(r) ==
    /\ pc[r] = "documents"
    /\ Reply(r, "documents")
    /\ UNCHANGED <<database, legacy, service, mine, seen, catalog, question, before, during, met>>

-----------------------------------------------------------------------------

Load(r) == ReadRecords(r) \/ ReadPublications(r) \/ ReadSources(r) \/ CatalogFails(r)
Serve(r) == Install(r) \/ QueryTable(r) \/ Outage(r) \/ Consult(r) \/ Facts(r) \/ Documents(r)
Work(r) == Load(r) \/ Serve(r)
Next ==
    \/ ConfirmSchema \/ DeleteSource \/ \E v \in Versions : Publish(v)
    \/ \E r \in Requests : Begin(r) \/ Work(r)

-----------------------------------------------------------------------------
(* Properties                                                              *)

Answered(r) == pc[r] = "done"
FactKinds == {"missing", "ambiguous", "conflicting", "exact", "unsafe"}

\* A number or a row comes from the table of one publication, read with the
\* schema that publication was built from, and the publication was active at
\* some moment of the request, although the catalog was read in three
\* statements (get_catalog, try_answer).
OnePublication ==
    \A r \in Requests : pc[r] = "query" \/ reply[r].kind = "result" =>
        /\ catalog[r].schema = catalog[r].active
        /\ catalog[r].active \in during[r]

\* A catalog never replaces one whose request began after it had been loaded,
\* however slow the request that installs it is (_replace_catalog_snapshot).
\* Only requests that overlap may leave the older of their two catalogs.
SnapshotNotStale == \A r \in installed : installer \notin before[r]

\* With the language of a query, a question is answered from documents or
\* facts only if some catalog known during the request did not name its
\* columns, or no catalog was known and its wording is not that of a query:
\* an outage of the database does not turn a question about a spreadsheet
\* into one about documents (try_answer, KnowledgeAnswerRouter.answer).
StaysStructured ==
    \A r \in Requests :
        reply[r].kind \in FactKinds \cup {"documents"} /\ question[r].talk =>
            \E s \in met[r] :
                IF s = None THEN ~question[r].strong ELSE s \notin question[r].names

\* A value is stated only if one source states the fact and states it once,
\* and what the answer cites are the matches it was made from (answer_word_fact).
FactsSound ==
    \A r \in Requests : reply[r].kind = "exact" =>
        Cardinality(reply[r].cites) = 1 /\ ValuesOf(reply[r].cites) \cap Unsafe = {}

AnswersConsistent == OnePublication /\ SnapshotNotStale /\ StaysStructured /\ FactsSound

\* Every request is answered (the threads of the server are scheduled).
Quiet == \A r \in Requests : ~Running(r)
=============================================================================
