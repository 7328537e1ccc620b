----------------------------- MODULE Embeddings -----------------------------
(***************************************************************************)
(* The schema cache and the metadata of one connection, and the vectors of *)
(* their rows: POST /introspect, which replaces the cached tables and      *)
(* starts a background job that embeds what has no vector; the glossary,   *)
(* metrics, sample queries and knowledge endpoints, which embed inline;    *)
(* the progress record the jobs share; a restart of the server.            *)
(*                                                                         *)
(* Transactions are those of PostgreSQL at READ COMMITTED: a statement     *)
(* reads committed rows, a write waits for the lock of another             *)
(* transaction on its row, and the server aborts one of a cycle of waits.  *)
(***************************************************************************)
EXTENDS Naturals, FiniteSets

CONSTANTS Introspection, \* the requests POST /introspect, numbered by arrival
          Table,         \* the tables an introspection finds
          Term,          \* ids of authored rows (of one kind, a glossary term)
          MaxRestarts,   \* restarts of the server (a bound)
          NoTask

\* Rows of cached_tables, each with its columns; every introspection inserts
\* new ones.
Tables == Introspection \X Table
Row == Tables \union Term

\* The request i and the job it launches.
Request(i) == <<"introspect", i>>
Job(i) == <<"embed", i>>
Task == {"introspect", "embed"} \X Introspection

ASSUME EmbeddingsAssumption ==
    /\ Introspection \subseteq Nat
    /\ Term \intersect Tables = {}
    /\ IsFiniteSet(Row)
    /\ MaxRestarts \in Nat
    /\ NoTask \notin Task

VARIABLES
    rows,     \* committed rows
    embedded, \* those with a vector
    used,     \* ids of authored rows given out
    pc,       \* where each task is
    todo,     \* what a request has yet to delete, a job to embed
    pending,  \* vectors a job has computed and not written
    held,     \* rows a transaction has written, and so locked
    counted,  \* ghost: introspections whose job counted after they had committed,
              \* and has not failed
    progress, \* _progress of the connection
    restarts,
    quiet     \* the task during which nobody else has done anything, or NoTask

vars == <<rows, embedded, used, pc, todo, pending, held, counted, progress, restarts, quiet>>

RequestPhase == {"idle", "delete", "launched", "done", "failed"}
JobPhase == {"idle", "count", "select", "tables", "terms", "committed",
             "raised", "ended", "failed", "lost"}
Status == {"none", "running", "completed", "failed"}

NoProgress == [status |-> "none", total |-> 0, completed |-> 0]

TypeOK ==
    /\ rows \subseteq Row
    /\ embedded \subseteq rows
    /\ used \subseteq Term
    /\ pc \in [Task -> RequestPhase \union JobPhase]
    /\ \A i \in Introspection : pc[Request(i)] \in RequestPhase /\ pc[Job(i)] \in JobPhase
    /\ todo \in [Task -> SUBSET Row]
    /\ pending \in [Introspection -> SUBSET Row]
    /\ held \in [Task -> SUBSET Row]
    /\ counted \subseteq Introspection
    /\ progress \in [status : Status, total : Nat, completed : Nat]
    /\ restarts \in 0 .. MaxRestarts
    /\ quiet \in Task \union {NoTask}

\* Some authored rows are there, with or without a vector.
Init ==
    /\ rows \in SUBSET Term
    /\ embedded \in SUBSET rows
    /\ used = rows
    /\ pc = [u \in Task |-> "idle"]
    /\ todo = [u \in Task |-> {}]
    /\ pending = [i \in Introspection |-> {}]
    /\ held = [u \in Task |-> {}]
    /\ counted = {}
    /\ progress = NoProgress
    /\ restarts = 0
    /\ quiet = NoTask

-----------------------------------------------------------------------------
Active(u) == pc[u] \notin {"idle", "done", "ended", "failed", "lost"}

LockedByOther(u, r) == \E v \in Task \ {u} : r \in held[v]

\* The rows whose vectors the next statement of the job writes: the session
\* flushes a table before it selects its columns, terms all at the end.
Flushing(i) ==
    IF pc[Job(i)] = "tables" \/ (pc[Job(i)] = "terms" /\ todo[Job(i)] = {})
    THEN pending[i] ELSE {}

\* The rows a task must lock to go on.
Wants(u) == IF u[1] = "introspect" THEN todo[u] ELSE Flushing(u[2])

Waits(u) == Wants(u) # {} /\ \A r \in Wants(u) : LockedByOther(u, r)
WaitsFor(u, v) == \E r \in Wants(u) : r \in held[v]

\* u waits for a lock among tasks that only wait for one another.
Deadlocked(u) ==
    /\ Waits(u)
    /\ \E C \in SUBSET {v \in Task : Waits(v)} :
        /\ u \in C
        /\ \A v \in C :
            /\ \A w \in Task \ {v} : WaitsFor(v, w) => w \in C
            /\ \E w \in C \ {v} : WaitsFor(w, v)

\* A task that starts when no other runs is alone until something else happens.
QuietFrom(u) == IF \E v \in Task \ {u} : Active(v) THEN NoTask ELSE u

\* The transaction of u is rolled back.  A request is over then, a job has
\* its failure still to report.
Raise(u) ==
    /\ pc' = [pc EXCEPT ![u] = IF u[1] = "introspect" THEN "failed" ELSE "raised"]
    /\ todo' = [todo EXCEPT ![u] = {}]
    /\ held' = [held EXCEPT ![u] = {}]
    /\ pending' = IF u[1] = "embed" THEN [pending EXCEPT ![u[2]] = {}] ELSE pending
    /\ counted' = IF u[1] = "embed" THEN counted \ {u[2]} ELSE counted
    /\ UNCHANGED <<rows, embedded, used, progress, restarts, quiet>>

-----------------------------------------------------------------------------
\* Mutant of BeginDelete: the old tables are not cleared.
BeginInsert(i) ==
    LET u == Request(i)
    IN /\ pc[u] = "idle"
       /\ \A k \in Introspection : k < i => pc[Request(k)] # "idle"
       /\ pc' = [pc EXCEPT ![u] = "delete"]
       /\ quiet' = QuietFrom(u)
       /\ UNCHANGED <<rows, embedded, used, todo, pending, held, counted, progress, restarts>>

\* The request, up to its DELETE: it sees the tables committed by now.
BeginDelete(i) ==
    LET u == Request(i)
    IN /\ pc[u] = "idle"
       /\ \A k \in Introspection : k < i => pc[Request(k)] # "idle"
       /\ pc' = [pc EXCEPT ![u] = "delete"]
       /\ todo' = [todo EXCEPT ![u] = rows \intersect Tables]
       /\ quiet' = QuietFrom(u)
       /\ UNCHANGED <<rows, embedded, used, pending, held, counted, progress, restarts>>

\* Mutant of DeleteRow: it is committed at once.
DeleteAndCommit(i) ==
    LET u == Request(i)
    IN /\ pc[u] = "delete"
       /\ \E r \in todo[u] :
             /\ ~ LockedByOther(u, r)
             /\ todo' = [todo EXCEPT ![u] = @ \ {r}]
             /\ rows' = rows \ {r}
             /\ embedded' = embedded \ {r}
       /\ UNCHANGED <<used, pc, pending, held, counted, progress, restarts, quiet>>

\* The DELETE gets to a row: it waits for its lock, and skips it if the other
\* transaction has deleted it.
DeleteRow(i) ==
    LET u == Request(i)
    IN /\ pc[u] = "delete"
       /\ \E r \in todo[u] :
             /\ ~ LockedByOther(u, r)
             /\ todo' = [todo EXCEPT ![u] = @ \ {r}]
             /\ held' = [held EXCEPT ![u] = @ \union ({r} \intersect rows)]
       /\ UNCHANGED <<rows, embedded, used, pc, pending, counted, progress, restarts, quiet>>

\* The schema is read and inserted, the last flush writes the connection's row
\* (and waits for another request that has), and the handler starts the job.
Launch(i) ==
    /\ pc[Request(i)] = "delete"
    /\ todo[Request(i)] = {}
    /\ \A k \in Introspection : pc[Request(k)] # "launched"
    /\ pc' = [pc EXCEPT ![Request(i)] = "launched", ![Job(i)] = "count"]
    /\ UNCHANGED <<rows, embedded, used, todo, pending, held, counted, progress, restarts, quiet>>

\* get_db commits: the new tables replace the ones deleted.
CommitIntrospection(i) ==
    LET u == Request(i)
    IN /\ pc[u] = "launched"
       /\ rows' = (rows \ held[u]) \union ({i} \X Table)
       /\ embedded' = embedded \ held[u]
       /\ held' = [held EXCEPT ![u] = {}]
       /\ pc' = [pc EXCEPT ![u] = "done"]
       /\ UNCHANGED <<used, todo, pending, counted, progress, restarts, quiet>>

\* The job counts what has no vector; with nothing to do it ends, without a
\* progress record of its own.
Count(i) ==
    LET u == Job(i)
        total == Cardinality(rows \ embedded)
    IN /\ pc[u] = "count"
       /\ \/ /\ total = 0
             /\ pc' = [pc EXCEPT ![u] = "ended"]
             /\ UNCHANGED progress
          \/ /\ total > 0
             /\ pc' = [pc EXCEPT ![u] = "select"]
             /\ progress' = [status |-> "running", total |-> total, completed |-> 0]
       /\ counted' = IF pc[Request(i)] = "done" THEN counted \union {i} ELSE counted
       /\ quiet' = QuietFrom(u)
       /\ UNCHANGED <<rows, embedded, used, todo, pending, held, restarts>>

\* Mutant of SelectTables: what another job is at is left to it.
SelectUnclaimed(i) ==
    LET u == Job(i)
        claimed == UNION {todo[Job(k)] \union pending[k] \union held[Job(k)] :
                             k \in Introspection \ {i}}
    IN /\ pc[u] = "select"
       /\ pc' = [pc EXCEPT ![u] = "tables"]
       /\ todo' = [todo EXCEPT ![u] = ((rows \ embedded) \intersect Tables) \ claimed]
       /\ UNCHANGED <<rows, embedded, used, pending, held, counted, progress, restarts, quiet>>

SelectTables(i) ==
    LET u == Job(i)
    IN /\ pc[u] = "select"
       /\ pc' = [pc EXCEPT ![u] = "tables"]
       /\ todo' = [todo EXCEPT ![u] = (rows \ embedded) \intersect Tables]
       /\ UNCHANGED <<rows, embedded, used, pending, held, counted, progress, restarts, quiet>>

\* The provider answers, for a table and its columns or for a term; the record
\* that is incremented is the one the connection has now.
Embed(i) ==
    LET u == Job(i)
    IN /\ pc[u] \in {"tables", "terms"}
       /\ Flushing(i) = {}
       /\ \E r \in todo[u] :
             /\ todo' = [todo EXCEPT ![u] = @ \ {r}]
             /\ pending' = [pending EXCEPT ![i] = @ \union {r}]
       /\ progress' = [progress EXCEPT !.completed = @ + 1]
       /\ UNCHANGED <<rows, embedded, used, pc, held, counted, restarts, quiet>>

\* Mutant of FlushRow: it neither waits nor fails.
FlushAnyRow(i) ==
    LET u == Job(i)
    IN /\ \E r \in Flushing(i) :
             /\ pending' = [pending EXCEPT ![i] = @ \ {r}]
             /\ held' = [held EXCEPT ![u] = @ \union {r}]
       /\ UNCHANGED <<rows, embedded, used, pc, todo, counted, progress, restarts, quiet>>

\* An UPDATE of the flush: it waits for the lock of the row.
FlushRow(i) ==
    LET u == Job(i)
    IN /\ \E r \in Flushing(i) \intersect rows :
             /\ ~ LockedByOther(u, r)
             /\ pending' = [pending EXCEPT ![i] = @ \ {r}]
             /\ held' = [held EXCEPT ![u] = @ \union {r}]
       /\ UNCHANGED <<rows, embedded, used, pc, todo, counted, progress, restarts, quiet>>

\* The row was deleted in the meantime: the UPDATE matches none, and the
\* session raises StaleDataError.
RowIsGone(i) ==
    /\ Flushing(i) \ rows # {}
    /\ Raise(Job(i))

\* Mutant of SelectTerms: a kind of row that is counted and not embedded.
SkipTerms(i) ==
    LET u == Job(i)
    IN /\ pc[u] = "tables"
       /\ todo[u] = {} /\ pending[i] = {}
       /\ pc' = [pc EXCEPT ![u] = "terms"]
       /\ UNCHANGED <<rows, embedded, used, todo, pending, held, counted, progress, restarts, quiet>>

SelectTerms(i) ==
    LET u == Job(i)
    IN /\ pc[u] = "tables"
       /\ todo[u] = {} /\ pending[i] = {}
       /\ pc' = [pc EXCEPT ![u] = "terms"]
       /\ todo' = [todo EXCEPT ![u] = (rows \ embedded) \intersect Term]
       /\ UNCHANGED <<rows, embedded, used, pending, held, counted, progress, restarts, quiet>>

CommitJob(i) ==
    LET u == Job(i)
    IN /\ pc[u] = "terms"
       /\ todo[u] = {} /\ pending[i] = {}
       /\ embedded' = embedded \union held[u]
       /\ held' = [held EXCEPT ![u] = {}]
       /\ pc' = [pc EXCEPT ![u] = "committed"]
       /\ UNCHANGED <<rows, used, todo, pending, counted, progress, restarts, quiet>>

\* Mutant of Report: no mark_failed.
ReportSuccess(i) ==
    LET u == Job(i)
        ok == pc[u] = "committed"
    IN /\ pc[u] \in {"committed", "raised"}
       /\ pc' = [pc EXCEPT ![u] = IF ok THEN "ended" ELSE "failed"]
       /\ progress' = IF progress.status = "none" \/ ~ ok THEN progress
                      ELSE [progress EXCEPT !.status = "completed"]
       /\ UNCHANGED <<rows, embedded, used, todo, pending, held, counted, restarts, quiet>>

\* mark_completed or mark_failed, of whatever record there is by now.
Report(i) ==
    LET u == Job(i)
        ok == pc[u] = "committed"
    IN /\ pc[u] \in {"committed", "raised"}
       /\ pc' = [pc EXCEPT ![u] = IF ok THEN "ended" ELSE "failed"]
       /\ progress' = IF progress.status = "none" THEN progress
                      ELSE [progress EXCEPT !.status = IF ok THEN "completed" ELSE "failed"]
       /\ UNCHANGED <<rows, embedded, used, todo, pending, held, counted, restarts, quiet>>

\* The rollback after a failure raises as well, the connection to the database
\* being gone: mark_failed is not reached, and nobody awaits the task.
RollbackFails(i) ==
    /\ pc[Job(i)] = "raised"
    /\ pc' = [pc EXCEPT ![Job(i)] = "lost"]
    /\ UNCHANGED <<rows, embedded, used, todo, pending, held, counted, progress, restarts, quiet>>

\* Mutant of DeadlockVictim: nobody gives way.
NoVictim(u) ==
    /\ Deadlocked(u)
    /\ UNCHANGED vars

\* PostgreSQL aborts the statement of a task in a cycle of waits.
DeadlockVictim(u) ==
    /\ Deadlocked(u)
    /\ Raise(u)

\* A provider or a database fails during the transaction of u.
Fail(u) ==
    /\ pc[u] \in {"delete", "launched", "count", "select", "tables", "terms"}
    /\ Raise(u)

-----------------------------------------------------------------------------
Unlocked(r) == \A u \in Task : r \notin held[u]

\* POST of a term, and the import of a document: a failing provider leaves the
\* row without a vector.
CreateTerm(r) ==
    /\ r \notin used
    /\ rows' = rows \union {r}
    /\ embedded' \in {embedded, embedded \union {r}}
    /\ used' = used \union {r}
    /\ quiet' = NoTask
    /\ UNCHANGED <<pc, todo, pending, held, counted, progress, restarts>>

\* PUT of a term with the values it has, which embeds it again.  One that
\* changes something is rolled back: its flush expires updated_at, which the
\* response then cannot read.
UpdateTerm(r) ==
    /\ r \in rows
    /\ Unlocked(r)
    /\ embedded' = embedded \union {r}
    /\ quiet' = NoTask
    /\ UNCHANGED <<rows, used, pc, todo, pending, held, counted, progress, restarts>>

DeleteTerm(r) ==
    /\ r \in rows
    /\ Unlocked(r)
    /\ rows' = rows \ {r}
    /\ embedded' = embedded \ {r}
    /\ quiet' = NoTask
    /\ UNCHANGED <<used, pc, todo, pending, held, counted, progress, restarts>>

\* The process ends and starts again: its tasks and its memory are gone, their
\* transactions rolled back, and ensure_embedding_dimensions has reset the
\* vectors if the dimension was changed.
Restart ==
    /\ restarts < MaxRestarts
    /\ restarts' = restarts + 1
    /\ pc' = [u \in Task |-> IF Active(u) \/ pc[u] = "lost" THEN "failed" ELSE pc[u]]
    /\ todo' = [u \in Task |-> {}]
    /\ pending' = [i \in Introspection |-> {}]
    /\ held' = [u \in Task |-> {}]
    /\ counted' = {}
    /\ progress' = NoProgress
    /\ embedded' \in {embedded, {}}
    /\ quiet' = NoTask
    /\ UNCHANGED <<rows, used>>

RequestStep(i) ==
    \/ DeleteRow(i) \/ Launch(i) \/ CommitIntrospection(i)
    \/ DeadlockVictim(Request(i))

JobStep(i) ==
    \/ Count(i) \/ SelectTables(i) \/ Embed(i) \/ FlushRow(i) \/ RowIsGone(i)
    \/ SelectTerms(i) \/ CommitJob(i) \/ Report(i)
    \/ DeadlockVictim(Job(i))

Process == \E i \in Introspection : RequestStep(i) \/ JobStep(i)

Next ==
    \/ \E i \in Introspection : BeginDelete(i) \/ RollbackFails(i)
    \/ Process
    \/ \E u \in Task : Fail(u)
    \/ \E r \in Term : CreateTerm(r) \/ UpdateTerm(r) \/ DeleteTerm(r)
    \/ Restart

Fairness == WF_vars(Process)

Spec == Init /\ [][Next]_vars /\ Fairness

-----------------------------------------------------------------------------
\* The tables of an introspection have their vectors once its job has ended
\* well, if only the job counted after the introspection had committed, and
\* whatever other jobs and introspections did to them (embedding_service.py:146-229).
CountedIsEmbedded ==
    \A i \in counted :
        pc[Job(i)] \in {"committed", "ended"} => ({i} \X Table) \intersect rows \subseteq embedded

\* The record says "running" and no job of the connection is at work.
Stranded ==
    /\ progress.status = "running"
    /\ \A i \in Introspection :
          pc[Job(i)] \notin {"select", "tables", "terms", "committed", "raised"}

\* The status the banner polls is left at "running" by nothing but a job whose
\* rollback failed, though jobs share one record (setup_service.py:897-899).
OnlyLostRollbackStrands ==
    [][Stranded' /\ ~ Stranded =>
          \E i \in Introspection : pc[Job(i)] = "raised" /\ pc'[Job(i)] = "lost"]_vars

\* A connection that was introspected keeps the tables of an introspection,
\* whatever later ones do or fail to do (schema_service.py:86-93).
SchemaIsNeverLost ==
    (\E i \in Introspection : pc[Request(i)] = "done") =>
        \E i \in Introspection : pc[Request(i)] = "done" /\ {i} \X Table \subseteq rows

\* An introspection that nothing overlapped leaves its own tables only.
QuietIntrospectionReplaces ==
    \A i \in Introspection :
        quiet = Request(i) /\ pc[Request(i)] = "done" => rows \intersect Tables = {i} \X Table

\* A job that nothing overlapped leaves no row without a vector, and has
\* embedded exactly as many as it had counted (setup_service.py:879-893).
QuietJobEmbedsAll ==
    \A i \in Introspection : quiet = Job(i) =>
        /\ pc[Job(i)] \in {"committed", "ended"} => rows = embedded
        /\ pc[Job(i)] = "committed" => progress.total = progress.completed

\* Every introspection and every job ends, also when it waits for a row that
\* another transaction has locked.
TasksEnd == (\E u \in Task : Active(u)) ~> (\A u \in Task : ~ Active(u))

-----------------------------------------------------------------------------
\* What the documents say and the code does not do; see the findings.

\* "Embeddings for schema objects are generated in the background after
\* introspection completes": the tables of an introspection whose job has ended
\* well have their vectors.
IntrospectedIsEmbedded ==
    \A i \in Introspection :
        restarts = 0 /\ pc[Request(i)] = "done" /\ pc[Job(i)] = "ended" =>
            ({i} \X Table) \intersect rows \subseteq embedded

\* The banner "auto-hides when complete": a record that says "running" will say
\* something else.
BannerHides == progress.status = "running" ~> progress.status # "running"

\* "Embeddings will regenerate in the background": a row that has had a vector
\* will have one again, as long as it exists.
NulledRegenerates ==
    \A r \in Row : [](r \in embedded => []<>(r \in embedded \/ r \notin rows))
=============================================================================
