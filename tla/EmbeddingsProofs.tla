-------------------------- MODULE EmbeddingsProofs --------------------------
(***************************************************************************)
(* What Embeddings guarantees for any number of introspections, tables,    *)
(* authored rows and restarts: its safety invariants.                      *)
(***************************************************************************)
EXTENDS Embeddings, FiniteSetTheorems, TLAPS

\* What a task has not got in each phase: the job of a request that has not
\* launched it is idle, and work is left only to those who are at it.
Phases ==
    \A i \in Introspection :
        /\ pc[Request(i)] \in {"idle", "delete"} => pc[Job(i)] = "idle"
        /\ todo[Request(i)] # {} => pc[Request(i)] = "delete"
        /\ pc[Job(i)] \notin {"tables", "terms"} => pending[i] = {} /\ held[Job(i)] = {}

\* What a transaction has written stays there, and is nobody else's, until it
\* ends: the row locks of the database.
WritesAreExclusive ==
    \A u \in Task : held[u] \subseteq rows /\ \A v \in Task \ {u} : held[u] \intersect held[v] = {}

\* While an introspection is quiet only its own job is there, which has not
\* begun, and every cached table is one it has deleted or will delete.
RequestAlone(i) ==
    /\ \A v \in Task \ {Request(i)} :
          Active(v) => v = Job(i) /\ pc[v] \in {"count", "raised"}
    /\ pc[Request(i)] = "delete" =>
          rows \intersect Tables \subseteq todo[Request(i)] \union held[Request(i)]
    /\ pc[Request(i)] = "launched" => rows \intersect Tables \subseteq held[Request(i)]
    /\ pc[Request(i)] = "done" => rows \intersect Tables = {i} \X Table

QuietRequest == \A i \in Introspection : quiet = Request(i) => RequestAlone(i)

\* While a job is quiet it is the only task, and what it counted is what it has
\* embedded and what it has yet to embed.
Bare == rows \ embedded
Mine(i) == held[Job(i)] \union pending[i] \union todo[Job(i)]

JobAlone(i) ==
    /\ \A v \in Task \ {Job(i)} : ~ Active(v)
    /\ pc[Job(i)] = "select" =>
          progress.total = Cardinality(Bare) /\ progress.completed = 0
    /\ pc[Job(i)] = "tables" =>
          /\ Bare \intersect Tables = Mine(i)
          /\ progress.total = progress.completed + Cardinality(todo[Job(i)])
                              + Cardinality(Bare \intersect Term)
    /\ pc[Job(i)] = "terms" =>
          /\ Bare = Mine(i)
          /\ progress.total = progress.completed + Cardinality(todo[Job(i)])
    /\ pc[Job(i)] = "committed" => rows = embedded /\ progress.total = progress.completed
    /\ pc[Job(i)] = "ended" => rows = embedded

\* A job that has counted the tables of its introspection has them among its
\* work as long as they have no vector.
CountedIsMine ==
    \A i \in counted :
        /\ pc[Request(i)] = "done"
        /\ pc[Job(i)] \in {"select", "tables", "terms", "committed", "ended"}
        /\ pc[Job(i)] \in {"tables", "terms"} =>
              ({i} \X Table) \intersect rows \subseteq embedded \union Mine(i)

QuietJob == \A i \in Introspection : quiet = Job(i) => JobAlone(i)

IInv ==
    /\ TypeOK
    /\ Phases
    /\ WritesAreExclusive
    /\ CountedIsMine
    /\ CountedIsEmbedded
    /\ SchemaIsNeverLost
    /\ QuietRequest
    /\ QuietJob

\* A transaction that is under way is rolled back.
FailRequest(i) == pc[Request(i)] \in {"delete", "launched"} /\ Raise(Request(i))
FailJob(i) == pc[Job(i)] \in {"count", "select", "tables", "terms"} /\ Raise(Job(i))

-----------------------------------------------------------------------------
\* A task is the request or the job of one introspection.
LEMMA Tasks ==
    /\ \A i \in Introspection : Request(i) \in Task /\ Job(i) \in Task
    /\ \A i \in Introspection : Request(i)[1] = "introspect"
    /\ \A i \in Introspection : Job(i)[1] = "embed" /\ Job(i)[2] = i
    /\ \A i, k \in Introspection : Request(i) # Job(k)
    /\ \A i, k \in Introspection : Request(i) = Request(k) => i = k
    /\ \A i, k \in Introspection : Job(i) = Job(k) => i = k
    /\ \A u \in Task : \E i \in Introspection : u = Request(i) \/ u = Job(i)
  BY DEF Request, Job, Task

\* Authored rows are not cached tables.
LEMMA Rows ==
    /\ Term \intersect Tables = {}
    /\ Tables \subseteq Row /\ Term \subseteq Row
    /\ \A i \in Introspection : {i} \X Table \subseteq Tables
    /\ \A r \in Row : r \in Tables \/ r \in Term
    /\ NoTask \notin Task
  BY EmbeddingsAssumption DEF EmbeddingsAssumption, Tables, Row

\* What a rollback of a request changes, and of a job.
LEMMA RaiseRequest ==
    ASSUME NEW i \in Introspection, Raise(Request(i))
    PROVE  /\ pc' = [pc EXCEPT ![Request(i)] = "failed"]
           /\ todo' = [todo EXCEPT ![Request(i)] = {}]
           /\ held' = [held EXCEPT ![Request(i)] = {}]
           /\ UNCHANGED <<pending, rows, embedded, used, counted, progress, restarts, quiet>>
  <1>1. Request(i)[1] = "introspect"  BY Tasks
  <1> QED  BY <1>1 DEF Raise

LEMMA RaiseJob ==
    ASSUME NEW i \in Introspection, Raise(Job(i))
    PROVE  /\ pc' = [pc EXCEPT ![Job(i)] = "raised"]
           /\ todo' = [todo EXCEPT ![Job(i)] = {}]
           /\ held' = [held EXCEPT ![Job(i)] = {}]
           /\ pending' = [pending EXCEPT ![i] = {}]
           /\ counted' = counted \ {i}
           /\ UNCHANGED <<rows, embedded, used, progress, restarts, quiet>>
  <1>1. Job(i)[1] = "embed" /\ Job(i)[2] = i  BY Tasks
  <1> QED  BY <1>1 DEF Raise

\* Only a task at work waits for a row, so every rollback is one of a
\* transaction under way.
LEMMA Waiting ==
    ASSUME TypeOK, Phases, NEW i \in Introspection
    PROVE  /\ DeadlockVictim(Request(i)) => FailRequest(i)
           /\ DeadlockVictim(Job(i)) => FailJob(i)
           /\ RowIsGone(i) => FailJob(i)
           /\ Fail(Request(i)) => FailRequest(i)
           /\ Fail(Job(i)) => FailJob(i)
  <1>1. Request(i)[1] = "introspect" /\ Job(i)[1] = "embed" /\ Job(i)[2] = i  BY Tasks
  <1>2. Flushing(i) # {} => pc[Job(i)] \in {"tables", "terms"}  BY DEF Flushing
  <1>3. DeadlockVictim(Request(i)) => FailRequest(i)
    BY <1>1 DEF DeadlockVictim, Deadlocked, Waits, Wants, Phases, FailRequest
  <1>4. DeadlockVictim(Job(i)) => FailJob(i)
    BY <1>1, <1>2 DEF DeadlockVictim, Deadlocked, Waits, Wants, FailJob
  <1>5. RowIsGone(i) => FailJob(i)
    BY <1>2 DEF RowIsGone, FailJob
  <1>6. Fail(Request(i)) => FailRequest(i)
    BY DEF Fail, FailRequest, TypeOK, RequestPhase
  <1>7. Fail(Job(i)) => FailJob(i)
    BY DEF Fail, FailJob, TypeOK, JobPhase
  <1> QED  BY <1>3, <1>4, <1>5, <1>6, <1>7

\* The steps a state that satisfies the invariant can take.
Steps(i) ==
    \/ BeginDelete(i) \/ DeleteRow(i) \/ Launch(i) \/ CommitIntrospection(i)
    \/ FailRequest(i)
    \/ Count(i) \/ SelectTables(i) \/ Embed(i) \/ FlushRow(i) \/ SelectTerms(i)
    \/ CommitJob(i) \/ Report(i) \/ FailJob(i) \/ RollbackFails(i)

Edits(r) == CreateTerm(r) \/ UpdateTerm(r) \/ DeleteTerm(r)

LEMMA Cases ==
    ASSUME TypeOK, Phases, Next
    PROVE  \/ \E i \in Introspection : Steps(i)
           \/ \E r \in Term : Edits(r)
           \/ Restart
  <1>1. CASE \E i \in Introspection : BeginDelete(i) \/ RollbackFails(i)
    BY <1>1 DEF Steps
  <1>2. CASE Process
    <2>1. PICK i \in Introspection : RequestStep(i) \/ JobStep(i)  BY <1>2 DEF Process
    <2> QED  BY <2>1, Waiting DEF RequestStep, JobStep, Steps
  <1>3. CASE \E u \in Task : Fail(u)
    <2>1. PICK u \in Task : Fail(u)  BY <1>3
    <2>2. PICK i \in Introspection : u = Request(i) \/ u = Job(i)  BY Tasks
    <2> QED  BY <2>1, <2>2, Waiting DEF Steps
  <1>4. CASE \E r \in Term : CreateTerm(r) \/ UpdateTerm(r) \/ DeleteTerm(r)
    BY <1>4 DEF Edits
  <1>5. CASE Restart
    BY <1>5
  <1> QED  BY <1>1, <1>2, <1>3, <1>4, <1>5 DEF Next

-----------------------------------------------------------------------------
\* The first state satisfies every part of the invariant.
LEMMA InitInv == Init => IInv
  <1> SUFFICES ASSUME Init PROVE IInv  OBVIOUS
  <1> USE DEF Init
  <1>1. TypeOK
    BY EmbeddingsAssumption, Tasks, Rows
    DEF TypeOK, EmbeddingsAssumption, RequestPhase, JobPhase, Status, NoProgress
  <1>2. Phases  BY Tasks DEF Phases
  <1>3. WritesAreExclusive  BY Tasks DEF WritesAreExclusive
  <1>4. CountedIsMine /\ CountedIsEmbedded  BY DEF CountedIsMine, CountedIsEmbedded
  <1>5. SchemaIsNeverLost  BY Tasks DEF SchemaIsNeverLost
  <1>6. QuietRequest /\ QuietJob  BY Tasks, Rows DEF QuietRequest, QuietJob
  <1> QED  BY <1>1, <1>2, <1>3, <1>4, <1>5, <1>6 DEF IInv

\* A step leaves everything well typed.
LEMMA TypeKept == TypeOK /\ Phases /\ WritesAreExclusive /\ Next => TypeOK'
  <1> SUFFICES ASSUME TypeOK, Phases, WritesAreExclusive, Next PROVE TypeOK'
    OBVIOUS
  <1> USE DEF TypeOK
  <1>1. ASSUME NEW i \in Introspection, Steps(i) PROVE TypeOK'
    <2> DEFINE u == Request(i)
               j == Job(i)
    <2>1. u \in Task /\ j \in Task /\ u # j
          /\ \A k \in Introspection : /\ u # Job(k) /\ j # Request(k)
                                      /\ (u = Request(k) \/ j = Job(k) => i = k)
      BY Tasks
    <2>2. CASE BeginDelete(i)
      BY <2>1, <2>2, Tasks DEF BeginDelete, QuietFrom, RequestPhase
    <2>3. CASE DeleteRow(i)
      BY <2>1, <2>3, Tasks DEF DeleteRow
    <2>4. CASE Launch(i)
      BY <2>1, <2>4, Tasks DEF Launch, RequestPhase, JobPhase
    <2>5. CASE CommitIntrospection(i)
      BY <2>1, <2>5, Tasks, Rows DEF CommitIntrospection, RequestPhase
    <2>6. CASE FailRequest(i)
      <3>1. /\ pc' = [pc EXCEPT ![u] = "failed"]
            /\ todo' = [todo EXCEPT ![u] = {}]
            /\ held' = [held EXCEPT ![u] = {}]
            /\ UNCHANGED <<pending, rows, embedded, used, counted, progress, restarts, quiet>>
        BY <2>6, RaiseRequest DEF FailRequest
      <3> QED  BY <2>1, <3>1, Tasks DEF RequestPhase
    <2>7. CASE Count(i)
      <3>1. IsFiniteSet(rows \ embedded)
        BY FS_Subset, EmbeddingsAssumption DEF EmbeddingsAssumption
      <3>2. Cardinality(rows \ embedded) \in Nat
        BY <3>1, FS_CardinalityType
      <3>3. progress' \in [status : Status, total : Nat, completed : Nat]
        BY <2>7, <3>2 DEF Count, Status
      <3>4. counted' \subseteq Introspection /\ quiet' \in Task \union {NoTask}
        BY <2>1, <2>7 DEF Count, QuietFrom
      <3>5. /\ pc' = [pc EXCEPT ![j] = "ended"] \/ pc' = [pc EXCEPT ![j] = "select"]
            /\ UNCHANGED <<rows, embedded, used, todo, pending, held, restarts>>
        BY <2>7 DEF Count
      <3>6. /\ pc' \in [Task -> RequestPhase \union JobPhase]
            /\ \A k \in Introspection : pc'[Request(k)] \in RequestPhase /\ pc'[Job(k)] \in JobPhase
        BY <3>5, Tasks DEF JobPhase
      <3> QED  BY <2>1, <3>3, <3>4, <3>5, <3>6
    <2>8. CASE SelectTables(i)
      BY <2>1, <2>8, Tasks DEF SelectTables, JobPhase
    <2>9. CASE Embed(i)
      <3>1. /\ \E r \in todo[j] : /\ todo' = [todo EXCEPT ![j] = @ \ {r}]
                                 /\ pending' = [pending EXCEPT ![i] = @ \union {r}]
            /\ UNCHANGED <<rows, embedded, used, pc, held, counted, restarts, quiet>>
        BY <2>9 DEF Embed
      <3>2. progress' \in [status : Status, total : Nat, completed : Nat]
        BY <2>9 DEF Embed
      <3> QED  BY <2>1, <3>1, <3>2
    <2>10. CASE FlushRow(i)
      BY <2>1, <2>10, Tasks DEF FlushRow
    <2>11. CASE SelectTerms(i)
      BY <2>1, <2>11, Tasks DEF SelectTerms, JobPhase
    <2>12. CASE CommitJob(i)
      BY <2>1, <2>12, Tasks DEF CommitJob, JobPhase, WritesAreExclusive
    <2>13. CASE Report(i)
      BY <2>1, <2>13, Tasks DEF Report, JobPhase, Status
    <2>14. CASE FailJob(i)
      <3>1. /\ pc' = [pc EXCEPT ![j] = "raised"]
            /\ todo' = [todo EXCEPT ![j] = {}]
            /\ held' = [held EXCEPT ![j] = {}]
            /\ pending' = [pending EXCEPT ![i] = {}]
            /\ counted' = counted \ {i}
            /\ UNCHANGED <<rows, embedded, used, progress, restarts, quiet>>
        BY <2>14, RaiseJob DEF FailJob
      <3> QED  BY <2>1, <3>1, Tasks DEF JobPhase
    <2>15. CASE RollbackFails(i)
      BY <2>1, <2>15, Tasks DEF RollbackFails, JobPhase
    <2> QED  BY <1>1, <2>2, <2>3, <2>4, <2>5, <2>6, <2>7, <2>8, <2>9, <2>10, <2>11,
                <2>12, <2>13, <2>14, <2>15 DEF Steps
  <1>2. ASSUME NEW r \in Term, Edits(r) PROVE TypeOK'
    BY <1>2, Rows DEF Edits, CreateTerm, UpdateTerm, DeleteTerm
  <1>3. ASSUME Restart PROVE TypeOK'
    <2>1. pc' \in [Task -> RequestPhase \union JobPhase]
      BY <1>3 DEF Restart, RequestPhase, JobPhase
    <2>2. \A i \in Introspection : pc'[Request(i)] \in RequestPhase /\ pc'[Job(i)] \in JobPhase
      BY <1>3, Tasks DEF Restart, RequestPhase, JobPhase
    <2>3. restarts' \in 0 .. MaxRestarts
      BY <1>3, EmbeddingsAssumption DEF Restart, EmbeddingsAssumption
    <2> QED  BY <1>3, <2>1, <2>2, <2>3 DEF Restart, NoProgress, Status
  <1> QED  BY <1>1, <1>2, <1>3, Cases

\* A step keeps the phases of a request and its job together.
LEMMA PhasesKept == TypeOK /\ Phases /\ Next => Phases'
  <1> SUFFICES ASSUME TypeOK, Phases, Next PROVE Phases'
    OBVIOUS
  <1> USE DEF TypeOK, Phases
  <1>1. ASSUME NEW i \in Introspection, Steps(i) PROVE Phases'
    <2> DEFINE u == Request(i)
               j == Job(i)
    <2>1. u \in Task /\ j \in Task /\ u # j
          /\ \A k \in Introspection : /\ u # Job(k) /\ j # Request(k)
                                      /\ (u = Request(k) \/ j = Job(k) => i = k)
      BY Tasks
    <2>2. CASE BeginDelete(i)
      BY <2>1, <2>2, Tasks DEF BeginDelete
    <2>3. CASE DeleteRow(i)
      BY <2>1, <2>3, Tasks DEF DeleteRow
    <2>4. CASE Launch(i)
      BY <2>1, <2>4, Tasks DEF Launch
    <2>5. CASE CommitIntrospection(i)
      BY <2>1, <2>5, Tasks DEF CommitIntrospection
    <2>6. CASE FailRequest(i)
      BY <2>1, <2>6, Tasks, RaiseRequest DEF FailRequest
    <2>7. CASE Count(i)
      BY <2>1, <2>7, Tasks DEF Count
    <2>8. CASE SelectTables(i)
      BY <2>1, <2>8, Tasks DEF SelectTables
    <2>9. CASE Embed(i)
      BY <2>1, <2>9, Tasks DEF Embed
    <2>10. CASE FlushRow(i)
      <3>1. pc[j] \in {"tables", "terms"}  BY <2>10 DEF FlushRow, Flushing
      <3> QED  BY <2>1, <2>10, <3>1, Tasks DEF FlushRow
    <2>11. CASE SelectTerms(i)
      BY <2>1, <2>11, Tasks DEF SelectTerms
    <2>12. CASE CommitJob(i)
      BY <2>1, <2>12, Tasks DEF CommitJob
    <2>13. CASE Report(i)
      BY <2>1, <2>13, Tasks DEF Report
    <2>14. CASE FailJob(i)
      BY <2>1, <2>14, Tasks, RaiseJob DEF FailJob
    <2>15. CASE RollbackFails(i)
      BY <2>1, <2>15, Tasks DEF RollbackFails
    <2> QED  BY <1>1, <2>2, <2>3, <2>4, <2>5, <2>6, <2>7, <2>8, <2>9, <2>10, <2>11,
                <2>12, <2>13, <2>14, <2>15 DEF Steps
  <1>2. ASSUME NEW r \in Term, Edits(r) PROVE Phases'
    BY <1>2 DEF Edits, CreateTerm, UpdateTerm, DeleteTerm
  <1>3. ASSUME Restart PROVE Phases'
    BY <1>3, Tasks DEF Restart, Active
  <1> QED  BY <1>1, <1>2, <1>3, Cases

-----------------------------------------------------------------------------
\* A step writes only rows that are there and that nobody else has written.
LEMMA ExclusiveKept == TypeOK /\ Phases /\ WritesAreExclusive /\ Next => WritesAreExclusive'
  <1> SUFFICES ASSUME TypeOK, Phases, WritesAreExclusive, Next PROVE WritesAreExclusive'
    OBVIOUS
  <1> USE DEF TypeOK, WritesAreExclusive
  <1>1. ASSUME NEW u \in Task, NEW free,
               held' = [held EXCEPT ![u] = @ \ free], rows' = rows
        PROVE  WritesAreExclusive'
    BY <1>1
  <1>2. ASSUME NEW u \in Task, NEW r,
               r \in rows, ~ LockedByOther(u, r),
               held' = [held EXCEPT ![u] = @ \union {r}], rows' = rows
        PROVE  WritesAreExclusive'
    BY <1>2 DEF LockedByOther
  <1>3. ASSUME NEW i \in Introspection, Steps(i) PROVE WritesAreExclusive'
    <2> DEFINE u == Request(i)
               j == Job(i)
    <2>1. u \in Task /\ j \in Task  BY Tasks
    <2>2. CASE UNCHANGED <<held, rows>>
      BY <2>2
    <2>3. CASE DeleteRow(i)
      <3>1. PICK r \in todo[u] : /\ ~ LockedByOther(u, r)
                                 /\ held' = [held EXCEPT ![u] = @ \union ({r} \intersect rows)]
        BY <2>3 DEF DeleteRow
      <3>2. rows' = rows  BY <2>3 DEF DeleteRow
      <3>3. CASE r \in rows
        <4>1. held' = [held EXCEPT ![u] = @ \union {r}]  BY <3>1, <3>3
        <4> QED  BY <4>1, <3>1, <3>2, <3>3, <2>1, <1>2
      <3>4. CASE r \notin rows
        BY <3>1, <3>2, <3>4, <2>1
      <3> QED  BY <3>3, <3>4
    <2>4. CASE CommitIntrospection(i)
      BY <2>1, <2>4 DEF CommitIntrospection
    <2>5. CASE FailRequest(i)
      BY <2>1, <2>5, RaiseRequest DEF FailRequest
    <2>6. CASE FlushRow(i)
      <3>1. PICK r \in Flushing(i) \intersect rows :
                    /\ ~ LockedByOther(j, r)
                    /\ held' = [held EXCEPT ![j] = @ \union {r}]
        BY <2>6 DEF FlushRow
      <3>2. rows' = rows  BY <2>6 DEF FlushRow
      <3> QED  BY <3>1, <3>2, <2>1, <1>2
    <2>7. CASE CommitJob(i)
      BY <2>1, <2>7 DEF CommitJob
    <2>8. CASE FailJob(i)
      BY <2>1, <2>8, RaiseJob DEF FailJob
    <2> QED
      BY <1>3, <2>2, <2>3, <2>4, <2>5, <2>6, <2>7, <2>8
      DEF Steps, BeginDelete, Launch, Count, SelectTables, Embed, SelectTerms, Report,
          RollbackFails
  <1>4. ASSUME NEW r \in Term, Edits(r) PROVE WritesAreExclusive'
    BY <1>4 DEF Edits, CreateTerm, UpdateTerm, DeleteTerm, Unlocked
  <1>5. ASSUME Restart PROVE WritesAreExclusive'
    BY <1>5 DEF Restart
  <1> QED  BY <1>3, <1>4, <1>5, Cases

\* A job at work keeps the record from being stranded, and one that ends takes
\* "running" from it, unless its rollback fails.
LEMMA StrandedStep ==
    TypeOK /\ Phases /\ Next /\ Stranded' /\ ~ Stranded =>
        \E i \in Introspection : pc[Job(i)] = "raised" /\ pc'[Job(i)] = "lost"
  <1> DEFINE Works(k) == pc[Job(k)] \in {"select", "tables", "terms", "committed", "raised"}
             Lost == \E i \in Introspection : pc[Job(i)] = "raised" /\ pc'[Job(i)] = "lost"
  <1> SUFFICES ASSUME TypeOK, Phases, Next, Stranded', ~ Stranded PROVE Lost
    OBVIOUS
  <1> USE DEF TypeOK, Stranded
  <1>1. ASSUME progress'.status = "running" => progress.status = "running",
               \A k \in Introspection : Works(k) => Works(k)'
        PROVE  FALSE
    BY <1>1
  <1>2. ASSUME NEW i \in Introspection, Steps(i) PROVE Lost
    <2> DEFINE u == Request(i)
               j == Job(i)
    <2>1. u \in Task /\ j \in Task
          /\ \A k \in Introspection : /\ Job(k) \in Task /\ u # Job(k)
                                      /\ (j = Job(k) => i = k)
      BY Tasks
    <2>2. CASE BeginDelete(i)
      BY <1>1, <2>1, <2>2 DEF BeginDelete
    <2>3. CASE DeleteRow(i)
      BY <1>1, <2>3 DEF DeleteRow
    <2>4. CASE Launch(i)
      BY <1>1, <2>1, <2>4 DEF Launch, Phases
    <2>5. CASE CommitIntrospection(i)
      BY <1>1, <2>1, <2>5 DEF CommitIntrospection
    <2>6. CASE FailRequest(i)
      BY <1>1, <2>1, <2>6, RaiseRequest DEF FailRequest
    <2>7. CASE Count(i)
      <3>1. CASE pc' = [pc EXCEPT ![j] = "select"]
        BY <2>1, <3>1
      <3>2. CASE pc' = [pc EXCEPT ![j] = "ended"] /\ UNCHANGED progress
        BY <1>1, <2>1, <2>7, <3>2 DEF Count
      <3> QED  BY <2>7, <3>1, <3>2 DEF Count
    <2>8. CASE SelectTables(i)
      BY <1>1, <2>1, <2>8 DEF SelectTables
    <2>9. CASE Embed(i)
      BY <1>1, <2>9 DEF Embed
    <2>10. CASE FlushRow(i)
      BY <1>1, <2>10 DEF FlushRow
    <2>11. CASE SelectTerms(i)
      BY <1>1, <2>1, <2>11 DEF SelectTerms
    <2>12. CASE CommitJob(i)
      BY <1>1, <2>1, <2>12 DEF CommitJob
    <2>13. CASE Report(i)
      BY <2>13 DEF Report
    <2>14. CASE FailJob(i)
      BY <1>1, <2>1, <2>14, RaiseJob DEF FailJob
    <2>15. CASE RollbackFails(i)
      BY <2>1, <2>15 DEF RollbackFails
    <2> QED  BY <1>2, <2>2, <2>3, <2>4, <2>5, <2>6, <2>7, <2>8, <2>9, <2>10, <2>11,
                <2>12, <2>13, <2>14, <2>15 DEF Steps
  <1>3. ASSUME NEW r \in Term, Edits(r) PROVE Lost
    BY <1>1, <1>3 DEF Edits, CreateTerm, UpdateTerm, DeleteTerm
  <1>4. ASSUME Restart PROVE Lost
    BY <1>4 DEF Restart, NoProgress
  <1> QED  BY <1>2, <1>3, <1>4, Cases

\* What has no vector is finite, and so is every part of it.
LEMMA BareParts ==
    ASSUME TypeOK
    PROVE  /\ \A s \in SUBSET Row : IsFiniteSet(s) /\ Cardinality(s) \in Nat
           /\ Cardinality(Bare) =
                 Cardinality(Bare \intersect Tables) + Cardinality(Bare \intersect Term)
  <1>1. \A s \in SUBSET Row : IsFiniteSet(s) /\ Cardinality(s) \in Nat
    BY FS_Subset, FS_CardinalityType, EmbeddingsAssumption DEF EmbeddingsAssumption
  <1>2. ASSUME NEW s \in SUBSET Row, NEW t \in SUBSET Row, s \intersect t = {}
        PROVE  Cardinality(s \union t) = Cardinality(s) + Cardinality(t)
    <2>1. Cardinality(s \union t)
             = Cardinality(s) + Cardinality(t) - Cardinality(s \intersect t)
      BY <1>1, FS_Union
    <2>2. Cardinality(s \intersect t) = 0
      BY <1>2, FS_EmptySet
    <2>3. Cardinality(s) \in Nat /\ Cardinality(t) \in Nat
      BY <1>1
    <2> QED  BY <2>1, <2>2, <2>3
  <1>3. /\ Bare \intersect Tables \in SUBSET Row /\ Bare \intersect Term \in SUBSET Row
        /\ (Bare \intersect Tables) \intersect (Bare \intersect Term) = {}
        /\ (Bare \intersect Tables) \union (Bare \intersect Term) = Bare
    BY Rows DEF TypeOK, Bare
  <1>4. Cardinality((Bare \intersect Tables) \union (Bare \intersect Term))
           = Cardinality(Bare \intersect Tables) + Cardinality(Bare \intersect Term)
    BY <1>2, <1>3
  <1> QED  BY <1>1, <1>3, <1>4

\* The tables a job has counted stay its work: nobody else's commit, deletion or
\* rollback takes one from it without giving it a vector or removing it.
LEMMA CountedKept ==
    /\ TypeOK /\ TypeOK' /\ Phases /\ WritesAreExclusive /\ CountedIsMine /\ CountedIsEmbedded
    /\ Next
    => CountedIsMine' /\ CountedIsEmbedded'
  <1> DEFINE Own(k) == {k} \X Table
             Ended(k) == pc[Job(k)] \in {"committed", "ended"}
             Works(k) == pc[Job(k)] \in {"tables", "terms"}
             Kept(k) == /\ pc[Request(k)] = "done"
                        /\ Ended(k) \/ Works(k) \/ pc[Job(k)] = "select"
                        /\ Works(k) => Own(k) \intersect rows \subseteq embedded \union Mine(k)
                        /\ Ended(k) => Own(k) \intersect rows \subseteq embedded
  <1> SUFFICES ASSUME TypeOK, TypeOK', Phases, WritesAreExclusive, CountedIsMine,
                      CountedIsEmbedded, Next, NEW q \in counted'
               PROVE  Kept(q)'
    BY DEF CountedIsMine, CountedIsEmbedded
  <1>1. \A k \in counted : Kept(k)
    BY DEF CountedIsMine, CountedIsEmbedded
  <1>2. q \in Introspection  BY DEF TypeOK
  <1> DEFINE u == Request(q)
             j == Job(q)
  <1>3. /\ u \in Task /\ j \in Task /\ u # j
        /\ \A k \in Introspection : /\ Request(k) \in Task /\ Job(k) \in Task
                                    /\ u # Job(k) /\ j # Request(k)
                                    /\ (u = Request(k) \/ j = Job(k) => q = k)
    BY <1>2, Tasks
  <1>4. ASSUME q \in counted, pc'[u] = pc[u], pc'[j] = pc[j], Mine(q)' = Mine(q),
               \A r \in Own(q) : r \in rows' => r \in rows,
               \A r \in embedded : r \in rows' => r \in embedded'
        PROVE  Kept(q)'
    BY <1>1, <1>4
  <1>5. ASSUME NEW i \in Introspection, Steps(i), i # q PROVE Kept(q)'
    <2> DEFINE v == Request(i)
               w == Job(i)
    <2>1. v \in Task /\ w \in Task /\ v # u /\ w # u /\ v # j /\ w # j
      BY <1>3, <1>5
    <2>2. q \in counted
      BY <1>5, RaiseRequest, RaiseJob
      DEF Steps, BeginDelete, DeleteRow, Launch, CommitIntrospection, FailRequest, Count,
          SelectTables, Embed, FlushRow, SelectTerms, CommitJob, Report, FailJob, RollbackFails
    <2>3. CASE CommitIntrospection(i)
      <3>1. /\ rows' = (rows \ held[v]) \union Own(i)
            /\ embedded' = embedded \ held[v]
            /\ pc' = [pc EXCEPT ![v] = "done"]
            /\ held' = [held EXCEPT ![v] = {}]
            /\ UNCHANGED <<todo, pending>>
        BY <2>3 DEF CommitIntrospection
      <3>2. \A r \in Own(q) : r \notin Own(i)
        BY <1>5
      <3>3. pc'[u] = pc[u] /\ pc'[j] = pc[j] /\ Mine(q)' = Mine(q)
        BY <3>1, <2>1, <1>3 DEF TypeOK, Mine
      <3>4. \A r \in Own(q) : r \in rows' => r \in rows /\ r \notin held[v]
        BY <3>1, <3>2
      <3> QED  BY <1>1, <2>2, <3>1, <3>3, <3>4
    <2>4. CASE CommitJob(i)
      <3>1. /\ rows' = rows /\ embedded' = embedded \union held[w]
            /\ pc' = [pc EXCEPT ![w] = "committed"]
            /\ held' = [held EXCEPT ![w] = {}]
            /\ UNCHANGED <<todo, pending>>
        BY <2>4 DEF CommitJob
      <3>2. pc'[u] = pc[u] /\ pc'[j] = pc[j] /\ Mine(q)' = Mine(q)
        BY <3>1, <2>1, <1>3 DEF TypeOK, Mine
      <3> QED  BY <1>4, <2>2, <3>1, <3>2
    <2>5. CASE UNCHANGED <<rows, embedded>>
      <3>1. pc'[u] = pc[u] /\ pc'[j] = pc[j] /\ Mine(q)' = Mine(q)
        BY <1>2, <1>3, <1>5, <2>1, RaiseRequest, RaiseJob
        DEF TypeOK, Mine, Steps, BeginDelete, DeleteRow, Launch, CommitIntrospection,
            FailRequest, Count, SelectTables, Embed, FlushRow, SelectTerms, CommitJob, Report,
            FailJob, RollbackFails
      <3> QED  BY <1>4, <2>2, <2>5, <3>1
    <2> QED
      BY <1>5, <2>3, <2>4, <2>5, RaiseRequest, RaiseJob
      DEF Steps, BeginDelete, DeleteRow, Launch, FailRequest, Count, SelectTables, Embed,
          FlushRow, SelectTerms, Report, FailJob, RollbackFails
  <1>6. ASSUME Steps(q) PROVE Kept(q)'
    <2>1. CASE Count(q)
      <3>1. /\ pc[j] = "count" /\ UNCHANGED <<rows, embedded>>
            /\ counted' = IF pc[u] = "done" THEN counted \union {q} ELSE counted
            /\ \/ Cardinality(Bare) = 0 /\ pc' = [pc EXCEPT ![j] = "ended"]
               \/ pc' = [pc EXCEPT ![j] = "select"]
        BY <2>1 DEF Count, Bare
      <3>2. pc[u] = "done" /\ pc'[u] = "done"
        BY <1>1, <1>3, <3>1 DEF TypeOK
      <3>3. Cardinality(Bare) = 0 => rows = embedded
        <4>1. IsFiniteSet(Bare)  BY BareParts DEF Bare, TypeOK
        <4>2. Cardinality(Bare) = 0 => Bare = {}  BY <4>1, FS_EmptySet
        <4> QED  BY <4>2 DEF Bare, TypeOK
      <3> QED  BY <1>3, <3>1, <3>2, <3>3 DEF TypeOK
    <2>2. CASE FailJob(q)
      BY <1>2, <2>2, RaiseJob DEF FailJob
    <2>3. q \in counted \/ Count(q) \/ FailJob(q)
      BY <1>2, <1>6, RaiseRequest
      DEF Steps, BeginDelete, DeleteRow, Launch, CommitIntrospection, FailRequest,
          SelectTables, Embed, FlushRow, SelectTerms, CommitJob, Report, RollbackFails
    <2>4. ASSUME q \in counted PROVE pc[u] = "done" /\ Kept(q)
      BY <1>1, <2>4
    <2>5. CASE q \in counted /\ SelectTables(q)
      <3>1. /\ pc' = [pc EXCEPT ![j] = "tables"] /\ pc[j] = "select"
            /\ todo' = [todo EXCEPT ![j] = Bare \intersect Tables]
            /\ UNCHANGED <<rows, embedded>>
        BY <2>5 DEF SelectTables, Bare
      <3>2. Own(q) \intersect rows \subseteq embedded \union todo'[j]
        BY <1>2, <1>3, <3>1, Rows DEF TypeOK, Bare
      <3> QED  BY <1>3, <2>4, <2>5, <3>1, <3>2 DEF TypeOK, Mine
    <2>6. CASE q \in counted /\ Embed(q)
      <3>1. /\ \E r \in todo[j] : /\ todo' = [todo EXCEPT ![j] = @ \ {r}]
                                 /\ pending' = [pending EXCEPT ![q] = @ \union {r}]
            /\ UNCHANGED <<rows, embedded, held, pc>>
        BY <2>6 DEF Embed
      <3>2. Mine(q)' = Mine(q)
        BY <1>2, <1>3, <3>1 DEF TypeOK, Mine
      <3> QED  BY <1>4, <2>6, <3>1, <3>2
    <2>7. CASE q \in counted /\ FlushRow(q)
      <3>1. /\ \E r \in pending[q] : /\ pending' = [pending EXCEPT ![q] = @ \ {r}]
                                    /\ held' = [held EXCEPT ![j] = @ \union {r}]
            /\ UNCHANGED <<rows, embedded, todo, pc>>
        BY <2>7 DEF FlushRow, Flushing
      <3>2. Mine(q)' = Mine(q)
        BY <1>2, <1>3, <3>1 DEF TypeOK, Mine
      <3> QED  BY <1>4, <2>7, <3>1, <3>2
    <2>8. CASE q \in counted /\ SelectTerms(q)
      <3>1. /\ pc' = [pc EXCEPT ![j] = "terms"] /\ pc[j] = "tables" /\ todo[j] = {}
            /\ UNCHANGED <<rows, embedded, held, pending>>
        BY <2>8 DEF SelectTerms
      <3>2. pc'[u] = pc[u] /\ pc'[j] = "terms" /\ Mine(q) \subseteq Mine(q)'
        BY <1>3, <3>1 DEF TypeOK, Mine
      <3> QED  BY <2>4, <2>8, <3>1, <3>2
    <2>9. CASE q \in counted /\ CommitJob(q)
      <3>1. /\ pc' = [pc EXCEPT ![j] = "committed"] /\ pc[j] = "terms"
            /\ todo[j] = {} /\ pending[q] = {}
            /\ embedded' = embedded \union held[j] /\ rows' = rows
        BY <2>9 DEF CommitJob
      <3>2. pc'[u] = pc[u] /\ pc'[j] = "committed" /\ Mine(q) = held[j]
        BY <1>3, <3>1 DEF TypeOK, Mine
      <3> QED  BY <2>4, <2>9, <3>1, <3>2
    <2>10. CASE q \in counted /\ Report(q)
      <3>1. /\ pc' = [pc EXCEPT ![j] = IF pc[j] = "committed" THEN "ended" ELSE "failed"]
            /\ pc[j] \in {"committed", "raised"}
            /\ UNCHANGED <<rows, embedded>>
        BY <2>10 DEF Report
      <3>2. pc[j] = "committed" /\ pc[u] = "done"
        BY <2>4, <2>10, <3>1
      <3>3. pc'[u] = pc[u] /\ pc'[j] = "ended"
        BY <1>3, <3>1, <3>2 DEF TypeOK
      <3> QED  BY <2>4, <2>10, <3>1, <3>2, <3>3
    <2>11. CASE q \in counted /\ ~ (SelectTables(q) \/ Embed(q) \/ FlushRow(q) \/ SelectTerms(q)
                                  \/ CommitJob(q) \/ Report(q) \/ Count(q) \/ FailJob(q))
      <3>1. ~ (BeginDelete(q) \/ DeleteRow(q) \/ Launch(q) \/ CommitIntrospection(q)
               \/ FailRequest(q) \/ RollbackFails(q))
        BY <2>4, <2>11
        DEF BeginDelete, DeleteRow, Launch, CommitIntrospection, FailRequest, RollbackFails
      <3> QED  BY <1>6, <2>11, <3>1 DEF Steps
    <2> QED  BY <2>1, <2>2, <2>3, <2>5, <2>6, <2>7, <2>8, <2>9, <2>10, <2>11
  <1>7. ASSUME NEW r \in Term, Edits(r) PROVE Kept(q)'
    <2>1. /\ q \in counted /\ UNCHANGED <<pc, todo, pending, held>>
          /\ \A x \in rows' : x \in rows \/ x = r
          /\ \A x \in embedded : x \in rows' => x \in embedded'
      BY <1>7 DEF Edits, CreateTerm, UpdateTerm, DeleteTerm
    <2>2. r \notin Own(q)  BY <1>2, <1>7, Rows
    <2>3. Mine(q)' = Mine(q)  BY <2>1 DEF Mine
    <2> QED  BY <1>4, <2>1, <2>2, <2>3
  <1>8. ASSUME Restart PROVE FALSE
    BY <1>8 DEF Restart
  <1> QED  BY <1>5, <1>6, <1>7, <1>8, Cases

\* Cached tables are deleted only by the commit that brings new ones.
LEMMA SchemaKept == TypeOK /\ Phases /\ SchemaIsNeverLost /\ Next => SchemaIsNeverLost'
  <1> SUFFICES ASSUME TypeOK, Phases, SchemaIsNeverLost, Next PROVE SchemaIsNeverLost'
    OBVIOUS
  <1> USE DEF TypeOK, SchemaIsNeverLost
  <1>1. ASSUME rows \intersect Tables \subseteq rows',
               \A k \in Introspection : pc[Request(k)] = "done" <=> pc'[Request(k)] = "done"
        PROVE  SchemaIsNeverLost'
    BY <1>1, Rows
  <1>2. ASSUME NEW i \in Introspection, Steps(i) PROVE SchemaIsNeverLost'
    <2> DEFINE u == Request(i)
               j == Job(i)
    <2>1. u \in Task /\ j \in Task
          /\ \A k \in Introspection : /\ Request(k) \in Task /\ j # Request(k)
                                      /\ (u = Request(k) => i = k)
      BY Tasks
    <2>2. CASE BeginDelete(i)
      BY <1>1, <2>1, <2>2 DEF BeginDelete
    <2>3. CASE Launch(i)
      BY <1>1, <2>1, <2>3 DEF Launch
    <2>4. CASE CommitIntrospection(i)
      BY <2>1, <2>4 DEF CommitIntrospection
    <2>5. CASE FailRequest(i)
      BY <1>1, <2>1, <2>5, RaiseRequest DEF FailRequest
    <2>6. CASE FailJob(i)
      BY <1>1, <2>1, <2>6, RaiseJob DEF FailJob
    <2>7. CASE Count(i) \/ SelectTables(i) \/ SelectTerms(i) \/ CommitJob(i) \/ Report(i)
              \/ RollbackFails(i)
      <3>1. rows' = rows /\ \E p : pc' = [pc EXCEPT ![j] = p]
        BY <2>7 DEF Count, SelectTables, SelectTerms, CommitJob, Report, RollbackFails
      <3> QED  BY <1>1, <2>1, <3>1
    <2>8. CASE DeleteRow(i) \/ Embed(i) \/ FlushRow(i)
      BY <1>1, <2>8 DEF DeleteRow, Embed, FlushRow
    <2> QED  BY <1>2, <2>2, <2>3, <2>4, <2>5, <2>6, <2>7, <2>8 DEF Steps
  <1>3. ASSUME NEW r \in Term, Edits(r) PROVE SchemaIsNeverLost'
    BY <1>1, <1>3, Rows DEF Edits, CreateTerm, UpdateTerm, DeleteTerm
  <1>4. ASSUME Restart PROVE SchemaIsNeverLost'
    <2>1. \A k \in Introspection : pc[Request(k)] = "done" <=> pc'[Request(k)] = "done"
      BY <1>4, Tasks DEF Restart, Active
    <2> QED  BY <1>1, <1>4, <2>1 DEF Restart
  <1> QED  BY <1>2, <1>3, <1>4, Cases

-----------------------------------------------------------------------------
\* Whoever is quiet from now on has just begun, and alone.
LEMMA QuietBegins ==
    ASSUME NEW u \in Task, NEW v \in Task, quiet' = QuietFrom(u), quiet' = v
    PROVE  v = u /\ \A w \in Task \ {u} : ~ Active(w)
  BY Rows DEF QuietFrom

\* While an introspection is quiet nobody else touches the cached tables.
LEMMA QuietRequestKept == TypeOK /\ Phases /\ QuietRequest /\ Next => QuietRequest'
  <1> SUFFICES ASSUME TypeOK, Phases, Next, QuietRequest,
                      NEW q \in Introspection, quiet' = Request(q)
               PROVE  RequestAlone(q)'
    BY DEF QuietRequest
  <1> DEFINE u == Request(q)
             j == Job(q)
  <1> USE DEF TypeOK, RequestAlone
  <1>1. /\ u \in Task /\ j \in Task /\ u # j /\ NoTask # u
        /\ \A k \in Introspection : /\ Request(k) \in Task /\ Job(k) \in Task
                                    /\ u # Job(k) /\ j # Request(k)
                                    /\ (u = Request(k) \/ j = Job(k) => q = k)
    BY Tasks, Rows
  <1>2. ASSUME NEW i \in Introspection, Steps(i) PROVE RequestAlone(q)'
    <2>1. CASE BeginDelete(i)
      <3>1. i = q /\ \A w \in Task \ {u} : ~ Active(w)
        BY <2>1, <1>1, QuietBegins DEF BeginDelete
      <3> QED  BY <2>1, <1>1, <3>1 DEF BeginDelete, Active
    <2>2. CASE Count(i)
      BY <2>2, <1>1, QuietBegins DEF Count
    <2>3. CASE quiet' = quiet
      <3>1. /\ \A v \in Task \ {u} : Active(v) => v = j /\ pc[v] \in {"count", "raised"}
            /\ pc[u] = "delete" => rows \intersect Tables \subseteq todo[u] \union held[u]
            /\ pc[u] = "launched" => rows \intersect Tables \subseteq held[u]
            /\ pc[u] = "done" => rows \intersect Tables = {q} \X Table
        BY <2>3 DEF QuietRequest, RequestAlone
      <3>2. CASE i # q
        <4>1. ~ Active(Request(i)) /\ ~ Active(Job(i))
          BY <3>1, <3>2, <1>1
        <4> QED
          BY <1>2, <2>1, <2>2, <4>1
          DEF Active, Steps, DeleteRow, Launch, CommitIntrospection, FailRequest, SelectTables,
              Embed, FlushRow, Flushing, SelectTerms, CommitJob, Report, FailJob, RollbackFails
      <3>3. CASE i = q
        <4>1. pc[j] \in {"count", "raised"} \/ ~ Active(j)
          BY <3>1, <1>1
        <4>2. CASE DeleteRow(q)
          BY <4>2, <3>1, <1>1 DEF DeleteRow, Active
        <4>3. CASE Launch(q)
          BY <4>3, <3>1, <1>1 DEF Launch, Active
        <4>4. CASE CommitIntrospection(q)
          BY <4>4, <3>1, <1>1, Rows DEF CommitIntrospection, Active
        <4>5. CASE FailRequest(q)
          BY <4>5, <3>1, <1>1, RaiseRequest DEF FailRequest, Active
        <4>6. CASE Report(q)
          BY <4>6, <3>1, <1>1 DEF Report, Active
        <4>7. CASE FailJob(q)
          <5>1. /\ pc' = [pc EXCEPT ![j] = "raised"]
                /\ todo' = [todo EXCEPT ![j] = {}]
                /\ held' = [held EXCEPT ![j] = {}]
                /\ rows' = rows
            BY <4>7, RaiseJob DEF FailJob
          <5> QED  BY <5>1, <3>1, <1>1 DEF Active
        <4>8. CASE RollbackFails(q)
          BY <4>8, <3>1, <1>1 DEF RollbackFails, Active
        <4> QED
          BY <1>2, <2>1, <2>2, <3>3, <4>1, <4>2, <4>3, <4>4, <4>5, <4>6, <4>7, <4>8
          DEF Active, Steps, SelectTables, Embed, FlushRow, Flushing, SelectTerms, CommitJob
      <3> QED  BY <3>2, <3>3
    <2>4. quiet' = quiet \/ BeginDelete(i) \/ Count(i)
      BY <1>2, RaiseRequest, RaiseJob
      DEF Steps, DeleteRow, Launch, CommitIntrospection, FailRequest, SelectTables, Embed,
          FlushRow, SelectTerms, CommitJob, Report, FailJob, RollbackFails
    <2> QED  BY <2>1, <2>2, <2>3, <2>4
  <1>3. ASSUME NEW r \in Term, Edits(r) PROVE FALSE
    BY <1>1, <1>3 DEF Edits, CreateTerm, UpdateTerm, DeleteTerm
  <1>4. ASSUME Restart PROVE FALSE
    BY <1>1, <1>4 DEF Restart
  <1> QED  BY <1>2, <1>3, <1>4, Cases

-----------------------------------------------------------------------------
\* One item less to do.
LEMMA OneLess ==
    ASSUME TypeOK, NEW s \in SUBSET Row, NEW r \in s
    PROVE  Cardinality(s) = Cardinality(s \ {r}) + 1
  <1>1. IsFiniteSet(s) /\ Cardinality(s) \in Nat
    BY BareParts
  <1>2. Cardinality(s \ {r}) = Cardinality(s) - 1
    BY <1>1, FS_RemoveElement
  <1> QED  BY <1>1, <1>2

\* The steps of a job that has counted and is alone.
LEMMA JobAloneSteps ==
    ASSUME TypeOK, TypeOK', Phases, WritesAreExclusive,
           NEW q \in Introspection, JobAlone(q), Steps(q), ~ Count(q), quiet' = Job(q)
    PROVE  JobAlone(q)'
  <1> DEFINE j == Job(q)
  <1>1. /\ j \in Task /\ Request(q) \in Task /\ Request(q) # j
        /\ ~ Active(Request(q)) /\ \A v \in Task \ {j} : ~ Active(v)
    BY Tasks DEF JobAlone
  <1>2. CASE SelectTables(q)
    <2>1. /\ pc' = [pc EXCEPT ![j] = "tables"] /\ pc[j] = "select"
          /\ todo' = [todo EXCEPT ![j] = Bare \intersect Tables]
          /\ UNCHANGED <<rows, embedded, pending, held, progress>>
      BY <1>2 DEF SelectTables, Bare
    <2>2. pending[q] = {} /\ held[j] = {}
      BY <2>1 DEF Phases
    <2>3. progress.total = Cardinality(Bare) /\ progress.completed = 0
      BY <2>1 DEF JobAlone
    <2>4. pc'[j] = "tables" /\ todo'[j] = Bare \intersect Tables /\ Bare' = Bare
          /\ \A v \in Task \ {j} : pc'[v] = pc[v]
      BY <2>1, <1>1 DEF TypeOK, Bare
    <2>5. Mine(q)' = Bare \intersect Tables
      BY <2>1, <2>2, <2>4 DEF Mine
    <2>6. Cardinality(Bare \intersect Tables) \in Nat /\ Cardinality(Bare \intersect Term) \in Nat
      BY BareParts DEF Bare, TypeOK
    <2>7. progress'.total = progress'.completed + Cardinality(todo'[j])
                            + Cardinality((Bare \intersect Term)')
      BY <2>1, <2>3, <2>4, <2>6, BareParts
    <2> QED  BY <2>4, <2>5, <2>7, <1>1 DEF JobAlone, Active
  <1>3. CASE Embed(q)
    <2>1. PICK r \in todo[j] : /\ todo' = [todo EXCEPT ![j] = @ \ {r}]
                               /\ pending' = [pending EXCEPT ![q] = @ \union {r}]
      BY <1>3 DEF Embed
    <2>2. /\ pc' = pc /\ pc[j] \in {"tables", "terms"}
          /\ UNCHANGED <<rows, embedded, held>>
          /\ progress' = [progress EXCEPT !.completed = @ + 1]
      BY <1>3 DEF Embed
    <2>3. /\ progress'.completed = progress.completed + 1 /\ progress'.total = progress.total
          /\ progress.completed \in Nat
      BY <2>2 DEF TypeOK
    <2>4. Mine(q)' = Mine(q) /\ Bare' = Bare /\ todo'[j] = todo[j] \ {r}
      BY <2>1, <2>2, <1>1 DEF TypeOK, Mine, Bare
    <2>5. /\ Cardinality(todo[j]) = Cardinality(todo[j] \ {r}) + 1
          /\ Cardinality(todo[j] \ {r}) \in Nat /\ Cardinality(Bare \intersect Term) \in Nat
      <3>1. todo[j] \in SUBSET Row /\ Bare \in SUBSET Row  BY <1>1 DEF TypeOK, Bare
      <3> QED  BY <2>1, <3>1, OneLess, BareParts
    <2>6. CASE pc[j] = "tables"
      <3>1. /\ Bare \intersect Tables = Mine(q)
            /\ progress.total = progress.completed + Cardinality(todo[j])
                                + Cardinality(Bare \intersect Term)
        BY <2>6 DEF JobAlone
      <3>2. progress'.total = progress'.completed + Cardinality(todo'[j])
                              + Cardinality(Bare' \intersect Term)
        BY <2>3, <2>4, <2>5, <3>1
      <3> QED  BY <2>2, <2>4, <2>6, <3>1, <3>2, <1>1 DEF JobAlone, Active
    <2>7. CASE pc[j] = "terms"
      <3>1. Bare = Mine(q) /\ progress.total = progress.completed + Cardinality(todo[j])
        BY <2>7 DEF JobAlone
      <3>2. progress'.total = progress'.completed + Cardinality(todo'[j])
        BY <2>3, <2>4, <2>5, <3>1
      <3> QED  BY <2>2, <2>4, <2>7, <3>1, <3>2, <1>1 DEF JobAlone, Active
    <2> QED  BY <2>2, <2>6, <2>7
  <1>4. CASE FlushRow(q)
    <2>1. PICK r \in Flushing(q) : /\ pending' = [pending EXCEPT ![q] = @ \ {r}]
                                   /\ held' = [held EXCEPT ![j] = @ \union {r}]
      BY <1>4 DEF FlushRow
    <2>2. r \in pending[q] /\ pc[j] \in {"tables", "terms"}
      BY <2>1 DEF Flushing
    <2>3. UNCHANGED <<rows, embedded, pc, todo, progress>>
      BY <1>4 DEF FlushRow
    <2>4. Mine(q)' = Mine(q) /\ Bare' = Bare
      BY <2>1, <2>2, <2>3, <1>1 DEF TypeOK, Mine, Bare
    <2> QED  BY <2>3, <2>4, <1>1 DEF JobAlone, Active
  <1>5. CASE SelectTerms(q)
    <2>1. /\ pc' = [pc EXCEPT ![j] = "terms"] /\ pc[j] = "tables"
          /\ todo[j] = {} /\ pending[q] = {}
          /\ todo' = [todo EXCEPT ![j] = Bare \intersect Term]
          /\ UNCHANGED <<rows, embedded, pending, held, progress>>
      BY <1>5 DEF SelectTerms, Bare
    <2>2. /\ Bare \intersect Tables = Mine(q)
          /\ progress.total = progress.completed + Cardinality(todo[j])
                              + Cardinality(Bare \intersect Term)
      BY <2>1 DEF JobAlone
    <2>3. pc'[j] = "terms" /\ todo'[j] = Bare \intersect Term /\ Bare' = Bare
          /\ \A v \in Task \ {j} : pc'[v] = pc[v]
      BY <2>1, <1>1 DEF TypeOK, Bare
    <2>4. Bare = (Bare \intersect Tables) \union (Bare \intersect Term)
      BY Rows DEF Bare, TypeOK
    <2>5. Mine(q)' = Bare
      BY <2>1, <2>2, <2>3, <2>4 DEF Mine
    <2>6. progress.total = progress.completed + Cardinality(Bare \intersect Term)
      <3>1. Cardinality(todo[j]) = 0  BY <2>1, FS_EmptySet
      <3>2. Cardinality(Bare \intersect Term) \in Nat  BY BareParts DEF Bare, TypeOK
      <3> QED  BY <2>2, <3>1, <3>2 DEF TypeOK
    <2> QED  BY <2>1, <2>3, <2>5, <2>6, <1>1 DEF JobAlone, Active
  <1>6. CASE CommitJob(q)
    <2>1. /\ pc' = [pc EXCEPT ![j] = "committed"] /\ pc[j] = "terms"
          /\ todo[j] = {} /\ pending[q] = {}
          /\ embedded' = embedded \union held[j]
          /\ UNCHANGED <<rows, progress>>
      BY <1>6 DEF CommitJob
    <2>2. Bare = held[j] /\ progress.total = progress.completed + Cardinality(todo[j])
      BY <2>1 DEF JobAlone, Mine
    <2>3. rows' = embedded'
      BY <2>1, <2>2, <1>1 DEF TypeOK, Bare, WritesAreExclusive
    <2>4. progress.total = progress.completed
      BY <2>1, <2>2, FS_EmptySet DEF TypeOK
    <2>5. pc'[j] = "committed" /\ \A v \in Task \ {j} : pc'[v] = pc[v]
      BY <2>1, <1>1 DEF TypeOK
    <2> QED  BY <2>1, <2>3, <2>4, <2>5, <1>1 DEF JobAlone, Active
  <1>7. CASE Report(q)
    <2>1. /\ pc' = [pc EXCEPT ![j] = IF pc[j] = "committed" THEN "ended" ELSE "failed"]
          /\ UNCHANGED <<rows, embedded>>
      BY <1>7 DEF Report
    <2>2. pc[j] = "committed" => rows = embedded
      BY DEF JobAlone
    <2> QED  BY <2>1, <2>2, <1>1 DEF JobAlone, Active, TypeOK
  <1>8. CASE FailJob(q)
    <2>1. pc' = [pc EXCEPT ![j] = "raised"]
      BY <1>8, RaiseJob DEF FailJob
    <2> QED  BY <2>1, <1>1 DEF JobAlone, Active, TypeOK
  <1>11. CASE RollbackFails(q)
    <2>1. pc' = [pc EXCEPT ![j] = "lost"]
      BY <1>11 DEF RollbackFails
    <2> QED  BY <2>1, <1>1 DEF JobAlone, Active, TypeOK
  <1>9. ~ BeginDelete(q)
    BY <1>1, QuietBegins DEF BeginDelete
  <1>10. ~ (DeleteRow(q) \/ Launch(q) \/ CommitIntrospection(q) \/ FailRequest(q))
    BY <1>1 DEF Active, DeleteRow, Launch, CommitIntrospection, FailRequest
  <1> QED
    BY <1>2, <1>3, <1>4, <1>5, <1>6, <1>7, <1>8, <1>9, <1>10, <1>11 DEF Steps

\* While a job is quiet nobody else moves, and a job becomes quiet by counting.
LEMMA QuietJobKept ==
    TypeOK /\ TypeOK' /\ Phases /\ WritesAreExclusive /\ QuietJob /\ Next => QuietJob'
  <1> SUFFICES ASSUME TypeOK, TypeOK', Phases, WritesAreExclusive, QuietJob, Next,
                      NEW q \in Introspection, quiet' = Job(q)
               PROVE  JobAlone(q)'
    BY DEF QuietJob
  <1> DEFINE j == Job(q)
  <1>1. /\ j \in Task /\ NoTask # j
        /\ \A k \in Introspection : /\ Request(k) \in Task /\ Job(k) \in Task
                                    /\ j # Request(k) /\ (j = Job(k) => q = k)
    BY Tasks, Rows
  <1>2. ASSUME NEW i \in Introspection, Steps(i) PROVE JobAlone(q)'
    <2>1. CASE BeginDelete(i)
      BY <2>1, <1>1, QuietBegins DEF BeginDelete
    <2>2. CASE Count(i)
      <3>1. i = q /\ \A w \in Task \ {j} : ~ Active(w)
        BY <2>2, <1>1, QuietBegins DEF Count
      <3>2. /\ UNCHANGED <<rows, embedded>>
            /\ \/ /\ Cardinality(Bare) = 0
                  /\ pc' = [pc EXCEPT ![j] = "ended"]
               \/ /\ pc' = [pc EXCEPT ![j] = "select"]
                  /\ progress' = [status |-> "running", total |-> Cardinality(Bare),
                                  completed |-> 0]
        BY <2>2, <3>1 DEF Count, Bare
      <3>3. Cardinality(Bare) = 0 => rows = embedded
        <4>1. IsFiniteSet(Bare)  BY BareParts DEF Bare, TypeOK
        <4>2. Cardinality(Bare) = 0 => Bare = {}  BY <4>1, FS_EmptySet
        <4> QED  BY <4>2 DEF Bare, TypeOK
      <3> QED  BY <3>1, <3>2, <3>3, <1>1 DEF JobAlone, Active, TypeOK, Bare
    <2>3. CASE quiet' = quiet
      <3>1. JobAlone(q)  BY <2>3 DEF QuietJob
      <3>2. CASE i = q
        BY <1>2, <2>2, <3>1, <3>2, JobAloneSteps
      <3>3. CASE i # q
        <4>1. ~ Active(Request(i)) /\ ~ Active(Job(i))
          BY <3>1, <3>3, <1>1 DEF JobAlone
        <4> QED
          BY <1>2, <2>1, <2>2, <4>1
          DEF Active, Steps, DeleteRow, Launch, CommitIntrospection, FailRequest, SelectTables,
              Embed, FlushRow, Flushing, SelectTerms, CommitJob, Report, FailJob, RollbackFails
      <3> QED  BY <3>2, <3>3
    <2>4. quiet' = quiet \/ BeginDelete(i) \/ Count(i)
      BY <1>2, RaiseRequest, RaiseJob
      DEF Steps, DeleteRow, Launch, CommitIntrospection, FailRequest, SelectTables, Embed,
          FlushRow, SelectTerms, CommitJob, Report, FailJob, RollbackFails
    <2> QED  BY <2>1, <2>2, <2>3, <2>4
  <1>3. ASSUME NEW r \in Term, Edits(r) PROVE FALSE
    BY <1>1, <1>3 DEF Edits, CreateTerm, UpdateTerm, DeleteTerm
  <1>4. ASSUME Restart PROVE FALSE
    BY <1>1, <1>4 DEF Restart
  <1> QED  BY <1>2, <1>3, <1>4, Cases

-----------------------------------------------------------------------------
\* The invariant is inductive.
LEMMA NextInv == IInv /\ [Next]_vars => IInv'
  <1> SUFFICES ASSUME IInv, [Next]_vars PROVE IInv'
    OBVIOUS
  <1>1. CASE Next
    BY <1>1, TypeKept, PhasesKept, ExclusiveKept, CountedKept, SchemaKept, QuietRequestKept,
       QuietJobKept
    DEF IInv
  <1>2. CASE UNCHANGED vars
    <2>1. (TypeOK /\ Phases /\ WritesAreExclusive)'
      BY <1>2 DEF vars, IInv, TypeOK, Phases, WritesAreExclusive
    <2>2. (CountedIsMine /\ CountedIsEmbedded /\ SchemaIsNeverLost)'
      BY <1>2 DEF vars, IInv, CountedIsMine, Mine, CountedIsEmbedded, SchemaIsNeverLost
    <2>3. QuietRequest'
      BY <1>2 DEF vars, IInv, QuietRequest, RequestAlone, Active
    <2>4. QuietJob'
      BY <1>2 DEF vars, IInv, QuietJob, JobAlone, Bare, Mine, Active
    <2> QED  BY <2>1, <2>2, <2>3, <2>4 DEF IInv
  <1> QED  BY <1>1, <1>2

LEMMA Invariance == Spec => []IInv
  BY InitInv, NextInv, PTL DEF Spec

\* The rows, the tasks, their transactions and the record are well typed, for
\* any number of introspections, tables and authored rows.
THEOREM TypeCorrect == Spec => []TypeOK
  <1>1. IInv => TypeOK  BY DEF IInv
  <1> QED  BY <1>1, Invariance, PTL

\* The tables that a job has counted after its introspection committed have
\* their vectors when it has ended well, for any number of jobs, introspections
\* and users that work on the same rows meanwhile.
THEOREM CountedEmbedded == Spec => []CountedIsEmbedded
  <1>1. IInv => CountedIsEmbedded  BY DEF IInv
  <1> QED  BY <1>1, Invariance, PTL

\* The record is left at "running" without a job by nothing but a job whose
\* rollback failed, however many jobs share it.
THEOREM StrandedByRollback == Spec => OnlyLostRollbackStrands
  <1>1. IInv /\ [Next]_vars =>
           [Stranded' /\ ~ Stranded =>
               \E i \in Introspection : pc[Job(i)] = "raised" /\ pc'[Job(i)] = "lost"]_vars
    BY StrandedStep DEF IInv
  <1> QED  BY <1>1, Invariance, PTL DEF Spec, OnlyLostRollbackStrands

\* A connection that was introspected keeps the tables of an introspection.
THEOREM SchemaStays == Spec => []SchemaIsNeverLost
  <1>1. IInv => SchemaIsNeverLost  BY DEF IInv
  <1> QED  BY <1>1, Invariance, PTL

\* An introspection that nothing overlapped leaves exactly its own tables.
THEOREM IntrospectionReplaces == Spec => []QuietIntrospectionReplaces
  <1>1. IInv => QuietIntrospectionReplaces
    BY DEF IInv, QuietRequest, RequestAlone, QuietIntrospectionReplaces
  <1> QED  BY <1>1, Invariance, PTL

\* A job that nothing overlapped leaves nothing without a vector, and has
\* embedded as many items as it announced.
THEOREM JobEmbedsAll == Spec => []QuietJobEmbedsAll
  <1>1. IInv => QuietJobEmbedsAll
    BY DEF IInv, QuietJob, JobAlone, QuietJobEmbedsAll
  <1> QED  BY <1>1, Invariance, PTL
=============================================================================
