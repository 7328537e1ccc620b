------------------------------ MODULE Seeding ------------------------------
(***************************************************************************)
(* scripts/seed_sqlserver_metadata.py against the metadata endpoints of    *)
(* one connection.  The script lists what is there, skips or deletes what  *)
(* it has a row for, and posts the rest, each over a request of its own;   *)
(* a request may be refused, and one whose answer never comes ends the     *)
(* script while the server may still carry it out.  Users, introspections  *)
(* and imports of documents by source_url write the same rows.  No table   *)
(* has a unique constraint.                                                *)
(***************************************************************************)
EXTENDS Naturals, Sequences, FiniteSets

CONSTANTS SeedData,   \* what may be filled in: for each kind, keys with a row
          Other,      \* a key users author themselves
          Url,        \* the source_url of the imported document
          Importer,   \* concurrent POST /knowledge with that source_url
          MaxRuns,    \* runs of the script (a bound)
          MaxImports, \* imports of the document (a bound)
          MaxColumn,  \* introspections (a bound)
          MaxId       \* rows ever inserted (a bound)

\* main seeds, and purges, the kinds in this order.
Order == <<"glossary", "metric", "dictionary", "knowledge">>
Kind == {Order[n] : n \in 1 .. 4}
SeedKey == UNION {UNION {s[k] : k \in Kind} : s \in SeedData}
Key == SeedKey \union {Other, Url}

ASSUME SeedingAssumption ==
    /\ \A s \in SeedData : DOMAIN s = Kind
    /\ Other \notin SeedKey /\ Url \notin SeedKey /\ Other # Url
    /\ MaxRuns \in Nat /\ MaxImports \in Nat /\ MaxColumn \in Nat /\ MaxId \in Nat

VARIABLES
    seeds,     \* the data of the script
    rows,      \* committed rows
    lastId,
    column,    \* the cached column the dictionary entries hang on, 0 when none
    script,    \* the run of the script
    runs,
    abandoned, \* requests whose client is gone, still with the server
    imports,   \* the imports, with the documents each has deleted
    imported,  \* how many have begun
    fresh,     \* ids of rows committed since the run began
    unsure,    \* kinds some run has seeded from a listing that missed rows
    disturbed, \* someone else has removed rows since the run began
    swept      \* the run's purge has met no refusal

vars == <<seeds, rows, lastId, column, script, runs, abandoned, imports, imported, fresh, unsure, disturbed, swept>>

Row == [id : 1 .. MaxId, kind : Kind, key : Key, column : 0 .. MaxColumn]
Mode == [purge : BOOLEAN, overwrite : BOOLEAN]
Phase == {"off", "purge", "purging", "columns", "list", "seed", "done"}

\* The requests of the script that change something.
Posts == [op : {"post"}, run : 1 .. MaxRuns, kind : Kind, key : Key, column : 0 .. MaxColumn]
Deletes == [op : {"delete"}, run : 1 .. MaxRuns, id : 1 .. MaxId]

RowsOf(k) == {r \in rows : r.kind = k}
With(k, key) == {r \in RowsOf(k) : r.key = key}
Ids(s) == {r.id : r \in s}

TypeOK ==
    /\ seeds \in SeedData
    /\ rows \subseteq Row
    /\ lastId \in 0 .. MaxId
    /\ column \in 0 .. MaxColumn
    /\ script.pc \in Phase /\ script.mode \in Mode /\ script.n \in 1 .. 4
    /\ script.left \subseteq 1 .. MaxId /\ script.todo \subseteq Key
    /\ \A k \in DOMAIN script.existing : k \in Key /\ script.existing[k] \in 1 .. MaxId
    /\ script.column \in 0 .. MaxColumn /\ script.failed \in BOOLEAN
    /\ runs \in 0 .. MaxRuns
    /\ abandoned \subseteq Posts \union Deletes
    /\ \A i \in Importer : imports[i].busy \in BOOLEAN /\ imports[i].lone \in BOOLEAN
                           /\ imports[i].old \subseteq 1 .. MaxId
    /\ imported \in 0 .. MaxImports
    /\ fresh \subseteq 1 .. lastId
    /\ unsure \subseteq Kind
    /\ disturbed \in BOOLEAN /\ swept \in BOOLEAN
    \* Ids identify rows, and dictionary entries hang on the cached column.
    /\ \A r, s \in rows : r.id = s.id => r = s
    /\ Ids(rows) \subseteq 1 .. lastId
    /\ \A r \in RowsOf("dictionary") : r.column = column

NoScript == [pc |-> "off", mode |-> [purge |-> FALSE, overwrite |-> FALSE], n |-> 1, left |-> {},
             todo |-> {}, existing |-> <<>>, column |-> 0, failed |-> FALSE]
NoImport == [busy |-> FALSE, lone |-> FALSE, old |-> {}]

Init ==
    /\ seeds \in SeedData
    /\ rows = {} /\ lastId = 0 /\ column = 0
    /\ script = NoScript /\ runs = 0
    /\ abandoned = {}
    /\ imports = [i \in Importer |-> NoImport] /\ imported = 0
    /\ fresh = {} /\ unsure = {} /\ disturbed = FALSE /\ swept = TRUE

-----------------------------------------------------------------------------
\* The endpoints.

\* The column is not looked at.
InsertUnchecked(k, key, col) ==
    /\ lastId < MaxId
    /\ rows' = rows \union {[id |-> lastId + 1, kind |-> k, key |-> key, column |-> col]}
    /\ lastId' = lastId + 1
    /\ fresh' = fresh \union {lastId + 1}

\* A row is inserted.  A dictionary entry refers to its column.
Insert(k, key, col) ==
    /\ lastId < MaxId
    /\ k = "dictionary" => col = column
    /\ rows' = rows \union {[id |-> lastId + 1, kind |-> k, key |-> key, column |-> col]}
    /\ lastId' = lastId + 1
    /\ fresh' = fresh \union {lastId + 1}

Remove(ids) == rows' = {r \in rows : r.id \notin ids}

\* A user authors a row of their own (one at a time, a bound), or deletes one.
UserCreates(k) ==
    /\ ~ \E r \in rows : r.key = Other
    /\ Insert(k, Other, IF k = "dictionary" THEN column ELSE 0)
    /\ k = "dictionary" => column > 0
    /\ UNCHANGED <<seeds, column, script, runs, abandoned, imports, imported, unsure, disturbed, swept>>

UserDeletes(r) ==
    /\ Remove({r.id})
    /\ disturbed' = TRUE
    /\ UNCHANGED <<seeds, lastId, column, script, runs, abandoned, imports, imported, fresh, unsure, swept>>

\* POST /introspect: the cached columns are new ones, and the entries of the
\* old ones go with them.
Introspect ==
    /\ column < MaxColumn
    /\ column' = column + 1
    /\ Remove(Ids(RowsOf("dictionary")))
    /\ disturbed' = TRUE
    /\ UNCHANGED <<seeds, lastId, script, runs, abandoned, imports, imported, fresh, unsure, swept>>

\* Only the oldest document of the source_url.
OutdatedOne ==
    LET docs == Ids(With("knowledge", Url))
    IN  {d \in docs : \A e \in docs : d <= e}

\* import_document with a source_url: the documents of it that are committed
\* now are deleted, and the new one inserted when the request commits.
Outdated == Ids(With("knowledge", Url))

StartImport(i) ==
    /\ ~imports[i].busy
    /\ imported < MaxImports
    /\ imported' = imported + 1
    /\ imports' = [j \in Importer |->
           IF j = i THEN [busy |-> TRUE, old |-> Outdated,
                          lone |-> \A o \in Importer : ~imports[o].busy]
           ELSE [imports[j] EXCEPT !.lone = FALSE]]
    /\ UNCHANGED <<seeds, rows, lastId, column, script, runs, abandoned, fresh, unsure, disturbed, swept>>

CommitImport(i) ==
    /\ imports[i].busy
    /\ lastId < MaxId
    /\ rows' = {r \in rows : r.id \notin imports[i].old}
               \union {[id |-> lastId + 1, kind |-> "knowledge", key |-> Url, column |-> 0]}
    /\ lastId' = lastId + 1
    /\ fresh' = fresh \union {lastId + 1}
    /\ imports' = [imports EXCEPT ![i] = NoImport]
    /\ UNCHANGED <<seeds, column, script, runs, abandoned, imported, unsure, disturbed, swept>>

FailImport(i) ==
    /\ imports[i].busy
    /\ imports' = [imports EXCEPT ![i] = NoImport]
    /\ UNCHANGED <<seeds, rows, lastId, column, script, runs, abandoned, imported, fresh, unsure, disturbed, swept>>

\* The server carries out, or rolls back, a request nobody waits for.
CommitAbandoned(q) ==
    /\ abandoned' = abandoned \ {q}
    /\ IF q.op = "post"
       THEN Insert(q.kind, q.key, q.column) /\ UNCHANGED disturbed
       ELSE Remove({q.id}) /\ disturbed' = TRUE /\ UNCHANGED <<lastId, fresh>>
    /\ UNCHANGED <<seeds, column, script, runs, imports, imported, unsure, swept>>

DropAbandoned(q) ==
    /\ abandoned' = abandoned \ {q}
    /\ UNCHANGED <<seeds, rows, lastId, column, script, runs, imports, imported, fresh, unsure, disturbed, swept>>

-----------------------------------------------------------------------------
\* The script.

\* The server's part of the state, which a step of the script that only reads
\* leaves alone.
ServerIdle == UNCHANGED <<rows, lastId, column, abandoned, imports, imported, fresh, disturbed>>

Current == Order[script.n]

\* Where the seeding of the n-th kind begins; a kind without rows is passed
\* over.
SeedFrom(s, n) ==
    LET rest == {m \in n .. 4 : seeds[Order[m]] # {}}
        next == CHOOSE m \in rest : \A o \in rest : m <= o
    IN  IF rest = {} THEN [s EXCEPT !.pc = "done"]
        ELSE [s EXCEPT !.n = next, !.existing = <<>>, !.todo = seeds[Order[next]],
                       !.pc = IF Order[next] = "dictionary" THEN "columns" ELSE "list"]

\* The purge goes on with the next kind, or the seeding begins.
PurgeOn(s) ==
    IF s.n < 4 THEN [s EXCEPT !.pc = "purge", !.n = s.n + 1, !.left = {}]
    ELSE SeedFrom([s EXCEPT !.left = {}], 1)

\* The script logs in, finds the connection, and begins.
Launch(m) ==
    /\ script.pc \in {"off", "done"}
    /\ runs < MaxRuns
    /\ runs' = runs + 1
    /\ script' = IF m.purge THEN [NoScript EXCEPT !.mode = m, !.pc = "purge"]
                 ELSE SeedFrom([NoScript EXCEPT !.mode = m], 1)
    /\ fresh' = {} /\ disturbed' = FALSE /\ swept' = TRUE
    /\ UNCHANGED <<seeds, rows, lastId, column, abandoned, imports, imported, unsure>>

\* A request gets no answer, or one the script raises for.
Die ==
    /\ script.pc \notin {"off", "done"}
    /\ script' = NoScript
    /\ ServerIdle /\ UNCHANGED <<seeds, runs, unsure, swept>>

\* A request that writes gets no answer: the server still has it.
DieOn(q) ==
    /\ script' = NoScript
    /\ abandoned' = abandoned \union {q}
    /\ UNCHANGED <<seeds, rows, lastId, column, runs, imports, imported, fresh, unsure, disturbed, swept>>

PurgeLists ==
    /\ script.pc = "purge"
    /\ script' = [script EXCEPT !.pc = "purging", !.left = Ids(RowsOf(Current))]
    /\ ServerIdle /\ UNCHANGED <<seeds, runs, unsure, swept>>

\* A listing refused: the kind is not purged (of the dictionary, without a
\* word).
PurgeSkips ==
    /\ script.pc = "purge"
    /\ script' = PurgeOn(script)
    /\ swept' = FALSE
    /\ ServerIdle /\ UNCHANGED <<seeds, runs, unsure>>

PurgeDeletes(id) ==
    /\ script.pc = "purging"
    /\ id \in script.left
    /\ \/ /\ id \in Ids(rows)
          /\ Remove({id})
          /\ script' = [script EXCEPT !.left = @ \ {id}]
          /\ UNCHANGED <<lastId, column, abandoned, imports, imported, fresh, disturbed, swept>>
       \/ \* It is gone, or the request refused: counted, and the next one.
          /\ script' = [script EXCEPT !.left = @ \ {id}]
          /\ swept' = FALSE
          /\ ServerIdle
       \/ DieOn([op |-> "delete", run |-> runs, id |-> id]) /\ UNCHANGED swept
    /\ UNCHANGED <<seeds, runs, unsure>>

PurgedKind ==
    /\ script.pc = "purging"
    /\ script.left = {}
    /\ script' = PurgeOn(script)
    /\ ServerIdle /\ UNCHANGED <<seeds, runs, unsure, swept>>

\* seed_dictionary reads the cached schema for the ids of the columns.
ReadColumns ==
    /\ script.pc = "columns"
    /\ script' = IF column = 0 THEN SeedFrom([script EXCEPT !.failed = TRUE], script.n + 1)
                 ELSE [script EXCEPT !.column = column, !.pc = "list"]
    /\ ServerIdle /\ UNCHANGED <<seeds, runs, unsure, swept>>

\* What is there, by key: one id of each.
Listing == {r \in RowsOf(Current) : Current = "dictionary" => r.column = script.column}

ExistingChoices ==
    {f \in [{r.key : r \in Listing} -> Ids(Listing)] :
        \A k \in DOMAIN f : \E r \in Listing : r.id = f[k] /\ r.key = k}

Lists ==
    /\ script.pc = "list"
    /\ \E f \in ExistingChoices : script' = [script EXCEPT !.pc = "seed", !.existing = f]
    /\ unsure' = IF \E q \in abandoned : q.op = "post" /\ q.kind = Current
                 THEN unsure \union {Current} ELSE unsure
    /\ ServerIdle /\ UNCHANGED <<seeds, runs, swept>>

\* A listing refused: the script takes it that nothing is there.
ListsNothing ==
    /\ script.pc = "list"
    /\ script' = [script EXCEPT !.pc = "seed"]
    /\ unsure' = unsure \union {Current}
    /\ ServerIdle /\ UNCHANGED <<seeds, runs, swept>>

Taken(k) == k \in DOMAIN script.existing

Skip(k) ==
    /\ script.pc = "seed"
    /\ k \in script.todo
    /\ Taken(k) /\ ~script.mode.overwrite
    /\ script' = [script EXCEPT !.todo = @ \ {k}]
    /\ ServerIdle /\ UNCHANGED <<seeds, runs, unsure, swept>>

\* A refused DELETE does not keep the row from being posted.
OverwriteAnyway(k) ==
    /\ script.pc = "seed"
    /\ k \in script.todo
    /\ Taken(k) /\ script.mode.overwrite
    /\ LET id == script.existing[k]
           free == [script EXCEPT !.existing = [o \in DOMAIN @ \ {k} |-> @[o]]]
       IN  \/ /\ id \in Ids(rows) /\ Remove({id}) /\ script' = free
              /\ UNCHANGED <<lastId, column, abandoned, imports, imported, fresh, disturbed, swept>>
           \/ /\ script' = [free EXCEPT !.failed = TRUE]
              /\ ServerIdle /\ UNCHANGED swept
    /\ UNCHANGED <<seeds, runs, unsure>>

\* The row of a key is deleted before it is posted again; a refusal, or a row
\* that is gone, is a failure and the key is passed over.
Overwrite(k) ==
    /\ script.pc = "seed"
    /\ k \in script.todo
    /\ Taken(k) /\ script.mode.overwrite
    /\ LET id == script.existing[k]
       IN  \/ /\ id \in Ids(rows)
              /\ Remove({id})
              /\ script' = [script EXCEPT !.existing = [o \in DOMAIN @ \ {k} |-> @[o]]]
              /\ UNCHANGED <<lastId, column, abandoned, imports, imported, fresh, disturbed, swept>>
           \/ /\ script' = [script EXCEPT !.todo = @ \ {k}, !.failed = TRUE]
              /\ ServerIdle /\ UNCHANGED swept
           \/ DieOn([op |-> "delete", run |-> runs, id |-> id])
    /\ UNCHANGED <<seeds, runs, unsure>>

PostedColumn == IF Current = "dictionary" THEN script.column ELSE 0

\* A post that is refused, and not counted.
PostUncounted(k) ==
    /\ script.pc = "seed"
    /\ k \in script.todo
    /\ ~Taken(k)
    /\ \/ /\ Insert(Current, k, PostedColumn)
          /\ UNCHANGED <<column, abandoned, imports, imported, disturbed, swept>>
       \/ ServerIdle /\ UNCHANGED swept
    /\ script' = [script EXCEPT !.todo = @ \ {k}]
    /\ UNCHANGED <<seeds, runs, unsure>>

\* A key that has no row is posted.  A refusal is counted.
Post(k) ==
    /\ script.pc = "seed"
    /\ k \in script.todo
    /\ ~Taken(k)
    /\ \/ /\ Insert(Current, k, PostedColumn)
          /\ script' = [script EXCEPT !.todo = @ \ {k}]
          /\ UNCHANGED <<column, abandoned, imports, imported, disturbed, swept>>
       \/ /\ script' = [script EXCEPT !.todo = @ \ {k}, !.failed = TRUE]
          /\ ServerIdle /\ UNCHANGED swept
       \/ DieOn([op |-> "post", run |-> runs, kind |-> Current, key |-> k, column |-> PostedColumn])
    /\ UNCHANGED <<seeds, runs, unsure>>

SeededKind ==
    /\ script.pc = "seed"
    /\ script.todo = {}
    /\ script' = SeedFrom(script, script.n + 1)
    /\ ServerIdle /\ UNCHANGED <<seeds, runs, unsure, swept>>

-----------------------------------------------------------------------------
\* The functions of the script, one per kind and phase.
PurgeStep ==
    \/ PurgeLists \/ PurgeSkips \/ PurgedKind
    \/ \E id \in script.left : PurgeDeletes(id)

purge_glossary == Current = "glossary" /\ PurgeStep
purge_metrics == Current = "metric" /\ PurgeStep
purge_dictionary == Current = "dictionary" /\ PurgeStep
purge_knowledge == Current = "knowledge" /\ PurgeStep

SeedStep ==
    \/ Lists \/ ListsNothing \/ SeededKind
    \/ \E k \in script.todo : Skip(k) \/ Overwrite(k) \/ Post(k)

seed_glossary == Current = "glossary" /\ SeedStep
seed_metrics == Current = "metric" /\ SeedStep
seed_dictionary == Current = "dictionary" /\ (ReadColumns \/ SeedStep)
seed_knowledge == Current = "knowledge" /\ SeedStep

Next ==
    \/ \E k \in Kind : UserCreates(k)
    \/ \E r \in rows : UserDeletes(r)
    \/ Introspect
    \/ \E i \in Importer : StartImport(i) \/ CommitImport(i) \/ FailImport(i)
    \/ \E q \in abandoned : CommitAbandoned(q) \/ DropAbandoned(q)
    \/ \E m \in Mode : Launch(m)
    \/ Die
    \/ purge_glossary \/ purge_metrics \/ purge_dictionary \/ purge_knowledge
    \/ seed_glossary \/ seed_metrics \/ seed_dictionary \/ seed_knowledge

Spec == Init /\ [][Next]_vars

-----------------------------------------------------------------------------
\* However often the script has been run, refused and cut off, a key of a kind
\* it has always listed in full has one row: a run that died between a DELETE
\* and its POST, or on a request the server then carried out, leaves a state
\* from which the next one goes on.
OneRowPerKey ==
    \A k \in Kind \ unsure : \A key \in seeds[k] : Cardinality(With(k, key)) <= 1

\* What a run that ends without a reported failure promises, when nobody else
\* removes rows meanwhile: every key has a row; after --overwrite, and after a
\* --purge that met no refusal, one it has written itself; after such a purge
\* nothing is older than the run.
ReportedOk ==
    script.pc = "done" /\ ~script.failed /\ ~disturbed =>
        /\ \A k \in Kind : \A key \in seeds[k] :
              \E r \in With(k, key) :
                  script.mode.overwrite \/ (script.mode.purge /\ swept) => r.id \in fresh
        /\ script.mode.purge /\ swept => Ids(rows) \subseteq fresh

\* An import with no other import of the same source_url beside it leaves one
\* document of it, however many earlier ones have left (two at a time leave
\* two).
LoneImportReplaces ==
    [][\A i \in Importer :
          imports[i].lone /\ CommitImport(i) => Cardinality({r \in rows' : r.key = Url}) = 1]_vars

\* The script's docstring: it is idempotent-safe, and an attempt at a
\* duplicate is reported as the violation of a unique constraint.  The code
\* has no such constraint: a refused listing makes it post everything again.
Idempotent ==
    abandoned = {} => \A k \in Kind : \A key \in seeds[k] : Cardinality(With(k, key)) <= 1
=============================================================================
