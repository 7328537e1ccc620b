# A model of the query backend

TLA+ modules, TLC configurations and TLAPS proofs about the backend of this
repository (`backend/app`, "QueryWise"): a FastAPI service that answers
questions about a target database in natural language.  Line numbers refer to
`backend/app/` unless another directory is given.

## The system

| part | state it keeps | operations | interacts with |
|---|---|---|---|
| connector registry (`connectors/connector_registry.py`) | `_active_connectors`: connection id → connector with its pool | `get_or_create_connector`, `remove_connector` | called by the query pipeline, introspection, connection service |
| connection service (`services/connection_service.py`) | rows of `database_connections` | create, update, delete, test | invalidates the registry |
| query service and endpoint (`services/query_service.py`) | none of its own | `execute_nl_query`, `execute_raw_sql`, `generate_sql_only` | runs the graph, writes the chat title, returns `turn_context` |
| query pipeline (`llm/graph/`) | `GraphState` of one request | classify, extract filters, update plan, domain tool, `llm_fallback`, interpret, write history | LLM and embedding providers, registry, database session |
| chats and history (`db/models`, `endpoints/sessions.py`) | `chat_sessions`, `query_executions` | rename, delete, list | share rows with the query service |
| client (`chatbot-frontend`) | the last `turn_context`, the "clear" flag | send a question | sends the context back |
| database session (`db/session.py`) | one transaction per request | commit or rollback | every endpoint |
| semantic context (`semantic/`) | none | `build_context` | reads the metadata tables, shares the request's transaction |
| plan and compiler (`query_plan.py`, `plan_updater.py`, `sql_compiler.py`) | `QueryPlan` in the context | accumulate filters, compile | pipeline, client |
| schema cache (`services/schema_service.py`) | `cached_tables`, `cached_columns`, `cached_relationships` | `introspect_and_cache` | registry, embedding jobs |
| embeddings (`services/embedding_*.py`, `setup_service.py`) | vector columns, in-memory progress and tasks | background job, inline embedding, reset at startup | schema cache, metadata endpoints |
| filters of a question (`filter_extractor.py`, `llm_groq_extractor.py`, `llm_extraction.py` … `confidence_scoring.py`, `field_registry.py`) | `filters`, `confidence` of one request | three ways from a question to filters, one per entry of the graph | classification before, plan after |
| domain agents and refinement (`llm/graph/domains/`) | the prior SQL and parameters in the context | `execute`, `_try_refinement`, `_run_refinement` | connector, client's context |
| SQL Server connector (`connectors/sqlserver/connector.py`) | `_pool` | connect, test, disconnect, introspect, `execute_query` | called by everything that reads a target database |
| semantic metadata endpoints (`endpoints/glossary.py` … `knowledge.py`) | rows of a connection | create, list, delete, import | inline embedding, seeding script |
| seeding script (`scripts/seed_sqlserver_metadata.py`) | none but the rows it leaves | purge, list, delete, post | the metadata endpoints, over HTTP |
| intent catalog (`llm/graph/intent_catalog.py`) | embeddings of the intents, a flag and a lock | `ensure_catalog_embedded` | classification |
| query result cache (`nodes/query_cache.py`) | LRU with a time to live | get, set, evict | used by no node of the graph |
| SQL sanitizer, validators, providers, authentication, admin frontend, migrations | – | – | – |

Where it is hard: everything runs as asyncio tasks of one process, so the
shared dictionaries change at every `await`; a request is one database
transaction that several nested functions write to, swallow errors in and
sometimes roll back; models, embeddings and target databases may raise at any
call; the client carries state from one turn to the next.  What makes each part
correct:

* registry: it never keeps a dead connector, never closes one under a
  statement, never opens one with a configuration that was not committed, drops
  it when the configuration changes, and every request is answered;
* a turn: it is atomic, it ends, its answer is the outcome of the query whose
  rows it shows, the role limits the tools, and the context it leaves is the one
  the next turn needs;
* plan: the filters of a topic are collected, replaced or dropped as the
  question asks, and the compiled SQL has exactly these, each placeholder with
  the parameter meant for it;
* refinement: what is wrapped is the base statement of the same intent, and a
  refinement that cannot be executed degrades to it;
* SQL Server connector: a bounded result says whether it was cut, and no caller
  waits for ever for a connection another has lost;
* seeding: reruns after any interruption neither duplicate nor lose rows, and
  what the script reports is so;
* intent catalog: no question is compared with half of it;
* embeddings: the schema survives whatever overlaps or fails, a job that ends
  well leaves what it counted embedded, and what is said of its progress is so;
* caches: what they return is what was stored, within their limits.

`PROJECT.json` lists the components with what is modelled of each, and the
hazards with the properties that cover them.

## The modules

| module | what it is |
|---|---|
| `Connectors` | the registry and the requests that go through it |
| `MCConnectors` | its instances: one connection, three requests |
| `ConnectorsProofs` | its invariants proved |
| `QueryContract` | what a turn promises the application database |
| `QueryTurn` | `POST /query`, the pipeline, the session, the client's context |
| `MCQueryTurn` | a catalog of three intents |
| `QueryTurnProofs` | its invariants, and that it implements `QueryContract` |
| `Embeddings` | schema cache and authored rows of a connection, their vectors, the background jobs |
| `MCEmbeddings` | a connection that is introspected twice more |
| `EmbeddingsProofs` | its invariants proved |
| `FieldRegistry`, `SqlCompiler`, `Extraction`, `PlanUpdater` | the pure functions of the planned pipeline, each extending the one before |
| `TopicSwitches` | `_is_topic_switch` |
| `FilterMemory` | what the accumulation of filters promises |
| `PlanTurns` | a conversation with the plan compiler on, through all three entries of the graph |
| `MCPlanTurns`, `PlanTurnsProofs` | instances; its invariants proved, and that it implements `FilterMemory` |
| `Refinement` | the registry of refinement templates and the base statements |
| `RefineTurns` | a conversation with the plan compiler off |
| `MCRefineTurns`, `RefineTurnsProofs` | six topics; its invariants proved |
| `Seeding` | the seeding script against the metadata endpoints |
| `MCSeeding`, `SeedingProofs` | instances; its properties proved |
| `SqlServer` | one SQL Server connector and the calls that share it |
| `MCSqlServer`, `SqlServerProofs` | instances; whole results proved |
| `IntentCatalog` | the embedding of the catalog |
| `MCIntentCatalog`, `IntentCatalogProofs` | instances; its invariants proved |

`PlanTurns` composes the four pure modules with `TopicSwitches` and implements
`FilterMemory`; `RefineTurns` composes `Refinement` with `TopicSwitches`;
`QueryTurn` implements `QueryContract`.

### Connectors

A step is the code a task runs between two suspension points; everything the
code does without awaiting the network is one step.  `row` and `rowLock` are
the connection's committed row and the transaction that has written it,
`registry` is `_active_connectors`, `pool[c]` is the asyncpg pool of connector
object `c`, and `req[r]` is request `r` with its local variables.  A request is
a query (`execute_raw_sql`, a domain tool, `llm_fallback`), an introspection, an
update or a deletion.

* `get_connection` is `ReadRow`; `get_or_create_connector` is `GetConnector` up
  to its first await, `TestPasses` / `TestFails` for `test_connection`,
  `Disconnected` for `disconnect` followed by the `del` in the same step, and
  `Connected` / `ConnectFails` for `connect`.
* `pool.close()` refuses new acquires at once and returns when no connection is
  checked out, hence the states open, closing, closed and the guard of
  `Disconnected`.
* `update_connection` is `FlushUpdate` (which takes the row lock, then starts
  `remove_connector`) and `Commit`; `delete_connection` is `RemoveBeforeDelete`,
  `FlushDelete`, `Commit`; an introspection ends with `FlushIntrospection`.
* `Fail` is any exception: `get_db` rolls back, which releases the lock.  An
  exception of the lookup inside a domain tool is swallowed by `run_domain_tool`,
  and `llm_fallback` looks the connector up again: `LookAgain`.

Not modelled here: the key-share locks of rows that refer to the connection
(the model allows more orders than PostgreSQL does), an update that changes no
column, the in-place reconnect of the SQL Server connector (in `SqlServer`).
`connection_service.test_connection` goes through the registry as a query does.

### QueryTurn

One conversation: the client asks up to `MaxTurns` questions one after the
other, each in any role, with or without a chat.  `t` is the request in progress
(the fields of `GraphState` that matter and the node it is in), `tx` its
`AsyncSession` (what it has flushed, whether PostgreSQL has aborted the
transaction, whether a rollback has expired the loaded connection), `history`
and `chat` are committed rows, `ctx` is what the client keeps, `answer` the
response to the last question.

| action | code |
|---|---|
| `Ask`, `StoredContext` | the chat panel; `RoundTrip` is what the request schema keeps of the context |
| `FindConnection` | start of `execute_nl_query` |
| `Classify` | `classify_intent` and `route_after_classify`: keywords, follow-up fast path, semantic check, catalog, role gate |
| `ExtractFilters` | `extract_filters` and `update_query_plan`, which may raise, with the swallowed statement of `resolve_glossary_hints` |
| `RunDomainTool` | `run_domain_tool` and `route_after_domain_tool` |
| `BuildContext`, `Compose`, `Correct`, `Execute` | `llm_fallback`, from `build_context` to `execute_query` |
| `Interpret`, `WriteHistory` | the last two nodes |
| `Respond`, `Retitle`, `Commit` | the rest of `execute_nl_query`, and `get_db` |
| `RenameChat`, `DeleteChat` | another request of the same user, in between |

What a language model, an embedding or the target database answers is a choice
of the step, and so is an exception wherever the code may raise.  A failing
`db.rollback()` in `write_history` is not modelled (the code ignores it).  Only
the default graph is: the other entries, and what becomes of the filters, are in
`PlanTurns`; what an agent executes without a plan is in `RefineTurns`.  The
permission branch of `run_domain_tool` cannot be reached in it,
because the role gate comes first.  `Commit` has the order of FastAPI 0.115, the
lowest version the project allows: the commit comes before the response.  SQL
that is still invalid after the last correction is executed as any other
(`Execute`): the documentation says that the error is surfaced then
(`MCQueryTurnInvalid.cfg`).

### Embeddings

One connection.  A row is a cached table with its columns, or an authored row;
`rows` are the committed ones, `embedded` those with a vector.  A task is a
request `POST /introspect` or the job it launches: `pc[u]` is where it is,
`todo[u]` what its loop has left, `held[u]` the rows its transaction has
written and so locked, `pending[i]` the vectors a job has computed and its
session has not flushed.  `progress` is `_progress` of the connection, which all
jobs share.  Ghosts: `quiet`, the task during which nobody else acted, and
`counted`, the jobs that counted when the tables of their introspection were
committed.

| action | code |
|---|---|
| `BeginDelete`, `DeleteRow`, `Launch`, `CommitIntrospection` | `introspect_and_cache`, the endpoint's `launch_background_embeddings`, `get_db` after it |
| `Count`, `Report` | `_generate_embeddings_background` before and after its transaction |
| `SelectTables`, `SelectTerms`, `Embed`, `FlushRow`, `RowIsGone`, `CommitJob` | `embed_columns_and_tables` and the loops after it, with the autoflush before each query |
| `DeadlockVictim`, `Fail` | an exception of PostgreSQL, the driver or the provider; rollback |
| `RollbackFails` | the job's rollback raises in its turn, and `mark_failed` is not reached |
| `CreateTerm`, `UpdateTerm`, `DeleteTerm` | the metadata endpoints with inline embedding |
| `Restart` | the process ends; `ensure_embedding_dimensions` at the next start |

`DeleteRow` and `FlushRow` wait for row locks (`LockedByOther`); tasks that wait
in a cycle are resolved by PostgreSQL's detector, `DeadlockVictim`.  A job's
`UPDATE` of a row that an introspection has deleted meanwhile matches nothing
and raises (`RowIsGone`).  An update that changes a column is not an action: its
flush expires `updated_at`, the response cannot load it, and the request is
rolled back.

Abstracted: the kinds of authored rows are one (`Term`), so the job's stages
after the tables are one stage; the job's six counts are one statement; a table
and its columns are one row, flushed together.  Dictionary entries and imported
documents are in `Seeding`.

### PlanTurns

One conversation through one compiled graph: `entry` is the default one
(`"regex"`), the Groq one or the hybrid one.  `t` is the turn in progress with
its filters, plan and compiled statement, `ctx` the context of the last answer.

| action | code |
|---|---|
| `ClassifyIntent`, `ExtractFilters` | `classify_intent` with the role gate, `extract_filters` |
| `GroqFollowUp`, `GroqExtract`, `GroqRecover` | `groq_extract`: the follow-up shortcut, the tool call, the arguments recovered from a failed generation |
| `FollowupDetection`, `LlmExtraction`, `DeterministicOverride`, `ConfidenceScoring` | the hybrid nodes, in order, and `route_after_confidence` |
| `UpdateQueryPlan` | `update_query_plan`; what it raises ends the request |
| `RunDomainTool`, `ToolFails` | `compile_query` and the execution of its statement |
| `LlmFallback`, `Respond` | the fallback, and the context `execute_nl_query` leaves |

Values are texts of which the model knows what the code looks for in them:
`Complex` are those with one of the keywords of `_check_value_complexity` in them
(at least the keywords themselves), `Rewritten` says what `_sanitize_value`
makes of the values it changes.  Every `FilterClause` that is built goes through
it, the score looks at the values before, so that `nu;ll` passes the score and is
a `NULL` check in the plan (`MCPlanTurnsComplex.cfg`).  Left out are values it
would change twice (`DRDROPOP`).

The data are what the code decides by: a question is what it mentions, a reply
of the model any sequence of clauses, a topic one of `INTENT_CATALOG` (the
Groq entry may leave it), a statement the clauses, conditions and
placeholders of its text with the parameters bound to them by position.
`carried` tells whether the plan comes back: over HTTP it never does
(`execute_nl_query` starts with `query_plan` None and the request schema has no
such field), the tests of the default entry hand it back.

What modelling it showed, beside the finding: the Groq entry may pair a domain
with an intent of another, and uses recovered arguments before the role gate;
the hybrid entry overwrites the gate's confidence 0 by the score of the
extraction (the gate holds because it has cleared domain and intent as well), a
failed extraction counts as 0.85 without filters, a list becomes one text, false
values get lost, and one complex value passes the threshold to the last bit; the
status filter has the alias `c` whatever the statement; conditions appended
after `ORDER BY` fail on the server (both end in the fallback);
`NO_FILTER_INTENTS` of the updater is not the set the compiler ignores filters
for.  `load_value_map` is called by nothing and its normalisation left out.

### RefineTurns

The same conversation without a plan: `extract_params` carries parameters over,
`run_domain_tool` tries the template of the registry, the agent's own override
and the base statement, in this order, and the context stores what the next turn
may wrap.  `Refinement` is the registry, template by template with the columns
it names and the parameters it reads, and the base statements with the columns
they return.  `build_graph` no longer contains `extract_params`; the tests
compose it with the nodes it does contain, and `planned` says whether
`update_query_plan` is among them.  A refined statement loses the parameters of
the statement it wraps (`MCRefineReady.cfg` shows `RefinedIsReady`, the docstring
of `build_sql`, violated); `UserSelfAgent` calls itself `userself`, so the
templates of `user_self` are never found.

### Seeding

One connection.  `script` is the run of `seed_sqlserver_metadata.py` with its
local variables, `rows` what the endpoints have committed, `abandoned` the
requests whose client is gone and which the server may still carry out or roll
back, `imports` the transactions of `POST /knowledge` with a `source_url`.
Ghosts: `fresh` (ids since the run began), `unsure` (kinds some run has seeded
from a listing that missed rows), `disturbed` (somebody else has removed rows
since), `swept` (the purge met no refusal).

| action | code |
|---|---|
| `Launch` | `main` with its options, login and connection lookup |
| `purge_*` (`PurgeLists`, `PurgeSkips`, `PurgeDeletes`, `PurgedKind`) | the purge functions, request by request |
| `seed_*` (`ReadColumns`, `Lists`, `ListsNothing`, `Skip`, `Overwrite`, `Post`, `SeededKind`) | the seed functions, request by request |
| `Die`, `DieOn` | an exception; the last request may be with the server |
| `CommitAbandoned`, `DropAbandoned` | what the server does with it |
| `UserCreates`, `UserDeletes`, `Introspect` | other users; introspection cascades to the dictionary |
| `StartImport`, `CommitImport`, `FailImport` | `import_document` |

A listing that is refused counts as empty, and no table has a unique
constraint: the script then posts everything again (`MCSeedingBlind.cfg` shows
`Idempotent`, the script's docstring, violated), so `OneRowPerKey` speaks of
kinds always listed in full.  Users author one own row at a time and no row with
a key of the script, a bound.

### SqlServer

One `SQLServerConnector`: `pool` is `_pool`, `stale` the pools whose connections
have died, `call[c]` a call of a method with the pool whose connection it waits
for or holds.  A step is the code between two awaits of the driver.  aioodbc's
`close()` is not a coroutine: awaiting its result raises, which `disconnect`
swallows, so disconnecting is one step.  `test_connection` connects again without
closing the old pool, and revives a connector that was disconnected meanwhile.
`InjectTop` is where `TOP` goes.  What begins with neither `SELECT` nor `WITH` is
wrapped in a subquery and bounded as a whole; a `WITH` the server refuses there.
Of a `UNION`, `EXCEPT` or `INTERSECT` only the first `SELECT` gets the `TOP`, and
a lower-case `select` is looked for in upper case, so that the insertion raises
or bounds an inner `SELECT` (`TopInPart`): the rows of such a statement are then
any number, `partly`, and nothing marks the result as truncated.
`ResultsAreWhole` leaves these statements out; `MCSqlServerUnion.cfg` shows it
false of set operations.

### IntentCatalog

The startup and the requests that find an entry without a vector: `lock` and
`flag` of `ensure_catalog_embedded`, `at[t]` where a task is, one call of the
model per entry.  A failure at startup is swallowed; the next request goes on
with the entries that are missing.

## The runs

| run | checks | shows |
|---|---|---|
| `connectors` | `TypeOK`, `CachedIsLive`, `NoUseAfterClose`, `OnlyCommittedConfig`, `AloneWriteInvalidates`, `RequestsEnd` | the registry is safe under any interleaving of three requests, and every request ends |
| `connectors_stale` | `UpdateInvalidates` violated | an update can leave a connector with the old configuration cached |
| `query_turn` | `TypeOK`, `RowsMeanSuccess`, `ScopedTools`, `TurnsAreAtomic`, `TurnsEnd` | two turns with every outcome of every call |
| `query_turn_error` | `ErrorSurfaced` violated | an error becomes an empty answer |
| `embeddings` | `TypeOK`, `CountedIsEmbedded`, `SchemaIsNeverLost`, `QuietIntrospectionReplaces`, `QuietJobEmbedsAll`, `OnlyLostRollbackStrands`, `TasksEnd` | overlapping introspections, jobs and edits, with failures, deadlocks, failing rollbacks and a restart |
| `embeddings_launch` | `IntrospectedIsEmbedded` violated | the job can count before the introspection commits, and leave its tables without vectors |
| `plan_turns` | `TypeOK`, `ParamsAligned`, `NamesResolve`, `OneClausePerField`, `OwnRowsOnly`, `GateHolds`, `ComplexFallsBack`, `PlanIsMemory`, `TurnsEnd` | conversations through each entry, with any reply of the model; `PlanIsMemory` is the refinement of `FilterMemory` |
| `plan_forgotten` | `FollowUpKeepsFilters` violated | over HTTP a follow-up loses the filters said before |
| `refine_turns` | `TypeOK`, `RefinesBaseOnly`, `BaseIsLastResort`, `PlannedNeverRefines` | three questions in any order with any statement failing |
| `seeding` | `TypeOK`, `OneRowPerKey`, `ReportedOk`, `LoneImportReplaces` | two runs in any mode, cut off or refused anywhere, beside users, introspections and imports |
| `sqlserver` | `ResultsAreWhole`, `CallsEnd` | three calls of any method on a pool that goes stale, times out, is replaced and dropped |
| `intent_catalog` | `CatalogServes`, `RequestsEnd` | the startup and three requests with the model failing anywhere |

The findings in `PROJECT.json` quote the line each violated property comes from.
Twelve more configurations, to be run by hand, show narrower violations of what
comments and documents say:

| configuration | property | shows |
|---|---|---|
| `MCConnectorsEvict` | `RemovedWasDisconnected` | the entry of another request can be deleted, its open pool lost |
| `MCQueryTurnTopic` | `NewTopicIsClassified` | without the prior question any question is a follow-up |
| `MCQueryTurnSql` | `SqlIsStored` | the context of a domain answer has no SQL |
| `MCQueryTurnLog` | `FailedExecutionLogged` | a refused execution is not in the log |
| `MCQueryTurnInvalid` | `InvalidSurfaced` | SQL still invalid after the last correction is executed, and without an error when that succeeds |
| `MCQueryTurnVector` | `VectorFailureIsHarmless` | a failed vector search makes the turn fail later |
| `MCEmbeddingsNulled` | `NulledRegenerates` | after a changed dimension nothing embeds the rows again |
| `MCEmbeddingsStranded` | `BannerHides` | a job whose rollback fails leaves the progress record at running, and the banner with it |
| `MCPlanTurnsComplex` | `NullChecksFallBack` | one complex value, or one made by sanitising, becomes a NULL check of a template |
| `MCRefineReady` | `RefinedIsReady` | a refined statement has placeholders without values |
| `MCSeedingBlind` | `Idempotent` | a refused listing duplicates every row |
| `MCSqlServerUnion` | `SetOperationsAreWhole` | a set operation loses rows and is not marked truncated |

Bounds.  One connection: the registry's entries are independent.  Three
requests: the races are between two, a third one profits from them (it gets the
stale or lost connector).  Three connector objects and two uses per request are
as many as three requests need to see a connector replaced and used again.
`MCInit` starts only from sorted assignments of operations to requests: requests
are interchangeable, and unlike a symmetry set this is sound for liveness.  Two
turns: everything a turn takes from earlier ones is in the context, and the
second turn starts from every context a first one can leave.  `MaxRetries` is
the code's 3.  Three intents, two of one domain with a topic switch between
them and one of `user_self`, tell apart every case of the role gate and of the
topic switch.  For `Embeddings`, `MCInit` is a server that starts with the cache
two overlapping introspections have left, so that the two of the run have rows
to delete and their jobs something to embed; one table makes two rows, which a
job and an introspection can lock in opposite orders; one authored row suffices
because a job treats each by itself; one restart comes at any step.
The violations start from an empty cache and need one introspection.
`PlanTurns` has two questions in a row, as a plan meets at most the one before;
its topics have, between them, own parameters, sorting, remapped fields, the
skill token, a fixed statement and the caller's id; `MaxValues` is 2 so that
two merged clauses exceed it (50 in the code).  `RefineTurns` has three, for a
refinement of a refinement to be possible.  `Seeding`: each kind of row is in
one of the data, one or two keys, as keys do not interact except by being first
or last; two runs, since what the second finds is what any later one would;
either two runs, or one and an import, or imports alone.  `SqlServer`: a pool of
one connection makes calls wait for each other, two pools are one reconnection,
statements have fewer rows than the limit, as many, one more, and more, and
there are some whose `TOP` bounds a part; only `execute_query` has a choice of
statement.  `IntentCatalog`: three entries, so that a failure may leave none, some or all
but one; of three requests one waits while another fails.

Fairness.  `WF_vars(Step(r))` and `WF_vars(Process)`: the event loop resumes
every task whose await is over, and every await of the server has a timeout
(`command_timeout`, `statement_timeout`, the HTTP clients) or raises.  Users and
arrivals are not fair: no question has to be asked, no chat renamed.  In
`Connectors` a request that waits for a row lock or for a pool to drain has no
step, so `RequestsEnd` does say that these waits end.  In `Embeddings`,
`WF_vars(Process)` is fair to requests and jobs that have begun and to
PostgreSQL's deadlock detector; requests, edits, failures and restarts are not.
`PlanTurns` is fair to the nodes of a turn that has begun.  `SqlServer` is fair
to each step by which a call goes on, with an answer of the driver or an error;
no acquisition has to fail and no `wait_for` to fire, so `CallsEnd` says that a
connection always comes back.  `IntentCatalog` is fair to tasks that have begun,
lock included (asyncio's lock is first come, first served).  `RefineTurns` and
`Seeding` have safety properties only.

## The proofs

`ConnectorsProofs` proves, for any number of connections, requests, connector
objects and uses, `TypeOK`, `CachedIsLive`, `NoUseAfterClose`,
`OnlyCommittedConfig` and the action property `AloneWriteInvalidates`.  Their
inductive invariant `IInv` adds what they need of each other: a request that
holds a connector holds one of its own connection (`HeldIsOwn`), a writer has
the row lock (`WriterHoldsLock`), the configuration a request has read was
committed (`ReadWasCommitted`), a request looks up a connector only while it
has uses left (`UsesLeft`), and a request that is alone really is
(`AloneMeansAlone`), which is what makes nobody else store a connector between
the removal and the commit.

`QueryTurnProofs` proves, for any catalog, number of turns and number of
corrections, `TypeOK`, `RowsMeanSuccess`, `ScopedTools`, and that `QueryTurn` implements `QueryContract`
(`TurnsAreAtomic`).  Its invariant adds what the pipeline's state has not got yet
in each phase (`Clean`), that the graph state never has rows and an error
(`RowsWithoutError`), and that the handler has an id exactly when its transaction
holds a row (`IdIsFlushed`), the fact the refinement rests on: an answer with an
id commits its execution, one without commits none.

`EmbeddingsProofs` proves, for any finite number of rows, any introspections and
any number of restarts, every safety property of the run `embeddings`.  That
writes are exclusive (`WritesAreExclusive`, which the row locks give) and that
the schema is never lost are inductive once the phases are known (`Phases`: what
a task has not got before and after its loop).  `CountedIsEmbedded` needs that
the tables of a job that counted are embedded, or held, pending or left in its
loop, until it commits (`CountedIsMine`).  `OnlyLostRollbackStrands` goes action
by action: whoever makes the record say running is at work, and a job stops
being so by `Report`, which changes it, or by losing its rollback.  The two "quiet"
properties speak of the end of a task and need what is true on the way:
`QuietRequest` (the cached tables are those deleted and those yet to delete, and
nobody else runs but the job launched, which has not begun) and `QuietJob` (the
rows without a vector are those held, pending or left, and the total announced is
the number completed plus the number left).

`SeedingProofs` proves every property of the run `seeding`, for any data, any
number of runs, imports, introspections and rows.  `OneRowPerKey` needs to know
of a key that is to be posted that no other post of it is on its way, even by a
run that has died (`Once`), and that an abandoned post of a dictionary entry can
land only on the columns it was made for (`Columns`): the column a run has read
may be outdated when it lists, but then nothing can be posted to it.
`ReportedOk` needs what the run has achieved up to each kind (`Promise`), that a
listed row is still the one of its key, and what the purge has left (`Purged`).
`LoneImportReplaces` needs that no document of the `source_url` appears behind a
lone import's back (`Imports`).

`PlanTurnsProofs` proves every invariant of the run `plan_turns`, `PlanIsMemory`,
and that a conversation of the default graph whose plan comes back implements
`FilterMemory` (`ConversationIsMemory`), for any topics of the catalog, any
questions and replies, any limit of values and any number of turns.  It has
three layers.

- Control, `IInv`: a plan is about the topic of its turn (`PlanOfTopic`), which
  nodes have no plan and no statement yet (`Gate`), and beyond the classifier of
  the default and the hybrid graph a topic is one the gate has allowed.
  `TypeOK` and `GateHolds` follow.
- Data, `Origin`: filters are what `extract_filters` makes of a question, or in
  the hybrid graph what the score let through (`Filters`); a plan is what
  `update_query_plan` makes of them, and a statement what `compile_query` makes
  of the plan (`Plans`); a plan of the default graph has one clause per field,
  each of a field its topic may have (`Coherent`).  The latter is what makes
  `Plans` inductive: a merge joins two sequences in which every field occurs once.
  `OneClausePerField`, `NamesResolve` and `ComplexFallsBack` are read off it, and
  `OwnRowsOnly` with the lemmas on what a statement of `user_self` looks like
  (`OwnStatement`).
- Functions, lemmas about the four pure modules for every input: what the parts
  of `compile_query` contribute to the text and to the parameters, in which order
  (`ParamsAligned`: the placeholders of the text, picked in order, are the uses
  of the parameters, topic by topic); what a merge computes (`MergedMeaning`: no
  field is lost, a field with several values collects them, any other has those
  that came last, from which `PlanIsMemory` follows); which fields
  `extract_filters` and the remapping can produce; that sanitising keeps fields
  and types (`FilterClauseShape`); how much the score loses for two complex
  values.

These functions go through sequences, so their lemmas need induction.  The
induction theorems of the library take a predicate as parameter; `SetInduction`
takes a set of numbers instead (`SeqInduction` a set of sequences) and rests on
`NatLessThanWellFounded` and `WFMin`.  From it come the facts about
`FlattenSeq`, by which the models say `Keep` (a list comprehension with a
condition), `Applied` and the parameters: that it is a sequence, what it does to
a sequence with one more element (`FlattenAppend`).  `SelectSeq` would say the
same as `Keep`, but has no definition a proof can open.  `Merged` is a recursive
function for the same reason, of the length of the prefix already placed.
`Texts` is `STRING` with the names that occur in the modules: the provers do not
know of a literal that it is a string.

`RefineTurnsProofs` proves every
property of `refine_turns` for any topics and number of turns, and looks into no
template, so it holds for any registry.  `SqlServerProofs` proves `TypeOK` (the
invariant of the pools, not repeated in the run) and `ResultsAreWhole` for any
number of calls, any statements and any limit; `IntentCatalogProofs` `TypeOK` and
`CatalogServes` for any catalog and requests: whoever is in the loop has the
lock, and the flag is set only when nothing is missing.

Every safety property of a passing run is thus proved.  The assumptions are those
named in the modules on their constants, which TLC evaluates in the runs; those
of `PlanTurns` say that topics are entries of the catalog, that a question gives
the patterns it matches texts that are not blank, that the language model replies
with a sequence of clauses, that the keywords are complex values, and that a
value which has been sanitised stays as it is.  Only model-checked: the liveness properties (`RequestsEnd`
of both modules, `TurnsEnd` of both, `TasksEnd`, `CallsEnd`), as fairness and
`ENABLED` are beyond the provers used here, and the violated properties, which
need no proof.

## Order of work

The modules were written from the shared state outwards: registry, turn,
embeddings, then what a turn is made of (plan, refinement, catalog), the
connector below it and the script beside it.  What would add most next:

1. the order of `Commit` of FastAPI 0.118, where the answer is out before the
   transaction is committed, as a variant of `QueryTurn`;
2. `QueryCache`, should a node come to use it: the LRU order and the time to
   live against a bounded map;
3. `introspect_tables`: its foreign keys are joined column by column, so that a
   composite key gives every pair of its columns;
4. `execute_raw_sql` and `generate_sql_only` with their own log entries.

## Not modelled

| part | why |
|---|---|
| query result cache (`nodes/query_cache.py`) | no node of the graph uses it |
| `fallback_ladder`, `conflict_resolution`, `context_recovery`, `semantic_integration` | called by nothing |
| providers and router, SQL sanitizer, prompts, ranking, text of the SQL | text and HTTP; their outcomes are choices of the steps that call them |
| authentication, users | token handling without shared state; the role of a caller is given |
| migrations, admin frontend, test page, `auto_setup_sample_db` | run once, rendering, or called by nothing |
