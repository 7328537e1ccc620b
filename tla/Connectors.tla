----------------------------- MODULE Connectors -----------------------------
(***************************************************************************)
(* The connector registry of the backend (connectors/connector_registry.py)*)
(* and the requests that go through it: queries, schema introspections,    *)
(* configuration updates and deletions of a database connection.           *)
(*                                                                         *)
(* Requests are asyncio tasks of one process.  A step of this module is    *)
(* the code a task runs between two suspension points, so everything the   *)
(* code does without awaiting the network is one step.                     *)
(***************************************************************************)
EXTENDS Naturals

CONSTANTS ConnId,       \* the rows of the connections table
          Request,      \* the HTTP requests; each one runs once
          Connector,    \* the connector objects a run can create (a bound)
          MaxUses,      \* the uses one request makes, or tries to make, of its connection
          NoConnector,  \* no entry in the registry, no reference in a request
          NoRequest     \* nobody holds the row lock

ASSUME ConnectorsAssumption ==
    /\ NoConnector \notin Connector
    /\ NoRequest \notin Request
    /\ MaxUses \in Nat \ {0}

VARIABLES
    row,        \* row[i]: version of the committed configuration, 0 if deleted
    rowLock,    \* rowLock[i]: the request whose open transaction wrote row i
    registry,   \* _active_connectors
    pool,       \* pool[c]: the asyncpg pool of connector object c
    req         \* req[r]: where request r is, and its local variables

vars == <<row, rowLock, registry, pool, req>>

Op == {"query", "introspect", "update", "delete"}
Readers == {"query", "introspect"}

Phase == {"idle",        \* not received yet
          "read",        \* the row has been read by get_connection
          "testing",     \* awaiting test_connection of a cached connector
          "closing",     \* awaiting disconnect
          "connecting",  \* awaiting connect of a new connector
          "using",       \* running statements on a connection of the pool
          "between",     \* keeps the connector, returned the connection
          "removed",     \* delete_connection: after remove_connector
          "writing",     \* row written, transaction not committed
          "done", "failed"}

PoolRecord == [state : {"unborn", "open", "closing", "closed"},
               id : ConnId, str : Nat]

RequestRecord == [op : Op, pc : Phase, id : ConnId, str : Nat,
                  conn : Connector \union {NoConnector},
                  uses : 0 .. MaxUses, alone : BOOLEAN]

TypeOK ==
    /\ row \in [ConnId -> Nat]
    /\ rowLock \in [ConnId -> Request \union {NoRequest}]
    /\ registry \in [ConnId -> Connector \union {NoConnector}]
    /\ pool \in [Connector -> PoolRecord]
    /\ req \in [Request -> RequestRecord]

\* Every connection has been created (create_connection inserts the row and
\* does not touch the registry); no request has arrived.
Init ==
    /\ row = [i \in ConnId |-> 1]
    /\ rowLock = [i \in ConnId |-> NoRequest]
    /\ registry = [i \in ConnId |-> NoConnector]
    /\ \E i \in ConnId :
          pool = [c \in Connector |-> [state |-> "unborn", id |-> i, str |-> 0]]
    /\ req \in [Request -> [op : Op, pc : {"idle"}, id : ConnId, str : {0},
                            conn : {NoConnector}, uses : {0}, alone : {FALSE}]]

-----------------------------------------------------------------------------
Active(r) == req[r].pc \notin {"idle", "done", "failed"}

\* r has a connection of c's pool checked out.
Holds(r, c) == req[r].conn = c /\ req[r].pc \in {"testing", "using"}

\* The connector object get_or_create_connector instantiates.
Unborn == {c \in Connector : pool[c].state = "unborn"}
NewConnector == CHOOSE c \in Unborn : TRUE

Goto(r, pc) == req' = [req EXCEPT ![r].pc = pc]

\* Mutant of Fail: a session that is closed without a rollback.
FailKeepingLock(r) ==
    /\ req' = [req EXCEPT ![r].pc = "failed", ![r].conn = NoConnector]
    /\ UNCHANGED rowLock

\* The request ends: get_db has rolled back, so its row lock is released.
Fail(r) ==
    /\ req' = [req EXCEPT ![r].pc = "failed", ![r].conn = NoConnector]
    /\ rowLock' = [i \in ConnId |-> IF rowLock[i] = r THEN NoRequest ELSE rowLock[i]]

\* disconnect() on c: asyncpg refuses new acquires from here on and waits for
\* the connections that are checked out.
StartClosing(r, c) ==
    /\ pool' = [pool EXCEPT ![c].state = "closing"]
    /\ req' = [req EXCEPT ![r].pc = "closing", ![r].conn = c]

\* The lookup of a domain tool has raised: run_domain_tool swallows it, and the
\* LLM fallback looks the connector up again.
LookAgain(r) ==
    /\ req[r].op = "query"
    /\ req[r].uses + 1 < MaxUses
    /\ req' = [req EXCEPT ![r].pc = "read", ![r].conn = NoConnector, ![r].uses = @ + 1]
    /\ UNCHANGED rowLock

\* A lookup has raised, which ends every other request.
LookupRaises(r) == Fail(r) \/ LookAgain(r)

\* The connector was handed to the caller, which goes on to run a statement:
\* acquire() raises on a pool that is closing.
UseOrFail(r, c) ==
    IF pool[c].state = "open"
    THEN /\ req' = [req EXCEPT ![r].pc = "using", ![r].conn = c,
                               ![r].uses = @ + 1]
         /\ UNCHANGED rowLock
    ELSE LookupRaises(r)

-----------------------------------------------------------------------------
\* Mutant of ReadRow: the session shows what an open transaction has written.
ReadRowDirty(r) ==
    LET i == req[r].id IN
    /\ req[r].pc = "idle"
    /\ row[i] # 0
    /\ req' = [req EXCEPT ![r].pc = "read",
                          ![r].str = IF rowLock[i] = NoRequest THEN row[i] ELSE row[i] + 1]
    /\ UNCHANGED <<row, rowLock, registry, pool>>

\* get_connection: the request reads the committed row, 404 when it is gone.
\* alone is a history variable: no other request of this connection has been
\* active since r read the row.
ReadRow(r) ==
    LET i == req[r].id
        others == {q \in Request \ {r} : req[q].id = i /\ Active(q)} IN
    /\ req[r].pc = "idle"
    /\ req' = [q \in Request |->
                 IF q = r
                 THEN [req[r] EXCEPT !.pc = IF row[i] = 0 THEN "failed" ELSE "read",
                                     !.str = row[i],
                                     !.alone = others = {}]
                 ELSE IF q \in others THEN [req[q] EXCEPT !.alone = FALSE]
                 ELSE req[q]]
    /\ UNCHANGED <<row, rowLock, registry, pool>>

\* get_or_create_connector up to its first await: test the cached connector,
\* disconnect one that is already closing, or open a new one.
GetConnector(r) ==
    LET c == registry[req[r].id] IN
    /\ req[r].op \in Readers
    /\ req[r].pc = "read"
    /\ \/ /\ c = NoConnector
          /\ Goto(r, "connecting")
          /\ UNCHANGED pool
       \/ /\ c # NoConnector
          /\ pool[c].state = "open"
          /\ req' = [req EXCEPT ![r].pc = "testing", ![r].conn = c]
          /\ UNCHANGED pool
       \/ /\ c # NoConnector
          /\ pool[c].state # "open"
          /\ StartClosing(r, c)
    /\ UNCHANGED <<row, rowLock, registry>>

\* test_connection answered True: the cached connector is returned.
TestPasses(r) ==
    /\ req[r].pc = "testing"
    /\ UseOrFail(r, req[r].conn)
    /\ UNCHANGED <<row, registry, pool>>

\* test_connection answered False (the target database did not answer).
TestFails(r) ==
    /\ req[r].pc = "testing"
    /\ StartClosing(r, req[r].conn)
    /\ UNCHANGED <<row, rowLock, registry>>

\* Mutants of Disconnected: the entry is left behind; the pool is terminated
\* under the requests that use it.
DisconnectedKeepingEntry(r) ==
    /\ req[r].pc = "closing"
    /\ \A q \in Request : ~ Holds(q, req[r].conn)
    /\ pool' = [pool EXCEPT ![req[r].conn].state = "closed"]
    /\ Goto(r, IF req[r].op \in Readers THEN "connecting" ELSE "writing")
    /\ UNCHANGED <<row, rowLock, registry>>

DisconnectedByTerminate(r) ==
    /\ req[r].pc = "closing"
    /\ pool' = [pool EXCEPT ![req[r].conn].state = "closed"]
    /\ registry' = [registry EXCEPT ![req[r].id] = NoConnector]
    /\ Goto(r, IF req[r].op \in Readers THEN "connecting" ELSE "writing")
    /\ UNCHANGED <<row, rowLock>>

\* disconnect() of r returns once nobody has a connection checked out.  In
\* the same step the entry is deleted, whatever it now is: del raises KeyError
\* when there is none.  A reader goes on to connect, a writer to its row.
Disconnected(r) ==
    LET i == req[r].id
        c == req[r].conn IN
    /\ req[r].pc = "closing"
    /\ \A q \in Request : ~ Holds(q, c)
    /\ pool' = [pool EXCEPT ![c].state = "closed"]
    /\ \/ /\ registry[i] = NoConnector
          /\ LookupRaises(r)
          /\ UNCHANGED registry
       \/ /\ registry[i] # NoConnector
          /\ registry' = [registry EXCEPT ![i] = NoConnector]
          /\ req' = [req EXCEPT ![r].conn = NoConnector,
                       ![r].pc = CASE req[r].op \in Readers  -> "connecting"
                                   [] req[r].op = "update"   -> "writing"
                                   [] req[r].op = "delete"   -> "removed"]
          /\ UNCHANGED rowLock
    /\ UNCHANGED row

\* connect() opened the pool: the entry is stored over whatever is there.
Connected(r) ==
    LET c == NewConnector IN
    /\ req[r].pc = "connecting"
    /\ Unborn # {}
    /\ pool' = [pool EXCEPT ![c] = [state |-> "open", id |-> req[r].id,
                                    str |-> req[r].str]]
    /\ registry' = [registry EXCEPT ![req[r].id] = c]
    /\ req' = [req EXCEPT ![r].pc = "using", ![r].conn = c, ![r].uses = @ + 1]
    /\ UNCHANGED <<row, rowLock>>

\* connect() raised: the new object is dropped.
ConnectFails(r) ==
    /\ req[r].pc = "connecting"
    /\ LookupRaises(r)
    /\ UNCHANGED <<row, registry, pool>>

\* Mutant of Release: the request looks its connector up once too often.
ReleaseOnceMore(r) ==
    /\ req[r].pc = "using"
    /\ \/ Fail(r)
       \/ /\ req[r].op = "query"
          /\ \/ Goto(r, "done")
             \/ req[r].uses <= MaxUses /\ Goto(r, "read")
          /\ UNCHANGED rowLock
       \/ /\ req[r].op = "introspect"
          /\ Goto(r, "between")
          /\ UNCHANGED rowLock
    /\ UNCHANGED <<row, registry, pool>>

\* The statement is over, or it raised.  A query may look its connector up once
\* more (the LLM fallback after an empty or failed domain answer); an
\* introspection keeps the one it has for its other statements.
Release(r) ==
    /\ req[r].pc = "using"
    /\ \/ Fail(r)
       \/ /\ req[r].op = "query"
          /\ \/ Goto(r, "done")
             \/ req[r].uses < MaxUses /\ Goto(r, "read")
          /\ UNCHANGED rowLock
       \/ /\ req[r].op = "introspect"
          /\ Goto(r, "between")
          /\ UNCHANGED rowLock
    /\ UNCHANGED <<row, registry, pool>>

\* The next statement of an introspection.
UseAgain(r) ==
    /\ req[r].pc = "between"
    /\ req[r].uses < MaxUses
    /\ UseOrFail(r, req[r].conn)
    /\ UNCHANGED <<row, registry, pool>>

\* introspect_and_cache ends with the flush of last_introspected_at, which
\* takes the row lock and is refused when the row has gone.
FlushIntrospection(r) ==
    LET i == req[r].id IN
    /\ req[r].pc = "between"
    /\ rowLock[i] = NoRequest
    /\ \/ row[i] = 0 /\ Fail(r)
       \/ /\ row[i] # 0
          /\ rowLock' = [rowLock EXCEPT ![i] = r]
          /\ Goto(r, "writing")
    /\ UNCHANGED <<row, registry, pool>>

-----------------------------------------------------------------------------
\* remove_connector up to its first await, for a caller that goes on at next.
StartRemove(r, next) ==
    LET c == registry[req[r].id] IN
    IF c = NoConnector
    THEN Goto(r, next) /\ UNCHANGED pool
    ELSE StartClosing(r, c)

\* Mutant of FlushUpdate: the connector is not removed.
FlushUpdateOnly(r) ==
    LET i == req[r].id IN
    /\ req[r].op = "update"
    /\ req[r].pc = "read"
    /\ rowLock[i] = NoRequest
    /\ row[i] # 0
    /\ rowLock' = [rowLock EXCEPT ![i] = r]
    /\ Goto(r, "writing")
    /\ UNCHANGED <<row, registry, pool>>

\* update_connection: flush takes the row lock (waiting for a transaction that
\* has it) and is refused when the row has gone; then the connector is removed.
FlushUpdate(r) ==
    LET i == req[r].id IN
    /\ req[r].op = "update"
    /\ req[r].pc = "read"
    /\ rowLock[i] = NoRequest
    /\ \/ /\ row[i] = 0
          /\ Fail(r)
          /\ UNCHANGED pool
       \/ /\ row[i] # 0
          /\ rowLock' = [rowLock EXCEPT ![i] = r]
          /\ StartRemove(r, "writing")
    /\ UNCHANGED <<row, registry>>

\* delete_connection removes the connector first.
RemoveBeforeDelete(r) ==
    /\ req[r].op = "delete"
    /\ req[r].pc = "read"
    /\ StartRemove(r, "removed")
    /\ UNCHANGED <<row, rowLock, registry>>

\* db.delete and flush.
FlushDelete(r) ==
    /\ req[r].pc = "removed"
    /\ rowLock[req[r].id] = NoRequest
    /\ rowLock' = [rowLock EXCEPT ![req[r].id] = r]
    /\ Goto(r, "writing")
    /\ UNCHANGED <<row, registry, pool>>

\* get_db commits after the handler returned: an introspection has changed no
\* part of the configuration.
Commit(r) ==
    LET i == req[r].id IN
    /\ req[r].pc = "writing"
    /\ row' = [row EXCEPT ![i] = CASE req[r].op = "update" -> @ + 1
                                   [] req[r].op = "delete" -> 0
                                   [] OTHER                -> @]
    /\ rowLock' = [rowLock EXCEPT ![i] = NoRequest]
    /\ Goto(r, "done")
    /\ UNCHANGED <<registry, pool>>

-----------------------------------------------------------------------------
\* What a request that has arrived does next.
Step(r) ==
    \/ GetConnector(r) \/ TestPasses(r) \/ TestFails(r) \/ Disconnected(r)
    \/ Connected(r) \/ ConnectFails(r) \/ Release(r) \/ UseAgain(r)
    \/ FlushIntrospection(r) \/ FlushUpdate(r) \/ RemoveBeforeDelete(r)
    \/ FlushDelete(r) \/ Commit(r)

\* Every request has been answered: the only states without another step.
Idle ==
    /\ \A r \in Request : req[r].pc \in {"done", "failed"}
    /\ UNCHANGED vars

Next == Idle \/ \E r \in Request : ReadRow(r) \/ Step(r)

\* The event loop resumes every task whose await is over, and every await has
\* a timeout (command_timeout, statement_timeout).  Arrivals are not fair.
Fairness == \A r \in Request : WF_vars(Step(r))

Spec == Init /\ [][Next]_vars /\ Fairness

-----------------------------------------------------------------------------
(* What the registry guarantees.                                           *)

\* A cached connector is never one whose disconnect() has completed: whoever
\* completes it deletes the entry in the same step.  Without this the entry
\* would answer every later get_or_create_connector with a dead pool.
CachedIsLive ==
    \A i \in ConnId : registry[i] # NoConnector =>
        /\ pool[registry[i]].state \in {"open", "closing"}
        /\ pool[registry[i]].id = i

\* disconnect() never completes under a request that is running statements on
\* that pool, whichever of query, test, update and delete started it.
NoUseAfterClose ==
    \A r \in Request : req[r].pc \in {"testing", "using"} =>
        pool[req[r].conn].state \in {"open", "closing"}

\* No pool is ever opened with a configuration that was not committed: an
\* update whose remove_connector raises rolls back, and its connection string
\* has not been used by anybody.
OnlyCommittedConfig ==
    \A c \in Connector : pool[c].state = "open" =>
        \/ pool[c].str \in 1 .. row[pool[c].id]
        \/ row[pool[c].id] = 0

\* The invalidation works when nothing else happens on the connection: an
\* update or delete that no other request of the connection overlapped leaves
\* no connector behind when it commits.
AloneWriteInvalidates ==
    [][\A r \in Request :
         /\ req[r].op \notin Readers
         /\ req[r].pc = "writing" /\ req'[r].pc = "done" /\ req[r].alone
         => registry'[req[r].id] = NoConnector]_vars

\* Every request that has been received is answered: no await of the registry
\* waits for itself, and row locks are given back.
RequestsEnd ==
    \A r \in Request : req[r].pc = "read" ~> req[r].pc \in {"done", "failed"}

-----------------------------------------------------------------------------
(* What the comments say and concurrent requests break.                    *)

\* "Invalidate cached connector since config may have changed": once every
\* request has ended, a cached connector has the committed configuration.
UpdateInvalidates ==
    (\A r \in Request : ~ Active(r)) =>
        \A i \in ConnId : registry[i] # NoConnector =>
            pool[registry[i]].str = row[i]

\* "Connection is stale, remove it", "Disconnect and remove a cached
\* connector": the entry that is deleted is the one that was disconnected.
RemovedWasDisconnected ==
    [][\A i \in ConnId :
         registry[i] # NoConnector /\ registry'[i] = NoConnector
         => pool'[registry[i]].state = "closed"]_vars
=============================================================================
