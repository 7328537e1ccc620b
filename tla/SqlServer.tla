----------------------------- MODULE SqlServer -----------------------------
(***************************************************************************)
(* One SQLServerConnector object: its pool of connections, the calls that  *)
(* share it, and the bound it puts on the rows of a statement by inserting *)
(* TOP.  A step is what a call does between two awaits of the driver.      *)
(*                                                                         *)
(* The pool is aioodbc's, modelled by how the connector uses it: acquire   *)
(* waits for a free connection, leaving the block returns it, and close(), *)
(* which is not a coroutine, takes effect at once (the TypeError of        *)
(* awaiting its None is swallowed).                                        *)
(***************************************************************************)
EXTENDS Naturals, FiniteSets, FiniteSetsExt

CONSTANTS Call,       \* calls of the connector, each of one method
          Statement,  \* statements execute_query may be given
          MaxRows,    \* its max_rows
          PoolSize,   \* maxsize of create_pool
          Pools,      \* pools created over time, numbered (a bound)
          NoPool      \* None

\* What _inject_top tells statements apart by: what they begin with ("other" is
\* a parenthesis or a comment), whether TOP or LIMIT occurs anywhere, and an
\* upper-case SELECT further in; whether they are a UNION, EXCEPT or INTERSECT;
\* what check_sql_safety says; the rows they have as written, and partly, those
\* they have with the TOP in one part of them only.
StatementType ==
    [keyword : {"SELECT", "select", "distinct", "with", "other"}, top : BOOLEAN,
     inner : BOOLEAN, setop : BOOLEAN, safe : BOOLEAN, rows : Nat, partly : Nat]

ASSUME SqlServerAssumption ==
    /\ Statement \subseteq StatementType /\ Statement # {}
    /\ MaxRows \in Nat /\ PoolSize \in Nat \ {0}
    /\ Pools \in Nat \ {0} /\ NoPool \notin 1 .. Pools

VARIABLES
    pool,   \* _pool
    made,   \* pools created so far
    stale,  \* those whose connections are dead
    call    \* the calls

vars == <<pool, made, stale, call>>

Op == {"test", "schemas", "tables", "samples", "execute", "disconnect"}
Phase == {"idle", "waiting", "running", "reconnecting", "cancelled", "done", "failed"}
NoResult == [kind |-> "none", rows |-> 0, truncated |-> FALSE]

CallType == [op : Op, pc : Phase, statement : Statement, pool : 1 .. Pools \union {NoPool},
             left : 0 .. 3, retried : BOOLEAN,
             result : [kind : {"none", "true", "false", "rows"}, rows : Nat, truncated : BOOLEAN]]

Holders(p) == {c \in Call : call[c].pool = p /\ call[c].pc \in {"running", "cancelled"}}

TypeOK ==
    /\ pool \in 1 .. made \union {NoPool}
    /\ made \in 1 .. Pools
    /\ stale \subseteq 1 .. made
    /\ call \in [Call -> CallType]
    /\ \A c \in Call : call[c].pc \in {"waiting", "running", "cancelled"} => call[c].pool \in 1 .. made
    /\ \A p \in 1 .. made : Cardinality(Holders(p)) <= PoolSize

\* The connector is connected; no call has begun.
Init ==
    /\ pool = 1 /\ made = 1 /\ stale = {}
    /\ call \in [Call -> [op : Op, pc : {"idle"}, statement : Statement, pool : {NoPool},
                          left : {0}, retried : {FALSE}, result : {NoResult}]]

-----------------------------------------------------------------------------
\* _inject_top: where TOP goes.  A lower-case select is looked for in upper
\* case: the first one further in gets the TOP, or index raises ValueError.
InjectTop(s) ==
    CASE s.top -> "unchanged"
      [] s.keyword \in {"SELECT", "distinct"} /\ ~s.top -> "outer"
      [] s.keyword = "select" /\ ~s.top -> IF s.inner THEN "inner" ELSE "raises"
      [] s.keyword \in {"with", "other"} /\ ~s.top -> "wrapped"

\* The TOP belongs to one SELECT of several: the first of a set operation, or
\* the one further in.
TopInPart(s) == InjectTop(s) = "inner" \/ (InjectTop(s) = "outer" /\ s.setop)

\* How many rows the server has for it, when it accepts it (a WITH inside a
\* subquery it does not).
Bounded(s, n) ==
    CASE TopInPart(s) -> {s.partly}
      [] InjectTop(s) = "unchanged" -> {s.rows}
      [] InjectTop(s) \in {"outer", "wrapped"} /\ ~TopInPart(s) /\ s.keyword # "with" ->
            {Min({s.rows, n})}
      [] OTHER -> {}

\* TOP max_rows instead of max_rows + 1.
FetchedTight(s) == Bounded(s, MaxRows)

Fetched(s) == Bounded(s, MaxRows + 1)

Rows(n) == [kind |-> "rows", rows |-> Min({n, MaxRows}), truncated |-> n > MaxRows]
Answer(b) == [kind |-> IF b THEN "true" ELSE "false", rows |-> 0, truncated |-> FALSE]

-----------------------------------------------------------------------------
\* introspect_tables asks for tables, columns and foreign keys, the others
\* for one thing.
Statements(op) == IF op = "tables" THEN 3 ELSE 1

End(c, pc, result) ==
    call' = [call EXCEPT ![c].pc = pc, ![c].pool = NoPool, ![c].result = result]

\* The call begins: execute_query checks the statement and inserts TOP first;
\* without a pool test_connection answers False and the others raise.
Begin(c) ==
    /\ call[c].pc = "idle"
    /\ call[c].op # "disconnect"
    /\ IF \/ call[c].op = "execute" /\ (~call[c].statement.safe \/ InjectTop(call[c].statement) = "raises")
          \/ pool = NoPool /\ call[c].op # "test"
       THEN End(c, "failed", NoResult)
       ELSE IF pool = NoPool THEN End(c, "done", Answer(FALSE))
       ELSE call' = [call EXCEPT ![c].pc = "waiting", ![c].pool = pool,
                                 ![c].left = Statements(call[c].op)]
    /\ UNCHANGED <<pool, made, stale>>

\* A connection of the pool the call has begun with, be it still the current
\* one or not.
Acquire(c) ==
    /\ call[c].pc = "waiting"
    /\ Cardinality(Holders(call[c].pool)) < PoolSize
    /\ call' = [call EXCEPT ![c].pc = "running"]
    /\ UNCHANGED <<pool, made, stale>>

\* A statement ends well: the next one, or the connection goes back and the
\* call returns.
Complete(c) ==
    /\ call[c].pc = "running"
    /\ call[c].pool \notin stale
    /\ IF call[c].left > 1 THEN call' = [call EXCEPT ![c].left = @ - 1]
       ELSE \/ call[c].op = "test" /\ End(c, "done", Answer(TRUE))
            \/ call[c].op = "execute" /\ \E n \in Fetched(call[c].statement) : End(c, "done", Rows(n))
            \/ call[c].op \notin {"test", "execute"} /\ End(c, "done", NoResult)
    /\ UNCHANGED <<pool, made, stale>>

\* A statement, or the acquisition, fails: the connection goes back; the
\* first time test_connection connects again, the second it answers False.
Break(c) ==
    /\ call[c].pc \in {"waiting", "running"}
    /\ IF call[c].op # "test" THEN End(c, "failed", NoResult)
       ELSE IF call[c].retried THEN End(c, "done", Answer(FALSE))
       ELSE call' = [call EXCEPT ![c].pc = "reconnecting", ![c].pool = NoPool, ![c].retried = TRUE]
    /\ UNCHANGED <<pool, made, stale>>

\* connect, in test_connection: the new pool takes the place of whatever _pool
\* is by now, None included, and nobody closes the old one.
Reconnect(c) ==
    /\ call[c].pc = "reconnecting"
    /\ made < Pools
    /\ made' = made + 1
    /\ pool' = made + 1
    /\ call' = [call EXCEPT ![c].pc = "waiting", ![c].pool = made + 1, ![c].left = 1]
    /\ UNCHANGED stale

ReconnectFails(c) ==
    /\ call[c].pc = "reconnecting"
    /\ End(c, "done", Answer(FALSE))
    /\ UNCHANGED <<pool, made, stale>>

\* wait_for's timeout covers the wait for a connection; a statement under way
\* is cancelled, and its connection kept until the cursor is closed.
Timeout(c) ==
    /\ call[c].op = "execute"
    /\ \/ call[c].pc = "waiting" /\ End(c, "failed", NoResult)
       \/ call[c].pc = "running" /\ call' = [call EXCEPT ![c].pc = "cancelled"]
    /\ UNCHANGED <<pool, made, stale>>

\* The call raises, and its connection is never returned.
CancelKeeping(c) ==
    /\ call[c].pc = "cancelled"
    /\ call[c].result.kind = "none"
    /\ call' = [call EXCEPT ![c].result = Answer(FALSE)]
    /\ UNCHANGED <<pool, made, stale>>

Cancelled(c) ==
    /\ call[c].pc = "cancelled"
    /\ End(c, "failed", NoResult)
    /\ UNCHANGED <<pool, made, stale>>

Disconnect(c) ==
    /\ call[c].pc = "idle"
    /\ call[c].op = "disconnect"
    /\ pool' = NoPool
    /\ End(c, "done", NoResult)
    /\ UNCHANGED <<made, stale>>

\* The server, or the network, drops the connections of a pool.
GoStale(p) ==
    /\ p \in 1 .. made
    /\ stale' = stale \union {p}
    /\ UNCHANGED <<pool, made, call>>

Next ==
    \/ \E c \in Call : \/ Begin(c) \/ Acquire(c) \/ Complete(c) \/ Break(c) \/ Reconnect(c)
                       \/ ReconnectFails(c) \/ Timeout(c) \/ Cancelled(c) \/ Disconnect(c)
    \/ \E p \in 1 .. Pools : GoStale(p)

\* asyncio resumes the calls, the pool hands out free connections in the order
\* of arrival, and the driver answers a statement or fails it, be it with a
\* network error.  Nothing makes an acquisition fail, or execute_query time out.
Fairness ==
    \A c \in Call : /\ WF_vars(Begin(c)) /\ WF_vars(Acquire(c)) /\ WF_vars(Cancelled(c))
                    /\ WF_vars(Complete(c) \/ (call[c].pc = "running" /\ Break(c))) /\ WF_vars(Disconnect(c))
                    /\ WF_vars(Reconnect(c) \/ ReconnectFails(c))

Spec == Init /\ [][Next]_vars /\ Fairness

-----------------------------------------------------------------------------
\* A result is all the statement has, or marked as truncated and exactly
\* max_rows of more than that.
Whole(statement, result) ==
    IF result.truncated THEN result.rows = MaxRows /\ statement.rows > MaxRows
    ELSE result.rows = statement.rows

\* What execute_query returns is whole: TOP asks for one row more than the
\* caller may see.  Statements whose TOP bounds one part of them are left out.
ResultsAreWhole ==
    \A c \in Call :
        call[c].result.kind = "rows" /\ ~TopInPart(call[c].statement) =>
            Whole(call[c].statement, call[c].result)

\* Every call that has begun ends, in turn at a pool others have timed out on,
\* reconnected, or disconnected.
CallsEnd == \A c \in Call : <>(call[c].pc \in {"done", "failed"})

-----------------------------------------------------------------------------
(* What the documentation says and the code does not do.                   *)

\* "Wrap a SELECT statement with TOP N", and a result says truncated when there
\* is more: of a UNION, EXCEPT or INTERSECT too.
SetOperationsAreWhole ==
    \A c \in Call :
        call[c].result.kind = "rows" /\ call[c].statement.setop =>
            Whole(call[c].statement, call[c].result)
=============================================================================
