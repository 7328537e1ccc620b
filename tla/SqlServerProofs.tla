--------------------------- MODULE SqlServerProofs ---------------------------
(***************************************************************************)
(* The pool's limit and the rows of execute_query, for every pool size,    *)
(* limit of rows, set of statements and any number of calls.               *)
(***************************************************************************)
EXTENDS SqlServer, FiniteSetTheorems, TLAPS

Bounds ==
    /\ pool \in 1 .. made \union {NoPool}
    /\ made \in 1 .. Pools
    /\ stale \subseteq 1 .. made

Calls ==
    /\ call \in [Call -> CallType]
    /\ \A c \in Call : call[c].pc \in {"waiting", "running", "cancelled"} => call[c].pool \in 1 .. made

\* The calls that hold a connection of a pool; a pool of the future has none.
Limit ==
    \A p \in 1 .. Pools :
        /\ IsFiniteSet(Holders(p))
        /\ Cardinality(Holders(p)) <= PoolSize

IInv == Bounds /\ Calls /\ Limit /\ ResultsAreWhole

-----------------------------------------------------------------------------
LEMMA MinOfTwo == \A a, b \in Nat : Min({a, b}) = IF a <= b THEN a ELSE b
<1> TAKE a, b \in Nat
<1> DEFINE m == IF a <= b THEN a ELSE b
<1>1. m \in {a, b} /\ \A y \in {a, b} : m <= y
  OBVIOUS
<1>2. \A x \in {a, b} : (\A y \in {a, b} : x <= y) => x = m
  OBVIOUS
<1> QED BY <1>1, <1>2 DEF Min

\* How many rows the server has, for each place of the TOP.
LEMMA FetchedRows ==
    ASSUME NEW s \in Statement, NEW n \in Fetched(s)
    PROVE  /\ n \in Nat
           /\ ~TopInPart(s) => n = IF s.rows <= MaxRows + 1 \/ s.top THEN s.rows ELSE MaxRows + 1
<1>1. s \in StatementType /\ MaxRows \in Nat
  BY SqlServerAssumption
<1>2. /\ s.rows \in Nat /\ s.partly \in Nat /\ s.top \in BOOLEAN
      /\ s.keyword \in {"SELECT", "select", "distinct", "with", "other"}
  BY <1>1 DEF StatementType
<1>3. Min({s.rows, MaxRows + 1}) = IF s.rows <= MaxRows + 1 THEN s.rows ELSE MaxRows + 1
  BY <1>1, <1>2, MinOfTwo
<1>4. n \in Bounded(s, MaxRows + 1)
  BY DEF Fetched
<1>5. CASE TopInPart(s)
  <2>1. n = s.partly BY <1>5, <1>4 DEF Bounded, TopInPart
  <2> QED BY <2>1, <1>2, <1>5
<1>6. CASE ~TopInPart(s) /\ s.top
  <2>1. InjectTop(s) = "unchanged" BY <1>6 DEF InjectTop
  <2>2. n = s.rows BY <2>1, <1>4, <1>6 DEF Bounded
  <2> QED BY <2>2, <1>2, <1>6
<1>7. CASE ~TopInPart(s) /\ ~s.top
  <2>1. InjectTop(s) \in {"outer", "inner", "raises", "wrapped"}
    BY <1>2, <1>7 DEF InjectTop
  <2>2. n = Min({s.rows, MaxRows + 1}) BY <2>1, <1>4, <1>7 DEF Bounded
  <2> QED BY <2>2, <1>1, <1>2, <1>3, <1>7
<1> QED BY <1>5, <1>6, <1>7, <1>2

\* What Rows makes of them.
LEMMA RowsWhole ==
    ASSUME NEW s \in Statement, NEW n \in Fetched(s)
    PROVE  /\ Rows(n) \in [kind : {"rows"}, rows : Nat, truncated : BOOLEAN]
           /\ ~TopInPart(s) => Whole(s, Rows(n))
<1>1. MaxRows \in Nat /\ s.rows \in Nat
  BY SqlServerAssumption DEF StatementType
<1>2. n \in Nat
  BY FetchedRows
<1>3. ASSUME ~TopInPart(s)
      PROVE  n = s.rows \/ (s.rows > MaxRows + 1 /\ n = MaxRows + 1)
  <2>1. n = IF s.rows <= MaxRows + 1 \/ s.top THEN s.rows ELSE MaxRows + 1
    BY FetchedRows, <1>3
  <2>2. CASE s.rows <= MaxRows + 1 \/ s.top BY <2>1, <2>2
  <2>3. CASE ~(s.rows <= MaxRows + 1 \/ s.top)
    <3>1. n = MaxRows + 1 BY <2>1, <2>3
    <3>2. ~(s.rows <= MaxRows + 1) BY <2>3
    <3> QED BY <3>1, <3>2, <1>1
  <2> QED BY <2>2, <2>3
<1>4. Min({n, MaxRows}) = IF n <= MaxRows THEN n ELSE MaxRows
  BY <1>1, <1>2, MinOfTwo
<1>5. Rows(n) = [kind |-> "rows", rows |-> IF n <= MaxRows THEN n ELSE MaxRows,
                 truncated |-> n > MaxRows]
  BY <1>4 DEF Rows
<1>6. /\ Rows(n).rows = IF n <= MaxRows THEN n ELSE MaxRows
      /\ Rows(n).truncated = (n > MaxRows)
  BY <1>5
<1>7. Rows(n) \in [kind : {"rows"}, rows : Nat, truncated : BOOLEAN]
  BY <1>1, <1>2, <1>5
<1>8. ASSUME ~TopInPart(s) PROVE Whole(s, Rows(n))
  <2>1. IF n > MaxRows THEN s.rows > MaxRows ELSE n = s.rows
    BY <1>1, <1>2, <1>3, <1>8
  <2>2. CASE n > MaxRows
    <3>1. Rows(n).truncated /\ Rows(n).rows = MaxRows BY <1>1, <1>2, <1>6, <1>7, <2>2
    <3> QED BY <2>1, <2>2, <3>1 DEF Whole
  <2>3. CASE ~(n > MaxRows)
    <3>1. ~Rows(n).truncated /\ Rows(n).rows = n BY <1>1, <1>2, <1>6, <1>7, <2>3
    <3> QED BY <2>1, <2>3, <3>1 DEF Whole
  <2> QED BY <2>2, <2>3
<1> QED BY <1>7, <1>8

\* A step after which no call holds a connection it did not hold before keeps
\* the limit.
LEMMA LimitKept ==
    ASSUME Limit, \A p \in 1 .. Pools : Holders(p)' \subseteq Holders(p)
    PROVE  Limit'
<1> SUFFICES ASSUME NEW p \in 1 .. Pools
             PROVE  IsFiniteSet(Holders(p)') /\ Cardinality(Holders(p)') <= PoolSize
  BY DEF Limit
<1>1. Holders(p)' \in SUBSET Holders(p)
  OBVIOUS
<1>2. IsFiniteSet(Holders(p)) /\ Cardinality(Holders(p)) <= PoolSize
  BY DEF Limit
<1>3. IsFiniteSet(Holders(p)') /\ Cardinality(Holders(p)') <= Cardinality(Holders(p))
  BY <1>1, <1>2, FS_Subset
<1>4. Cardinality(Holders(p)) \in Nat /\ Cardinality(Holders(p)') \in Nat
  BY <1>2, <1>3, FS_CardinalityType
<1> QED BY <1>2, <1>3, <1>4, SqlServerAssumption

\* A call ends with no rows, or with rows that are the whole result.
LEMMA EndInv ==
    ASSUME IInv, NEW c \in Call, NEW pc \in {"done", "failed"}, NEW result,
           result \in {NoResult, Answer(TRUE), Answer(FALSE)}
             \/ \E n \in Fetched(call[c].statement) : result = Rows(n),
           End(c, pc, result)
    PROVE  Limit' /\ ResultsAreWhole' /\ call' \in [Call -> CallType]
           /\ \A o \in Call : call'[o].pc \in {"waiting", "running", "cancelled"} =>
                                 call'[o].pool \in 1 .. made
<1> USE DEF IInv, Calls
<1>1. call[c].statement \in Statement BY DEF CallType
<1>2. /\ result \in [kind : {"none", "true", "false", "rows"}, rows : Nat, truncated : BOOLEAN]
      /\ result.kind = "rows" /\ ~TopInPart(call[c].statement) =>
            Whole(call[c].statement, result)
  <2>1. CASE result \in {NoResult, Answer(TRUE), Answer(FALSE)}
    <3>1. NoResult.kind = "none" /\ Answer(TRUE).kind = "true" /\ Answer(FALSE).kind = "false"
      BY DEF NoResult, Answer
    <3>2. \A b \in BOOLEAN :
            Answer(b) \in [kind : {"none", "true", "false", "rows"}, rows : Nat, truncated : BOOLEAN]
      BY DEF Answer
    <3>3. NoResult \in [kind : {"none", "true", "false", "rows"}, rows : Nat, truncated : BOOLEAN]
      BY DEF NoResult
    <3> QED BY <2>1, <3>1, <3>2, <3>3
  <2>2. CASE \E n \in Fetched(call[c].statement) : result = Rows(n)
    BY <2>2, <1>1, RowsWhole
  <2> QED BY <2>1, <2>2
<1>3. call' = [call EXCEPT ![c] = [@ EXCEPT !.pc = pc, !.pool = NoPool, !.result = result]]
  BY DEF End, CallType
<1>4. call' \in [Call -> CallType]
  <2>1. [call[c] EXCEPT !.pc = pc, !.pool = NoPool, !.result = result] \in CallType
    <3>1. call[c] \in CallType OBVIOUS
    <3> QED BY <1>2, <3>1 DEF CallType, Phase
  <2> QED BY <1>3, <2>1
<1>5. /\ call'[c].pc = pc /\ call'[c].statement = call[c].statement
      /\ call'[c].result = result
      /\ \A o \in Call \ {c} : call'[o] = call[o]
  BY <1>3 DEF CallType
<1>6. Limit'
  <2>1. \A p \in 1 .. Pools : Holders(p)' \subseteq Holders(p) BY <1>5 DEF Holders
  <2> QED BY <2>1, LimitKept
<1>7. ResultsAreWhole' BY <1>2, <1>5 DEF ResultsAreWhole
<1>8. \A o \in Call : call'[o].pc \in {"waiting", "running", "cancelled"} => call'[o].pool \in 1 .. made
  BY <1>5
<1> QED BY <1>4, <1>6, <1>7, <1>8

-----------------------------------------------------------------------------
LEMMA InitInv == Init => IInv
<1> SUFFICES ASSUME Init PROVE IInv
  OBVIOUS
<1> USE DEF Init
<1>1. Bounds BY SqlServerAssumption DEF Bounds
<1>2. call \in [Call -> CallType]
  <2>1. [op : Op, pc : {"idle"}, statement : Statement, pool : {NoPool},
         left : {0}, retried : {FALSE}, result : {NoResult}] \subseteq CallType
    <3>1. NoResult \in [kind : {"none", "true", "false", "rows"}, rows : Nat, truncated : BOOLEAN]
      BY DEF NoResult
    <3>2. {"idle"} \subseteq Phase /\ {0} \subseteq 0 .. 3 /\ {FALSE} \subseteq BOOLEAN
      BY DEF Phase
    <3> QED BY <3>1, <3>2 DEF CallType
  <2> QED BY <2>1
<1>3. \A c \in Call : call[c].pc = "idle" /\ call[c].result = NoResult
  OBVIOUS
<1>4. Calls BY <1>2, <1>3 DEF Calls
<1>5. Limit
  <2>1. \A p : Holders(p) = {} BY <1>3 DEF Holders
  <2> QED BY <2>1, FS_EmptySet, SqlServerAssumption DEF Limit
<1>6. ResultsAreWhole BY <1>3 DEF ResultsAreWhole, NoResult
<1> QED BY <1>1, <1>4, <1>5, <1>6 DEF IInv

\* A call moves on without a result; its new state may name a newer pool.
LEMMA MoveInv ==
    ASSUME IInv, Bounds', made <= made',
           NEW c \in Call, NEW rec \in CallType,
           call' = [call EXCEPT ![c] = rec],
           rec.result = call[c].result, rec.statement = call[c].statement,
           rec.pc \in {"waiting", "running", "cancelled"} => rec.pool \in 1 .. made'
    PROVE  Calls' /\ ResultsAreWhole'
<1> USE DEF IInv
<1>1. call'[c] = rec /\ \A o \in Call \ {c} : call'[o] = call[o]
  BY DEF Calls
<1>2. call' \in [Call -> CallType] BY DEF Calls
<1>3. 1 .. made \subseteq 1 .. made' BY SqlServerAssumption DEF Bounds
<1>4. Calls' BY <1>1, <1>2, <1>3 DEF Calls
<1>5. ResultsAreWhole' BY <1>1 DEF ResultsAreWhole
<1> QED BY <1>4, <1>5

LEMMA BeginInv == ASSUME IInv, NEW c \in Call, Begin(c) PROVE IInv'
<1> USE DEF IInv
<1>0. Bounds' BY DEF Begin, Bounds
<1>1. CASE End(c, "failed", NoResult)
  BY <1>0, <1>1, EndInv DEF Begin, Calls
<1>2. CASE End(c, "done", Answer(FALSE))
  BY <1>0, <1>2, EndInv DEF Begin, Calls
<1>3. CASE /\ pool # NoPool
           /\ call' = [call EXCEPT ![c].pc = "waiting", ![c].pool = pool,
                                   ![c].left = Statements(call[c].op)]
  <2> DEFINE rec == [call[c] EXCEPT !.pc = "waiting", !.pool = pool, !.left = Statements(call[c].op)]
  <2>1. call[c] \in CallType BY DEF Calls
  <2>2. pool \in 1 .. made /\ pool \in 1 .. Pools BY <1>3, SqlServerAssumption DEF Bounds
  <2>3. Statements(call[c].op) \in 0 .. 3 BY DEF Statements
  <2>4. rec \in CallType BY <2>1, <2>2, <2>3 DEF CallType, Phase
  <2>5. call' = [call EXCEPT ![c] = rec] BY <1>3 DEF Calls, CallType
  <2>6. /\ rec.pc = "waiting" /\ rec.pool = pool
        /\ rec.result = call[c].result /\ rec.statement = call[c].statement
    BY <2>1 DEF CallType
  <2>7. made' = made /\ made <= made' BY SqlServerAssumption DEF Begin, Bounds
  <2>8. Calls' /\ ResultsAreWhole'
    <3> HIDE DEF rec
    <3> QED BY <1>0, <2>2, <2>4, <2>5, <2>6, <2>7, MoveInv
  <2>9. \A p \in 1 .. Pools : Holders(p)' \subseteq Holders(p)
    <3> HIDE DEF rec
    <3> QED BY <2>5, <2>6 DEF Holders, Calls
  <2> QED BY <1>0, <2>8, <2>9, LimitKept
<1> QED BY <1>1, <1>2, <1>3 DEF Begin

\* The one step that takes a connection: there was one to take.
LEMMA AcquireInv == ASSUME IInv, NEW c \in Call, Acquire(c) PROVE IInv'
<1> USE DEF IInv
<1> DEFINE rec == [call[c] EXCEPT !.pc = "running"]
<1>0. Bounds' /\ made' = made /\ made <= made' BY SqlServerAssumption DEF Acquire, Bounds
<1>1. call[c] \in CallType /\ call[c].pc = "waiting" /\ call[c].pool \in 1 .. made
  BY DEF Calls, Acquire
<1>2. rec \in CallType BY <1>1 DEF CallType, Phase
<1>3. call' = [call EXCEPT ![c] = rec] BY DEF Acquire, Calls, CallType
<1>4. /\ rec.pc = "running" /\ rec.pool = call[c].pool
      /\ rec.result = call[c].result /\ rec.statement = call[c].statement
  BY <1>1 DEF CallType
<1> HIDE DEF rec
<1>5. Calls' /\ ResultsAreWhole'
  BY <1>0, <1>1, <1>2, <1>3, <1>4, MoveInv
<1>6. Limit'
  <2> SUFFICES ASSUME NEW p \in 1 .. Pools
               PROVE  IsFiniteSet(Holders(p)') /\ Cardinality(Holders(p)') <= PoolSize
    BY DEF Limit
  <2>1. IsFiniteSet(Holders(p)) /\ Cardinality(Holders(p)) <= PoolSize
    BY DEF Limit
  <2>2. CASE p # call[c].pool
    <3>1. Holders(p)' = Holders(p) BY <1>3, <1>4, <2>2, <1>1 DEF Holders, Calls
    <3> QED BY <2>1, <3>1
  <2>3. CASE p = call[c].pool
    <3>1. Holders(p)' = Holders(p) \union {c} BY <1>3, <1>4, <2>3 DEF Holders, Calls
    <3>2. Cardinality(Holders(p)) < PoolSize BY <2>3 DEF Acquire
    <3>3. /\ IsFiniteSet(Holders(p) \union {c})
          /\ Cardinality(Holders(p) \union {c}) <= Cardinality(Holders(p)) + 1
      <4>1. /\ IsFiniteSet(Holders(p) \union {c})
            /\ Cardinality(Holders(p) \union {c}) =
                 IF c \in Holders(p) THEN Cardinality(Holders(p)) ELSE Cardinality(Holders(p)) + 1
        BY <2>1, FS_AddElement
      <4>2. Cardinality(Holders(p)) \in Nat BY <2>1, FS_CardinalityType
      <4> QED BY <4>1, <4>2
    <3>4. Cardinality(Holders(p)) \in Nat /\ Cardinality(Holders(p) \union {c}) \in Nat
      BY <2>1, <3>3, FS_CardinalityType
    <3> QED BY <3>1, <3>2, <3>3, <3>4, SqlServerAssumption
  <2> QED BY <2>2, <2>3
<1> QED BY <1>0, <1>5, <1>6

LEMMA CompleteInv == ASSUME IInv, NEW c \in Call, Complete(c) PROVE IInv'
<1> USE DEF IInv
<1>0. Bounds' /\ made' = made /\ made <= made' BY SqlServerAssumption DEF Complete, Bounds
<1>1. CASE call[c].left > 1 /\ call' = [call EXCEPT ![c].left = @ - 1]
  <2> DEFINE rec == [call[c] EXCEPT !.left = @ - 1]
  <2>1. call[c] \in CallType BY DEF Calls
  <2>2. rec \in CallType BY <1>1, <2>1 DEF CallType
  <2>3. call' = [call EXCEPT ![c] = rec] BY <1>1 DEF Calls, CallType
  <2>4. /\ rec.pc = call[c].pc /\ rec.pool = call[c].pool
        /\ rec.result = call[c].result /\ rec.statement = call[c].statement
    BY <2>1 DEF CallType
  <2>5. rec.pc \in {"waiting", "running", "cancelled"} => rec.pool \in 1 .. made'
    BY <1>0, <2>4 DEF Calls
  <2> HIDE DEF rec
  <2>6. Calls' /\ ResultsAreWhole' BY <1>0, <2>2, <2>3, <2>4, <2>5, MoveInv
  <2>7. \A p \in 1 .. Pools : Holders(p)' \subseteq Holders(p) BY <2>3, <2>4 DEF Holders, Calls
  <2> QED BY <1>0, <2>6, <2>7, LimitKept
<1>2. CASE \/ End(c, "done", Answer(TRUE)) \/ End(c, "done", NoResult)
           \/ \E n \in Fetched(call[c].statement) : End(c, "done", Rows(n))
  BY <1>0, <1>2, EndInv DEF Calls
<1> QED BY <1>1, <1>2 DEF Complete

LEMMA BreakInv == ASSUME IInv, NEW c \in Call, Break(c) PROVE IInv'
<1> USE DEF IInv
<1>0. Bounds' /\ made' = made /\ made <= made' BY SqlServerAssumption DEF Break, Bounds
<1>1. CASE End(c, "failed", NoResult) \/ End(c, "done", Answer(FALSE))
  BY <1>0, <1>1, EndInv DEF Calls
<1>2. CASE call' = [call EXCEPT ![c].pc = "reconnecting", ![c].pool = NoPool, ![c].retried = TRUE]
  <2> DEFINE rec == [call[c] EXCEPT !.pc = "reconnecting", !.pool = NoPool, !.retried = TRUE]
  <2>1. call[c] \in CallType BY DEF Calls
  <2>2. rec \in CallType BY <2>1 DEF CallType, Phase
  <2>3. call' = [call EXCEPT ![c] = rec] BY <1>2 DEF Calls, CallType
  <2>4. /\ rec.pc = "reconnecting"
        /\ rec.result = call[c].result /\ rec.statement = call[c].statement
    BY <2>1 DEF CallType
  <2> HIDE DEF rec
  <2>5. Calls' /\ ResultsAreWhole' BY <1>0, <2>2, <2>3, <2>4, MoveInv
  <2>6. \A p \in 1 .. Pools : Holders(p)' \subseteq Holders(p) BY <2>3, <2>4 DEF Holders, Calls
  <2> QED BY <1>0, <2>5, <2>6, LimitKept
<1> QED BY <1>1, <1>2 DEF Break

LEMMA ReconnectInv == ASSUME IInv, NEW c \in Call, Reconnect(c) PROVE IInv'
<1> USE DEF IInv
<1> DEFINE rec == [call[c] EXCEPT !.pc = "waiting", !.pool = made + 1, !.left = 1]
<1>0. /\ Bounds' /\ made' = made + 1 /\ made <= made'
      /\ made + 1 \in 1 .. Pools /\ made + 1 \in 1 .. made'
  BY SqlServerAssumption DEF Reconnect, Bounds
<1>1. call[c] \in CallType BY DEF Calls
<1>2. rec \in CallType
  <2>1. ASSUME NEW q \in 1 .. Pools, NEW n \in 0 .. 3
        PROVE  [call[c] EXCEPT !.pc = "waiting", !.pool = q, !.left = n] \in CallType
    BY <1>1 DEF CallType, Phase
  <2>2. 1 \in 0 .. 3 OBVIOUS
  <2> QED BY <1>0, <2>1, <2>2
<1>3. call' = [call EXCEPT ![c] = rec] BY DEF Reconnect, Calls, CallType
<1>4. /\ rec.pc = "waiting" /\ rec.pool = made + 1
      /\ rec.result = call[c].result /\ rec.statement = call[c].statement
  BY <1>1 DEF CallType
<1> HIDE DEF rec
<1>5. Calls' /\ ResultsAreWhole' BY <1>0, <1>2, <1>3, <1>4, MoveInv
<1>6. \A p \in 1 .. Pools : Holders(p)' \subseteq Holders(p) BY <1>3, <1>4 DEF Holders, Calls
<1> QED BY <1>0, <1>5, <1>6, LimitKept

LEMMA ReconnectFailsInv == ASSUME IInv, NEW c \in Call, ReconnectFails(c) PROVE IInv'
<1>1. Bounds' /\ made' = made BY DEF ReconnectFails, Bounds, IInv
<1> QED BY <1>1, EndInv DEF ReconnectFails, Calls, IInv

LEMMA TimeoutInv == ASSUME IInv, NEW c \in Call, Timeout(c) PROVE IInv'
<1> USE DEF IInv
<1>0. Bounds' /\ made' = made /\ made <= made' BY SqlServerAssumption DEF Timeout, Bounds
<1>1. CASE End(c, "failed", NoResult)
  BY <1>0, <1>1, EndInv DEF Calls
<1>2. CASE call[c].pc = "running" /\ call' = [call EXCEPT ![c].pc = "cancelled"]
  <2> DEFINE rec == [call[c] EXCEPT !.pc = "cancelled"]
  <2>1. call[c] \in CallType /\ call[c].pool \in 1 .. made BY <1>2 DEF Calls
  <2>2. rec \in CallType BY <2>1 DEF CallType, Phase
  <2>3. call' = [call EXCEPT ![c] = rec] BY <1>2 DEF Calls, CallType
  <2>4. /\ rec.pc = "cancelled" /\ rec.pool = call[c].pool
        /\ rec.result = call[c].result /\ rec.statement = call[c].statement
    BY <2>1 DEF CallType
  <2> HIDE DEF rec
  <2>5. Calls' /\ ResultsAreWhole' BY <1>0, <2>1, <2>2, <2>3, <2>4, MoveInv
  <2>6. \A p \in 1 .. Pools : Holders(p)' \subseteq Holders(p)
    BY <1>2, <2>3, <2>4 DEF Holders, Calls
  <2> QED BY <1>0, <2>5, <2>6, LimitKept
<1> QED BY <1>1, <1>2 DEF Timeout

LEMMA CancelledInv == ASSUME IInv, NEW c \in Call, Cancelled(c) PROVE IInv'
<1>1. Bounds' /\ made' = made BY DEF Cancelled, Bounds, IInv
<1> QED BY <1>1, EndInv DEF Cancelled, Calls, IInv

LEMMA DisconnectInv == ASSUME IInv, NEW c \in Call, Disconnect(c) PROVE IInv'
<1>1. Bounds' /\ made' = made BY DEF Disconnect, Bounds, IInv
<1> QED BY <1>1, EndInv DEF Disconnect, Calls, IInv

LEMMA GoStaleInv == ASSUME IInv, NEW p \in 1 .. Pools, GoStale(p) PROVE IInv'
<1> USE DEF IInv
<1>1. Bounds' BY DEF GoStale, Bounds
<1>2. Calls' BY DEF GoStale, Calls
<1>3. Limit' BY DEF GoStale, Limit, Holders
<1>4. ResultsAreWhole' BY DEF GoStale, ResultsAreWhole
<1> QED BY <1>1, <1>2, <1>3, <1>4

LEMMA NextInv == IInv /\ [Next]_vars => IInv'
<1> SUFFICES ASSUME IInv, [Next]_vars PROVE IInv'
  OBVIOUS
<1>1. ASSUME NEW c \in Call,
             \/ Begin(c) \/ Acquire(c) \/ Complete(c) \/ Break(c) \/ Reconnect(c)
             \/ ReconnectFails(c) \/ Timeout(c) \/ Cancelled(c) \/ Disconnect(c)
      PROVE  IInv'
  BY <1>1, BeginInv, AcquireInv, CompleteInv, BreakInv, ReconnectInv, ReconnectFailsInv,
     TimeoutInv, CancelledInv, DisconnectInv
<1>2. ASSUME NEW p \in 1 .. Pools, GoStale(p) PROVE IInv'
  BY <1>2, GoStaleInv
<1>3. CASE UNCHANGED vars
  BY <1>3 DEF vars, IInv, Bounds, Calls, Limit, Holders, ResultsAreWhole
<1> QED BY <1>1, <1>2, <1>3 DEF Next

LEMMA InductiveInvariant == Spec => []IInv
<1> QED BY InitInv, NextInv, PTL DEF Spec

\* Calls and pools keep their shape, a call holds a connection of a pool that
\* was made, and no pool ever has more connections out than its size.
THEOREM TypeCorrect == Spec => []TypeOK
<1>1. IInv => TypeOK
  <2> SUFFICES ASSUME IInv PROVE TypeOK
    OBVIOUS
  <2>1. 1 .. made \subseteq 1 .. Pools BY SqlServerAssumption DEF IInv, Bounds
  <2>2. \A p \in 1 .. made : Cardinality(Holders(p)) <= PoolSize BY <2>1 DEF IInv, Limit
  <2> QED BY <2>2 DEF IInv, Bounds, Calls, TypeOK
<1> QED BY <1>1, InductiveInvariant, PTL

\* execute_query returns everything, or max_rows of more than that and says so,
\* for every statement whose TOP, if it gets one, bounds the whole of it.
THEOREM ResultsAreWholeAlways == Spec => []ResultsAreWhole
<1>1. IInv => ResultsAreWhole BY DEF IInv
<1> QED BY <1>1, InductiveInvariant, PTL
=============================================================================
