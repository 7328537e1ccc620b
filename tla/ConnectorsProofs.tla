-------------------------- MODULE ConnectorsProofs --------------------------
(***************************************************************************)
(* Safety of the connector registry for every number of connections,       *)
(* requests and connector objects.                                         *)
(***************************************************************************)
EXTENDS Connectors, TLAPS

\* A request that refers to a connector refers to one of its own connection.
HeldIsOwn ==
    \A r \in Request : req[r].pc \in {"testing", "using", "between", "closing"} =>
        /\ req[r].conn \in Connector
        /\ pool[req[r].conn].state # "unborn"
        /\ pool[req[r].conn].id = req[r].id

\* Readers and writers keep to their phases, and a writer past its flush has
\* the lock of a row that is still there.
WriterHoldsLock ==
    \A r \in Request :
        /\ req[r].pc \in {"testing", "connecting", "using"} => req[r].op \in Readers
        /\ req[r].pc = "between" => req[r].op = "introspect"
        /\ req[r].pc = "removed" => req[r].op = "delete"
        /\ req[r].pc = "writing" => req[r].op # "query"
        /\ req[r].op = "update" /\ req[r].pc \in {"closing", "writing"} =>
              rowLock[req[r].id] = r /\ row[req[r].id] # 0
        /\ req[r].op \in {"delete", "introspect"} /\ req[r].pc = "writing" =>
              rowLock[req[r].id] = r

\* A reader looks its connector up, or runs statements, MaxUses times at most.
UsesLeft ==
    \A r \in Request :
        req[r].pc \in {"idle", "read", "testing", "closing", "connecting"} =>
            req[r].uses < MaxUses

\* What a request has read was committed, and versions only grow.
ReadWasCommitted ==
    \A r \in Request : Active(r) =>
        req[r].str \in 1 .. row[req[r].id] \/ row[req[r].id] = 0

\* The history variable means what it says, and a writer without company that
\* is past remove_connector sees an empty entry.
AloneMeansAlone ==
    \A r \in Request : Active(r) /\ req[r].alone =>
        /\ \A q \in Request \ {r} : req[q].id = req[r].id => ~ Active(q)
        /\ req[r].op \notin Readers /\ req[r].pc \in {"removed", "writing"} =>
              registry[req[r].id] = NoConnector

IInv == /\ TypeOK
        /\ UsesLeft
        /\ CachedIsLive
        /\ NoUseAfterClose
        /\ HeldIsOwn
        /\ WriterHoldsLock
        /\ ReadWasCommitted
        /\ OnlyCommittedConfig
        /\ AloneMeansAlone

-----------------------------------------------------------------------------
\* A connector object that get_or_create_connector instantiates is a new one.
LEMMA NewConnectorUnborn ==
    Unborn # {} => NewConnector \in Connector /\ pool[NewConnector].state = "unborn"
  BY DEF Unborn, NewConnector

\* The record update every move of a request amounts to.
LEMMA MoveTypes ==
    ASSUME TypeOK, NEW r \in Request, NEW p \in Phase,
           NEW c \in Connector \union {NoConnector}
    PROVE  /\ [req EXCEPT ![r].pc = p] \in [Request -> RequestRecord]
           /\ [req EXCEPT ![r].pc = p, ![r].conn = c] \in [Request -> RequestRecord]
<1>1. req[r] \in RequestRecord
  BY DEF TypeOK
<1>2. [req[r] EXCEPT !.pc = p] \in RequestRecord
  BY <1>1 DEF RequestRecord
<1>3. [req[r] EXCEPT !.pc = p, !.conn = c] \in RequestRecord
  BY <1>1 DEF RequestRecord
<1> QED
  BY <1>2, <1>3 DEF TypeOK

\* What reading the row changes, request by request.
LEMMA ReadRowEffect ==
    ASSUME TypeOK, NEW r \in Request, ReadRow(r)
    PROVE  /\ req' \in [Request -> RequestRecord]
           /\ req[r].pc = "idle"
           /\ req'[r].pc = IF row[req[r].id] = 0 THEN "failed" ELSE "read"
           /\ req'[r].str = row[req[r].id]
           /\ \A q \in Request : /\ req'[q].op = req[q].op
                                /\ req'[q].id = req[q].id
                                /\ req'[q].conn = req[q].conn
                                /\ req'[q].uses = req[q].uses
           /\ \A q \in Request \ {r} : /\ req'[q].pc = req[q].pc
                                      /\ req'[q].str = req[q].str
<1> DEFINE others == {q \in Request \ {r} : req[q].id = req[r].id /\ Active(q)}
<1>1. /\ req[r].pc = "idle"
      /\ req' = [q \in Request |->
                   IF q = r
                   THEN [req[r] EXCEPT !.pc = IF row[req[r].id] = 0 THEN "failed" ELSE "read",
                                       !.str = row[req[r].id],
                                       !.alone = others = {}]
                   ELSE IF q \in others THEN [req[q] EXCEPT !.alone = FALSE]
                   ELSE req[q]]
  BY DEF ReadRow
<1>2. row[req[r].id] \in Nat /\ \A q \in Request : req[q] \in RequestRecord
  BY DEF TypeOK, RequestRecord
<1>3. req'[r] \in RequestRecord /\ \A q \in Request \ {r} : req'[q] \in RequestRecord
  BY <1>1, <1>2 DEF RequestRecord, Phase
<1>4. req' \in [Request -> RequestRecord]
  BY <1>1, <1>3
<1> HIDE DEF others
<1>5. /\ req'[r].pc = IF row[req[r].id] = 0 THEN "failed" ELSE "read"
      /\ req'[r].str = row[req[r].id]
      /\ req'[r].op = req[r].op /\ req'[r].id = req[r].id
      /\ req'[r].conn = req[r].conn /\ req'[r].uses = req[r].uses
  BY <1>1, <1>2 DEF RequestRecord
<1>6. ASSUME NEW q \in Request \ {r}
      PROVE  /\ req'[q].pc = req[q].pc /\ req'[q].str = req[q].str
             /\ req'[q].op = req[q].op /\ req'[q].id = req[q].id
             /\ req'[q].conn = req[q].conn /\ req'[q].uses = req[q].uses
  BY <1>1, <1>2 DEF RequestRecord
<1> QED
  BY <1>1, <1>4, <1>5, <1>6

\* Reading the row ends the solitude of the requests it overlaps.
LEMMA ReadRowAlone ==
    ASSUME TypeOK, NEW r \in Request, ReadRow(r)
    PROVE  \A q \in Request \ {r} :
              /\ req'[q].alone => req[q].alone
              /\ req[q].id = req[r].id /\ Active(q) => ~ req'[q].alone /\ ~ req'[r].alone
<1> DEFINE others == {q \in Request \ {r} : req[q].id = req[r].id /\ Active(q)}
<1>1. /\ req[r].pc = "idle"
      /\ req' = [q \in Request |->
                   IF q = r
                   THEN [req[r] EXCEPT !.pc = IF row[req[r].id] = 0 THEN "failed" ELSE "read",
                                       !.str = row[req[r].id],
                                       !.alone = others = {}]
                   ELSE IF q \in others THEN [req[q] EXCEPT !.alone = FALSE]
                   ELSE req[q]]
  BY DEF ReadRow
<1>2. row[req[r].id] \in Nat /\ \A q \in Request : req[q] \in RequestRecord
  BY DEF TypeOK, RequestRecord
<1>3. \A q \in Request \ {r} : req[q].id = req[r].id /\ Active(q) => q \in others
  BY DEF others
<1> HIDE DEF others
<1>4. req'[r].alone = (others = {})
  BY <1>1, <1>2 DEF RequestRecord
<1>5. ASSUME NEW q \in Request \ {r}
      PROVE  /\ req'[q].alone => req[q].alone
             /\ q \in others => ~ req'[q].alone
  BY <1>1, <1>2 DEF RequestRecord
<1> QED
  BY <1>3, <1>4, <1>5

\* A step of r leaves every other request alone.
LEMMA StepEffect ==
    ASSUME TypeOK, NEW r \in Request, Step(r)
    PROVE  /\ \A q \in Request \ {r} : req'[q] = req[q]
           /\ req'[r].op = req[r].op /\ req'[r].id = req[r].id
           /\ req'[r].str = req[r].str /\ req'[r].alone = req[r].alone
           /\ req[r].pc # "idle" /\ Active(r)
<1>1. req[r] \in RequestRecord
  BY DEF TypeOK
<1> USE <1>1 DEF TypeOK, RequestRecord, Active
<1>2. CASE GetConnector(r)
  BY <1>2 DEF GetConnector, StartClosing, Goto
<1>3. CASE TestPasses(r) \/ UseAgain(r)
  BY <1>3 DEF TestPasses, UseAgain, UseOrFail, LookupRaises, LookAgain, Fail
<1>4. CASE TestFails(r)
  BY <1>4 DEF TestFails, StartClosing
<1>5. CASE Disconnected(r)
  BY <1>5 DEF Disconnected, LookupRaises, LookAgain, Fail
<1>6. CASE Connected(r) \/ ConnectFails(r) \/ Release(r)
  BY <1>6 DEF Connected, ConnectFails, LookupRaises, LookAgain, Fail, Release, Goto
<1>10. CASE FlushIntrospection(r)
  BY <1>10 DEF FlushIntrospection, Fail, Goto
<1>7. CASE FlushUpdate(r)
  BY <1>7 DEF FlushUpdate, StartRemove, StartClosing, Fail, Goto
<1>8. CASE RemoveBeforeDelete(r)
  BY <1>8 DEF RemoveBeforeDelete, StartRemove, StartClosing, Goto
<1>9. CASE FlushDelete(r) \/ Commit(r)
  BY <1>9 DEF FlushDelete, Commit, Goto
<1> QED
  BY <1>2, <1>3, <1>4, <1>5, <1>6, <1>7, <1>8, <1>9, <1>10 DEF Step

\* The same for the pools.
LEMMA PoolTypes ==
    ASSUME TypeOK, NEW c \in Connector, NEW x \in {"open", "closing", "closed"}
    PROVE  [pool EXCEPT ![c].state = x] \in [Connector -> PoolRecord]
  BY DEF TypeOK, PoolRecord

\* The types after the moves that several actions share.
LEMMA MovesTyped ==
    ASSUME TypeOK, NEW r \in Request
    PROVE  /\ \A p \in Phase : Goto(r, p) => req' \in [Request -> RequestRecord]
           /\ \A c \in Connector : StartClosing(r, c) =>
                 req' \in [Request -> RequestRecord] /\ pool' \in [Connector -> PoolRecord]
           /\ Fail(r) => /\ req' \in [Request -> RequestRecord]
                         /\ rowLock' \in [ConnId -> Request \union {NoRequest}]
           /\ \A p \in Phase : StartRemove(r, p) =>
                 req' \in [Request -> RequestRecord] /\ pool' \in [Connector -> PoolRecord]
<1>1. ASSUME NEW p \in Phase, Goto(r, p)
      PROVE  req' \in [Request -> RequestRecord]
  BY <1>1, MoveTypes DEF Goto
<1>2. ASSUME NEW c \in Connector, StartClosing(r, c)
      PROVE  req' \in [Request -> RequestRecord] /\ pool' \in [Connector -> PoolRecord]
  <2>1. "closing" \in Phase
    BY DEF Phase
  <2> QED
    BY <1>2, <2>1, MoveTypes, PoolTypes DEF StartClosing
<1>3. ASSUME Fail(r)
      PROVE  /\ req' \in [Request -> RequestRecord]
             /\ rowLock' \in [ConnId -> Request \union {NoRequest}]
  BY <1>3, MoveTypes DEF Fail, Phase, TypeOK
<1>4. ASSUME NEW p \in Phase, StartRemove(r, p)
      PROVE  req' \in [Request -> RequestRecord] /\ pool' \in [Connector -> PoolRecord]
  <2>1. registry[req[r].id] \in Connector \union {NoConnector}
    BY DEF TypeOK, RequestRecord
  <2> QED
    BY <1>1, <1>2, <1>4, <2>1 DEF StartRemove, TypeOK
<1> QED
  BY <1>1, <1>2, <1>3, <1>4

\* One more use of the connection.
LEMMA UseTyped ==
    ASSUME TypeOK, MaxUses \in Nat, NEW r \in Request, NEW c \in Connector,
           req[r].uses < MaxUses
    PROVE  [req EXCEPT ![r].pc = "using", ![r].conn = c, ![r].uses = @ + 1]
              \in [Request -> RequestRecord]
<1>1. req[r] \in RequestRecord
  BY DEF TypeOK
<1>2. req[r].uses + 1 \in 0 .. MaxUses
  BY <1>1 DEF RequestRecord
<1>3. [req[r] EXCEPT !.pc = "using", !.conn = c, !.uses = req[r].uses + 1] \in RequestRecord
  BY <1>1, <1>2 DEF RequestRecord, Phase
<1> QED
  BY <1>3 DEF TypeOK

\* A lookup that is made again is one of the uses left, and nothing is held.
LEMMA LookAgainEffect ==
    ASSUME TypeOK, MaxUses \in Nat, NEW r \in Request, LookAgain(r)
    PROVE  /\ req' \in [Request -> RequestRecord] /\ UNCHANGED rowLock
           /\ req[r].op = "query" /\ req'[r].pc = "read" /\ req'[r].conn = NoConnector
           /\ req'[r].uses < MaxUses
<1>1. req[r] \in RequestRecord
  BY DEF TypeOK
<1>2. req[r].uses + 1 \in 0 .. MaxUses /\ req[r].uses + 1 < MaxUses
  BY <1>1 DEF LookAgain, RequestRecord
<1> DEFINE after == [req[r] EXCEPT !.pc = "read", !.conn = NoConnector, !.uses = req[r].uses + 1]
<1>3. after \in RequestRecord
  BY <1>1, <1>2 DEF RequestRecord, Phase
<1>4. /\ after.pc = "read" /\ after.conn = NoConnector
      /\ after.uses = req[r].uses + 1
  BY <1>1 DEF RequestRecord
<1>5. req' = [req EXCEPT ![r] = after] /\ req[r].op = "query" /\ UNCHANGED rowLock
  BY DEF LookAgain
<1> HIDE DEF after
<1> QED
  BY <1>2, <1>3, <1>4, <1>5 DEF TypeOK

\* The types after a lookup that raised.
LEMMA LookupTyped ==
    ASSUME TypeOK, MaxUses \in Nat, NEW r \in Request, LookupRaises(r)
    PROVE  /\ req' \in [Request -> RequestRecord]
           /\ rowLock' \in [ConnId -> Request \union {NoRequest}]
<1>1. CASE Fail(r)
  BY <1>1, MovesTyped
<1>2. CASE LookAgain(r)
  BY <1>2, LookAgainEffect DEF TypeOK
<1> QED
  BY <1>1, <1>2 DEF LookupRaises

\* Every step keeps the types.
LEMMA TypeOKStep ==
    ASSUME IInv, NEW r \in Request, ReadRow(r) \/ Step(r)
    PROVE  TypeOK'
<1> USE ConnectorsAssumption DEF IInv
<1>1. /\ req[r] \in RequestRecord
      /\ \A i \in ConnId : registry[i] \in Connector \union {NoConnector}
      /\ req[r].id \in ConnId
  BY DEF TypeOK, RequestRecord
<1>2. CASE ReadRow(r)
  BY <1>2, ReadRowEffect DEF ReadRow, TypeOK
<1>3. CASE GetConnector(r)
  <2> DEFINE c == registry[req[r].id]
  <2> c \in Connector \union {NoConnector}
    BY <1>1
  <2>1. req' \in [Request -> RequestRecord]
    <3>1. CASE Goto(r, "connecting")
      BY <3>1, MovesTyped DEF Phase
    <3>2. CASE c # NoConnector /\ StartClosing(r, c)
      BY <3>2, MovesTyped
    <3>3. CASE req' = [req EXCEPT ![r].pc = "testing", ![r].conn = c]
      BY <3>3, MoveTypes DEF Phase
    <3> QED
      BY <1>3, <3>1, <3>2, <3>3 DEF GetConnector
  <2>2. pool' \in [Connector -> PoolRecord]
    <3>1. CASE c # NoConnector /\ StartClosing(r, c)
      BY <3>1, MovesTyped
    <3>2. CASE UNCHANGED pool
      BY <3>2 DEF TypeOK
    <3> QED
      BY <1>3, <3>1, <3>2 DEF GetConnector
  <2> QED
    BY <1>3, <2>1, <2>2 DEF GetConnector, TypeOK
<1>4. ASSUME TestPasses(r) \/ UseAgain(r)
      PROVE  TypeOK'
  <2>1. req[r].conn \in Connector /\ req[r].uses < MaxUses
    BY <1>4 DEF TestPasses, UseAgain, HeldIsOwn, UsesLeft
  <2>2. req' \in [Request -> RequestRecord] /\ rowLock' \in [ConnId -> Request \union {NoRequest}]
    <3>1. CASE LookupRaises(r)
      BY <3>1, LookupTyped
    <3>2. CASE req' = [req EXCEPT ![r].pc = "using", ![r].conn = req[r].conn,
                                  ![r].uses = @ + 1] /\ UNCHANGED rowLock
      BY <2>1, <3>2, UseTyped DEF TypeOK
    <3> QED
      BY <1>4, <3>1, <3>2 DEF TestPasses, UseAgain, UseOrFail
  <2> QED
    BY <1>4, <2>2 DEF TestPasses, UseAgain, TypeOK
<1>5. CASE TestFails(r)
  <2>1. req[r].conn \in Connector
    BY <1>5 DEF TestFails, HeldIsOwn
  <2>2. req' \in [Request -> RequestRecord]
    BY <1>5, <2>1, MoveTypes DEF TestFails, StartClosing, Phase
  <2>3. pool' \in [Connector -> PoolRecord]
    BY <1>5, <2>1, PoolTypes DEF TestFails, StartClosing
  <2> QED
    BY <1>5, <2>2, <2>3 DEF TestFails, TypeOK
<1>6. CASE Disconnected(r)
  <2>1. req[r].conn \in Connector
    BY <1>6 DEF Disconnected, HeldIsOwn
  <2>2. pool' \in [Connector -> PoolRecord]
    BY <1>6, <2>1, PoolTypes DEF Disconnected
  <2>3. CASE registry[req[r].id] = NoConnector /\ LookupRaises(r) /\ UNCHANGED registry
    BY <1>6, <2>2, <2>3, LookupTyped DEF Disconnected, TypeOK
  <2> DEFINE next == CASE req[r].op \in Readers  -> "connecting"
                       [] req[r].op = "update"   -> "writing"
                       [] req[r].op = "delete"   -> "removed"
  <2>4. CASE /\ registry' = [registry EXCEPT ![req[r].id] = NoConnector]
             /\ req' = [req EXCEPT ![r].conn = NoConnector, ![r].pc = next]
             /\ UNCHANGED rowLock
    <3>1. next \in Phase
      BY <1>1 DEF RequestRecord, Op, Readers, Phase
    <3>3. [req[r] EXCEPT !.conn = NoConnector, !.pc = next] \in RequestRecord
      <4> HIDE DEF next
      <4> QED
        BY <1>1, <3>1 DEF RequestRecord
    <3>4. req' \in [Request -> RequestRecord]
      <4> HIDE DEF next
      <4> QED
        BY <2>4, <3>3 DEF TypeOK
    <3> QED
      BY <1>6, <2>2, <2>4, <3>4 DEF Disconnected, TypeOK
  <2> QED
    BY <1>6, <2>3, <2>4 DEF Disconnected
<1>7. CASE Connected(r)
  <2>1. req[r].uses < MaxUses
    BY <1>7 DEF Connected, UsesLeft
  <2>2. NewConnector \in Connector
    BY <1>7, NewConnectorUnborn DEF Connected
  <2>4. req' \in [Request -> RequestRecord]
    BY <1>7, <2>1, <2>2, UseTyped DEF Connected
  <2>5. [state |-> "open", id |-> req[r].id, str |-> req[r].str] \in PoolRecord
    BY <1>1 DEF RequestRecord, PoolRecord
  <2> QED
    BY <1>1, <1>7, <2>2, <2>4, <2>5 DEF Connected, TypeOK
<1>8. CASE ConnectFails(r)
  BY <1>8, LookupTyped DEF ConnectFails, TypeOK
<1>9. CASE Release(r) \/ FlushIntrospection(r)
  <2>1. {"done", "read", "between", "writing"} \subseteq Phase
    BY DEF Phase
  <2>2. req' \in [Request -> RequestRecord]
    BY <1>9, <2>1, MovesTyped DEF Release, FlushIntrospection
  <2>3. rowLock' \in [ConnId -> Request \union {NoRequest}]
    BY <1>9, MovesTyped DEF Release, FlushIntrospection, TypeOK
  <2> QED
    BY <1>9, <2>2, <2>3 DEF Release, FlushIntrospection, TypeOK
<1>10. CASE FlushUpdate(r)
  <2>1. req' \in [Request -> RequestRecord]
    BY <1>10, MovesTyped DEF FlushUpdate, Phase
  <2>2. pool' \in [Connector -> PoolRecord]
    BY <1>10, MovesTyped DEF FlushUpdate, Phase, TypeOK
  <2>3. rowLock' \in [ConnId -> Request \union {NoRequest}]
    BY <1>10 DEF FlushUpdate, Fail, TypeOK
  <2> QED
    BY <1>10, <2>1, <2>2, <2>3 DEF FlushUpdate, TypeOK
<1>11. CASE RemoveBeforeDelete(r)
  <2>1. req' \in [Request -> RequestRecord]
    BY <1>11, MovesTyped DEF RemoveBeforeDelete, Phase
  <2>2. pool' \in [Connector -> PoolRecord]
    BY <1>11, MovesTyped DEF RemoveBeforeDelete, Phase
  <2> QED
    BY <1>11, <2>1, <2>2 DEF RemoveBeforeDelete, TypeOK
<1>12. CASE FlushDelete(r)
  BY <1>12, MoveTypes DEF FlushDelete, Goto, Phase, TypeOK
<1>13. CASE Commit(r)
  <2>1. req' \in [Request -> RequestRecord]
    BY <1>13, MovesTyped DEF Commit, Phase
  <2>2. row' \in [ConnId -> Nat] /\ rowLock' \in [ConnId -> Request \union {NoRequest}]
    <3>1. row[req[r].id] + 1 \in Nat
      BY <1>1 DEF TypeOK
    <3> QED
      BY <1>13, <3>1 DEF Commit, TypeOK
  <2> QED
    BY <1>13, <2>1, <2>2 DEF Commit, TypeOK
<1> QED
  BY <1>2, <1>3, <1>4, <1>5, <1>6, <1>7, <1>8, <1>9, <1>10, <1>11, <1>12, <1>13 DEF Step

-----------------------------------------------------------------------------
\* What the shared moves do to the request that makes them.
LEMMA MovesEffect ==
    ASSUME TypeOK, NEW r \in Request
    PROVE  /\ \A p \in Phase : Goto(r, p) =>
                 req'[r].pc = p /\ req'[r].conn = req[r].conn /\ req'[r].uses = req[r].uses
           /\ \A c \in Connector : StartClosing(r, c) =>
                 req'[r].pc = "closing" /\ req'[r].conn = c /\ req'[r].uses = req[r].uses
           /\ Fail(r) => req'[r].pc = "failed"
  BY DEF TypeOK, RequestRecord, Goto, StartClosing, Fail

\* Setting the state of a pool changes nothing else.
LEMMA PoolEffect ==
    ASSUME TypeOK, NEW c \in Connector, NEW x \in {"open", "closing", "closed"},
           pool' = [pool EXCEPT ![c].state = x]
    PROVE  \A d \in Connector :
              /\ pool'[d].id = pool[d].id
              /\ pool'[d].str = pool[d].str
              /\ pool'[d].state = IF d = c THEN x ELSE pool[d].state
  BY DEF TypeOK, PoolRecord

\* What the registry and the requests refer to stays alive.
References == CachedIsLive /\ NoUseAfterClose /\ HeldIsOwn

\* Closing a pool that is not yet closed.
LEMMA StartClosingKeeps ==
    ASSUME IInv, NEW r \in Request, Step(r), NEW c \in Connector,
           StartClosing(r, c), UNCHANGED registry,
           pool[c].state \in {"open", "closing"}, pool[c].id = req[r].id
    PROVE  References'
<1>1. /\ req'[r].pc = "closing" /\ req'[r].conn = c
      /\ \A q \in Request \ {r} : req'[q] = req[q]
      /\ req'[r].id = req[r].id
  BY StepEffect, MovesEffect DEF IInv
<1>2. \A d \in Connector : /\ pool'[d].id = pool[d].id
                           /\ pool'[d].state = IF d = c THEN "closing" ELSE pool[d].state
  <2>1. TypeOK /\ pool' = [pool EXCEPT ![c].state = "closing"]
    BY DEF IInv, StartClosing
  <2> QED
    BY <2>1, PoolEffect
<1>3. CachedIsLive'
  BY <1>2 DEF IInv, TypeOK, CachedIsLive
<1>4. NoUseAfterClose'
  BY <1>1, <1>2 DEF IInv, NoUseAfterClose, HeldIsOwn
<1>5. HeldIsOwn'
  BY <1>1, <1>2 DEF IInv, HeldIsOwn
<1> QED
  BY <1>3, <1>4, <1>5 DEF References

\* A request that changes only its own place and holds nothing afterwards.
LEMMA NothingHeldKeeps ==
    ASSUME IInv, NEW r \in Request, ReadRow(r) \/ Step(r), UNCHANGED <<registry, pool>>,
           req'[r].pc \notin {"testing", "using", "between", "closing"}
    PROVE  References'
<1>1. \A q \in Request \ {r} : /\ req'[q].pc = req[q].pc
                               /\ req'[q].conn = req[q].conn
                               /\ req'[q].id = req[q].id
  <2>1. CASE ReadRow(r)
    <3>1. TypeOK
      BY DEF IInv
    <3>2. \A q \in Request : req'[q].conn = req[q].conn /\ req'[q].id = req[q].id
      BY <2>1, <3>1, ReadRowEffect, Zenon
    <3>3. \A q \in Request \ {r} : req'[q].pc = req[q].pc
      BY <2>1, <3>1, ReadRowEffect, Zenon
    <3> QED
      BY <3>2, <3>3
  <2>2. CASE Step(r)
    BY <2>2, StepEffect DEF IInv
  <2> QED
    BY <2>1, <2>2
<1>2. CachedIsLive'
  BY DEF IInv, CachedIsLive
<1>3. NoUseAfterClose'
  BY <1>1 DEF IInv, NoUseAfterClose
<1>4. HeldIsOwn'
  BY <1>1 DEF IInv, HeldIsOwn
<1> QED
  BY <1>2, <1>3, <1>4 DEF References

\* A request that starts or stops using a connector of its own.
LEMMA OwnHeldKeeps ==
    ASSUME IInv, NEW r \in Request, Step(r), UNCHANGED <<registry, pool>>,
           NEW c \in Connector, req'[r].conn = c, pool[c].id = req[r].id,
           req'[r].pc # "closing",
           \/ pool[c].state \in {"open", "closing"}
           \/ req'[r].pc = "between" /\ pool[c].state # "unborn"
    PROVE  References'
<1>1. req'[r].id = req[r].id /\ \A q \in Request \ {r} : req'[q] = req[q]
  BY StepEffect DEF IInv
<1>2. CachedIsLive'
  BY DEF IInv, CachedIsLive
<1>3. NoUseAfterClose'
  BY <1>1 DEF IInv, NoUseAfterClose
<1>4. HeldIsOwn'
  BY <1>1 DEF IInv, HeldIsOwn
<1> QED
  BY <1>2, <1>3, <1>4 DEF References

\* A caller of remove_connector.
LEMMA StartRemoveKeeps ==
    ASSUME IInv, NEW r \in Request, Step(r), UNCHANGED registry,
           NEW next \in {"removed", "writing"}, StartRemove(r, next)
    PROVE  References'
<1> DEFINE c == registry[req[r].id]
<1>1. TypeOK /\ c \in Connector \union {NoConnector} /\ next \in Phase
  BY DEF IInv, TypeOK, RequestRecord, Phase
<1>2. CASE c = NoConnector
  BY <1>1, <1>2, MovesEffect, NothingHeldKeeps DEF StartRemove
<1>3. CASE c # NoConnector
  <2>1. pool[c].state \in {"open", "closing"} /\ pool[c].id = req[r].id
    BY <1>3 DEF IInv, CachedIsLive, TypeOK, RequestRecord
  <2> QED
    BY <1>1, <1>3, <2>1, StartClosingKeeps DEF StartRemove
<1> QED
  BY <1>2, <1>3

\* The pool of r closes and the entry of its connection goes with it.
LEMMA DisconnectedKeeps ==
    ASSUME IInv, NEW r \in Request, Disconnected(r)
    PROVE  References'
<1> DEFINE c == req[r].conn
<1>1. c \in Connector /\ pool[c].id = req[r].id /\ pool[c].state # "unborn"
  BY DEF IInv, Disconnected, HeldIsOwn
<1>2. \A d \in Connector : /\ pool'[d].id = pool[d].id
                           /\ pool'[d].state = IF d = c THEN "closed" ELSE pool[d].state
  <2>1. TypeOK /\ pool' = [pool EXCEPT ![c].state = "closed"]
    BY DEF IInv, Disconnected
  <2> QED
    BY <1>1, <2>1, PoolEffect
<1>3. req[r].id \in ConnId /\ registry'[req[r].id] = NoConnector
  BY DEF Disconnected, IInv, TypeOK, RequestRecord
<1>4. \A i \in ConnId : registry'[i] = registry[i] \/ registry'[i] = NoConnector
  BY DEF Disconnected, IInv, TypeOK
<1>5. /\ req'[r].pc \in {"failed", "read", "connecting", "writing", "removed"}
      /\ \A q \in Request \ {r} : req'[q] = req[q]
  <2>1. \A q \in Request \ {r} : req'[q] = req[q]
    BY StepEffect DEF IInv, Step
  <2>2. CASE LookupRaises(r)
    BY <2>1, <2>2, MovesEffect, LookAgainEffect, ConnectorsAssumption
    DEF IInv, LookupRaises, ConnectorsAssumption
  <2>3. req[r].op \in Op
    BY DEF IInv, TypeOK, RequestRecord
  <2> QED
    BY <2>1, <2>2, <2>3 DEF Disconnected, IInv, TypeOK, RequestRecord, Op, Readers
<1>6. CachedIsLive'
  BY <1>1, <1>2, <1>3, <1>4 DEF IInv, CachedIsLive, TypeOK
<1>7. NoUseAfterClose'
  <2> SUFFICES ASSUME NEW q \in Request \ {r}, req[q].pc \in {"testing", "using"}
               PROVE  pool'[req[q].conn].state \in {"open", "closing"}
    BY <1>5 DEF NoUseAfterClose
  <2>1. req[q].conn \in Connector /\ req[q].conn # c
    BY DEF IInv, HeldIsOwn, Disconnected, Holds
  <2> QED
    BY <1>2, <2>1 DEF IInv, NoUseAfterClose
<1>8. HeldIsOwn'
  BY <1>2, <1>5 DEF IInv, HeldIsOwn
<1> QED
  BY <1>6, <1>7, <1>8 DEF References

\* A new connector is stored.
LEMMA ConnectedKeeps ==
    ASSUME IInv, NEW r \in Request, Connected(r)
    PROVE  References'
<1> DEFINE c == NewConnector
<1>1. c \in Connector /\ pool[c].state = "unborn" /\ req[r].id \in ConnId
  BY NewConnectorUnborn DEF Connected, IInv, TypeOK, RequestRecord
<1>2. /\ pool'[c].state = "open" /\ pool'[c].id = req[r].id
      /\ \A d \in Connector \ {c} : pool'[d] = pool[d]
      /\ registry'[req[r].id] = c
      /\ \A i \in ConnId \ {req[r].id} : registry'[i] = registry[i]
  BY <1>1 DEF Connected, IInv, TypeOK
<1>3. /\ req'[r].pc = "using" /\ req'[r].conn = c /\ req'[r].id = req[r].id
      /\ \A q \in Request \ {r} : req'[q] = req[q]
  <2>1. req'[r].id = req[r].id /\ \A q \in Request \ {r} : req'[q] = req[q]
    BY StepEffect DEF IInv, Step
  <2> QED
    BY <1>1, <2>1 DEF Connected, IInv, TypeOK, RequestRecord
<1>4. CachedIsLive'
  BY <1>1, <1>2 DEF IInv, CachedIsLive, TypeOK
<1>5. NoUseAfterClose'
  BY <1>1, <1>2, <1>3 DEF IInv, NoUseAfterClose, HeldIsOwn
<1>6. HeldIsOwn'
  BY <1>1, <1>2, <1>3 DEF IInv, HeldIsOwn
<1> QED
  BY <1>4, <1>5, <1>6 DEF References

\* Using a connector whose pool is open, or failing.
LEMMA UseOrFailKeeps ==
    ASSUME IInv, NEW r \in Request, Step(r), UseOrFail(r, req[r].conn),
           UNCHANGED <<registry, pool>>, req[r].conn \in Connector,
           pool[req[r].conn].id = req[r].id
    PROVE  References'
<1>1. CASE LookupRaises(r)
  <2>1. req'[r].pc \in {"failed", "read"}
    BY <1>1, MovesEffect, LookAgainEffect, ConnectorsAssumption
    DEF IInv, LookupRaises, ConnectorsAssumption
  <2> QED
    BY <2>1, NothingHeldKeeps
<1>2. CASE ~ LookupRaises(r)
  <2>1. /\ pool[req[r].conn].state = "open"
        /\ req'[r].pc = "using" /\ req'[r].conn = req[r].conn
    BY <1>2 DEF UseOrFail, IInv, TypeOK, RequestRecord
  <2> QED
    BY <2>1, OwnHeldKeeps
<1> QED
  BY <1>1, <1>2

\* Every step keeps the references alive.
LEMMA ReferencesStep ==
    ASSUME IInv, NEW r \in Request, ReadRow(r) \/ Step(r)
    PROVE  References'
<1>1. TypeOK /\ CachedIsLive /\ NoUseAfterClose /\ HeldIsOwn
  BY DEF IInv
<1>2. CASE ReadRow(r)
  <2>1. req'[r].pc \in {"read", "failed"}
    BY <1>1, <1>2, ReadRowEffect
  <2> QED
    BY <1>2, <2>1, NothingHeldKeeps DEF ReadRow
<1>3. CASE GetConnector(r)
  <2> DEFINE c == registry[req[r].id]
  <2>1. /\ c \in Connector \union {NoConnector}
        /\ c # NoConnector => /\ pool[c].state \in {"open", "closing"}
                              /\ pool[c].id = req[r].id
    BY <1>1 DEF TypeOK, RequestRecord, CachedIsLive
  <2>2. CASE Goto(r, "connecting") /\ UNCHANGED pool
    BY <1>1, <1>3, <2>2, MovesEffect, NothingHeldKeeps DEF GetConnector, Phase, Step
  <2>3. CASE c # NoConnector /\ StartClosing(r, c)
    BY <1>3, <2>1, <2>3, StartClosingKeeps DEF GetConnector, Step
  <2>4. CASE /\ c # NoConnector /\ UNCHANGED pool
             /\ req' = [req EXCEPT ![r].pc = "testing", ![r].conn = c]
    <3>1. req'[r].pc = "testing" /\ req'[r].conn = c
      BY <1>1, <2>4 DEF TypeOK, RequestRecord
    <3> QED
      BY <1>3, <2>1, <2>4, <3>1, OwnHeldKeeps DEF GetConnector, Step
  <2> QED
    BY <1>3, <2>2, <2>3, <2>4 DEF GetConnector
<1>4. CASE TestPasses(r) \/ UseAgain(r)
  BY <1>1, <1>4, UseOrFailKeeps DEF TestPasses, UseAgain, HeldIsOwn, Step
<1>5. CASE TestFails(r)
  BY <1>1, <1>5, StartClosingKeeps DEF TestFails, NoUseAfterClose, HeldIsOwn, Step
<1>6. CASE Disconnected(r)
  BY <1>6, DisconnectedKeeps
<1>7. CASE Connected(r)
  BY <1>7, ConnectedKeeps
<1>8. CASE ConnectFails(r)
  <2>1. req'[r].pc \in {"failed", "read"}
    BY <1>1, <1>8, MovesEffect, LookAgainEffect, ConnectorsAssumption
    DEF ConnectFails, LookupRaises, ConnectorsAssumption
  <2> QED
    BY <1>8, <2>1, NothingHeldKeeps DEF ConnectFails, Step
<1>9. CASE Release(r)
  <2>1. CASE Goto(r, "between")
    <3>1. req'[r].pc = "between" /\ req'[r].conn = req[r].conn
      BY <1>1, <2>1, MovesEffect DEF Phase
    <3> QED
      BY <1>1, <1>9, <3>1, OwnHeldKeeps DEF Release, HeldIsOwn, Step
  <2>2. CASE Goto(r, "done") \/ Goto(r, "read") \/ Fail(r)
    <3>1. req'[r].pc \in {"done", "read", "failed"}
      BY <1>1, <2>2, MovesEffect DEF Phase
    <3> QED
      BY <1>9, <3>1, NothingHeldKeeps DEF Release, Step
  <2> QED
    BY <1>9, <2>1, <2>2 DEF Release
<1>14. CASE FlushIntrospection(r)
  <2>1. req'[r].pc \in {"failed", "writing"}
    BY <1>1, <1>14, MovesEffect DEF FlushIntrospection, Phase
  <2> QED
    BY <1>14, <2>1, NothingHeldKeeps DEF FlushIntrospection, Step
<1>10. CASE FlushUpdate(r)
  <2>1. CASE Fail(r) /\ UNCHANGED pool
    BY <1>1, <1>10, <2>1, MovesEffect, NothingHeldKeeps DEF FlushUpdate, Step
  <2>2. CASE StartRemove(r, "writing")
    BY <1>10, <2>2, StartRemoveKeeps DEF FlushUpdate, Step
  <2> QED
    BY <1>10, <2>1, <2>2 DEF FlushUpdate
<1>11. CASE RemoveBeforeDelete(r)
  BY <1>11, StartRemoveKeeps DEF RemoveBeforeDelete, Step
<1>12. CASE FlushDelete(r)
  BY <1>1, <1>12, MovesEffect, NothingHeldKeeps DEF FlushDelete, Step, Phase
<1>13. CASE Commit(r)
  BY <1>1, <1>13, MovesEffect, NothingHeldKeeps DEF Commit, Step, Phase
<1> QED
  BY <1>2, <1>3, <1>4, <1>5, <1>6, <1>7, <1>8, <1>9, <1>10, <1>11, <1>12, <1>13, <1>14
  DEF Step

-----------------------------------------------------------------------------
\* A query whose lookup raised goes back to where it had read the row.
Again(r) == req[r].op = "query" /\ req'[r].pc = "read" /\ req'[r].uses < MaxUses

\* The phases each action leads from and to.
LEMMA PhaseEffect ==
    ASSUME TypeOK, NEW r \in Request
    PROVE  /\ GetConnector(r) => /\ req[r].op \in Readers /\ req[r].pc = "read"
                                 /\ req'[r].pc \in {"testing", "connecting", "closing"}
           /\ TestPasses(r) \/ UseAgain(r) => /\ req[r].pc \in {"testing", "between"}
                                              /\ req'[r].pc \in {"using", "failed"} \/ Again(r)
           /\ TestFails(r) => req[r].pc = "testing" /\ req'[r].pc = "closing"
           /\ Disconnected(r) => /\ req[r].pc = "closing"
                                 /\ \/ req'[r].pc = "failed" \/ Again(r)
                                    \/ req[r].op \in Readers /\ req'[r].pc = "connecting"
                                    \/ req[r].op = "update" /\ req'[r].pc = "writing"
                                    \/ req[r].op = "delete" /\ req'[r].pc = "removed"
           /\ Connected(r) => req[r].pc = "connecting" /\ req'[r].pc = "using"
           /\ ConnectFails(r) => req[r].pc = "connecting" /\ (req'[r].pc = "failed" \/ Again(r))
           /\ Release(r) => /\ req[r].pc = "using"
                            /\ \/ req'[r].pc \in {"done", "failed"}
                               \/ req'[r].pc = "read" /\ req[r].uses < MaxUses
                               \/ req[r].op = "introspect" /\ req'[r].pc = "between"
           /\ FlushIntrospection(r) => /\ req[r].pc = "between"
                                       /\ req'[r].pc \in {"failed", "writing"}
           /\ FlushUpdate(r) => /\ req[r].op = "update" /\ req[r].pc = "read"
                                /\ req'[r].pc \in {"failed", "closing", "writing"}
           /\ RemoveBeforeDelete(r) => /\ req[r].op = "delete" /\ req[r].pc = "read"
                                       /\ req'[r].pc \in {"closing", "removed"}
           /\ FlushDelete(r) => req[r].pc = "removed" /\ req'[r].pc = "writing"
           /\ Commit(r) => req[r].pc = "writing" /\ req'[r].pc = "done"
           /\ Step(r) => \/ req'[r].pc \in {"using", "failed"} \/ Again(r)
                         \/ req'[r].uses = req[r].uses
<1>1. req[r] \in RequestRecord
  BY DEF TypeOK
<1>0. LookupRaises(r) => req'[r].pc = "failed" \/ Again(r)
  BY MovesEffect, LookAgainEffect, ConnectorsAssumption
  DEF LookupRaises, Again, ConnectorsAssumption
<1> USE <1>1 DEF TypeOK, RequestRecord
<1>2. ASSUME GetConnector(r)
      PROVE  /\ req[r].op \in Readers /\ req[r].pc = "read"
             /\ req'[r].pc \in {"testing", "connecting", "closing"}
             /\ req'[r].uses = req[r].uses
  BY <1>2 DEF GetConnector, StartClosing, Goto
<1>3. ASSUME TestPasses(r) \/ UseAgain(r)
      PROVE  /\ req[r].pc \in {"testing", "between"}
             /\ req'[r].pc \in {"using", "failed"} \/ Again(r)
  BY <1>3, <1>0 DEF TestPasses, UseAgain, UseOrFail
<1>4. ASSUME TestFails(r)
      PROVE  req[r].pc = "testing" /\ req'[r].pc = "closing" /\ req'[r].uses = req[r].uses
  BY <1>4 DEF TestFails, StartClosing
<1>5. ASSUME Disconnected(r)
      PROVE  /\ req[r].pc = "closing"
             /\ \/ req'[r].pc = "failed" \/ Again(r)
                \/ req[r].op \in Readers /\ req'[r].pc = "connecting"
                \/ req[r].op = "update" /\ req'[r].pc = "writing"
                \/ req[r].op = "delete" /\ req'[r].pc = "removed"
             /\ req'[r].pc # "failed" /\ ~ Again(r) => req'[r].uses = req[r].uses
  BY <1>5, <1>0 DEF Disconnected, Op, Readers
<1>6. ASSUME Connected(r) \/ ConnectFails(r)
      PROVE  /\ req[r].pc = "connecting"
             /\ Connected(r) => req'[r].pc = "using"
             /\ ConnectFails(r) => req'[r].pc = "failed" \/ Again(r)
  BY <1>6, <1>0 DEF Connected, ConnectFails
<1>7. ASSUME Release(r)
      PROVE  /\ req[r].pc = "using"
             /\ \/ req'[r].pc \in {"done", "failed"}
                \/ req'[r].pc = "read" /\ req[r].uses < MaxUses
                \/ req[r].op = "introspect" /\ req'[r].pc = "between"
             /\ req'[r].uses = req[r].uses
  BY <1>7 DEF Release, Goto, Fail
<1>11. ASSUME FlushIntrospection(r)
       PROVE  /\ req[r].pc = "between" /\ req'[r].pc \in {"failed", "writing"}
              /\ req'[r].uses = req[r].uses
  BY <1>11 DEF FlushIntrospection, Goto, Fail
<1>8. ASSUME FlushUpdate(r)
      PROVE  /\ req[r].op = "update" /\ req[r].pc = "read"
             /\ req'[r].pc \in {"failed", "closing", "writing"}
             /\ req'[r].uses = req[r].uses
  BY <1>8 DEF FlushUpdate, StartRemove, StartClosing, Fail, Goto
<1>9. ASSUME RemoveBeforeDelete(r)
      PROVE  /\ req[r].op = "delete" /\ req[r].pc = "read"
             /\ req'[r].pc \in {"closing", "removed"}
             /\ req'[r].uses = req[r].uses
  BY <1>9 DEF RemoveBeforeDelete, StartRemove, StartClosing, Goto
<1>10. ASSUME FlushDelete(r) \/ Commit(r)
       PROVE  /\ FlushDelete(r) => req[r].pc = "removed" /\ req'[r].pc = "writing"
              /\ Commit(r) => req[r].pc = "writing" /\ req'[r].pc = "done"
              /\ req'[r].uses = req[r].uses
  BY <1>10 DEF FlushDelete, Commit, Goto
<1> QED
  BY <1>2, <1>3, <1>4, <1>5, <1>6, <1>7, <1>8, <1>9, <1>10, <1>11 DEF Step

\* Every step leaves the uses within their bound.
LEMMA UsesLeftStep ==
    ASSUME IInv, NEW r \in Request, ReadRow(r) \/ Step(r)
    PROVE  UsesLeft'
<1>1. TypeOK /\ UsesLeft
  BY DEF IInv
<1>2. CASE ReadRow(r)
  <2>1. /\ req[r].pc = "idle"
        /\ \A q \in Request : req'[q].uses = req[q].uses
    BY <1>1, <1>2, ReadRowEffect, Zenon
  <2>2. \A q \in Request \ {r} : req'[q].pc = req[q].pc
    BY <1>1, <1>2, ReadRowEffect, Zenon
  <2> QED
    BY <1>1, <2>1, <2>2 DEF UsesLeft
<1>3. CASE Step(r)
  <2>1. \A q \in Request \ {r} : req'[q] = req[q]
    BY <1>1, <1>3, StepEffect
  <2>2. req'[r].pc \in {"idle", "read", "testing", "closing", "connecting"} =>
            req'[r].uses < MaxUses
    BY <1>1, <1>3, PhaseEffect DEF UsesLeft, Step, Again
  <2> QED
    BY <1>1, <2>1, <2>2 DEF UsesLeft
<1> QED
  BY <1>2, <1>3

-----------------------------------------------------------------------------
\* The row locks a step takes and gives back are its own.
LEMMA LockEffect ==
    ASSUME IInv, NEW r \in Request, ReadRow(r) \/ Step(r)
    PROVE  /\ \A i \in ConnId : rowLock[i] \notin {r, NoRequest} =>
                 rowLock'[i] = rowLock[i] /\ row'[i] = row[i]
           /\ \A i \in ConnId : row'[i] = row[i] \/ (row[i] # 0 /\ row'[i] \in {0, row[i] + 1})
<1>1. TypeOK /\ req[r].id \in ConnId /\ req[r].op \in Op
  BY DEF IInv, TypeOK, RequestRecord
<1>2. CASE ReadRow(r)
  BY <1>2 DEF ReadRow
<1>3. CASE GetConnector(r) \/ TestFails(r) \/ Connected(r) \/ RemoveBeforeDelete(r)
  BY <1>3 DEF GetConnector, TestFails, Connected, RemoveBeforeDelete
<1>4. CASE TestPasses(r) \/ UseAgain(r) \/ Disconnected(r) \/ ConnectFails(r) \/ Release(r)
  BY <1>1, <1>4
  DEF TestPasses, UseAgain, UseOrFail, LookupRaises, LookAgain, Disconnected, ConnectFails,
      Release, Fail, TypeOK
<1>5. CASE FlushUpdate(r) \/ FlushDelete(r) \/ FlushIntrospection(r)
  BY <1>1, <1>5 DEF FlushUpdate, FlushDelete, FlushIntrospection, Fail, TypeOK
<1>6. CASE Commit(r)
  <2>1. rowLock[req[r].id] = r
    BY <1>1, <1>6 DEF Commit, IInv, WriterHoldsLock, Op, Readers
  <2>2. req[r].op = "update" => row[req[r].id] # 0
    BY <1>6 DEF Commit, IInv, WriterHoldsLock
  <2> QED
    BY <1>1, <1>6, <2>1, <2>2 DEF Commit, TypeOK
<1> QED
  BY <1>2, <1>3, <1>4, <1>5, <1>6 DEF Step

\* Every step keeps writers to their locks.
LEMMA WriterHoldsLockStep ==
    ASSUME IInv, NEW r \in Request, ReadRow(r) \/ Step(r)
    PROVE  WriterHoldsLock'
<1> USE ConnectorsAssumption
<1> DEFINE
      OwnPhase(q) ==
        /\ req[q].pc \in {"testing", "connecting", "using"} => req[q].op \in Readers
        /\ req[q].pc = "between" => req[q].op = "introspect"
        /\ req[q].pc = "removed" => req[q].op = "delete"
        /\ req[q].pc = "writing" => req[q].op # "query"
        /\ req[q].op = "update" /\ req[q].pc \in {"closing", "writing"} =>
              rowLock[req[q].id] = q /\ row[req[q].id] # 0
        /\ req[q].op \in {"delete", "introspect"} /\ req[q].pc = "writing" =>
              rowLock[req[q].id] = q
<1>1. TypeOK /\ req[r].id \in ConnId /\ req[r].op \in Op
  BY DEF IInv, TypeOK, RequestRecord
<1>2. \A q \in Request : OwnPhase(q) /\ req[q].id \in ConnId
  BY DEF IInv, WriterHoldsLock, TypeOK, RequestRecord
<1>3. \A q \in Request \ {r} : /\ req'[q].pc = req[q].pc
                               /\ req'[q].op = req[q].op
                               /\ req'[q].id = req[q].id
  <2>1. CASE ReadRow(r)
    <3>1. \A q \in Request : req'[q].op = req[q].op /\ req'[q].id = req[q].id
      BY <1>1, <2>1, ReadRowEffect, Zenon
    <3>2. \A q \in Request \ {r} : req'[q].pc = req[q].pc
      BY <1>1, <2>1, ReadRowEffect, Zenon
    <3> QED
      BY <3>1, <3>2
  <2>2. CASE Step(r)
    BY <1>1, <2>2, StepEffect
  <2> QED
    BY <2>1, <2>2
<1>4. ASSUME NEW q \in Request \ {r}
      PROVE  OwnPhase(q)'
  BY <1>2, <1>3, LockEffect
<1>5. OwnPhase(r)'
  <2>1. CASE ReadRow(r)
    <3>1. req'[r].pc \in {"read", "failed"}
      BY <1>1, <2>1, ReadRowEffect
    <3> QED
      BY <3>1
  <2>2. CASE Step(r)
    <3>1. req'[r].op = req[r].op /\ req'[r].id = req[r].id
      BY <1>1, <2>2, StepEffect
    <3>2. CASE GetConnector(r) \/ TestFails(r)
      BY <1>1, <1>2, <3>1, <3>2, PhaseEffect DEF Readers
    <3>3. CASE TestPasses(r) \/ UseAgain(r) \/ Connected(r) \/ ConnectFails(r)
      BY <1>1, <1>2, <3>1, <3>3, PhaseEffect DEF Readers, Again
    <3>4. CASE Release(r)
      BY <1>1, <1>2, <3>1, <3>4, PhaseEffect
    <3>5. CASE Disconnected(r)
      <4>1. CASE req'[r].pc = "failed"
        BY <4>1
      <4>2. CASE req'[r].pc # "failed"
        <5>1. UNCHANGED <<row, rowLock>>
          BY <1>1, <3>5, <4>2, MovesEffect DEF Disconnected, LookupRaises, LookAgain
        <5> QED
          BY <1>1, <1>2, <3>1, <3>5, <4>2, <5>1, PhaseEffect DEF Readers, Again
      <4> QED
        BY <4>1, <4>2
    <3>6. CASE FlushUpdate(r)
      <4>1. CASE req'[r].pc = "failed"
        BY <4>1
      <4>2. CASE req'[r].pc # "failed"
        <5>1. /\ row[req[r].id] # 0 /\ UNCHANGED row
              /\ rowLock' = [rowLock EXCEPT ![req[r].id] = r]
          BY <1>1, <3>6, <4>2, MovesEffect DEF FlushUpdate
        <5> QED
          BY <1>1, <1>2, <3>1, <3>6, <4>2, <5>1, PhaseEffect DEF Readers, TypeOK
      <4> QED
        BY <4>1, <4>2
    <3>7. CASE RemoveBeforeDelete(r)
      BY <1>1, <3>1, <3>7, PhaseEffect DEF Readers
    <3>8. CASE FlushDelete(r)
      <4>1. rowLock'[req[r].id] = r /\ req[r].op = "delete"
        BY <1>1, <1>2, <3>8 DEF FlushDelete, TypeOK
      <4> QED
        BY <1>1, <3>1, <3>8, <4>1, PhaseEffect DEF Readers
    <3>9. CASE Commit(r)
      BY <1>1, <3>1, <3>9, PhaseEffect
    <3>10. CASE FlushIntrospection(r)
      <4>1. CASE req'[r].pc = "failed"
        BY <4>1
      <4>2. CASE req'[r].pc # "failed"
        <5>1. rowLock'[req[r].id] = r
          BY <1>1, <3>10, <4>2, MovesEffect DEF FlushIntrospection, TypeOK
        <5>2. req'[r].pc = "writing" /\ req[r].op = "introspect"
          BY <1>1, <1>2, <3>10, <4>2, PhaseEffect
        <5> QED
          BY <3>1, <5>1, <5>2
      <4> QED
        BY <4>1, <4>2
    <3> QED
      BY <2>2, <3>2, <3>3, <3>4, <3>5, <3>6, <3>7, <3>8, <3>9, <3>10 DEF Step
  <2> QED
    BY <2>1, <2>2
<1> QED
  BY <1>4, <1>5 DEF WriterHoldsLock

-----------------------------------------------------------------------------
\* Only connect() opens a pool, and a pool keeps its configuration.
LEMMA OpenedByConnect ==
    ASSUME IInv, NEW r \in Request, ReadRow(r) \/ Step(r), ~ Connected(r)
    PROVE  \A c \in Connector : /\ pool'[c].id = pool[c].id
                                /\ pool'[c].str = pool[c].str
                                /\ pool'[c].state = "open" => pool[c].state = "open"
<1>1. TypeOK /\ registry[req[r].id] \in Connector \union {NoConnector}
  BY DEF IInv, TypeOK, RequestRecord
<1>2. CASE UNCHANGED pool
  BY <1>2
<1>3. ASSUME NEW c \in Connector, NEW x \in {"closing", "closed"},
             pool' = [pool EXCEPT ![c].state = x]
      PROVE  \A d \in Connector : /\ pool'[d].id = pool[d].id
                                  /\ pool'[d].str = pool[d].str
                                  /\ pool'[d].state = "open" => pool[d].state = "open"
  BY <1>1, <1>3, PoolEffect
<1>4. ASSUME ~ UNCHANGED pool
      PROVE  \E c \in Connector : \E x \in {"closing", "closed"} :
                pool' = [pool EXCEPT ![c].state = x]
  <2>1. CASE TestFails(r) \/ Disconnected(r)
    BY <2>1 DEF TestFails, StartClosing, Disconnected, IInv, HeldIsOwn
  <2>2. CASE GetConnector(r)
    BY <1>1, <1>4, <2>2 DEF GetConnector, StartClosing
  <2>3. CASE FlushUpdate(r) \/ RemoveBeforeDelete(r)
    BY <1>1, <1>4, <2>3 DEF FlushUpdate, RemoveBeforeDelete, StartRemove, StartClosing
  <2> QED
    BY <1>4, <2>1, <2>2, <2>3
    DEF ReadRow, Step, TestPasses, ConnectFails, Release, UseAgain, FlushIntrospection,
        FlushDelete, Commit
<1> QED
  BY <1>2, <1>3, <1>4

\* Every step keeps what was read, and what pools were opened with, committed.
LEMMA ConfigStep ==
    ASSUME IInv, NEW r \in Request, ReadRow(r) \/ Step(r)
    PROVE  ReadWasCommitted' /\ OnlyCommittedConfig'
<1>1. /\ TypeOK /\ row \in [ConnId -> Nat]
      /\ \A q \in Request : /\ req[q].id \in ConnId /\ req[q].str \in Nat
                            /\ req[q].alone \in BOOLEAN
      /\ \A c \in Connector : pool[c].id \in ConnId /\ pool[c].str \in Nat
  BY DEF IInv, TypeOK, RequestRecord, PoolRecord
<1> DEFINE Committed(x, i) == x \in 1 .. row[i] \/ row[i] = 0
<1>2. \A x \in Nat, i \in ConnId : Committed(x, i) => Committed(x, i)'
  BY <1>1, LockEffect
<1>3. \A q \in Request : Active(q) => Committed(req[q].str, req[q].id)
  BY DEF IInv, ReadWasCommitted
<1>4. ReadWasCommitted'
  <2>1. CASE ReadRow(r)
    <3>1. /\ \A q \in Request \ {r} : req'[q].pc = req[q].pc /\ req'[q].str = req[q].str
          /\ \A q \in Request : req'[q].id = req[q].id
          /\ req'[r].str = row[req[r].id]
          /\ UNCHANGED row
      <4>1. \A q \in Request : req'[q].id = req[q].id
        BY <1>1, <2>1, ReadRowEffect, Zenon
      <4>2. \A q \in Request \ {r} : req'[q].pc = req[q].pc /\ req'[q].str = req[q].str
        BY <1>1, <2>1, ReadRowEffect, Zenon
      <4>3. req'[r].str = row[req[r].id]
        BY <1>1, <2>1, ReadRowEffect, Zenon
      <4> QED
        BY <2>1, <4>1, <4>2, <4>3 DEF ReadRow
    <3> QED
      BY <1>1, <1>3, <3>1 DEF ReadWasCommitted, Active
  <2>2. CASE Step(r)
    <3>1. /\ \A q \in Request \ {r} : req'[q] = req[q]
          /\ req'[r].id = req[r].id /\ req'[r].str = req[r].str
          /\ Active(r)
      BY <1>1, <2>2, StepEffect
    <3>2. \A q \in Request : /\ req'[q].id = req[q].id /\ req'[q].str = req[q].str
                             /\ Active(q)' => Active(q)
      BY <3>1 DEF Active
    <3> QED
      BY <1>1, <1>2, <1>3, <3>2 DEF ReadWasCommitted
  <2> QED
    BY <2>1, <2>2
<1>5. OnlyCommittedConfig'
  <2>1. CASE Connected(r)
    <3> DEFINE c == NewConnector
    <3>1. /\ c \in Connector /\ UNCHANGED row
          /\ pool'[c].id = req[r].id /\ pool'[c].str = req[r].str
          /\ \A d \in Connector \ {c} : pool'[d] = pool[d]
      BY <1>1, <2>1, NewConnectorUnborn DEF Connected, TypeOK
    <3>2. Committed(req[r].str, req[r].id)
      BY <1>3, <2>1 DEF Connected, Active
    <3> HIDE DEF c
    <3> QED
      BY <3>1, <3>2 DEF IInv, OnlyCommittedConfig
  <2>2. CASE ~ Connected(r)
    <3>1. \A d \in Connector : pool[d].state = "open" => Committed(pool[d].str, pool[d].id)
      BY DEF IInv, OnlyCommittedConfig
    <3> QED
      BY <1>1, <1>2, <2>2, <3>1, OpenedByConnect DEF OnlyCommittedConfig
  <2> QED
    BY <2>1, <2>2
<1> QED
  BY <1>4, <1>5

-----------------------------------------------------------------------------
\* Only connect() fills an entry.
LEMMA FilledByConnect ==
    ASSUME IInv, NEW r \in Request, ReadRow(r) \/ Step(r), NEW i \in ConnId,
           registry[i] = NoConnector, registry'[i] # NoConnector
    PROVE  Connected(r) /\ req[r].id = i
<1>1. registry \in [ConnId -> Connector \union {NoConnector}] /\ req[r].id \in ConnId
  BY DEF IInv, TypeOK, RequestRecord
<1> QED
  BY <1>1
  DEF ReadRow, Step, GetConnector, TestPasses, TestFails, Disconnected, Connected,
      ConnectFails, Release, UseAgain, FlushIntrospection, FlushUpdate,
      RemoveBeforeDelete, FlushDelete, Commit

\* Every step keeps the history variable exact.
LEMMA AloneStep ==
    ASSUME IInv, NEW r \in Request, ReadRow(r) \/ Step(r)
    PROVE  AloneMeansAlone'
<1>1. TypeOK /\ \A q \in Request : req[q].id \in ConnId /\ req[q].op \in Op
  BY DEF IInv, TypeOK, RequestRecord
<1>2. ASSUME NEW q \in Request, Active(q), req[q].alone
      PROVE  /\ \A p \in Request \ {q} : req[p].id = req[q].id => ~ Active(p)
             /\ req[q].op \notin Readers /\ req[q].pc \in {"removed", "writing"} =>
                   registry[req[q].id] = NoConnector
  BY <1>2 DEF IInv, AloneMeansAlone
<1>3. CASE ReadRow(r)
  <2>1. /\ \A q \in Request : req'[q].id = req[q].id /\ req'[q].op = req[q].op
        /\ \A q \in Request \ {r} : req'[q].pc = req[q].pc
    <3>1. \A q \in Request : req'[q].id = req[q].id /\ req'[q].op = req[q].op
      BY <1>1, <1>3, ReadRowEffect, Zenon
    <3>2. \A q \in Request \ {r} : req'[q].pc = req[q].pc
      BY <1>1, <1>3, ReadRowEffect, Zenon
    <3> QED
      BY <3>1, <3>2
  <2>2. \A q \in Request \ {r} : /\ req'[q].alone => req[q].alone
                                 /\ req[q].id = req[r].id /\ Active(q)
                                      => ~ req'[q].alone /\ ~ req'[r].alone
    BY <1>1, <1>3, ReadRowAlone
  <2>3. req'[r].pc \in {"read", "failed"} /\ UNCHANGED registry
    BY <1>1, <1>3, ReadRowEffect DEF ReadRow
  <2> SUFFICES ASSUME NEW q \in Request, Active(q)', req'[q].alone
               PROVE  /\ \A p \in Request \ {q} : req'[p].id = req'[q].id => ~ Active(p)'
                      /\ req'[q].op \notin Readers /\ req'[q].pc \in {"removed", "writing"}
                            => registry'[req'[q].id] = NoConnector
    BY DEF AloneMeansAlone
  <2>4. CASE q = r
    BY <2>1, <2>2, <2>3, <2>4 DEF Active
  <2>5. CASE q # r
    <3>1. Active(q) /\ req[q].alone /\ req[q].id # req[r].id
      BY <2>1, <2>2, <2>5 DEF Active
    <3> QED
      BY <1>2, <2>1, <2>3, <2>5, <3>1 DEF Active
  <2> QED
    BY <2>4, <2>5
<1>4. CASE Step(r)
  <2>1. /\ \A q \in Request \ {r} : req'[q] = req[q]
        /\ req'[r].id = req[r].id /\ req'[r].alone = req[r].alone
        /\ req'[r].op = req[r].op
        /\ Active(r)
    BY <1>1, <1>4, StepEffect
  <2> SUFFICES ASSUME NEW q \in Request, Active(q)', req'[q].alone
               PROVE  /\ \A p \in Request \ {q} : req'[p].id = req'[q].id => ~ Active(p)'
                      /\ req'[q].op \notin Readers /\ req'[q].pc \in {"removed", "writing"}
                            => registry'[req'[q].id] = NoConnector
    BY DEF AloneMeansAlone
  <2>2. CASE q # r
    <3>1. /\ Active(q) /\ req[q].alone
          /\ req'[q].id = req[q].id /\ req'[q].pc = req[q].pc /\ req'[q].op = req[q].op
      BY <2>1, <2>2 DEF Active
    <3>2. req[r].id # req[q].id
      BY <1>2, <2>1, <2>2, <3>1
    <3>3. \A p \in Request \ {q} : req'[p].id = req'[q].id => ~ Active(p)'
      BY <1>2, <2>1, <3>1, <3>2 DEF Active
    <3>4. req'[q].op \notin Readers /\ req'[q].pc \in {"removed", "writing"}
             => registry'[req'[q].id] = NoConnector
      BY <1>1, <1>2, <1>4, <3>1, <3>2, FilledByConnect
    <3> QED
      BY <3>3, <3>4
  <2>3. CASE q = r
    <3>1. \A p \in Request \ {r} : req'[p].id = req'[r].id => ~ Active(p)'
      BY <1>2, <2>1, <2>3 DEF Active
    <3>2. ASSUME req[r].op \notin Readers, req'[r].pc \in {"removed", "writing"}
          PROVE  registry'[req[r].id] = NoConnector
      <4>1. Disconnected(r) \/ FlushUpdate(r) \/ RemoveBeforeDelete(r) \/ FlushDelete(r)
        <5>1. ~ FlushIntrospection(r)
          BY <3>2 DEF FlushIntrospection, IInv, WriterHoldsLock, Readers
        <5> QED
          BY <1>1, <1>4, <3>2, <5>1, PhaseEffect DEF Step, Again
      <4>2. CASE Disconnected(r)
        BY <1>1, <4>2 DEF Disconnected, TypeOK
      <4>3. CASE FlushUpdate(r)
        BY <1>1, <3>2, <4>3, MovesEffect DEF FlushUpdate, StartRemove, TypeOK
      <4>4. CASE RemoveBeforeDelete(r)
        BY <1>1, <3>2, <4>4, MovesEffect DEF RemoveBeforeDelete, StartRemove, TypeOK
      <4>5. CASE FlushDelete(r)
        BY <1>1, <1>2, <2>1, <2>3, <3>2, <4>5 DEF FlushDelete
      <4> QED
        BY <4>1, <4>2, <4>3, <4>4, <4>5
    <3> QED
      BY <2>1, <2>3, <3>1, <3>2
  <2> QED
    BY <2>2, <2>3
<1> QED
  BY <1>3, <1>4

-----------------------------------------------------------------------------
\* The invariant holds initially and every step keeps it.
LEMMA IInvInductive ==
    /\ Init => IInv
    /\ IInv /\ [Next]_vars => IInv'
<1> USE ConnectorsAssumption
<1>1. ASSUME Init
      PROVE  IInv
  <2>1. /\ req \in [Request -> RequestRecord]
        /\ \A r \in Request : req[r].pc = "idle" /\ req[r].uses = 0
    <3> DEFINE Idles == [op : Op, pc : {"idle"}, id : ConnId, str : {0},
                         conn : {NoConnector}, uses : {0}, alone : {FALSE}]
    <3>1. Idles \subseteq RequestRecord /\ \A x \in Idles : x.pc = "idle" /\ x.uses = 0
      <4> SUFFICES ASSUME NEW x \in Idles
                   PROVE  x \in RequestRecord /\ x.pc = "idle" /\ x.uses = 0
        OBVIOUS
      <4>1. 0 \in Nat /\ 0 \in 0 .. MaxUses /\ "idle" \in Phase
        BY DEF Phase
      <4>2. x.pc = "idle" /\ x.uses = 0
        OBVIOUS
      <4>3. /\ x.op \in Op /\ x.id \in ConnId /\ x.str = 0
            /\ x.conn = NoConnector /\ x.alone = FALSE
        OBVIOUS
      <4>4. x \in RequestRecord
        BY <4>1, <4>2, <4>3, Zenon DEF RequestRecord
      <4> QED
        BY <4>2, <4>4
    <3>2. req \in [Request -> Idles]
      BY <1>1 DEF Init
    <3> HIDE DEF Idles
    <3> QED
      BY <3>1, <3>2
  <2>2. /\ pool \in [Connector -> PoolRecord]
        /\ \A c \in Connector : pool[c].state = "unborn"
    BY <1>1 DEF Init, PoolRecord
  <2>3. TypeOK
    BY <1>1, <2>1, <2>2 DEF Init, TypeOK
  <2> QED
    BY <1>1, <2>1, <2>2, <2>3
    DEF Init, IInv, UsesLeft, CachedIsLive, NoUseAfterClose, HeldIsOwn, WriterHoldsLock,
        ReadWasCommitted, OnlyCommittedConfig, AloneMeansAlone, Active
<1>2. ASSUME IInv, NEW r \in Request, ReadRow(r) \/ Step(r)
      PROVE  IInv'
  BY <1>2, TypeOKStep, UsesLeftStep, ReferencesStep, WriterHoldsLockStep, ConfigStep, AloneStep
  DEF IInv, References
<1>3. ASSUME IInv, UNCHANGED vars
      PROVE  IInv'
  BY <1>3
  DEF vars, IInv, TypeOK, UsesLeft, CachedIsLive, NoUseAfterClose, HeldIsOwn,
      WriterHoldsLock, ReadWasCommitted, OnlyCommittedConfig, AloneMeansAlone, Active
<1> QED
  BY <1>1, <1>2, <1>3 DEF Next, Idle

\* Type correctness, from the inductive invariant.
THEOREM TypeCorrect == Spec => []TypeOK
<1>1. IInv => TypeOK
  BY DEF IInv
<1> QED
  BY <1>1, IInvInductive, PTL DEF Spec

\* The cache never holds a connector whose disconnect() has completed.
THEOREM CacheIsLive == Spec => []CachedIsLive
<1>1. IInv => CachedIsLive
  BY DEF IInv
<1> QED
  BY <1>1, IInvInductive, PTL DEF Spec

\* disconnect() never completes under a request that uses the pool.
THEOREM NoUseAfterCloseHolds == Spec => []NoUseAfterClose
<1>1. IInv => NoUseAfterClose
  BY DEF IInv
<1> QED
  BY <1>1, IInvInductive, PTL DEF Spec

\* No pool is opened with a configuration that was not committed.
THEOREM CommittedConfig == Spec => []OnlyCommittedConfig
<1>1. IInv => OnlyCommittedConfig
  BY DEF IInv
<1> QED
  BY <1>1, IInvInductive, PTL DEF Spec

\* An update or delete without company leaves no cached connector.
THEOREM AloneInvalidation == Spec => AloneWriteInvalidates
<1>1. ASSUME IInv, [Next]_vars
      PROVE  [\A r \in Request :
                /\ req[r].op \notin Readers
                /\ req[r].pc = "writing" /\ req'[r].pc = "done" /\ req[r].alone
                => registry'[req[r].id] = NoConnector]_vars
  <2> SUFFICES ASSUME NEW r \in Request, ~ UNCHANGED vars,
                      req[r].op \notin Readers,
                      req[r].pc = "writing", req'[r].pc = "done", req[r].alone
               PROVE  registry'[req[r].id] = NoConnector
    BY Zenon
  <2>1. TypeOK /\ req[r].id \in ConnId
    BY <1>1 DEF IInv, TypeOK, RequestRecord
  <2>2. /\ Active(r)
        /\ \A q \in Request \ {r} : req[q].id = req[r].id => ~ Active(q)
        /\ registry[req[r].id] = NoConnector
    BY <1>1 DEF IInv, AloneMeansAlone, Active
  <2>3. PICK q \in Request : ReadRow(q) \/ Step(q)
    BY <1>1 DEF Next, Idle
  <2>4. ~ (Connected(q) /\ req[q].id = req[r].id)
    BY <2>2 DEF Connected, Active
  <2> QED
    BY <1>1, <2>1, <2>2, <2>3, <2>4, FilledByConnect
<1> QED
  BY <1>1, IInvInductive, PTL DEF Spec, AloneWriteInvalidates
=============================================================================
