------------------------- MODULE IntentCatalogProofs -------------------------
(***************************************************************************)
(* The catalog is whole whenever a question is compared with it, and every *)
(* entry is embedded once, for every catalog and any number of requests.   *)
(***************************************************************************)
EXTENDS IntentCatalog, TLAPS

\* The lock belongs to the one task that is between its taking and its giving
\* back.
LockHeld == \A t \in Task : at[t] \in {"loop", "asking"} <=> lock = t

\* A vector is awaited for an entry that has none, and an entry has one when
\* it has been given one.
AskedOnce ==
    /\ \A t \in Task : at[t] = "asking" => cur[t] \in Missing
    /\ \A e \in Entry : asked[e] = IF e \in embedded THEN 1 ELSE 0

\* The flag, and a request past the lock, speak for the whole catalog.
FlagTells ==
    /\ flag => Missing = {}
    /\ \A t \in Request : at[t] = "ready" => Missing = {}

IInv == TypeOK /\ LockHeld /\ AskedOnce /\ FlagTells

LEMMA InitInv == Init => IInv
<1> SUFFICES ASSUME Init PROVE IInv
  OBVIOUS
<1> USE DEF Init
<1>1. TypeOK BY DEF TypeOK, Place
<1>2. LockHeld BY IntentCatalogAssumption DEF LockHeld
<1>3. AskedOnce BY DEF AskedOnce
<1>4. FlagTells BY DEF FlagTells, Task
<1> QED BY <1>1, <1>2, <1>3, <1>4 DEF IInv

LEMMA BeginInv == ASSUME IInv, NEW t \in Task, Begin(t) PROVE IInv'
<1> USE DEF IInv, TypeOK, Begin
<1>1. TypeOK' BY DEF Place
<1>2. LockHeld' BY DEF LockHeld
<1>3. AskedOnce' BY DEF AskedOnce, Missing
<1>4. FlagTells' BY IntentCatalogAssumption DEF FlagTells, Missing, Task
<1> QED BY <1>1, <1>2, <1>3, <1>4

LEMMA EnterInv == ASSUME IInv, NEW t \in Task, Enter(t) PROVE IInv'
<1> USE DEF IInv, TypeOK, Enter
<1>1. TypeOK' BY DEF Place, Ensured
<1>2. LockHeld' BY IntentCatalogAssumption DEF LockHeld, Ensured
<1>3. AskedOnce' BY DEF AskedOnce, Missing, Ensured
<1>4. FlagTells' BY IntentCatalogAssumption DEF FlagTells, Missing, Ensured, Task
<1> QED BY <1>1, <1>2, <1>3, <1>4

LEMMA AskInv == ASSUME IInv, NEW t \in Task, Ask(t) PROVE IInv'
<1> USE DEF IInv, TypeOK, Ask
<1>1. TypeOK' BY DEF Place, Missing
<1>2. LockHeld' BY DEF LockHeld
<1>3. AskedOnce' BY DEF AskedOnce, Missing
<1>4. FlagTells' BY DEF FlagTells, Missing, Task
<1> QED BY <1>1, <1>2, <1>3, <1>4

\* No other task awaits a vector, for the lock is this one's.
LEMMA StoreInv == ASSUME IInv, NEW t \in Task, Store(t) PROVE IInv'
<1> USE DEF IInv, TypeOK, Store
<1>1. cur[t] \in Entry /\ cur[t] \notin embedded BY DEF AskedOnce, Missing
<1>2. TypeOK' BY <1>1 DEF Place
<1>3. LockHeld' BY DEF LockHeld
<1>4. AskedOnce'
  <2>1. \A o \in Task \ {t} : at[o] # "asking" BY DEF LockHeld
  <2>2. (\A o \in Task : at[o] = "asking" => cur[o] \in Missing)' BY <2>1
  <2>3. (\A e \in Entry : asked[e] = IF e \in embedded THEN 1 ELSE 0)' BY <1>1 DEF AskedOnce
  <2> QED BY <2>2, <2>3 DEF AskedOnce
<1>5. FlagTells' BY DEF FlagTells, Missing, Task
<1> QED BY <1>2, <1>3, <1>4, <1>5

LEMMA AskFailsInv == ASSUME IInv, NEW t \in Task, AskFails(t) PROVE IInv'
<1> USE DEF IInv, TypeOK, AskFails
<1>1. TypeOK' BY DEF Place
<1>2. LockHeld' BY IntentCatalogAssumption DEF LockHeld
<1>3. AskedOnce' BY DEF AskedOnce, Missing
<1>4. FlagTells' BY DEF FlagTells, Missing, Task
<1> QED BY <1>1, <1>2, <1>3, <1>4

LEMMA FinishInv == ASSUME IInv, NEW t \in Task, Finish(t) PROVE IInv'
<1> USE DEF IInv, TypeOK, Finish
<1>1. TypeOK' BY DEF Place, Ensured
<1>2. LockHeld' BY IntentCatalogAssumption DEF LockHeld, Ensured
<1>3. AskedOnce' BY DEF AskedOnce, Missing, Ensured
<1>4. FlagTells' BY DEF FlagTells, Missing, Task
<1> QED BY <1>1, <1>2, <1>3, <1>4

LEMMA ScoreInv == ASSUME IInv, NEW t \in Task, Score(t) PROVE IInv'
<1> USE DEF IInv, TypeOK, Score
<1>1. TypeOK' BY DEF Place
<1>2. LockHeld' BY DEF LockHeld
<1>3. AskedOnce' BY DEF AskedOnce, Missing
<1>4. FlagTells' BY DEF FlagTells, Missing, Task
<1> QED BY <1>1, <1>2, <1>3, <1>4

LEMMA NextInv == IInv /\ [Next]_vars => IInv'
<1> SUFFICES ASSUME IInv, [Next]_vars PROVE IInv'
  OBVIOUS
<1>1. ASSUME NEW t \in Task, Begin(t) \/ Step(t) PROVE IInv'
  BY <1>1, BeginInv, EnterInv, AskInv, StoreInv, AskFailsInv, FinishInv, ScoreInv DEF Step
<1>2. CASE UNCHANGED vars
  BY <1>2 DEF vars, IInv, TypeOK, LockHeld, AskedOnce, FlagTells, Missing
<1> QED BY <1>1, <1>2 DEF Next

LEMMA InductiveInvariant == Spec => []IInv
<1> QED BY InitInv, NextInv, PTL DEF Spec

\* The state of the catalog's embedding keeps its shape.
THEOREM TypeCorrect == Spec => []TypeOK
<1>1. IInv => TypeOK BY DEF IInv
<1> QED BY <1>1, InductiveInvariant, PTL

\* A question is compared with a whole catalog only, and no entry is embedded
\* twice, whatever fails and whoever arrives half-way.
THEOREM CatalogServesAlways == Spec => []CatalogServes
<1>1. IInv => CatalogServes
  <2> SUFFICES ASSUME IInv PROVE CatalogServes
    OBVIOUS
  <2>1. \A t \in Request : at[t] = "ready" => embedded = Entry
    BY DEF IInv, TypeOK, FlagTells, Missing, Task
  <2>2. \A e \in Entry : asked[e] <= 1
    <3> TAKE e \in Entry
    <3>1. asked[e] \in {0, 1} BY DEF IInv, AskedOnce
    <3> QED BY <3>1
  <2> QED BY <2>1, <2>2 DEF CatalogServes
<1> QED BY <1>1, InductiveInvariant, PTL
=============================================================================
