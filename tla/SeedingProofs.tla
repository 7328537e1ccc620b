---------------------------- MODULE SeedingProofs ----------------------------
(***************************************************************************)
(* What the seeding script leaves behind, for any data, any number of      *)
(* runs, imports and introspections, and any interleaving with requests    *)
(* that outlive their client.                                              *)
(***************************************************************************)
EXTENDS Seeding, FiniteSetTheorems, TLAPS

\* script is a record of these fields, imports a function to such records.
Shape ==
    /\ script = [pc |-> script.pc, mode |-> script.mode, n |-> script.n, left |-> script.left,
                 todo |-> script.todo, existing |-> script.existing, column |-> script.column,
                 failed |-> script.failed]
    /\ imports \in [Importer -> [busy : BOOLEAN, lone : BOOLEAN, old : SUBSET (1 .. MaxId)]]
    /\ script.pc # "off" => runs \in 1 .. MaxRuns

UnderWay == script.pc \in {"columns", "list", "seed"}

\* Keys are posted that the data of their kind have; before the listing all of
\* them are to do.
SeedsOnly ==
    /\ UnderWay => script.todo \subseteq seeds[Current]
    /\ script.pc \in {"columns", "list"} =>
         script.todo = seeds[Current] /\ DOMAIN script.existing = {}
    /\ \A q \in abandoned : q.op = "post" => q.key \in seeds[q.kind]

\* The column the run has read is the cached one or an older one, which no row
\* hangs on any more and none can be posted to.
PostedTo(c) == \A q \in abandoned : q.op = "post" /\ q.kind = "dictionary" => q.column <= c

NoEntries == \A r \in rows : r.kind = "dictionary" => r.key \notin seeds["dictionary"]

Columns ==
    /\ PostedTo(column)
    /\ script.pc \in {"list", "seed"} /\ Current = "dictionary" =>
         /\ script.column <= column
         /\ PostedTo(script.column)
         /\ "dictionary" \notin unsure /\ script.column < column => NoEntries

\* Of a kind listed in full, a key has one row, or one post on its way, and a
\* run that seeds the kind knows the row.
Once ==
    /\ \A r, s \in rows :
         r.kind = s.kind /\ r.key = s.key /\ r.kind \notin unsure /\ r.key \in seeds[r.kind] => r = s
    /\ \A q \in abandoned : q.op = "post" /\ q.kind \notin unsure =>
         /\ \A r \in rows : ~(r.kind = q.kind /\ r.key = q.key)
         /\ \A p \in abandoned : p.op = "post" /\ p.kind = q.kind => p = q
    /\ script.pc = "seed" /\ Current \notin unsure =>
         /\ \A q \in abandoned : ~(q.op = "post" /\ q.kind = Current)
         /\ \A r \in rows : r.kind = Current /\ r.key \in script.todo =>
              r.key \in DOMAIN script.existing /\ r.id = script.existing[r.key]

\* What an import has deleted, or will, are documents of its source_url, and
\* a lone one deletes them all.
Imports ==
    /\ \A i \in Importer : imports[i].old \subseteq 1 .. lastId
    /\ \A i \in Importer : \A r \in rows : r.id \in imports[i].old => r.key = Url
    /\ \A r \in rows : r.key = Url => r.kind = "knowledge"
    /\ \A i \in Importer : imports[i].lone =>
         /\ \A j \in Importer : j # i => ~imports[j].busy
         /\ \A r \in rows : r.key = Url => r.id \in imports[i].old

\* A purge without refusals leaves what is younger than the run, and what it
\* has not come to yet.
Purged ==
    script.mode.purge /\ swept =>
        \A r \in rows :
            \/ r.id \in fresh
            \/ script.pc = "purge" /\ \E m \in script.n .. 4 : r.kind = Order[m]
            \/ script.pc = "purging" /\ \E m \in script.n + 1 .. 4 : r.kind = Order[m]
            \/ script.pc = "purging" /\ r.kind = Current /\ r.id \in script.left

Good(k, key) ==
    \E r \in rows : /\ r.kind = k /\ r.key = key
                    /\ script.mode.overwrite \/ (script.mode.purge /\ swept) => r.id \in fresh

\* Undisturbed and without failure: the kinds before have their rows, this one
\* has those that are not to do, and a row that was listed is still there.
Promise ==
    ~script.failed /\ ~disturbed =>
        /\ UnderWay => \A m \in 1 .. script.n - 1 : \A key \in seeds[Order[m]] : Good(Order[m], key)
        /\ script.pc = "seed" => \A key \in seeds[Current] \ script.todo : Good(Current, key)
        /\ script.pc = "done" => \A m \in 1 .. 4 : \A key \in seeds[Order[m]] : Good(Order[m], key)
        /\ script.pc = "seed" =>
             \A key \in DOMAIN script.existing \intersect script.todo :
                 \E r \in rows : r.kind = Current /\ r.key = key /\ r.id = script.existing[key]

IInv == TypeOK /\ Shape /\ SeedsOnly /\ Columns /\ Once /\ Imports /\ Purged /\ Promise

-----------------------------------------------------------------------------
LEMMA OrderFacts ==
    /\ Kind = {"glossary", "metric", "dictionary", "knowledge"}
    /\ \A m \in 1 .. 4 : Order[m] \in Kind
    /\ \A m, n \in 1 .. 4 : Order[m] = Order[n] => m = n
<1>1. /\ Order[1] = "glossary" /\ Order[2] = "metric"
      /\ Order[3] = "dictionary" /\ Order[4] = "knowledge"
  BY DEF Order
<1>2. 1 .. 4 = {1, 2, 3, 4}
  OBVIOUS
<1>3. Kind = {"glossary", "metric", "dictionary", "knowledge"}
  BY <1>1, <1>2 DEF Kind
<1>4. \A m \in 1 .. 4 : Order[m] \in Kind
  BY DEF Kind
<1>5. \A m, n \in 1 .. 4 : Order[m] = Order[n] => m = n
  BY <1>1, <1>2
<1> QED BY <1>3, <1>4, <1>5

LEMMA KeyFacts ==
    /\ \A s \in SeedData : \A k \in Kind : s[k] \subseteq SeedKey
    /\ SeedKey \subseteq Key /\ Other \in Key /\ Url \in Key
    /\ Other \notin SeedKey /\ Url \notin SeedKey /\ Other # Url
  BY SeedingAssumption DEF SeedKey, Key

\* SeedFrom goes to the first kind with a row to seed, or to the end.
LEMMA SeedFromFacts ==
    ASSUME NEW s, NEW n \in 1 .. 5,
           s = [pc |-> s.pc, mode |-> s.mode, n |-> s.n, left |-> s.left, todo |-> s.todo,
                existing |-> s.existing, column |-> s.column, failed |-> s.failed]
    PROVE  LET f == SeedFrom(s, n)
           IN  /\ f = [pc |-> f.pc, mode |-> f.mode, n |-> f.n, left |-> f.left, todo |-> f.todo,
                       existing |-> f.existing, column |-> f.column, failed |-> f.failed]
               /\ f.mode = s.mode /\ f.left = s.left /\ f.column = s.column /\ f.failed = s.failed
               /\ \/ /\ f.pc = "done" /\ f.n = s.n /\ f.todo = s.todo /\ f.existing = s.existing
                     /\ \A m \in n .. 4 : seeds[Order[m]] = {}
                  \/ /\ f.n \in n .. 4 /\ f.existing = <<>> /\ f.todo = seeds[Order[f.n]]
                     /\ f.pc = IF Order[f.n] = "dictionary" THEN "columns" ELSE "list"
                     /\ \A m \in n .. f.n - 1 : seeds[Order[m]] = {}
<1> DEFINE rest == {m \in n .. 4 : seeds[Order[m]] # {}}
           next == CHOOSE m \in rest : \A o \in rest : m <= o
<1>1. CASE rest = {}
  <2>1. SeedFrom(s, n) = [pc |-> "done", mode |-> s.mode, n |-> s.n, left |-> s.left,
                          todo |-> s.todo, existing |-> s.existing, column |-> s.column,
                          failed |-> s.failed]
    BY <1>1 DEF SeedFrom
  <2>2. \A m \in n .. 4 : seeds[Order[m]] = {} BY <1>1
  <2> QED BY <2>1, <2>2
<1>2. CASE rest # {}
  <2>1. \E m \in rest : \A o \in rest : m <= o
    <3>1. rest \subseteq 1 .. 4 OBVIOUS
    <3>2. 1 \in rest \/ 2 \in rest \/ 3 \in rest \/ 4 \in rest
      <4> HIDE DEF rest
      <4> QED BY <1>2, <3>1
    <3> HIDE DEF rest
    <3> QED BY <3>1, <3>2
  <2>2. next \in rest /\ \A o \in rest : next <= o
    <3> HIDE DEF rest
    <3> QED BY <2>1
  <2>3. next \in n .. 4 /\ \A m \in n .. next - 1 : seeds[Order[m]] = {}
    <3> HIDE DEF next
    <3> QED BY <2>2
  <2>4. SeedFrom(s, n) = [s EXCEPT !.n = next, !.existing = <<>>, !.todo = seeds[Order[next]],
                                  !.pc = IF Order[next] = "dictionary" THEN "columns" ELSE "list"]
    BY <1>2 DEF SeedFrom
  <2> HIDE DEF next, rest
  <2>5. SeedFrom(s, n) = [pc |-> IF Order[next] = "dictionary" THEN "columns" ELSE "list",
                          mode |-> s.mode, n |-> next, left |-> s.left,
                          todo |-> seeds[Order[next]], existing |-> <<>>, column |-> s.column,
                          failed |-> s.failed]
    BY <2>4
  <2> QED BY <2>3, <2>5
<1> QED BY <1>1, <1>2

LEMMA InitInv == Init => IInv
<1> SUFFICES ASSUME Init PROVE IInv
  OBVIOUS
<1> USE DEF Init, NoScript, NoImport
<1>1. TypeOK
  <2>1. /\ script.pc \in Phase /\ script.mode \in Mode /\ script.n \in 1 .. 4
        /\ script.left = {} /\ script.todo = {} /\ DOMAIN script.existing = {}
        /\ script.column = 0 /\ script.failed = FALSE
    BY DEF Phase, Mode
  <2>2. \A i \in Importer : imports[i].busy = FALSE /\ imports[i].lone = FALSE /\ imports[i].old = {}
    OBVIOUS
  <2>3. \A k \in DOMAIN script.existing : k \in Key /\ script.existing[k] \in 1 .. MaxId
    BY <2>1
  <2>4. /\ lastId \in 0 .. MaxId /\ column \in 0 .. MaxColumn /\ runs \in 0 .. MaxRuns
        /\ imported \in 0 .. MaxImports /\ script.column \in 0 .. MaxColumn
    BY <2>1, SeedingAssumption
  <2>5. /\ \A q, s \in rows : q.id = s.id => q = s
        /\ Ids(rows) \subseteq 1 .. lastId
        /\ \A q \in RowsOf("dictionary") : q.column = column
    BY DEF Ids, RowsOf
  <2> QED BY <2>1, <2>2, <2>3, <2>4, <2>5 DEF TypeOK
<1>2. Shape BY DEF Shape
<1>3. SeedsOnly /\ Columns /\ Once BY DEF SeedsOnly, UnderWay, Columns, PostedTo, Once
<1>4. Imports /\ Purged /\ Promise BY DEF Imports, Purged, Promise, UnderWay
<1> QED BY <1>1, <1>2, <1>3, <1>4 DEF IInv

LEMMA UserCreatesInv == ASSUME IInv, NEW k \in Kind, UserCreates(k) PROVE IInv'
<1> USE DEF IInv
<1> DEFINE col == IF k = "dictionary" THEN column ELSE 0
           new == [id |-> lastId + 1, kind |-> k, key |-> Other, column |-> col]
<1>1. /\ lastId < MaxId /\ rows' = rows \union {new} /\ lastId' = lastId + 1
      /\ fresh' = fresh \union {lastId + 1} /\ (k = "dictionary" => column > 0)
      /\ UNCHANGED <<seeds, column, script, runs, abandoned, imports, imported, unsure, disturbed, swept>>
  BY DEF UserCreates, Insert
<1>2. TypeOK'
  <2>1. new \in Row' BY <1>1, SeedingAssumption, KeyFacts DEF TypeOK, Row
  <2> QED BY <1>1, <2>1, SeedingAssumption DEF TypeOK, RowsOf, Ids
<1>3. Shape' BY <1>1 DEF Shape
<1>4. SeedsOnly' BY <1>1 DEF SeedsOnly, UnderWay, Current
<1>5. Columns'
  <2>1. Other \notin seeds["dictionary"] BY KeyFacts, OrderFacts DEF TypeOK
  <2>2. \A r \in rows' : r \in rows \/ r.key = Other BY <1>1
  <2>3. NoEntries => NoEntries' BY <1>1, <2>1, <2>2 DEF NoEntries
  <2>4. UNCHANGED <<seeds, column, script, abandoned, unsure>> BY <1>1
  <2> QED BY <2>3, <2>4 DEF Columns, PostedTo, Current
<1>6. Once'
  <2>1. \A o \in Kind : Other \notin seeds[o] BY KeyFacts DEF TypeOK
  <2>2. \A r \in rows' : r \in rows \/ (r = new /\ r.key = Other /\ r.kind \in Kind) BY <1>1
  <2>3. \A q \in abandoned : q.op = "post" => q.key # Other
    BY <2>1 DEF SeedsOnly, TypeOK, Posts, Deletes
  <2>4. script.pc = "seed" => Other \notin script.todo
    BY <2>1, OrderFacts DEF SeedsOnly, UnderWay, Current, TypeOK
  <2>5. \A r \in rows : r.kind \in Kind BY DEF TypeOK, Row
  <2> HIDE DEF new
  <2> QED BY <1>1, <2>1, <2>2, <2>3, <2>4, <2>5 DEF Once, Current
<1>7. Imports' BY <1>1, KeyFacts DEF Imports, TypeOK
<1>8. Purged' BY <1>1 DEF Purged, Current
<1>9. Promise' BY <1>1 DEF Promise, Good, UnderWay, Current
<1> QED BY <1>2, <1>3, <1>4, <1>5, <1>6, <1>7, <1>8, <1>9

\* Rows go.  What goes in a run that does not count as disturbed, the callers
\* say; else nothing is promised any more.
LEMMA UserDeletesInv == ASSUME IInv, NEW r \in rows, UserDeletes(r) PROVE IInv'
<1> USE DEF IInv
<1>1. /\ rows' \subseteq rows /\ disturbed' = TRUE
      /\ UNCHANGED <<seeds, lastId, column, script, runs, abandoned, imports, imported, fresh, unsure, swept>>
  BY DEF UserDeletes, Remove
<1>2. TypeOK' BY <1>1 DEF TypeOK, RowsOf, Ids, Row
<1>3. Shape' BY <1>1 DEF Shape
<1>4. SeedsOnly' BY <1>1 DEF SeedsOnly, UnderWay, Current
<1>5. Columns' BY <1>1 DEF Columns, PostedTo, NoEntries, Current
<1>6. Once' BY <1>1 DEF Once, Current
<1>7. Imports' BY <1>1 DEF Imports
<1>8. Purged' BY <1>1 DEF Purged, Current
<1>9. Promise' BY <1>1 DEF Promise
<1> QED BY <1>2, <1>3, <1>4, <1>5, <1>6, <1>7, <1>8, <1>9

LEMMA IntrospectInv == ASSUME IInv, Introspect PROVE IInv'
<1> USE DEF IInv
<1>1. /\ rows' \subseteq rows /\ (\A r \in rows' : r.kind # "dictionary") /\ disturbed' = TRUE
      /\ column < MaxColumn /\ column' = column + 1
      /\ UNCHANGED <<seeds, lastId, script, runs, abandoned, imports, imported, fresh, unsure, swept>>
  BY DEF Introspect, Remove, RowsOf, Ids
<1>2. TypeOK'
  <2>1. column' \in 0 .. MaxColumn BY <1>1, SeedingAssumption DEF TypeOK
  <2> QED BY <1>1, <2>1 DEF TypeOK, RowsOf, Ids, Row
<1>3. Shape' BY <1>1 DEF Shape
<1>4. SeedsOnly' BY <1>1 DEF SeedsOnly, UnderWay, Current
<1>5. Columns'
  <2>1. column \in Nat /\ script.column \in Nat BY SeedingAssumption DEF TypeOK
  <2>2. \A q \in abandoned : q.op = "post" => q.column \in Nat
    BY SeedingAssumption DEF TypeOK, Posts, Deletes
  <2> QED BY <1>1, <2>1, <2>2 DEF Columns, PostedTo, NoEntries, Current
<1>6. Once' BY <1>1 DEF Once, Current
<1>7. Imports' BY <1>1 DEF Imports
<1>8. Purged' BY <1>1 DEF Purged, Current
<1>9. Promise' BY <1>1 DEF Promise
<1> QED BY <1>2, <1>3, <1>4, <1>5, <1>6, <1>7, <1>8, <1>9

LEMMA StartImportInv == ASSUME IInv, NEW i \in Importer, StartImport(i) PROVE IInv'
<1> USE DEF IInv
<1>1. /\ ~imports[i].busy /\ imported < MaxImports /\ imported' = imported + 1
      /\ imports' = [j \in Importer |->
             IF j = i THEN [busy |-> TRUE, old |-> Outdated,
                            lone |-> \A o \in Importer : ~imports[o].busy]
             ELSE [imports[j] EXCEPT !.lone = FALSE]]
      /\ UNCHANGED <<seeds, rows, lastId, column, script, runs, abandoned, fresh, unsure, disturbed, swept>>
  BY DEF StartImport
<1>2. /\ \A d \in Outdated : \E r \in rows : r.id = d /\ r.key = Url
      /\ \A r \in rows : r.key = Url => r.id \in Outdated
      /\ Outdated \subseteq 1 .. lastId /\ 1 .. lastId \subseteq 1 .. MaxId
  BY SeedingAssumption DEF Outdated, With, RowsOf, Ids, Imports, TypeOK
<1>3. /\ imports'[i].busy /\ imports'[i].old = Outdated
      /\ imports'[i].lone = (\A o \in Importer : ~imports[o].busy)
      /\ \A j \in Importer \ {i} : /\ imports'[j].busy = imports[j].busy
                                   /\ imports'[j].lone = FALSE
                                   /\ imports'[j].old = imports[j].old
      /\ imports' \in [Importer -> [busy : BOOLEAN, lone : BOOLEAN, old : SUBSET (1 .. MaxId)]]
  BY <1>1, <1>2 DEF Shape
<1>4. TypeOK'
  <2>1. imported' \in 0 .. MaxImports BY <1>1, SeedingAssumption DEF TypeOK
  <2>2. \A j \in Importer : /\ imports'[j].busy \in BOOLEAN /\ imports'[j].lone \in BOOLEAN
                            /\ imports'[j].old \subseteq 1 .. MaxId
    BY <1>3
  <2> QED BY <1>1, <2>1, <2>2 DEF TypeOK, RowsOf, Ids
<1>5. Shape' BY <1>1, <1>3 DEF Shape
<1>6. SeedsOnly' BY <1>1 DEF SeedsOnly, UnderWay, Current
<1>7. Columns' BY <1>1 DEF Columns, PostedTo, NoEntries, Current
<1>8. Once' BY <1>1 DEF Once, Current
<1>9. Imports'
  <2>1. \A r, s \in rows : r.id = s.id => r = s BY DEF TypeOK
  <2> QED BY <1>1, <1>2, <1>3, <2>1 DEF Imports
<1>10. Purged' BY <1>1 DEF Purged, Current
<1>11. Promise' BY <1>1 DEF Promise, Good, UnderWay, Current
<1> QED BY <1>4, <1>5, <1>6, <1>7, <1>8, <1>9, <1>10, <1>11

LEMMA CommitImportInv == ASSUME IInv, NEW i \in Importer, CommitImport(i) PROVE IInv'
<1> USE DEF IInv
<1> DEFINE new == [id |-> lastId + 1, kind |-> "knowledge", key |-> Url, column |-> 0]
<1>1. /\ imports[i].busy /\ lastId < MaxId
      /\ rows' = {r \in rows : r.id \notin imports[i].old} \union {new}
      /\ lastId' = lastId + 1 /\ fresh' = fresh \union {lastId + 1}
      /\ imports' = [imports EXCEPT ![i] = NoImport]
      /\ UNCHANGED <<seeds, column, script, runs, abandoned, imported, unsure, disturbed, swept>>
  BY DEF CommitImport
<1>2. new \in Row /\ new.key = Url /\ new.kind = "knowledge" /\ new.id = lastId + 1
  BY <1>1, SeedingAssumption, KeyFacts, OrderFacts DEF TypeOK, Row
<1> HIDE DEF new
<1>3. TypeOK'
  <2>1. imports' \in [Importer -> [busy : BOOLEAN, lone : BOOLEAN, old : SUBSET (1 .. MaxId)]]
    BY <1>1 DEF Shape, NoImport
  <2>2. \A j \in Importer : /\ imports'[j].busy \in BOOLEAN /\ imports'[j].lone \in BOOLEAN
                            /\ imports'[j].old \subseteq 1 .. MaxId
    BY <2>1
  <2>3. rows' \subseteq Row' BY <1>1, <1>2 DEF TypeOK, Row
  <2>4. lastId' \in 0 .. MaxId /\ fresh' \subseteq 1 .. lastId'
    <3>1. lastId \in 0 .. MaxId /\ lastId < MaxId /\ MaxId \in Nat /\ fresh \subseteq 1 .. lastId
      BY <1>1, SeedingAssumption DEF TypeOK
    <3>2. lastId + 1 \in 0 .. MaxId /\ 1 .. lastId \subseteq 1 .. lastId + 1
          /\ lastId + 1 \in 1 .. lastId + 1
      BY <3>1
    <3> QED BY <1>1, <3>1, <3>2
  <2>5. /\ (\A q, s \in rows : q.id = s.id => q = s)'
        /\ (Ids(rows) \subseteq 1 .. lastId)'
        /\ (\A q \in RowsOf("dictionary") : q.column = column)'
    BY <1>1, <1>2, SeedingAssumption DEF TypeOK, Ids, RowsOf
  <2> QED BY <1>1, <2>2, <2>3, <2>4, <2>5 DEF TypeOK
<1>4. Shape' BY <1>1 DEF Shape, NoImport
<1>5. SeedsOnly' BY <1>1 DEF SeedsOnly, UnderWay, Current
<1>6. Columns' BY <1>1, <1>2 DEF Columns, PostedTo, NoEntries, Current
<1>7. Once'
  <2>1. \A k \in Kind : Url \notin seeds[k] BY KeyFacts DEF TypeOK
  <2>2. new.kind \in Kind BY <1>2, OrderFacts
  <2>3. \A q \in abandoned : q.op = "post" => q.key # Url
    BY <2>1 DEF SeedsOnly, TypeOK, Posts, Deletes
  <2>4. script.pc = "seed" => Url \notin script.todo
    BY <2>1, OrderFacts DEF SeedsOnly, UnderWay, Current, TypeOK
  <2> QED BY <1>1, <1>2, <2>1, <2>2, <2>3, <2>4 DEF Once, Current
<1>8. Imports'
  <2>1. \A j \in Importer : j # i => imports'[j] = imports[j] BY <1>1 DEF Shape
  <2>2. imports'[i] = NoImport BY <1>1 DEF Shape
  <2>3. lastId \in Nat BY SeedingAssumption DEF TypeOK
  <2> QED BY <1>1, <1>2, <2>1, <2>2, <2>3 DEF Imports, NoImport
<1>9. Purged' BY <1>1, <1>2 DEF Purged, Current
<1>10. Promise'
  <2>1. \A r \in rows : r.key # Url => r \in rows' BY <1>1 DEF Imports
  <2>2. \A k \in Kind : \A key \in seeds[k] : key # Url BY KeyFacts DEF TypeOK
  <2>3. \A k \in Kind : \A key \in seeds[k] : Good(k, key) => Good(k, key)'
    BY <1>1, <2>1, <2>2 DEF Good
  <2>4. script.pc = "seed" => Url \notin script.todo
    BY <2>2, OrderFacts DEF SeedsOnly, UnderWay, Current, TypeOK
  <2>5. script.n \in 1 .. 4 BY DEF TypeOK
  <2>6. \A m \in 1 .. script.n - 1 : m \in 1 .. 4 BY <2>5
  <2> QED BY <1>1, <2>1, <2>3, <2>4, <2>5, <2>6, OrderFacts DEF Promise, UnderWay, Current
<1> QED BY <1>3, <1>4, <1>5, <1>6, <1>7, <1>8, <1>9, <1>10

LEMMA FailImportInv == ASSUME IInv, NEW i \in Importer, FailImport(i) PROVE IInv'
<1> USE DEF IInv
<1>1. /\ imports' = [imports EXCEPT ![i] = NoImport]
      /\ UNCHANGED <<seeds, rows, lastId, column, script, runs, abandoned, imported, fresh, unsure, disturbed, swept>>
  BY DEF FailImport
<1>2. /\ imports' \in [Importer -> [busy : BOOLEAN, lone : BOOLEAN, old : SUBSET (1 .. MaxId)]]
      /\ imports'[i] = NoImport /\ \A j \in Importer : j # i => imports'[j] = imports[j]
  BY <1>1 DEF Shape, NoImport
<1>3. TypeOK' BY <1>1, <1>2 DEF TypeOK, RowsOf, Ids
<1>4. Shape' BY <1>1, <1>2 DEF Shape
<1>5. SeedsOnly' BY <1>1 DEF SeedsOnly, UnderWay, Current
<1>6. Columns' BY <1>1 DEF Columns, PostedTo, NoEntries, Current
<1>7. Once' BY <1>1 DEF Once, Current
<1>8. Imports' BY <1>1, <1>2 DEF Imports, NoImport
<1>9. Purged' BY <1>1 DEF Purged, Current
<1>10. Promise' BY <1>1 DEF Promise, Good, UnderWay, Current
<1> QED BY <1>3, <1>4, <1>5, <1>6, <1>7, <1>8, <1>9, <1>10

\* A post of an earlier run arrives: its key has no row, and will not get
\* another; a deletion disturbs.
LEMMA CommitAbandonedInv == ASSUME IInv, NEW q \in abandoned, CommitAbandoned(q) PROVE IInv'
<1> USE DEF IInv
<1>1. CASE q.op = "post"
  <2> DEFINE new == [id |-> lastId + 1, kind |-> q.kind, key |-> q.key, column |-> q.column]
  <2>1. /\ lastId < MaxId /\ (q.kind = "dictionary" => q.column = column)
        /\ rows' = rows \union {new} /\ lastId' = lastId + 1 /\ fresh' = fresh \union {lastId + 1}
        /\ abandoned' = abandoned \ {q}
        /\ UNCHANGED <<seeds, column, script, runs, imports, imported, unsure, disturbed, swept>>
    BY <1>1 DEF CommitAbandoned, Insert
  <2>2. q \in Posts BY <1>1 DEF TypeOK, Deletes
  <2>3. new \in Row /\ new.kind = q.kind /\ new.key = q.key /\ new.column = q.column /\ new.id = lastId + 1
    BY <2>1, <2>2, SeedingAssumption DEF Posts, Row, TypeOK
  <2> HIDE DEF new
  <2>4. q.kind \in Kind /\ q.key \in seeds[q.kind] /\ q.key # Url
    BY <1>1, <2>2, KeyFacts DEF Posts, SeedsOnly, TypeOK
  <2>5. TypeOK'
    <3>1. rows' \subseteq Row' BY <2>1, <2>3 DEF TypeOK, Row
    <3>2. lastId' \in 0 .. MaxId /\ fresh' \subseteq 1 .. lastId'
      <4>1. lastId \in 0 .. MaxId /\ lastId < MaxId /\ MaxId \in Nat /\ fresh \subseteq 1 .. lastId
        BY <2>1, SeedingAssumption DEF TypeOK
      <4>2. lastId + 1 \in 0 .. MaxId /\ 1 .. lastId \subseteq 1 .. lastId + 1
            /\ lastId + 1 \in 1 .. lastId + 1
        BY <4>1
      <4> QED BY <2>1, <4>1, <4>2
    <3>3. /\ (\A r, s \in rows : r.id = s.id => r = s)'
          /\ (Ids(rows) \subseteq 1 .. lastId)'
          /\ (\A r \in RowsOf("dictionary") : r.column = column)'
      BY <2>1, <2>3, SeedingAssumption DEF TypeOK, Ids, RowsOf
    <3> QED BY <2>1, <3>1, <3>2, <3>3 DEF TypeOK
  <2>6. Shape' BY <2>1 DEF Shape
  <2>7. SeedsOnly' BY <2>1 DEF SeedsOnly, UnderWay, Current
  <2>8. Columns'
    <3>1. column \in Nat /\ script.column \in Nat BY SeedingAssumption DEF TypeOK
    <3>2. script.pc \in {"list", "seed"} /\ Current = "dictionary" /\ script.column < column =>
             q.kind # "dictionary"
      BY <1>1, <2>1, <3>1 DEF Columns, PostedTo
    <3>3. q.kind # "dictionary" => (NoEntries => NoEntries')
      BY <2>1, <2>3 DEF NoEntries
    <3> QED BY <2>1, <3>2, <3>3 DEF Columns, PostedTo, Current
  <2>9. Once' BY <1>1, <2>1, <2>3 DEF Once, Current
  <2>10. Imports'
    <3>1. lastId \in Nat BY SeedingAssumption DEF TypeOK
    <3> QED BY <2>1, <2>3, <2>4, <3>1 DEF Imports
  <2>11. Purged' BY <2>1, <2>3 DEF Purged, Current
  <2>12. Promise' BY <2>1 DEF Promise, Good, UnderWay, Current
  <2> QED BY <2>5, <2>6, <2>7, <2>8, <2>9, <2>10, <2>11, <2>12
<1>2. CASE q.op # "post"
  <2>1. /\ rows' \subseteq rows /\ abandoned' = abandoned \ {q} /\ disturbed' = TRUE
        /\ UNCHANGED <<seeds, lastId, column, script, runs, imports, imported, fresh, unsure, swept>>
    BY <1>2 DEF CommitAbandoned, Remove
  <2>2. TypeOK' BY <2>1 DEF TypeOK, RowsOf, Ids, Row
  <2>3. Shape' BY <2>1 DEF Shape
  <2>4. SeedsOnly' BY <2>1 DEF SeedsOnly, UnderWay, Current
  <2>5. Columns' BY <2>1 DEF Columns, PostedTo, NoEntries, Current
  <2>6. Once' BY <2>1 DEF Once, Current
  <2>7. Imports' BY <2>1 DEF Imports
  <2>8. Purged' BY <2>1 DEF Purged, Current
  <2>9. Promise' BY <2>1 DEF Promise
  <2> QED BY <2>2, <2>3, <2>4, <2>5, <2>6, <2>7, <2>8, <2>9
<1> QED BY <1>1, <1>2

LEMMA DropAbandonedInv == ASSUME IInv, NEW q \in abandoned, DropAbandoned(q) PROVE IInv'
<1> USE DEF IInv
<1>1. /\ abandoned' = abandoned \ {q}
      /\ UNCHANGED <<seeds, rows, lastId, column, script, runs, imports, imported, fresh, unsure, disturbed, swept>>
  BY DEF DropAbandoned
<1>2. TypeOK' BY <1>1 DEF TypeOK, RowsOf, Ids
<1>3. Shape' BY <1>1 DEF Shape
<1>4. SeedsOnly' BY <1>1 DEF SeedsOnly, UnderWay, Current
<1>5. Columns' BY <1>1 DEF Columns, PostedTo, NoEntries, Current
<1>6. Once' BY <1>1 DEF Once, Current
<1>7. Imports' BY <1>1 DEF Imports
<1>8. Purged' BY <1>1 DEF Purged, Current
<1>9. Promise' BY <1>1 DEF Promise, Good, UnderWay, Current
<1> QED BY <1>2, <1>3, <1>4, <1>5, <1>6, <1>7, <1>8, <1>9

-----------------------------------------------------------------------------
\* The script ends in a request, which the server may still have.
LEMMA NoScriptInv ==
    ASSUME IInv, script' = NoScript,
           UNCHANGED <<seeds, rows, lastId, column, runs, imports, imported, fresh, unsure, disturbed, swept>>,
           abandoned' \subseteq Posts \union Deletes,
           \A q \in abandoned' \ abandoned : q.op = "post" =>
              /\ q.key \in seeds[q.kind]
              /\ q.kind = "dictionary" => q.column <= column
              /\ q.kind \notin unsure =>
                   /\ \A r \in rows : ~(r.kind = q.kind /\ r.key = q.key)
                   /\ \A p \in abandoned' : p.op = "post" /\ p.kind = q.kind => p = q
    PROVE  IInv'
<1> USE DEF IInv
<1>1. /\ script'.pc = "off" /\ script'.mode = [purge |-> FALSE, overwrite |-> FALSE]
      /\ script'.n = 1 /\ script'.left = {} /\ script'.todo = {}
      /\ script'.existing = <<>> /\ script'.column = 0 /\ script'.failed = FALSE
  BY DEF NoScript
<1>2. TypeOK'
  <2>1. /\ script'.pc \in Phase /\ script'.mode \in Mode /\ script'.n \in 1 .. 4
        /\ DOMAIN script'.existing = {} /\ script'.column \in 0 .. MaxColumn
    BY <1>1, SeedingAssumption DEF Phase, Mode
  <2> QED BY <1>1, <2>1 DEF TypeOK, RowsOf, Ids
<1>3. Shape'
  <2>1. script' = [pc |-> script'.pc, mode |-> script'.mode, n |-> script'.n, left |-> script'.left,
                   todo |-> script'.todo, existing |-> script'.existing, column |-> script'.column,
                   failed |-> script'.failed]
    BY DEF NoScript
  <2> QED BY <1>1, <2>1 DEF Shape
<1>4. SeedsOnly' BY <1>1 DEF SeedsOnly, UnderWay
<1>5. Columns' BY <1>1 DEF Columns, PostedTo
<1>6. Once' BY <1>1 DEF Once
<1>7. Imports' BY DEF Imports
<1>8. Purged' BY <1>1 DEF Purged
<1>9. Promise' BY <1>1 DEF Promise, UnderWay
<1> QED BY <1>2, <1>3, <1>4, <1>5, <1>6, <1>7, <1>8, <1>9

LEMMA DieInv == ASSUME IInv, Die PROVE IInv'
<1>1. /\ script' = NoScript
      /\ UNCHANGED <<seeds, rows, lastId, column, runs, imports, imported, fresh, unsure, disturbed, swept>>
      /\ abandoned' = abandoned
  BY DEF Die, ServerIdle
<1>2. abandoned \subseteq Posts \union Deletes BY DEF IInv, TypeOK
<1> QED BY <1>1, <1>2, NoScriptInv

\* The type of the script's record.
ScriptOK(s) ==
    /\ s = [pc |-> s.pc, mode |-> s.mode, n |-> s.n, left |-> s.left, todo |-> s.todo,
            existing |-> s.existing, column |-> s.column, failed |-> s.failed]
    /\ s.pc \in Phase /\ s.mode \in Mode /\ s.n \in 1 .. 4
    /\ s.left \subseteq 1 .. MaxId /\ s.todo \subseteq Key
    /\ \A k \in DOMAIN s.existing : k \in Key /\ s.existing[k] \in 1 .. MaxId
    /\ s.column \in 0 .. MaxColumn /\ s.failed \in BOOLEAN

LEMMA ScriptIsOK == IInv => ScriptOK(script)
  BY DEF IInv, TypeOK, Shape, ScriptOK

\* A step of the script that only reads keeps what is not about the script.
LEMMA ReadOK ==
    ASSUME IInv, ServerIdle, UNCHANGED seeds, ScriptOK(script'),
           runs' \in 1 .. MaxRuns, unsure' \subseteq Kind, swept' \in BOOLEAN
    PROVE  TypeOK' /\ Shape' /\ Imports'
<1> USE DEF IInv, ServerIdle
<1>1. runs' \in 0 .. MaxRuns BY SeedingAssumption
<1>2. TypeOK' BY <1>1 DEF TypeOK, ScriptOK, RowsOf, Ids
<1>3. Shape' BY DEF Shape, ScriptOK
<1>4. Imports' BY DEF Imports
<1> QED BY <1>2, <1>3, <1>4

LEMMA SeedKeysOK ==
    ASSUME IInv, NEW n \in 1 .. 4
    PROVE  Order[n] \in Kind /\ seeds[Order[n]] \subseteq Key /\ seeds[Order[n]] \subseteq SeedKey
  BY KeyFacts, OrderFacts DEF IInv, TypeOK

\* Where seeding goes on from kind n: SeedFrom keeps the script's type.
LEMMA SeedFromOK ==
    ASSUME IInv, NEW s, ScriptOK(s), NEW n \in 1 .. 5
    PROVE  ScriptOK(SeedFrom(s, n))
<1> DEFINE f == SeedFrom(s, n)
<1>0. s = [pc |-> s.pc, mode |-> s.mode, n |-> s.n, left |-> s.left, todo |-> s.todo,
           existing |-> s.existing, column |-> s.column, failed |-> s.failed]
  BY DEF ScriptOK
<1>1. /\ f = [pc |-> f.pc, mode |-> f.mode, n |-> f.n, left |-> f.left, todo |-> f.todo,
              existing |-> f.existing, column |-> f.column, failed |-> f.failed]
      /\ f.mode = s.mode /\ f.left = s.left /\ f.column = s.column /\ f.failed = s.failed
      /\ \/ f.pc = "done" /\ f.n = s.n /\ f.todo = s.todo /\ f.existing = s.existing
         \/ /\ f.n \in n .. 4 /\ f.existing = <<>> /\ f.todo = seeds[Order[f.n]]
            /\ f.pc \in {"columns", "list"}
  BY <1>0, SeedFromFacts
<1> HIDE DEF f
<1>3. ASSUME f.pc = "done" /\ f.n = s.n /\ f.todo = s.todo /\ f.existing = s.existing
      PROVE  ScriptOK(f)
  BY <1>1, <1>3 DEF ScriptOK, Phase
<1>4. ASSUME f.n \in n .. 4 /\ f.existing = <<>> /\ f.todo = seeds[Order[f.n]],
             f.pc \in {"columns", "list"}
      PROVE  ScriptOK(f)
  <2>1. f.n \in 1 .. 4 BY <1>4
  <2>2. f.todo \subseteq Key BY <1>4, <2>1, SeedKeysOK
  <2>3. DOMAIN f.existing = {} BY <1>4
  <2> QED BY <1>1, <1>4, <2>1, <2>2, <2>3 DEF ScriptOK, Phase
<1> QED BY <1>1, <1>3, <1>4 DEF f

\* Seeding goes on from kind n, the kinds before it have their rows, and what
\* is older than the run is gone if the purge met no refusal.
LEMMA SeedFromInv ==
    ASSUME IInv, ServerIdle, NEW s, ScriptOK(s), NEW n \in 1 .. 5,
           script' = SeedFrom(s, n),
           seeds' = seeds, runs' \in 1 .. MaxRuns, unsure' = unsure, swept' \in BOOLEAN,
           s.mode.purge /\ swept' => Ids(rows) \subseteq fresh,
           ~s.failed /\ ~disturbed =>
              \A m \in 1 .. n - 1 : \A key \in seeds[Order[m]] :
                 \E r \in rows : /\ r.kind = Order[m] /\ r.key = key
                                 /\ s.mode.overwrite \/ (s.mode.purge /\ swept') => r.id \in fresh
    PROVE  IInv'
<1> USE DEF IInv
<1>1. TypeOK' /\ Shape' /\ Imports'
  BY ReadOK, SeedFromOK DEF TypeOK
<1> DEFINE f == SeedFrom(s, n)
<1>0. s = [pc |-> s.pc, mode |-> s.mode, n |-> s.n, left |-> s.left, todo |-> s.todo,
           existing |-> s.existing, column |-> s.column, failed |-> s.failed]
  BY DEF ScriptOK
<1>2. /\ f.mode = s.mode /\ f.left = s.left /\ f.column = s.column /\ f.failed = s.failed
      /\ \/ /\ f.pc = "done" /\ f.n = s.n /\ f.todo = s.todo /\ f.existing = s.existing
            /\ \A m \in n .. 4 : seeds[Order[m]] = {}
         \/ /\ f.n \in n .. 4 /\ f.existing = <<>> /\ f.todo = seeds[Order[f.n]]
            /\ f.pc = IF Order[f.n] = "dictionary" THEN "columns" ELSE "list"
            /\ \A m \in n .. f.n - 1 : seeds[Order[m]] = {}
  BY <1>0, SeedFromFacts
<1>3. script' = f OBVIOUS
<1> HIDE DEF f
<1>4. f.mode = s.mode /\ f.failed = s.failed /\ f.pc \notin {"seed", "purge", "purging"}
  BY <1>2
<1>5. SeedsOnly'
  BY <1>2, <1>3 DEF ServerIdle, SeedsOnly, UnderWay, Current
<1>6. Columns'
  <2>1. ~(f.pc \in {"list", "seed"} /\ Order[f.n] = "dictionary") BY <1>2
  <2> QED BY <2>1, <1>3 DEF ServerIdle, Columns, PostedTo, Current
<1>7. Once' BY <1>3, <1>4 DEF ServerIdle, Once
<1>8. Purged' BY <1>3, <1>4 DEF ServerIdle, Purged, Ids
<1>9. Promise'
  <2> SUFFICES ASSUME ~s.failed, ~disturbed PROVE Promise'
    BY <1>3, <1>4 DEF ServerIdle, Promise
  <2>1. \A k, key : Good(k, key)' <=>
           \E r \in rows : /\ r.kind = k /\ r.key = key
                           /\ s.mode.overwrite \/ (s.mode.purge /\ swept') => r.id \in fresh
    BY <1>3, <1>4 DEF ServerIdle, Good
  <2>2. \A m \in 1 .. n - 1 : \A key \in seeds[Order[m]] : Good(Order[m], key)'
    BY <2>1
  <2>3. CASE f.pc = "done" /\ \A m \in n .. 4 : seeds[Order[m]] = {}
    <3>1. \A m \in 1 .. 4 : m \in 1 .. n - 1 \/ m \in n .. 4 OBVIOUS
    <3>2. \A m \in 1 .. 4 : \A key \in seeds[Order[m]] : Good(Order[m], key)'
      BY <2>2, <2>3, <3>1
    <3> QED BY <2>3, <3>2, <1>3, <1>4 DEF ServerIdle, Promise, UnderWay
  <2>4. CASE f.pc # "done" /\ f.n \in n .. 4 /\ \A m \in n .. f.n - 1 : seeds[Order[m]] = {}
    <3>1. \A m \in 1 .. f.n - 1 : m \in 1 .. n - 1 \/ m \in n .. f.n - 1 BY <2>4
    <3>2. \A m \in 1 .. f.n - 1 : \A key \in seeds[Order[m]] : Good(Order[m], key)'
      BY <2>2, <2>4, <3>1
    <3> QED BY <2>4, <3>2, <1>3, <1>4 DEF ServerIdle, Promise, UnderWay
  <2> QED BY <1>2, <2>3, <2>4
<1> QED BY <1>1, <1>5, <1>6, <1>7, <1>8, <1>9

LEMMA PurgeListsInv == ASSUME IInv, PurgeLists PROVE IInv'
<1> USE DEF IInv
<1>1. /\ script.pc = "purge" /\ ServerIdle /\ UNCHANGED <<seeds, runs, unsure, swept>>
      /\ script' = [script EXCEPT !.pc = "purging", !.left = Ids(RowsOf(Current))]
  BY DEF PurgeLists
<1>2. script' = [pc |-> "purging", mode |-> script.mode, n |-> script.n,
                 left |-> Ids(RowsOf(Current)), todo |-> script.todo,
                 existing |-> script.existing, column |-> script.column, failed |-> script.failed]
  BY <1>1 DEF Shape
<1>3. Ids(RowsOf(Current)) \subseteq 1 .. MaxId BY DEF TypeOK, Row, Ids, RowsOf
<1>4. ScriptOK(script') BY <1>2, <1>3, ScriptIsOK DEF ScriptOK, Phase
<1>5. TypeOK' /\ Shape' /\ Imports' BY <1>1, <1>4, ReadOK DEF TypeOK, Shape
<1>6. SeedsOnly' /\ Columns' /\ Once'
  BY <1>1, <1>2 DEF ServerIdle, SeedsOnly, UnderWay, Columns, PostedTo, Once
<1>7. Purged'
  <2>1. \A r \in rows : r.kind = Order[script.n] => r.id \in Ids(RowsOf(Current))
    BY DEF Ids, RowsOf, Current
  <2>2. script.n \in 1 .. 4 BY DEF TypeOK
  <2>3. \A i \in script.n .. 4 : i = script.n \/ i \in script.n + 1 .. 4 BY <2>2
  <2> QED BY <1>1, <1>2, <2>1, <2>3 DEF ServerIdle, Purged, Current
<1>8. Promise' BY <1>1, <1>2 DEF ServerIdle, Promise, UnderWay
<1> QED BY <1>5, <1>6, <1>7, <1>8

\* A run begins, and is answerable for what happens from now on.
LEMMA LaunchInv == ASSUME IInv, NEW m \in Mode, Launch(m) PROVE IInv'
<1> USE DEF IInv
<1> DEFINE s == [NoScript EXCEPT !.mode = m]
<1>1. /\ runs < MaxRuns /\ runs' = runs + 1
      /\ script' = IF m.purge THEN [NoScript EXCEPT !.mode = m, !.pc = "purge"] ELSE SeedFrom(s, 1)
      /\ fresh' = {} /\ disturbed' = FALSE /\ swept' = TRUE
      /\ UNCHANGED <<seeds, rows, lastId, column, abandoned, imports, imported, unsure>>
  BY DEF Launch
<1> DEFINE p(pc) == [pc |-> pc, mode |-> m, n |-> 1, left |-> {}, todo |-> {}, existing |-> <<>>,
                     column |-> 0, failed |-> FALSE]
<1>0. /\ NoScript = [pc |-> NoScript.pc, mode |-> NoScript.mode, n |-> NoScript.n,
                      left |-> NoScript.left, todo |-> NoScript.todo,
                      existing |-> NoScript.existing, column |-> NoScript.column,
                      failed |-> NoScript.failed]
      /\ NoScript.pc = "off" /\ NoScript.n = 1 /\ NoScript.left = {} /\ NoScript.todo = {}
      /\ NoScript.existing = <<>> /\ NoScript.column = 0 /\ NoScript.failed = FALSE
  BY DEF NoScript
<1>2. s = p("off")
  <2>1. ASSUME NEW z, z = [NoScript EXCEPT !.mode = m] PROVE z = p("off")
    BY <1>0, <2>1
  <2> QED BY <2>1
<1>3. \A pc \in Phase : ScriptOK(p(pc))
  <2> TAKE pc \in Phase
  <2>1. DOMAIN p(pc).existing = {} OBVIOUS
  <2> QED BY <2>1, SeedingAssumption DEF ScriptOK
<1>4. [NoScript EXCEPT !.mode = m, !.pc = "purge"] = p("purge")
  <2>1. ASSUME NEW z, z = [NoScript EXCEPT !.mode = m, !.pc = "purge"] PROVE z = p("purge")
    BY <1>0, <2>1
  <2> QED BY <2>1
<1>5. ScriptOK(s) /\ ScriptOK([NoScript EXCEPT !.mode = m, !.pc = "purge"])
  BY <1>2, <1>3, <1>4 DEF Phase
<1>6. ScriptOK(script')
  BY <1>1, <1>5, SeedFromOK
<1>7. /\ script'.mode = m
      /\ \/ m.purge /\ script'.pc = "purge" /\ script'.n = 1
         \/ /\ ~m.purge /\ script'.pc = "done"
            /\ \A i \in 1 .. 4 : seeds[Order[i]] = {}
         \/ /\ ~m.purge /\ script'.n \in 1 .. 4 /\ script'.todo = seeds[Order[script'.n]]
            /\ DOMAIN script'.existing = {}
            /\ script'.pc = IF Order[script'.n] = "dictionary" THEN "columns" ELSE "list"
            /\ \A i \in 1 .. script'.n - 1 : seeds[Order[i]] = {}
  <2>1. CASE m.purge BY <2>1, <1>1, <1>4
  <2>2. CASE ~m.purge
    <3>1. s = [pc |-> s.pc, mode |-> s.mode, n |-> s.n, left |-> s.left, todo |-> s.todo,
               existing |-> s.existing, column |-> s.column, failed |-> s.failed] /\ s.mode = m
      BY <1>2
    <3>2. script' = SeedFrom(s, 1) BY <1>1, <2>2
    <3> HIDE DEF s
    <3>3. DOMAIN <<>> = {} OBVIOUS
    <3> DEFINE f == SeedFrom(s, 1)
    <3>4. /\ f.mode = s.mode
          /\ \/ f.pc = "done" /\ \A i \in 1 .. 4 : seeds[Order[i]] = {}
             \/ /\ f.n \in 1 .. 4 /\ f.existing = <<>> /\ f.todo = seeds[Order[f.n]]
                /\ f.pc = IF Order[f.n] = "dictionary" THEN "columns" ELSE "list"
                /\ \A i \in 1 .. f.n - 1 : seeds[Order[i]] = {}
      BY <3>1, SeedFromFacts
    <3>5. script' = f BY <3>2
    <3> HIDE DEF f
    <3> QED BY <2>2, <3>1, <3>3, <3>4, <3>5
  <2> QED BY <2>1, <2>2
<1>8. TypeOK'
  <2>1. runs' \in 0 .. MaxRuns BY <1>1, SeedingAssumption DEF TypeOK
  <2> QED BY <1>1, <1>6, <2>1 DEF TypeOK, ScriptOK, RowsOf, Ids
<1>9. Shape'
  <2>1. runs' \in 1 .. MaxRuns BY <1>1, SeedingAssumption DEF TypeOK
  <2> QED BY <1>1, <1>6, <2>1 DEF Shape, ScriptOK
<1> HIDE DEF s
<1>10. SeedsOnly' BY <1>1, <1>7 DEF SeedsOnly, UnderWay, Current
<1>11. Columns'
  <2>1. ~(script'.pc \in {"list", "seed"} /\ Order[script'.n] = "dictionary") BY <1>7
  <2> QED BY <1>1, <2>1 DEF Columns, PostedTo, Current
<1>12. Once'
  <2>1. script'.pc # "seed" BY <1>7
  <2> QED BY <1>1, <2>1 DEF Once
<1>13. Imports' BY <1>1 DEF Imports
<1>14. Purged'
  <2> SUFFICES ASSUME m.purge, NEW r \in rows
               PROVE  \E i \in 1 .. 4 : r.kind = Order[i]
    BY <1>1, <1>7 DEF Purged
  <2> QED BY DEF TypeOK, Row, Kind
<1>15. Promise'
  <2>1. CASE m.purge BY <2>1, <1>7 DEF Promise, UnderWay
  <2>2. CASE ~m.purge BY <2>2, <1>1, <1>7 DEF Promise, UnderWay
  <2> QED BY <2>1, <2>2
<1> QED BY <1>8, <1>9, <1>10, <1>11, <1>12, <1>13, <1>14, <1>15

\* The purge goes on with the next kind, when this one is done with.
LEMMA PurgeOnInv ==
    ASSUME IInv, ServerIdle, script.pc \in {"purge", "purging"}, script' = PurgeOn(script),
           UNCHANGED <<seeds, runs, unsure>>, swept' \in BOOLEAN, swept' => swept,
           script.mode.purge /\ swept' =>
              \A r \in rows : r.id \in fresh \/ \E m \in script.n + 1 .. 4 : r.kind = Order[m]
    PROVE  IInv'
<1> USE DEF IInv
<1>1. runs \in 1 .. MaxRuns BY DEF Shape
<1>2. CASE script.n < 4
  <2>1. script' = [pc |-> "purge", mode |-> script.mode, n |-> script.n + 1, left |-> {},
                   todo |-> script.todo, existing |-> script.existing,
                   column |-> script.column, failed |-> script.failed]
    BY <1>2 DEF PurgeOn, Shape
  <2>2. script.n + 1 \in 1 .. 4 BY <1>2 DEF TypeOK
  <2>3. ScriptOK(script') BY <2>1, <2>2, ScriptIsOK DEF ScriptOK, Phase
  <2>4. TypeOK' /\ Shape' /\ Imports' BY <1>1, <2>3, ReadOK DEF TypeOK
  <2>5. SeedsOnly' /\ Columns' /\ Once'
    BY <2>1 DEF ServerIdle, SeedsOnly, UnderWay, Columns, PostedTo, Once
  <2>6. Purged' BY <2>1 DEF ServerIdle, Purged
  <2>7. Promise' BY <2>1 DEF ServerIdle, Promise, UnderWay
  <2> QED BY <2>4, <2>5, <2>6, <2>7
<1>3. CASE ~(script.n < 4)
  <2> DEFINE s == [script EXCEPT !.left = {}]
  <2>1. script.n = 4 BY <1>3 DEF TypeOK
  <2>2. script' = SeedFrom(s, 1) BY <1>3 DEF PurgeOn
  <2>3. s = [pc |-> script.pc, mode |-> script.mode, n |-> script.n, left |-> {},
             todo |-> script.todo, existing |-> script.existing,
             column |-> script.column, failed |-> script.failed]
    BY DEF Shape
  <2>4. ScriptOK(s) BY <2>3, ScriptIsOK DEF ScriptOK
  <2>5. s.mode = script.mode BY <2>3
  <2> HIDE DEF s
  <2>6. s.mode.purge /\ swept' => Ids(rows) \subseteq fresh BY <2>1, <2>5 DEF Ids
  <2> QED BY <1>1, <2>2, <2>4, <2>6, SeedFromInv
<1> QED BY <1>2, <1>3

LEMMA PurgeSkipsInv == ASSUME IInv, PurgeSkips PROVE IInv'
  BY PurgeOnInv DEF PurgeSkips

LEMMA PurgedKindInv == ASSUME IInv, PurgedKind PROVE IInv'
<1> USE DEF IInv
<1>1. /\ script.pc = "purging" /\ script.left = {} /\ script' = PurgeOn(script)
      /\ ServerIdle /\ UNCHANGED <<seeds, runs, unsure, swept>>
  BY DEF PurgedKind
<1>2. script.mode.purge /\ swept =>
         \A r \in rows : r.id \in fresh \/ \E m \in script.n + 1 .. 4 : r.kind = Order[m]
  BY <1>1 DEF Purged
<1> QED BY <1>1, <1>2, PurgeOnInv DEF TypeOK

LEMMA PurgeDeletesInv == ASSUME IInv, NEW id \in script.left, PurgeDeletes(id) PROVE IInv'
<1> USE DEF IInv
<1> DEFINE s == [script EXCEPT !.left = @ \ {id}]
<1>1. script.pc = "purging" /\ UNCHANGED <<seeds, runs, unsure>>
  BY DEF PurgeDeletes
<1>2. s = [pc |-> script.pc, mode |-> script.mode, n |-> script.n, left |-> script.left \ {id},
           todo |-> script.todo, existing |-> script.existing,
           column |-> script.column, failed |-> script.failed]
  BY DEF Shape
<1>3. ScriptOK(s) BY <1>2, ScriptIsOK DEF ScriptOK
<1> HIDE DEF s
<1>4. CASE /\ rows' = {r \in rows : r.id # id} /\ script' = s
           /\ UNCHANGED <<lastId, column, abandoned, imports, imported, fresh, disturbed, swept>>
  <2> USE <1>1, <1>4
  <2>1. TypeOK' BY <1>3 DEF TypeOK, ScriptOK, RowsOf, Ids, Row
  <2>2. Shape' BY <1>2, <1>3 DEF Shape, ScriptOK
  <2>3. SeedsOnly' BY <1>2 DEF SeedsOnly, UnderWay
  <2>4. Columns' BY <1>2 DEF Columns, PostedTo
  <2>5. Once' BY <1>2 DEF Once
  <2>6. Imports' BY DEF Imports
  <2>7. Purged' BY <1>2 DEF Purged, Current
  <2>8. Promise' BY <1>2 DEF Promise, UnderWay
  <2> QED BY <2>1, <2>2, <2>3, <2>4, <2>5, <2>6, <2>7, <2>8
<1>5. CASE script' = s /\ swept' = FALSE /\ ServerIdle
  <2>1. TypeOK' /\ Shape' /\ Imports' BY <1>1, <1>3, <1>5, ReadOK DEF TypeOK, Shape
  <2>2. SeedsOnly' /\ Columns' /\ Once' /\ Purged' /\ Promise'
    BY <1>1, <1>2, <1>5 DEF ServerIdle, SeedsOnly, UnderWay, Columns, PostedTo, Once, Purged, Promise
  <2> QED BY <2>1, <2>2
<1>6. CASE DieOn([op |-> "delete", run |-> runs, id |-> id])
  <2>1. runs \in 1 .. MaxRuns /\ id \in 1 .. MaxId BY <1>1 DEF Shape, TypeOK
  <2>2. [op |-> "delete", run |-> runs, id |-> id] \in Deletes BY <2>1 DEF Deletes
  <2> QED BY <1>6, <2>2, NoScriptInv DEF DieOn, TypeOK
<1> QED BY <1>4, <1>5, <1>6 DEF PurgeDeletes, Remove, s

LEMMA SeededKindInv == ASSUME IInv, SeededKind PROVE IInv'
<1> USE DEF IInv
<1>1. /\ script.pc = "seed" /\ script.todo = {} /\ script' = SeedFrom(script, script.n + 1)
      /\ ServerIdle /\ UNCHANGED <<seeds, runs, unsure, swept>>
  BY DEF SeededKind
<1>2. script.n + 1 \in 1 .. 5 /\ runs \in 1 .. MaxRuns /\ swept \in BOOLEAN /\ (script.n + 1) - 1 = script.n
      /\ ScriptOK(script)
  BY <1>1, ScriptIsOK DEF TypeOK, Shape
<1>3. script.mode.purge /\ swept => Ids(rows) \subseteq fresh
  BY <1>1 DEF Purged, Ids
<1>4. ~script.failed /\ ~disturbed =>
         \A m \in 1 .. script.n : \A key \in seeds[Order[m]] : Good(Order[m], key)
  <2>1. \A m \in 1 .. script.n : m \in 1 .. script.n - 1 \/ m = script.n BY DEF TypeOK
  <2> QED BY <1>1, <2>1 DEF Promise, UnderWay, Current
<1> QED BY <1>1, <1>2, <1>3, <1>4, SeedFromInv DEF Good

LEMMA ReadColumnsInv == ASSUME IInv, ReadColumns PROVE IInv'
<1> USE DEF IInv
<1>1. /\ script.pc = "columns" /\ ServerIdle /\ UNCHANGED <<seeds, runs, unsure, swept>>
      /\ script' = IF column = 0 THEN SeedFrom([script EXCEPT !.failed = TRUE], script.n + 1)
                   ELSE [script EXCEPT !.column = column, !.pc = "list"]
  BY DEF ReadColumns
<1>2. runs \in 1 .. MaxRuns BY <1>1 DEF Shape
<1>3. CASE column = 0
  <2> DEFINE s == [script EXCEPT !.failed = TRUE]
  <2>1. s = [pc |-> script.pc, mode |-> script.mode, n |-> script.n, left |-> script.left,
             todo |-> script.todo, existing |-> script.existing,
             column |-> script.column, failed |-> TRUE]
    <3>1. ASSUME NEW z, z = [script EXCEPT !.failed = TRUE]
          PROVE  z = [pc |-> script.pc, mode |-> script.mode, n |-> script.n, left |-> script.left,
                      todo |-> script.todo, existing |-> script.existing,
                      column |-> script.column, failed |-> TRUE]
      BY <3>1 DEF Shape
    <3> QED BY <3>1
  <2>2. ScriptOK(s) /\ s.mode = script.mode /\ s.failed = TRUE BY <2>1, ScriptIsOK DEF ScriptOK
  <2>3. script' = SeedFrom(s, script.n + 1) BY <1>1, <1>3
  <2>4. script.n + 1 \in 1 .. 5 BY DEF TypeOK
  <2> HIDE DEF s
  <2>5. s.mode.purge /\ swept' => Ids(rows) \subseteq fresh BY <1>1, <2>2 DEF Purged, Ids
  <2> QED BY <1>1, <1>2, <2>2, <2>3, <2>4, <2>5, SeedFromInv DEF TypeOK
<1>4. CASE column # 0
  <2>1. script' = [pc |-> "list", mode |-> script.mode, n |-> script.n, left |-> script.left,
                   todo |-> script.todo, existing |-> script.existing,
                   column |-> column, failed |-> script.failed]
    BY <1>1, <1>4 DEF Shape
  <2>2. ScriptOK(script') BY <2>1, ScriptIsOK DEF ScriptOK, Phase, TypeOK
  <2>3. TypeOK' /\ Shape' /\ Imports' BY <1>1, <1>2, <2>2, ReadOK DEF TypeOK
  <2>4. /\ script'.pc = "list" /\ script'.mode = script.mode /\ script'.n = script.n
        /\ script'.todo = script.todo /\ script'.existing = script.existing
        /\ script'.column = column /\ script'.failed = script.failed
        /\ Current' = Current /\ UnderWay /\ UnderWay'
    BY <1>1, <2>1 DEF Current, UnderWay
  <2>5. SeedsOnly' /\ Columns'
    <3>1. SeedsOnly' BY <1>1, <2>4 DEF ServerIdle, SeedsOnly
    <3>2. column <= column BY SeedingAssumption DEF TypeOK
    <3>3. ~(column < column) BY SeedingAssumption DEF TypeOK
    <3>4. Columns' BY <1>1, <2>4, <3>2, <3>3 DEF ServerIdle, Columns, PostedTo
    <3> QED BY <3>1, <3>4
  <2>6. Once' BY <1>1, <2>1 DEF ServerIdle, Once
  <2>7. Purged' BY <1>1, <2>1 DEF ServerIdle, Purged
  <2>8. Promise'
    <3>1. \A k, key : Good(k, key)' <=> Good(k, key) BY <1>1, <2>4 DEF ServerIdle, Good
    <3>2. script'.pc # "seed" /\ script'.pc # "done" BY <2>4
    <3> QED BY <1>1, <2>4, <3>1, <3>2 DEF ServerIdle, Promise
  <2> QED BY <2>3, <2>5, <2>6, <2>7, <2>8
<1> QED BY <1>3, <1>4

\* Listed in full, a kind shows the rows there are; else it is unsure.
LEMMA ListsInv == ASSUME IInv, Lists PROVE IInv'
<1> USE DEF IInv
<1>1. PICK f \in ExistingChoices : script' = [script EXCEPT !.pc = "seed", !.existing = f]
  BY DEF Lists
<1>2. /\ script.pc = "list" /\ ServerIdle /\ UNCHANGED <<seeds, runs, swept>>
      /\ unsure' = IF \E q \in abandoned : q.op = "post" /\ q.kind = Current
                   THEN unsure \union {Current} ELSE unsure
  BY DEF Lists
<1>3. script' = [pc |-> "seed", mode |-> script.mode, n |-> script.n, left |-> script.left,
                 todo |-> script.todo, existing |-> f,
                 column |-> script.column, failed |-> script.failed]
  BY <1>1 DEF Shape
<1>4. /\ DOMAIN f = {r.key : r \in Listing}
      /\ \A k \in DOMAIN f : \E r \in Listing : r.id = f[k] /\ r.key = k
  BY DEF ExistingChoices
<1>5. \A r \in Listing : r \in rows /\ r.kind = Current
  BY DEF Listing, RowsOf
<1>6. \A k \in DOMAIN f : k \in Key /\ f[k] \in 1 .. MaxId
  BY <1>4, <1>5 DEF TypeOK, Row
<1>7. Current \in Kind BY OrderFacts DEF TypeOK, Current
<1>8. TypeOK' /\ Shape' /\ Imports'
  <2>1. ScriptOK(script') BY <1>3, <1>6, ScriptIsOK DEF ScriptOK, Phase
  <2>2. unsure' \subseteq Kind BY <1>2, <1>7 DEF TypeOK
  <2> QED BY <1>2, <2>1, <2>2, ReadOK DEF TypeOK, Shape
<1>9. SeedsOnly' BY <1>2, <1>3 DEF ServerIdle, SeedsOnly, UnderWay, Current
<1>10. Columns' BY <1>2, <1>3 DEF ServerIdle, Columns, PostedTo, NoEntries, Current
<1>11. Once'
  <2>1. unsure \subseteq unsure' BY <1>2
  <2>2. ASSUME Current \notin unsure', NEW r \in rows, r.kind = Current, r.key \in script.todo
        PROVE  r.key \in DOMAIN f /\ r.id = f[r.key]
    <3>1. r \in Listing
      <4>1. CASE Current # "dictionary" BY <2>2, <4>1 DEF Listing, RowsOf
      <4>2. CASE Current = "dictionary"
        <5>1. r.key \in seeds["dictionary"] BY <1>2, <2>2, <4>2 DEF SeedsOnly
        <5>2. ~(script.column < column)
          BY <1>2, <2>1, <2>2, <4>2, <5>1 DEF Columns, NoEntries
        <5>3. script.column = column
          <6>1. script.column \in Nat /\ column \in Nat BY SeedingAssumption DEF TypeOK
          <6> QED BY <1>2, <4>2, <5>2, <6>1 DEF Columns
        <5>4. r.column = column BY <2>2, <4>2 DEF TypeOK, RowsOf
        <5> QED BY <2>2, <5>3, <5>4 DEF Listing, RowsOf
      <4> QED BY <4>1, <4>2
    <3>2. r.key \in DOMAIN f BY <1>4, <3>1
    <3>3. PICK o \in Listing : o.id = f[r.key] /\ o.key = r.key BY <1>4, <3>2
    <3>4. o \in rows /\ o.kind = Current BY <1>5
    <3>5. r.key \in seeds[Current] BY <1>2, <2>2 DEF SeedsOnly
    <3>6. o = r BY <2>1, <2>2, <3>3, <3>4, <3>5 DEF Once
    <3> QED BY <3>2, <3>3, <3>6
  <2>3. Current \notin unsure' => \A q \in abandoned : ~(q.op = "post" /\ q.kind = Current)
    BY <1>2
  <2>4. Current' = Current BY <1>3 DEF Current
  <2> QED BY <1>2, <1>3, <2>1, <2>2, <2>3, <2>4 DEF ServerIdle, Once
<1>12. Purged' BY <1>2, <1>3 DEF ServerIdle, Purged
<1>13. Promise'
  <2>1. Current' = Current BY <1>3 DEF Current
  <2>2. \A k, key : Good(k, key)' <=> Good(k, key) BY <1>2, <1>3 DEF ServerIdle, Good
  <2>3. \A key \in DOMAIN f : \E r \in rows : r.kind = Current /\ r.key = key /\ r.id = f[key]
    BY <1>4, <1>5
  <2> QED BY <1>2, <1>3, <2>1, <2>2, <2>3 DEF ServerIdle, Promise, UnderWay, SeedsOnly
<1> QED BY <1>8, <1>9, <1>10, <1>11, <1>12, <1>13

LEMMA ListsNothingInv == ASSUME IInv, ListsNothing PROVE IInv'
<1> USE DEF IInv
<1>1. /\ script.pc = "list" /\ ServerIdle /\ UNCHANGED <<seeds, runs, swept>>
      /\ unsure' = unsure \union {Current} /\ script' = [script EXCEPT !.pc = "seed"]
  BY DEF ListsNothing
<1>2. script' = [pc |-> "seed", mode |-> script.mode, n |-> script.n, left |-> script.left,
                 todo |-> script.todo, existing |-> script.existing,
                 column |-> script.column, failed |-> script.failed]
  BY <1>1 DEF Shape
<1>3. TypeOK' /\ Shape' /\ Imports'
  <2>1. ScriptOK(script') BY <1>2, ScriptIsOK DEF ScriptOK, Phase
  <2>2. unsure' \subseteq Kind BY <1>1, OrderFacts DEF TypeOK, Current
  <2> QED BY <1>1, <2>1, <2>2, ReadOK DEF TypeOK, Shape
<1>4. SeedsOnly' BY <1>1, <1>2 DEF ServerIdle, SeedsOnly, UnderWay, Current
<1>5. Columns' BY <1>1, <1>2 DEF ServerIdle, Columns, PostedTo, NoEntries, Current
<1>6. Once' BY <1>1, <1>2 DEF ServerIdle, Once, Current
<1>7. Purged' BY <1>1, <1>2 DEF ServerIdle, Purged
<1>8. Promise'
  <2>1. Current' = Current BY <1>2 DEF Current
  <2>2. \A k, key : Good(k, key)' <=> Good(k, key) BY <1>1, <1>2 DEF ServerIdle, Good
  <2> QED BY <1>1, <1>2, <2>1, <2>2 DEF ServerIdle, Promise, UnderWay, SeedsOnly
<1> QED BY <1>3, <1>4, <1>5, <1>6, <1>7, <1>8

\* A key that has a row is passed over.
LEMMA SkipInv == ASSUME IInv, NEW k \in script.todo, Skip(k) PROVE IInv'
<1> USE DEF IInv
<1>1. /\ script.pc = "seed" /\ ServerIdle /\ UNCHANGED <<seeds, runs, unsure, swept>>
      /\ k \in DOMAIN script.existing /\ ~script.mode.overwrite
      /\ script' = [script EXCEPT !.todo = @ \ {k}]
  BY DEF Skip, Taken
<1>2. script' = [pc |-> script.pc, mode |-> script.mode, n |-> script.n, left |-> script.left,
                 todo |-> script.todo \ {k}, existing |-> script.existing,
                 column |-> script.column, failed |-> script.failed]
  BY <1>1 DEF Shape
<1>3. Current' = Current BY <1>2 DEF Current
<1>4. TypeOK' /\ Shape' /\ Imports'
  <2>1. ScriptOK(script') BY <1>2, ScriptIsOK DEF ScriptOK
  <2> QED BY <1>1, <2>1, ReadOK DEF TypeOK, Shape
<1>5. SeedsOnly' BY <1>1, <1>2, <1>3 DEF ServerIdle, SeedsOnly, UnderWay
<1>6. Columns' BY <1>1, <1>2, <1>3 DEF ServerIdle, Columns, PostedTo, NoEntries
<1>7. Once' BY <1>1, <1>2, <1>3 DEF ServerIdle, Once
<1>8. Purged' BY <1>1, <1>2 DEF ServerIdle, Purged
<1>9. Promise'
  <2>1. \A o, key : Good(o, key)' <=> Good(o, key) BY <1>1, <1>2 DEF ServerIdle, Good
  <2>2. ~script.failed /\ ~disturbed => Good(Current, k)
    <3> SUFFICES ASSUME ~script.failed, ~disturbed PROVE Good(Current, k)
      OBVIOUS
    <3>1. PICK r \in rows : r.kind = Current /\ r.key = k BY <1>1 DEF Promise
    <3>2. script.mode.purge /\ swept => r.id \in fresh BY <1>1 DEF Purged
    <3> QED BY <1>1, <3>1, <3>2 DEF Good
  <2>3. \A key : key \in seeds[Current] \ script'.todo => key = k \/ key \in seeds[Current] \ script.todo
    BY <1>2
  <2> HIDE DEF Good
  <2> QED BY <1>1, <1>2, <1>3, <2>1, <2>2, <2>3 DEF ServerIdle, Promise, UnderWay
<1> QED BY <1>4, <1>5, <1>6, <1>7, <1>8, <1>9

\* The row that is deleted is the one of its key, or nothing is promised any
\* more; a DELETE that fails is a failure.
LEMMA OverwriteInv == ASSUME IInv, NEW k \in script.todo, Overwrite(k) PROVE IInv'
<1> USE DEF IInv
<1> DEFINE id == script.existing[k]
           s == [script EXCEPT !.existing = [o \in DOMAIN @ \ {k} |-> @[o]]]
           u == [script EXCEPT !.todo = @ \ {k}, !.failed = TRUE]
<1>1. /\ script.pc = "seed" /\ k \in DOMAIN script.existing /\ script.mode.overwrite
      /\ UNCHANGED <<seeds, runs, unsure>>
  BY DEF Overwrite, Taken
<1>2. id \in 1 .. MaxId BY <1>1 DEF TypeOK
<1>3. ASSUME rows' = {r \in rows : r.id # id}, script' = s,
             UNCHANGED <<lastId, column, abandoned, imports, imported, fresh, disturbed, swept>>
      PROVE  IInv'
  <2> DEFINE e == [o \in DOMAIN script.existing \ {k} |-> script.existing[o]]
  <2>1. s = [pc |-> script.pc, mode |-> script.mode, n |-> script.n, left |-> script.left,
             todo |-> script.todo, existing |-> e,
             column |-> script.column, failed |-> script.failed]
    BY DEF Shape
  <2>2. /\ DOMAIN e = DOMAIN script.existing \ {k}
        /\ \A o \in DOMAIN e : e[o] = script.existing[o]
    OBVIOUS
  <2> HIDE DEF e, s, id
  <2>3. ScriptOK(s) BY <2>1, <2>2, ScriptIsOK DEF ScriptOK
  <2>4. /\ script'.pc = "seed" /\ script'.mode = script.mode /\ script'.n = script.n
        /\ script'.todo = script.todo /\ script'.existing = e /\ script'.column = script.column
        /\ script'.failed = script.failed /\ Current' = Current
    BY <1>1, <1>3, <2>1 DEF Current
  <2>5. rows' \subseteq rows BY <1>3
  <2>6. TypeOK' BY <1>1, <1>3, <2>3 DEF TypeOK, ScriptOK, RowsOf, Ids, Row
  <2>7. Shape' BY <1>1, <1>3, <2>3 DEF Shape, ScriptOK
  <2>8. SeedsOnly' BY <1>1, <1>3, <2>4 DEF SeedsOnly, UnderWay
  <2>9. Columns' BY <1>1, <1>3, <2>4, <2>5 DEF Columns, PostedTo, NoEntries
  <2>10. Once'
    <3>1. Current \notin unsure =>
             \A r \in rows' : r.kind = Current /\ r.key \in script.todo =>
                r.key \in DOMAIN e /\ r.id = e[r.key]
      BY <1>1, <1>3, <2>2 DEF Once, id
    <3> QED BY <1>1, <1>3, <2>4, <2>5, <3>1 DEF Once
  <2>11. Imports' BY <1>3, <2>5 DEF Imports
  <2>12. Purged' BY <1>1, <1>3, <2>4, <2>5 DEF Purged
  <2>13. Promise'
    <3> SUFFICES ASSUME ~script.failed, ~disturbed PROVE Promise'
      BY <1>3, <2>4 DEF Promise
    <3>1. PICK z \in rows : z.kind = Current /\ z.key = k /\ z.id = id
      BY <1>1 DEF Promise, id
    <3>2. \A r \in rows : ~(r.kind = Current /\ r.key = k) => r \in rows'
      BY <1>3, <3>1 DEF TypeOK
    <3>3. \A o, key : Good(o, key) /\ ~(o = Current /\ key = k) => Good(o, key)'
      BY <1>3, <2>4, <3>2 DEF Good
    <3>4. script.n \in 1 .. 4 BY DEF TypeOK
    <3>5. \A m \in 1 .. script.n - 1 : Order[m] # Current
      <4> TAKE m \in 1 .. script.n - 1
      <4>1. m \in 1 .. 4 /\ m # script.n BY <3>4
      <4> QED BY <3>4, <4>1, OrderFacts DEF Current
    <3>6. \A m \in 1 .. script.n - 1 : \A key \in seeds[Order[m]] : Good(Order[m], key)'
      <4> HIDE DEF Good
      <4> QED BY <1>1, <3>3, <3>5 DEF Promise, UnderWay
    <3>7. \A key \in seeds[Current] \ script.todo : Good(Current, key)'
      <4> TAKE key \in seeds[Current] \ script.todo
      <4>1. Good(Current, key) /\ key # k BY <1>1 DEF Promise
      <4> QED BY <2>4, <3>3, <4>1 DEF Good
    <3>8. \A key \in DOMAIN e \intersect script.todo :
             \E r \in rows' : r.kind = Current /\ r.key = key /\ r.id = e[key]
      <4> TAKE key \in DOMAIN e \intersect script.todo
      <4>1. PICK r \in rows : r.kind = Current /\ r.key = key /\ r.id = script.existing[key]
        BY <1>1, <2>2 DEF Promise
      <4> QED BY <2>2, <3>2, <4>1
    <3> QED BY <1>1, <1>3, <2>4, <3>6, <3>7, <3>8 DEF Promise, UnderWay
  <2> QED BY <2>6, <2>7, <2>8, <2>9, <2>10, <2>11, <2>12, <2>13
<1>4. ASSUME script' = u, ServerIdle, UNCHANGED swept PROVE IInv'
  <2>1. u = [pc |-> script.pc, mode |-> script.mode, n |-> script.n, left |-> script.left,
             todo |-> script.todo \ {k}, existing |-> script.existing,
             column |-> script.column, failed |-> TRUE]
    <3>1. ASSUME NEW z, z = u
          PROVE  z = [pc |-> script.pc, mode |-> script.mode, n |-> script.n, left |-> script.left,
                      todo |-> script.todo \ {k}, existing |-> script.existing,
                      column |-> script.column, failed |-> TRUE]
      BY <3>1 DEF Shape
    <3> QED BY <3>1
  <2>2. /\ u.pc = script.pc /\ u.mode = script.mode /\ u.n = script.n /\ u.todo = script.todo \ {k}
        /\ u.existing = script.existing /\ u.column = script.column /\ u.failed = TRUE
        /\ ScriptOK(u)
    BY <2>1, ScriptIsOK DEF ScriptOK
  <2> HIDE DEF u
  <2>3. Current' = Current BY <1>4, <2>2 DEF Current
  <2>4. TypeOK' /\ Shape' /\ Imports' BY <1>1, <1>4, <2>2, ReadOK DEF TypeOK, Shape
  <2>5. SeedsOnly' /\ Columns' /\ Once' /\ Purged' /\ Promise'
    <3> USE <1>1, <1>4, <2>2, <2>3
    <3>1. SeedsOnly' BY DEF ServerIdle, SeedsOnly, UnderWay
    <3>2. Columns' BY DEF ServerIdle, Columns, PostedTo, NoEntries
    <3>3. Once' BY DEF ServerIdle, Once
    <3>4. Purged' BY DEF ServerIdle, Purged
    <3>5. Promise' BY DEF ServerIdle, Promise
    <3> QED BY <3>1, <3>2, <3>3, <3>4, <3>5
  <2> QED BY <2>4, <2>5
<1>5. ASSUME DieOn([op |-> "delete", run |-> runs, id |-> id]) PROVE IInv'
  <2> HIDE DEF id
  <2>1. runs \in 1 .. MaxRuns BY <1>1 DEF Shape
  <2>2. [op |-> "delete", run |-> runs, id |-> id] \in Deletes BY <1>2, <2>1 DEF Deletes
  <2> QED BY <1>5, <2>2, NoScriptInv DEF DieOn, TypeOK
<1> QED BY <1>3, <1>4, <1>5 DEF Overwrite, Remove

\* A post gives its key a row it had not.
LEMMA PostInv == ASSUME IInv, NEW k \in script.todo, Post(k) PROVE IInv'
<1> USE DEF IInv
<1> DEFINE s == [script EXCEPT !.todo = @ \ {k}]
           u == [script EXCEPT !.todo = @ \ {k}, !.failed = TRUE]
           p == [op |-> "post", run |-> runs, kind |-> Current, key |-> k, column |-> PostedColumn]
<1>1. script.pc = "seed" /\ k \notin DOMAIN script.existing /\ UNCHANGED <<seeds, runs, unsure>>
  BY DEF Post, Taken
<1>2. k \in seeds[Current] /\ Current \in Kind /\ k \in Key /\ k # Url
  BY <1>1, SeedKeysOK, KeyFacts DEF SeedsOnly, UnderWay, Current, TypeOK
<1>3. Current \notin unsure =>
         /\ \A q \in abandoned : ~(q.op = "post" /\ q.kind = Current)
         /\ \A r \in rows : ~(r.kind = Current /\ r.key = k)
  BY <1>1 DEF Once
<1>4. PostedColumn \in 0 .. MaxColumn BY SeedingAssumption DEF PostedColumn, TypeOK
<1>5. ASSUME Insert(Current, k, PostedColumn), script' = s,
             UNCHANGED <<column, abandoned, imports, imported, disturbed, swept>>
      PROVE  IInv'
  <2> DEFINE new == [id |-> lastId + 1, kind |-> Current, key |-> k, column |-> PostedColumn]
  <2>1. /\ lastId < MaxId /\ (Current = "dictionary" => PostedColumn = column)
        /\ rows' = rows \union {new} /\ lastId' = lastId + 1 /\ fresh' = fresh \union {lastId + 1}
    BY <1>5 DEF Insert
  <2>2. new \in Row BY <1>2, <1>4, <2>1, SeedingAssumption DEF Row, TypeOK
  <2>3. /\ new.kind = Current /\ new.key = k /\ new.column = PostedColumn /\ new.id = lastId + 1
    OBVIOUS
  <2>4. s = [pc |-> script.pc, mode |-> script.mode, n |-> script.n, left |-> script.left,
             todo |-> script.todo \ {k}, existing |-> script.existing,
             column |-> script.column, failed |-> script.failed]
    BY DEF Shape
  <2>5. ScriptOK(s) BY <2>4, ScriptIsOK DEF ScriptOK
  <2> HIDE DEF new, s
  <2>6. /\ script'.pc = "seed" /\ script'.mode = script.mode /\ script'.n = script.n
        /\ script'.todo = script.todo \ {k} /\ script'.existing = script.existing
        /\ script'.column = script.column /\ script'.failed = script.failed /\ Current' = Current
    BY <1>1, <1>5, <2>4 DEF Current
  <2>7. TypeOK'
    <3>1. rows' \subseteq Row' BY <2>1, <2>2 DEF TypeOK, Row
    <3>2. lastId' \in 0 .. MaxId /\ fresh' \subseteq 1 .. lastId'
      <4>1. lastId \in 0 .. MaxId /\ lastId < MaxId /\ MaxId \in Nat /\ fresh \subseteq 1 .. lastId
        BY <2>1, SeedingAssumption DEF TypeOK
      <4>2. lastId + 1 \in 0 .. MaxId /\ 1 .. lastId \subseteq 1 .. lastId + 1
            /\ lastId + 1 \in 1 .. lastId + 1
        BY <4>1
      <4> QED BY <2>1, <4>1, <4>2
    <3>3. /\ (\A r, o \in rows : r.id = o.id => r = o)'
          /\ (Ids(rows) \subseteq 1 .. lastId)'
          /\ (\A r \in RowsOf("dictionary") : r.column = column)'
      BY <1>5, <2>1, <2>3, SeedingAssumption DEF TypeOK, Ids, RowsOf
    <3> QED BY <1>1, <1>5, <2>5, <3>1, <3>2, <3>3 DEF TypeOK, ScriptOK
  <2>8. Shape' BY <1>1, <1>5, <2>5 DEF Shape, ScriptOK
  <2>9. SeedsOnly' BY <1>1, <1>5, <2>6 DEF SeedsOnly, UnderWay
  <2>10. Columns'
    <3>1. Current = "dictionary" => script.column = column BY <2>1 DEF PostedColumn
    <3>2. column \in Nat BY SeedingAssumption DEF TypeOK
    <3>3. Current = "dictionary" => ~(script.column < column) BY <3>1, <3>2
    <3> QED BY <1>1, <1>5, <2>6, <3>3 DEF Columns, PostedTo
  <2>11. Once'
    <3>1. \A r \in rows' : r \in rows \/ r = new BY <2>1
    <3>2. \A q \in abandoned : q.op = "post" /\ q.kind \notin unsure => q.kind # Current BY <1>3
    <3>3. \A r, o \in rows' :
             r.kind = o.kind /\ r.key = o.key /\ r.kind \notin unsure /\ r.key \in seeds[r.kind] => r = o
      BY <1>3, <2>3, <3>1 DEF Once
    <3>4. \A q \in abandoned : q.op = "post" /\ q.kind \notin unsure =>
             /\ \A r \in rows' : ~(r.kind = q.kind /\ r.key = q.key)
             /\ \A o \in abandoned : o.op = "post" /\ o.kind = q.kind => o = q
      BY <2>3, <3>1, <3>2 DEF Once
    <3>5. Current \notin unsure =>
             \A r \in rows' : r.kind = Current /\ r.key \in script.todo \ {k} =>
                r.key \in DOMAIN script.existing /\ r.id = script.existing[r.key]
      BY <1>1, <2>3, <3>1 DEF Once
    <3> QED BY <1>1, <1>3, <1>5, <2>6, <3>3, <3>4, <3>5 DEF Once
  <2>12. Imports'
    <3>1. lastId \in Nat BY SeedingAssumption DEF TypeOK
    <3> QED BY <1>2, <1>5, <2>1, <2>3, <3>1 DEF Imports
  <2>13. Purged' BY <1>1, <1>5, <2>1, <2>3, <2>6 DEF Purged
  <2>14. Promise'
    <3>1. \A o, key : Good(o, key) => Good(o, key)' BY <1>5, <2>1, <2>6 DEF Good
    <3>2. Good(Current, k)' BY <2>1, <2>3, <2>6 DEF Good
    <3>3. \A key \in seeds[Current] \ (script.todo \ {k}) : key = k \/ key \in seeds[Current] \ script.todo
      OBVIOUS
    <3>4. rows \subseteq rows' BY <2>1
    <3> HIDE DEF Good
    <3> QED BY <1>1, <1>5, <2>6, <3>1, <3>2, <3>3, <3>4 DEF Promise, UnderWay
  <2> QED BY <2>7, <2>8, <2>9, <2>10, <2>11, <2>12, <2>13, <2>14
<1>6. ASSUME script' = u, ServerIdle, UNCHANGED swept PROVE IInv'
  <2>1. u = [pc |-> script.pc, mode |-> script.mode, n |-> script.n, left |-> script.left,
             todo |-> script.todo \ {k}, existing |-> script.existing,
             column |-> script.column, failed |-> TRUE]
    <3>1. ASSUME NEW z, z = u
          PROVE  z = [pc |-> script.pc, mode |-> script.mode, n |-> script.n, left |-> script.left,
                      todo |-> script.todo \ {k}, existing |-> script.existing,
                      column |-> script.column, failed |-> TRUE]
      BY <3>1 DEF Shape
    <3> QED BY <3>1
  <2>2. /\ u.pc = script.pc /\ u.mode = script.mode /\ u.n = script.n /\ u.todo = script.todo \ {k}
        /\ u.existing = script.existing /\ u.column = script.column /\ u.failed = TRUE
        /\ ScriptOK(u)
    BY <2>1, ScriptIsOK DEF ScriptOK
  <2> HIDE DEF u
  <2>3. Current' = Current BY <1>6, <2>2 DEF Current
  <2>4. TypeOK' /\ Shape' /\ Imports' BY <1>1, <1>6, <2>2, ReadOK DEF TypeOK, Shape
  <2>5. SeedsOnly' /\ Columns' /\ Once' /\ Purged' /\ Promise'
    <3> USE <1>1, <1>6, <2>2, <2>3
    <3>1. SeedsOnly' BY DEF ServerIdle, SeedsOnly, UnderWay
    <3>2. Columns' BY DEF ServerIdle, Columns, PostedTo, NoEntries
    <3>3. Once' BY DEF ServerIdle, Once
    <3>4. Purged' BY DEF ServerIdle, Purged
    <3>5. Promise' BY DEF ServerIdle, Promise
    <3> QED BY <3>1, <3>2, <3>3, <3>4, <3>5
  <2> QED BY <2>4, <2>5
<1>7. ASSUME DieOn(p) PROVE IInv'
  <2>1. runs \in 1 .. MaxRuns BY <1>1 DEF Shape
  <2>2. p \in Posts BY <1>2, <1>4, <2>1 DEF Posts
  <2>3. p.op = "post" /\ p.kind = Current /\ p.key = k /\ p.column = PostedColumn
    OBVIOUS
  <2> HIDE DEF p
  <2>4. Current = "dictionary" => p.column <= column BY <1>1, <2>3 DEF Columns, PostedColumn
  <2>5. abandoned' = abandoned \union {p} BY <1>7 DEF DieOn
  <2>6. abandoned' \subseteq Posts \union Deletes BY <2>2, <2>5 DEF TypeOK
  <2>7. \A q \in abandoned' \ abandoned : q = p BY <2>5
  <2>8. p.kind \notin unsure =>
           /\ \A r \in rows : ~(r.kind = p.kind /\ r.key = p.key)
           /\ \A o \in abandoned' : o.op = "post" /\ o.kind = p.kind => o = p
    BY <1>3, <2>3, <2>5
  <2>9. \A q \in abandoned' \ abandoned : q.op = "post" =>
              /\ q.key \in seeds[q.kind]
              /\ q.kind = "dictionary" => q.column <= column
              /\ q.kind \notin unsure =>
                   /\ \A r \in rows : ~(r.kind = q.kind /\ r.key = q.key)
                   /\ \A o \in abandoned' : o.op = "post" /\ o.kind = q.kind => o = q
    BY <1>2, <2>3, <2>4, <2>7, <2>8
  <2> QED BY <1>1, <1>7, <2>6, <2>9, NoScriptInv DEF DieOn
<1> QED BY <1>5, <1>6, <1>7 DEF Post

LEMMA PurgeStepInv == ASSUME IInv, PurgeStep PROVE IInv'
  BY PurgeListsInv, PurgeSkipsInv, PurgedKindInv, PurgeDeletesInv DEF PurgeStep

LEMMA SeedStepInv == ASSUME IInv, SeedStep PROVE IInv'
  BY ListsInv, ListsNothingInv, SeededKindInv, SkipInv, OverwriteInv, PostInv DEF SeedStep

LEMMA NextInv == ASSUME IInv, [Next]_vars PROVE IInv'
<1>1. CASE \/ \E k \in Kind : UserCreates(k)
           \/ \E r \in rows : UserDeletes(r)
           \/ Introspect
  BY <1>1, UserCreatesInv, UserDeletesInv, IntrospectInv
<1>2. CASE \E i \in Importer : StartImport(i) \/ CommitImport(i) \/ FailImport(i)
  BY <1>2, StartImportInv, CommitImportInv, FailImportInv
<1>3. CASE \E q \in abandoned : CommitAbandoned(q) \/ DropAbandoned(q)
  BY <1>3, CommitAbandonedInv, DropAbandonedInv
<1>4. CASE (\E m \in Mode : Launch(m)) \/ Die
  BY <1>4, LaunchInv, DieInv
<1>5. CASE purge_glossary \/ purge_metrics \/ purge_dictionary \/ purge_knowledge
  BY <1>5, PurgeStepInv DEF purge_glossary, purge_metrics, purge_dictionary, purge_knowledge
<1>6. CASE seed_glossary \/ seed_metrics \/ seed_dictionary \/ seed_knowledge
  BY <1>6, SeedStepInv, ReadColumnsInv DEF seed_glossary, seed_metrics, seed_dictionary, seed_knowledge
<1>7. CASE UNCHANGED vars
  BY <1>7 DEF vars, IInv, TypeOK, Shape, SeedsOnly, UnderWay, Columns, PostedTo, NoEntries, Once,
              Imports, Purged, Promise, Good, Current, RowsOf, Ids
<1> QED BY <1>1, <1>2, <1>3, <1>4, <1>5, <1>6, <1>7 DEF Next

LEMMA InductiveInvariant == Spec => []IInv
  BY InitInv, NextInv, PTL DEF Spec

-----------------------------------------------------------------------------
\* The variables keep their types: ids identify rows, and every dictionary
\* entry hangs on the columns that are cached now.
THEOREM TypeCorrect == Spec => []TypeOK
<1>1. IInv => TypeOK BY DEF IInv
<1> QED BY <1>1, InductiveInvariant, PTL

\* However many runs of seed_sqlserver_metadata.py there were, and however
\* they ended, a key of a kind always listed in full has one row.
THEOREM OneRowPerKeyAlways == Spec => []OneRowPerKey
<1>1. IInv => OneRowPerKey
  <2> SUFFICES ASSUME IInv, NEW k \in Kind \ unsure, NEW key \in seeds[k]
               PROVE  Cardinality(With(k, key)) <= 1
    BY DEF OneRowPerKey
  <2>1. \A r, s \in With(k, key) : r = s BY DEF IInv, Once, With, RowsOf
  <2>2. CASE With(k, key) = {} BY <2>2, FS_EmptySet
  <2>3. CASE With(k, key) # {}
    <3>1. PICK r : With(k, key) = {r} BY <2>1, <2>3
    <3> QED BY <3>1, FS_Singleton
  <2> QED BY <2>2, <2>3
<1> QED BY <1>1, InductiveInvariant, PTL

\* The script's "done" without a failure means what it says, while nobody else
\* removes rows.
THEOREM ReportedOkAlways == Spec => []ReportedOk
<1>1. IInv => ReportedOk
  <2> SUFFICES ASSUME IInv, script.pc = "done", ~script.failed, ~disturbed
               PROVE  /\ \A k \in Kind : \A key \in seeds[k] :
                           \E r \in With(k, key) :
                              script.mode.overwrite \/ (script.mode.purge /\ swept) => r.id \in fresh
                      /\ script.mode.purge /\ swept => Ids(rows) \subseteq fresh
    BY DEF ReportedOk
  <2>1. \A k \in Kind : \E m \in 1 .. 4 : k = Order[m] BY DEF Kind
  <2>2. \A k \in Kind : \A key \in seeds[k] : Good(k, key) BY <2>1 DEF IInv, Promise
  <2>3. script.mode.purge /\ swept => Ids(rows) \subseteq fresh BY DEF IInv, Purged, Ids
  <2> QED BY <2>2, <2>3 DEF Good, With, RowsOf
<1> QED BY <1>1, InductiveInvariant, PTL

\* A lone import of a source_url leaves one document of it.
THEOREM LoneImportReplacesAlways == Spec => LoneImportReplaces
<1> DEFINE A == \A i \in Importer :
                   imports[i].lone /\ CommitImport(i) => Cardinality({r \in rows' : r.key = Url}) = 1
<1>1. IInv => A
  <2> SUFFICES ASSUME IInv, NEW i \in Importer, imports[i].lone, CommitImport(i)
               PROVE  Cardinality({r \in rows' : r.key = Url}) = 1
    OBVIOUS
  <2> DEFINE new == [id |-> lastId + 1, kind |-> "knowledge", key |-> Url, column |-> 0]
  <2>1. rows' = {r \in rows : r.id \notin imports[i].old} \union {new} BY DEF CommitImport
  <2>2. \A r \in rows : r.key = Url => r.id \in imports[i].old BY DEF IInv, Imports
  <2>3. new.key = Url OBVIOUS
  <2> HIDE DEF new
  <2>4. {r \in rows' : r.key = Url} = {new} BY <2>1, <2>2, <2>3
  <2> QED BY <2>4, FS_Singleton
<1>2. IInv => [A]_vars BY <1>1
<1> HIDE DEF A
<1>3. Spec => [][A]_vars BY <1>2, InductiveInvariant, PTL
<1> QED BY <1>3 DEF A, LoneImportReplaces
=============================================================================
