--------------------------- MODULE PlanTurnsProofs ---------------------------
(***************************************************************************)
(* Every invariant of PlanTurns and its one action property, for any       *)
(* topics of the catalog, questions and replies of the language model, and *)
(* any number of turns.                                                    *)
(*                                                                         *)
(* The proofs stand on two inductive invariants: IInv says which node may  *)
(* hold a plan and a statement, and for whom (the control); Origin says    *)
(* that filters, plans and statements are what extract_filters,            *)
(* update_query_plan and compile_query make of a question or a reply (the  *)
(* data).  Below them are lemmas on what these three compute.  They need   *)
(* induction over sequences, which SetInduction does with a set in the     *)
(* place of a predicate.                                                   *)
(***************************************************************************)
EXTENDS PlanTurns, SequenceTheorems, FiniteSetTheorems, WellFoundedInduction, TLAPS

-----------------------------------------------------------------------------
(* Sequences                                                               *)

\* Induction, of a set of numbers: every number but the least has the one
\* before it in the set, or the least one outside of it would have none.
LEMMA SetInduction ==
  ASSUME NEW T, 0 \in T, \A n \in Nat : n \in T => n + 1 \in T
  PROVE  Nat \subseteq T
<1> DEFINE Rel == OpToRel(<, Nat)
           Rest == Nat \ T
<1>1. IsWellFoundedOn(Rel, Nat)
  BY NatLessThanWellFounded
<1>2. SUFFICES ASSUME Rest # {} PROVE FALSE
  OBVIOUS
<1> HIDE DEF Rel
<1>3. PICK x \in Rest : \A y \in Rest : ~(<<y, x>> \in Rel)
  BY <1>1, <1>2, WFMin
<1>4. x \in Nat /\ x # 0 /\ x - 1 \in Nat
  BY <1>3
<1>5. x - 1 \in Rest
  <2>1. (x - 1) + 1 = x BY <1>4
  <2> QED BY <2>1, <1>4
<1>6. <<x - 1, x>> \in Rel
  <2>1. x - 1 < x BY <1>4
  <2>2. <<x-1, x>> \in Nat \X Nat BY <1>4
  <2>3. <<x-1,x>>[1] = x - 1 /\ <<x-1,x>>[2] = x OBVIOUS
  <2> QED BY <2>1, <2>2, <2>3 DEF Rel, OpToRel
<1>7. QED
  BY <1>3, <1>5, <1>6

\* The recursive function inside FlattenSeq.
Joins(f, s, n) == f = [i \in 1 .. n |-> IF i = 1 THEN s[i] ELSE f[i - 1] \o s[i]]

\* What the function says of one index.
LEMMA JoinsStep ==
  ASSUME NEW f, NEW s, NEW n \in Nat, Joins(f, s, n), NEW i \in 1 .. n
  PROVE  f[i] = IF i = 1 THEN s[i] ELSE f[i - 1] \o s[i]
<1> DEFINE g == [j \in 1 .. n |-> IF j = 1 THEN s[j] ELSE f[j - 1] \o s[j]]
<1>1. f = g BY DEF Joins
<1>2. g[i] = IF i = 1 THEN s[i] ELSE f[i - 1] \o s[i] OBVIOUS
<1> QED BY ONLY <1>1, <1>2

\* There is such a function.
LEMMA JoinsExist == ASSUME NEW s, NEW n \in Nat PROVE \E f : Joins(f, s, n)
<1> DEFINE T == {k \in Nat : \E f : Joins(f, s, k)}
<1>1. 0 \in T
  <2> DEFINE f == [i \in 1 .. 0 |-> s[i]]
  <2>1. Joins(f, s, 0) BY DEF Joins
  <2> QED BY <2>1
<1>2. ASSUME NEW k \in Nat, k \in T PROVE k + 1 \in T
  <2>1. PICK f : Joins(f, s, k) BY <1>2
  <2> DEFINE g == [i \in 1 .. k + 1 |-> IF i <= k THEN f[i] ELSE IF i = 1 THEN s[i] ELSE f[i - 1] \o s[i]]
  <2>2. ASSUME NEW i \in 1 .. k + 1 PROVE g[i] = IF i = 1 THEN s[i] ELSE g[i - 1] \o s[i]
    <3>1. CASE i <= k
      <4>1. i \in 1 .. k /\ (i # 1 => i - 1 \in 1 .. k + 1 /\ i - 1 <= k) BY <3>1
      <4>2. f[i] = IF i = 1 THEN s[i] ELSE f[i - 1] \o s[i] BY <2>1, <4>1, JoinsStep
      <4> QED BY <3>1, <4>1, <4>2
    <3>2. CASE i = k + 1
      <4>1. i # 1 => i - 1 \in 1 .. k + 1 /\ i - 1 <= k BY <3>2
      <4> QED BY <3>2, <4>1
    <3> QED BY <3>1, <3>2
  <2>3. Joins(g, s, k + 1) BY <2>2 DEF Joins
  <2> QED BY <2>3
<1> HIDE DEF T
<1>3. n \in T BY <1>1, <1>2, SetInduction
<1> QED BY <1>3 DEF T

\* It looks at the sequences no further than they are joined.
LEMMA JoinsAgree ==
  ASSUME NEW s, NEW r, NEW m \in Nat, NEW n \in Nat, m <= n, \A i \in 1 .. m : s[i] = r[i],
         NEW f, NEW g, Joins(f, s, m), Joins(g, r, n)
  PROVE  \A i \in 1 .. m : f[i] = g[i]
<1> DEFINE T == {k \in Nat : k \in 1 .. m => f[k] = g[k]}
<1>1. 0 \in T OBVIOUS
<1>2. ASSUME NEW k \in Nat, k \in T PROVE k + 1 \in T
  <2>1. SUFFICES ASSUME k + 1 \in 1 .. m PROVE f[k + 1] = g[k + 1] OBVIOUS
  <2>2. k + 1 \in 1 .. n /\ k + 1 - 1 = k BY <2>1
  <2>3. f[k + 1] = IF k + 1 = 1 THEN s[k + 1] ELSE f[k] \o s[k + 1] BY <2>1, <2>2, JoinsStep
  <2>4. g[k + 1] = IF k + 1 = 1 THEN r[k + 1] ELSE g[k] \o r[k + 1] BY <2>1, <2>2, JoinsStep
  <2> QED BY <1>2, <2>1, <2>3, <2>4
<1> HIDE DEF T
<1>3. \A k \in Nat : k \in T BY <1>1, <1>2, SetInduction
<1> QED BY <1>3 DEF T

\* FlattenSeq is its last value.
LEMMA FlattenJoins ==
  ASSUME NEW s, Len(s) \in Nat \ {0}
  PROVE  \E f : Joins(f, s, Len(s)) /\ FlattenSeq(s) = f[Len(s)]
<1> DEFINE f == CHOOSE g : Joins(g, s, Len(s))
<1>1. Joins(f, s, Len(s)) BY JoinsExist
<1>2. FlattenSeq(s) = f[Len(s)] BY DEF FlattenSeq, Joins
<1> QED BY <1>1, <1>2

\* Nothing is joined to nothing.
LEMMA FlattenEmpty == FlattenSeq(<<>>) = <<>>
  BY DEF FlattenSeq

\* One more sequence is joined at the end: what every proof about Keep,
\* Merged or a statement's text does induction with.
LEMMA FlattenAppend ==
  ASSUME NEW S, NEW s \in Seq(Seq(S)), NEW x \in Seq(S)
  PROVE  FlattenSeq(Append(s, x)) = FlattenSeq(s) \o x
<1> DEFINE r == Append(s, x)
           n == Len(s)
<1>1. n \in Nat /\ Len(r) = n + 1 /\ r[n + 1] = x /\ \A i \in 1 .. n : s[i] = r[i] OBVIOUS
<1> HIDE DEF r, n
<1>2. PICK g : Joins(g, r, n + 1) /\ FlattenSeq(r) = g[n + 1]
  BY <1>1, FlattenJoins
<1>3. CASE n = 0
  <2>1. s = <<>> BY <1>3 DEF n
  <2>2. g[1] = x BY <1>1, <1>2, <1>3, JoinsStep
  <2>3. <<>> \o x = x BY ConcatEmptySeq
  <2>4. FlattenSeq(r) = x BY <1>2, <1>3, <2>2
  <2>5. FlattenSeq(s) = <<>> BY <2>1, FlattenEmpty
  <2> QED BY <2>3, <2>4, <2>5 DEF r
<1>4. CASE n # 0
  <2>1. PICK f : Joins(f, s, n) /\ FlattenSeq(s) = f[n] BY <1>1, <1>4, FlattenJoins DEF n
  <2>2. \A i \in 1 .. n : f[i] = g[i]
    <3> DEFINE m == n + 1
    <3>1. m \in Nat /\ n <= m BY <1>1
    <3>2. Joins(g, r, m) BY <1>2
    <3> HIDE DEF m
    <3> TAKE i \in 1 .. n
    <3>3. \A j \in 1 .. n : s[j] = r[j] BY <1>1
    <3> QED BY <1>1, <2>1, <3>1, <3>2, <3>3, JoinsAgree
  <2>3. n + 1 \in 1 .. n + 1 /\ n + 1 # 1 /\ n + 1 - 1 = n BY <1>1, <1>4
  <2>4. g[n + 1] = g[n] \o r[n + 1]
    <3> DEFINE m == n + 1
    <3>1. m \in Nat /\ m \in 1 .. m /\ m # 1 /\ m - 1 = n BY <1>1, <1>4
    <3>2. Joins(g, r, m) BY <1>2
    <3> HIDE DEF m
    <3>3. \A i \in 1 .. m : g[i] = IF i = 1 THEN r[i] ELSE g[i - 1] \o r[i]
      <4> TAKE i \in 1 .. m
      <4> QED BY <3>1, <3>2, JoinsStep
    <3> QED BY <3>1, <3>3 DEF m
  <2>5. g[n] = f[n] BY <1>1, <1>4, <2>2
  <2> QED BY <1>1, <1>2, <2>1, <2>4, <2>5 DEF r
<1> QED BY <1>3, <1>4

\* Induction over sequences, of a set of them.
LEMMA SeqInduction ==
  ASSUME NEW S, NEW T, <<>> \in T, \A s \in Seq(S), x \in S : s \in T => Append(s, x) \in T
  PROVE  Seq(S) \subseteq T
<1> DEFINE U == {n \in Nat : \A s \in Seq(S) : Len(s) = n => s \in T}
<1>1. 0 \in U OBVIOUS
<1>2. ASSUME NEW n \in Nat, n \in U PROVE n + 1 \in U
  <2>1. SUFFICES ASSUME NEW s \in Seq(S), Len(s) = n + 1 PROVE s \in T OBVIOUS
  <2>2. s # <<>> BY <2>1
  <2>3. PICK r \in Seq(S), x \in S : s = Append(r, x) BY <2>2, SequenceEmptyOrAppend
  <2>4. Len(r) = n BY <2>1, <2>3
  <2> QED BY <1>2, <2>3, <2>4
<1> HIDE DEF U
<1>3. Nat \subseteq U BY <1>1, <1>2, SetInduction
<1> QED BY <1>3 DEF U

\* Sequences over a set are joined to one over it.
LEMMA FlattenType == ASSUME NEW S, NEW s \in Seq(Seq(S)) PROVE FlattenSeq(s) \in Seq(S)
<1> DEFINE T == {r \in Seq(Seq(S)) : FlattenSeq(r) \in Seq(S)}
<1>1. <<>> \in T BY FlattenEmpty, EmptySeq
<1>2. ASSUME NEW r \in Seq(Seq(S)), NEW x \in Seq(S), r \in T PROVE Append(r, x) \in T
  <2>1. FlattenSeq(Append(r, x)) = FlattenSeq(r) \o x BY FlattenAppend
  <2>2. FlattenSeq(r) \in Seq(S) BY <1>2
  <2>3. FlattenSeq(r) \o x \in Seq(S) BY <2>2, ConcatProperties
  <2>4. Append(r, x) \in Seq(Seq(S)) BY AppendProperties
  <2> QED BY <2>1, <2>3, <2>4
<1> HIDE DEF T
<1>3. s \in T BY <1>1, <1>2, SeqInduction
<1> QED BY <1>3 DEF T

\* Indexing an extended sequence.
LEMMA AppendIndexed ==
  ASSUME NEW S, NEW s \in Seq(S), NEW x \in S
  PROVE  /\ Append(s, x) \in Seq(S)
         /\ Len(s) \in Nat /\ DOMAIN s = 1 .. Len(s)
         /\ DOMAIN Append(s, x) = 1 .. Len(s) + 1
         /\ \A i \in 1 .. Len(s) : Append(s, x)[i] = s[i]
         /\ Append(s, x)[Len(s) + 1] = x
         /\ Range(Append(s, x)) = Range(s) \union {x}
<1>1. /\ Append(s, x) \in Seq(S) /\ Len(Append(s, x)) = Len(s) + 1
      /\ \A i \in 1 .. Len(s) : Append(s, x)[i] = s[i]
      /\ Append(s, x)[Len(s) + 1] = x
  BY AppendProperties
<1>2. Len(s) \in Nat /\ DOMAIN s = 1 .. Len(s) /\ DOMAIN Append(s, x) = 1 .. Len(s) + 1
  BY <1>1, LenProperties
<1>3. Range(Append(s, x)) = Range(s) \union {x}
  BY <1>1, <1>2 DEF Range
<1> QED BY <1>1, <1>2, <1>3

\* What is joined has the elements of its parts.
LEMMA FlattenRange ==
  ASSUME NEW S, NEW s \in Seq(Seq(S))
  PROVE  Range(FlattenSeq(s)) = UNION {Range(x) : x \in Range(s)}
<1> DEFINE T == {r \in Seq(Seq(S)) : Range(FlattenSeq(r)) = UNION {Range(x) : x \in Range(r)}}
<1>1. <<>> \in T BY FlattenEmpty DEF Range
<1>2. ASSUME NEW r \in Seq(Seq(S)), NEW x \in Seq(S), r \in T PROVE Append(r, x) \in T
  <2>1. Range(Append(r, x)) = Range(r) \union {x} BY AppendIndexed
  <2>2. FlattenSeq(r) \in Seq(S) BY FlattenType
  <2>3. Range(FlattenSeq(Append(r, x))) = Range(FlattenSeq(r)) \union Range(x)
    <3>1. FlattenSeq(Append(r, x)) = FlattenSeq(r) \o x BY FlattenAppend
    <3>2. Range(FlattenSeq(r) \o x) = Range(FlattenSeq(r)) \union Range(x) BY <2>2, RangeConcatenation
    <3> QED BY <3>1, <3>2
  <2>4. Append(r, x) \in Seq(Seq(S)) BY AppendIndexed
  <2> QED BY <1>2, <2>1, <2>3, <2>4
<1> HIDE DEF T
<1>3. s \in T BY <1>1, <1>2, SeqInduction
<1> QED BY <1>3 DEF T

Parts(s, T) == [i \in DOMAIN s |-> IF s[i] \in T THEN <<s[i]>> ELSE <<>>]
Picked(s, T) == FlattenSeq(Parts(s, T))

\* The parts of a sequence are sequences of its elements.
LEMMA PartsType == ASSUME NEW S, NEW T, NEW s \in Seq(S) PROVE Parts(s, T) \in Seq(Seq(S))
<1>1. Len(s) \in Nat /\ DOMAIN s = 1 .. Len(s) /\ \A i \in 1 .. Len(s) : s[i] \in S
  BY LenProperties, ElementOfSeq
<1>2. Parts(s, T) \in [1 .. Len(s) -> Seq(S)] BY <1>1 DEF Parts
<1> QED BY <1>1, <1>2

\* Of nothing, nothing is picked.
LEMMA PickedEmpty == ASSUME NEW T PROVE Picked(<<>>, T) = <<>>
<1>1. Parts(<<>>, T) = <<>> BY DEF Parts
<1> QED BY <1>1, FlattenEmpty DEF Picked

\* The last element is picked, or is not.
LEMMA PickedAppend ==
  ASSUME NEW S, NEW T, NEW s \in Seq(S), NEW x \in S
  PROVE  /\ Picked(s, T) \in Seq(S)
         /\ Picked(Append(s, x), T) = IF x \in T THEN Append(Picked(s, T), x) ELSE Picked(s, T)
<1> DEFINE y == IF x \in T THEN <<x>> ELSE <<>>
<1>1. Parts(s, T) \in Seq(Seq(S)) /\ y \in Seq(S) BY PartsType
<1>2. Parts(Append(s, x), T) = Append(Parts(s, T), y)
  <2>1. Parts(Append(s, x), T) \in Seq(Seq(S)) BY PartsType, AppendIndexed
  <2>2. Append(Parts(s, T), y) \in Seq(Seq(S)) BY <1>1, AppendProperties
  <2>3. /\ DOMAIN Parts(Append(s, x), T) = 1 .. Len(s) + 1
        /\ DOMAIN Parts(s, T) = 1 .. Len(s)
    BY AppendIndexed DEF Parts
  <2>4. DOMAIN Append(Parts(s, T), y) = 1 .. Len(s) + 1
    BY <1>1, <2>3, LenProperties, AppendProperties
  <2>5. ASSUME NEW i \in 1 .. Len(s) + 1 PROVE Parts(Append(s, x), T)[i] = Append(Parts(s, T), y)[i]
    <3>1. Len(s) \in Nat /\ Len(Parts(s, T)) = Len(s) BY <1>1, <2>3, LenProperties
    <3>2. CASE i \in 1 .. Len(s)
      <4>1. Append(Parts(s, T), y)[i] = Parts(s, T)[i] BY <1>1, <3>1, <3>2, AppendProperties
      <4>2. Append(s, x)[i] = s[i] BY <3>2, AppendIndexed
      <4>3. DOMAIN s = 1 .. Len(s) /\ DOMAIN Append(s, x) = 1 .. Len(s) + 1 BY AppendIndexed
      <4> QED BY <3>2, <4>1, <4>2, <4>3 DEF Parts
    <3>3. CASE i = Len(s) + 1
      <4>1. Append(Parts(s, T), y)[i] = y BY <1>1, <3>1, <3>3, AppendProperties
      <4>2. Append(s, x)[i] = x BY <3>3, AppendIndexed
      <4>3. DOMAIN Append(s, x) = 1 .. Len(s) + 1 BY AppendIndexed
      <4> QED BY <3>3, <4>1, <4>2, <4>3 DEF Parts
    <3> QED BY <3>1, <3>2, <3>3
  <2> HIDE DEF y
  <2> QED BY <2>1, <2>2, <2>3, <2>4, <2>5, LenProperties, SeqEqual
<1>3. Picked(s, T) \in Seq(S) BY <1>1, FlattenType DEF Picked
<1>4. Picked(Append(s, x), T) = Picked(s, T) \o y BY <1>1, <1>2, FlattenAppend DEF Picked
<1>5. CASE x \in T BY <1>3, <1>4, <1>5, AppendIsConcat
<1>6. CASE x \notin T BY <1>3, <1>4, <1>6, ConcatEmptySeq
<1> QED BY <1>3, <1>5, <1>6

\* What is picked, and that it is in order: nothing twice what was not.
LEMMA PickedRange ==
  ASSUME NEW S, NEW T, NEW s \in Seq(S)
  PROVE  Picked(s, T) \in Seq(S) /\ Range(Picked(s, T)) = Range(s) \cap T
<1> DEFINE U == {r \in Seq(S) : Range(Picked(r, T)) = Range(r) \cap T}
<1>1. <<>> \in U BY PickedEmpty DEF Range
<1>2. ASSUME NEW r \in Seq(S), NEW x \in S, r \in U PROVE Append(r, x) \in U
  <2>1. Range(Append(r, x)) = Range(r) \union {x} /\ Append(r, x) \in Seq(S) BY AppendIndexed
  <2>2. Picked(r, T) \in Seq(S) BY PickedAppend
  <2>3. CASE x \in T
    <3>1. Range(Append(Picked(r, T), x)) = Range(Picked(r, T)) \union {x} BY <2>2, AppendIndexed
    <3>2. Picked(Append(r, x), T) = Append(Picked(r, T), x) BY <2>3, PickedAppend
    <3> QED BY <1>2, <2>1, <2>3, <3>1, <3>2
  <2>4. CASE x \notin T
    <3>1. Picked(Append(r, x), T) = Picked(r, T) BY <2>4, PickedAppend
    <3> QED BY <1>2, <2>1, <2>4, <3>1
  <2> QED BY <2>3, <2>4
<1> HIDE DEF U
<1>3. s \in U BY <1>1, <1>2, SeqInduction
<1>4. Picked(s, T) \in Seq(S) BY PartsType, FlattenType DEF Picked
<1> QED BY <1>3, <1>4 DEF U
\* No two elements of s have the same key.
Apart(key, s) == \A i, j \in DOMAIN s : key[s[i]] = key[s[j]] => i = j

\* An element more keeps them apart when its key is new.
LEMMA ApartAppend ==
  ASSUME NEW S, NEW key, NEW s \in Seq(S), NEW x \in S
  PROVE  Apart(key, Append(s, x)) <=> Apart(key, s) /\ \A y \in Range(s) : key[y] # key[x]
<1> DEFINE n == Len(s)
           r == Append(s, x)
<1>1. /\ n \in Nat /\ DOMAIN s = 1 .. n /\ DOMAIN r = 1 .. n + 1
      /\ \A i \in 1 .. n : r[i] = s[i]
      /\ r[n + 1] = x
  BY AppendIndexed
<1> HIDE DEF n, r
<1>2. ASSUME Apart(key, r) PROVE Apart(key, s) /\ \A y \in Range(s) : key[y] # key[x]
  <2>1. \A i, j \in 1 .. n : i \in 1 .. n + 1 /\ j \in 1 .. n + 1 BY <1>1
  <2>2. Apart(key, s) BY <1>1, <1>2, <2>1 DEF Apart
  <2>3. ASSUME NEW i \in 1 .. n PROVE key[s[i]] # key[x]
    <3>1. i \in 1 .. n + 1 /\ n + 1 \in 1 .. n + 1 /\ i # n + 1 BY <1>1
    <3> QED BY <1>1, <1>2, <3>1 DEF Apart
  <2> QED BY <1>1, <2>2, <2>3 DEF Range
<1>3. ASSUME Apart(key, s), \A y \in Range(s) : key[y] # key[x] PROVE Apart(key, r)
  <2>1. ASSUME NEW i \in 1 .. n + 1, NEW j \in 1 .. n + 1, key[r[i]] = key[r[j]] PROVE i = j
    <3>1. \A k \in 1 .. n : key[s[k]] # key[x] BY <1>1, <1>3 DEF Range
    <3>2. (i \in 1 .. n \/ i = n + 1) /\ (j \in 1 .. n \/ j = n + 1) BY <1>1
    <3> QED BY <1>1, <1>3, <2>1, <3>1, <3>2 DEF Apart
  <2> QED BY <1>1, <2>1 DEF Apart
<1> QED BY <1>2, <1>3 DEF r

\* Picking keeps apart.
LEMMA PickedApart ==
  ASSUME NEW S, NEW T, NEW key, NEW s \in Seq(S), Apart(key, s)
  PROVE  Apart(key, Picked(s, T))
<1> DEFINE U == {r \in Seq(S) : Apart(key, r) => Apart(key, Picked(r, T))}
<1>1. <<>> \in U BY PickedEmpty DEF Apart
<1>2. ASSUME NEW r \in Seq(S), NEW x \in S, r \in U PROVE Append(r, x) \in U
  <2>1. Append(r, x) \in Seq(S) BY AppendIndexed
  <2>2. SUFFICES ASSUME Apart(key, Append(r, x)) PROVE Apart(key, Picked(Append(r, x), T))
    BY <2>1
  <2>3. Apart(key, r) /\ \A y \in Range(r) : key[y] # key[x] BY <2>2, ApartAppend
  <2>4. /\ Picked(r, T) \in Seq(S) /\ Apart(key, Picked(r, T))
        /\ \A y \in Range(Picked(r, T)) : key[y] # key[x]
    BY <1>2, <2>3, PickedRange
  <2>5. CASE x \in T
    <3>1. Apart(key, Append(Picked(r, T), x)) BY <2>4, ApartAppend
    <3> QED BY <2>5, <3>1, PickedAppend
  <2>6. CASE x \notin T BY <2>4, <2>6, PickedAppend
  <2> QED BY <2>5, <2>6
<1> HIDE DEF U
<1>3. s \in U BY <1>1, <1>2, SeqInduction
<1> QED BY <1>3 DEF U

\* Picking goes through concatenation.
LEMMA PickedConcat ==
  ASSUME NEW S, NEW T, NEW a \in Seq(S), NEW b \in Seq(S)
  PROVE  Picked(a \o b, T) = Picked(a, T) \o Picked(b, T)
<1> DEFINE U == {r \in Seq(S) : Picked(a \o r, T) = Picked(a, T) \o Picked(r, T)}
<1>0. Picked(a, T) \in Seq(S) BY PickedRange
<1>1. <<>> \in U BY <1>0, PickedEmpty, ConcatEmptySeq
<1>2. ASSUME NEW r \in Seq(S), NEW x \in S, r \in U PROVE Append(r, x) \in U
  <2>1. /\ <<x>> \in Seq(S) /\ Append(r, x) = r \o <<x>> /\ Append(r, x) \in Seq(S)
        /\ a \o r \in Seq(S) /\ Picked(r, T) \in Seq(S)
    BY AppendIsConcat, AppendProperties, ConcatProperties, PickedRange
  <2>2. a \o Append(r, x) = (a \o r) \o <<x>> BY <2>1, ConcatAssociative
  <2>3. a \o Append(r, x) = Append(a \o r, x) BY <2>1, <2>2, AppendIsConcat
  <2>4. Picked(a \o r, T) = Picked(a, T) \o Picked(r, T) BY <1>2
  <2>5. CASE x \in T
    <3>1. Picked(a \o Append(r, x), T) = Append(Picked(a, T) \o Picked(r, T), x)
      BY <2>1, <2>3, <2>4, <2>5, PickedAppend
    <3>2. Picked(a, T) \o Picked(r, T) \in Seq(S) BY <1>0, <2>1, ConcatProperties
    <3>3. Append(Picked(a, T) \o Picked(r, T), x) = (Picked(a, T) \o Picked(r, T)) \o <<x>>
      BY <3>2, AppendIsConcat
    <3>4. (Picked(a, T) \o Picked(r, T)) \o <<x>> = Picked(a, T) \o (Picked(r, T) \o <<x>>)
      <4>1. ASSUME NEW p \in Seq(S), NEW q \in Seq(S), NEW z \in Seq(S)
            PROVE  (p \o q) \o z = p \o (q \o z)
        BY ConcatAssociative, SMTT(30)
      <4> QED BY <1>0, <2>1, <4>1
    <3>5. Picked(r, T) \o <<x>> = Append(Picked(r, T), x) BY <2>1, AppendIsConcat
    <3>6. Picked(Append(r, x), T) = Append(Picked(r, T), x) BY <2>5, PickedAppend
    <3>7. Picked(a \o Append(r, x), T) = Picked(a, T) \o Picked(Append(r, x), T)
      BY <3>1, <3>3, <3>4, <3>5, <3>6
    <3> QED BY <2>1, <3>7
  <2>6. CASE x \notin T
    <3> DEFINE c == a \o r
    <3>0. c \in Seq(S) BY <2>1
    <3> HIDE DEF c
    <3>1. Picked(Append(c, x), T) = Picked(c, T) BY <2>6, <3>0, PickedAppend
    <3>2. Picked(Append(r, x), T) = Picked(r, T) BY <2>6, PickedAppend
    <3>3. Picked(a \o Append(r, x), T) = Picked(a, T) \o Picked(Append(r, x), T)
      BY <2>3, <2>4, <3>1, <3>2 DEF c
    <3> QED BY <2>1, <3>3
  <2> QED BY <2>5, <2>6
<1> HIDE DEF U
<1>3. b \in U BY <1>1, <1>2, SeqInduction
<1> QED BY <1>3 DEF U

-----------------------------------------------------------------------------
(* Clauses                                                                 *)

\* STRING: the provers do not know that a literal is one.
Texts == STRING \union FieldNames \union Operators \union {"(a list)", "(a complex list)"}
AnyClauses == [field : Texts, op : Texts, values : Seq(Texts)]

\* A clause that FilterClause accepts.
ValidClauses == [field : Texts, op : Operators, values : Seq(Texts)]

IsSeq(s) == s \in Seq(Range(s))

\* A sequence over a set is one over a larger set.
LEMMA SeqMonotone == ASSUME NEW A, NEW B, A \subseteq B, NEW s \in Seq(A) PROVE s \in Seq(B)
  OBVIOUS

\* A sequence over a set is a sequence of its elements.
LEMMA TypedIsSeq == ASSUME NEW S, NEW s \in Seq(S) PROVE IsSeq(s) /\ Range(s) \subseteq S
  BY SeqOfRange, RangeOfSeq DEF IsSeq

\* Short tuples are sequences.
LEMMA TupleIsSeq == ASSUME NEW x, NEW y PROVE IsSeq(<<>>) /\ IsSeq(<<x>>) /\ IsSeq(<<x, y>>)
<1>1. IsSeq(<<>>)
  <2>1. <<>> \in Seq({}) OBVIOUS
  <2> QED BY <2>1, TypedIsSeq
<1>2. IsSeq(<<x>>)
  <2>1. <<x>> \in Seq({x}) OBVIOUS
  <2> QED BY <2>1, TypedIsSeq
<1>3. IsSeq(<<x, y>>)
  <2>1. <<x, y>> \in Seq({x, y}) OBVIOUS
  <2> QED BY <2>1, TypedIsSeq
<1> QED BY <1>1, <1>2, <1>3

\* Sequences of any elements can be joined.
LEMMA FlattenIsSeq ==
  ASSUME NEW n \in Nat, NEW s, DOMAIN s = 1 .. n, IsSeq(s), \A i \in 1 .. n : IsSeq(s[i])
  PROVE  \E S : s \in Seq(Seq(S)) /\ FlattenSeq(s) \in Seq(S)
<1> DEFINE S == UNION {Range(s[i]) : i \in 1 .. n}
<1>1. ASSUME NEW i \in 1 .. n PROVE s[i] \in Seq(S)
  <2>1. Range(s[i]) \subseteq S OBVIOUS
  <2> HIDE DEF S
  <2> QED BY <2>1, SeqMonotone DEF IsSeq
<1> HIDE DEF S
<1>2. Range(s) \subseteq Seq(S) BY <1>1 DEF Range
<1>3. s \in Seq(Seq(S)) BY <1>2, SeqMonotone DEF IsSeq
<1> QED BY <1>3, FlattenType

\* Sanitising changes the values of a clause, and nothing else.
LEMMA FilterClauseShape ==
  ASSUME NEW fc \in AnyClauses
  PROVE  /\ FilterClause(fc) \in AnyClauses
         /\ FilterClause(fc).field = fc.field /\ FilterClause(fc).op = fc.op
<1> DEFINE values == [i \in DOMAIN fc.values |-> _sanitize_value(fc.values[i])]
<1>1. /\ fc = [field |-> fc.field, op |-> fc.op, values |-> fc.values]
      /\ fc.field \in Texts /\ fc.op \in Texts /\ fc.values \in Seq(Texts)
  BY DEF AnyClauses
<1>2. \A v \in Texts : _sanitize_value(v) \in Texts
  BY RewrittenAssumption DEF _sanitize_value, Texts
<1>3. values \in Seq(Texts)
  <2>1. /\ Len(fc.values) \in Nat /\ DOMAIN fc.values = 1 .. Len(fc.values)
        /\ \A i \in 1 .. Len(fc.values) : fc.values[i] \in Texts
    BY <1>1, LenProperties, ElementOfSeq
  <2>2. values = [i \in 1 .. Len(fc.values) |-> _sanitize_value(fc.values[i])] BY <2>1
  <2>3. \A i \in 1 .. Len(fc.values) : _sanitize_value(fc.values[i]) \in Texts BY <1>2, <2>1
  <2> HIDE DEF values
  <2> QED BY <2>1, <2>2, <2>3
<1>4. FilterClause(fc) = [fc EXCEPT !.values = values] BY DEF FilterClause
<1> HIDE DEF values
<1>5. ASSUME NEW z, z = [fc EXCEPT !.values = values]
      PROVE  z = [field |-> fc.field, op |-> fc.op, values |-> values]
  BY <1>1, <1>5
<1>6. FilterClause(fc) = [field |-> fc.field, op |-> fc.op, values |-> values] BY <1>4, <1>5
<1> QED BY <1>1, <1>3, <1>6 DEF AnyClauses

\* A fragment has a placeholder for each of its parameters.
Kinds == {"IS NULL", "IS NOT NULL", "=", "BETWEEN", "IN", "LIKE"} \union Operators

\* build_filter_clause keeps the field, and a NULL check has no parameter.
LEMMA ConditionShape ==
  ASSUME NEW fc \in ValidClauses
  PROVE  LET c == build_filter_clause(fc)
         IN  /\ c.field = fc.field
             /\ c.alias = FIELD_REGISTRY[fc.field].alias
             /\ IsSeq(c.params)
             /\ c.kind \in Kinds
             /\ c.kind \in {"IS NULL", "IS NOT NULL"} => c.params = <<>>
<1>1. fc.op \in Operators /\ fc.values \in Seq(Texts) BY DEF ValidClauses
<1>2. IsSeq(fc.values) BY <1>1, TypedIsSeq
<1> DEFINE c == build_filter_clause(fc)
           Nulls == {"IS NULL", "IS NOT NULL"}
           Goal == /\ c.field = fc.field /\ c.alias = FIELD_REGISTRY[fc.field].alias
                   /\ IsSeq(c.params) /\ c.kind \in Kinds /\ (c.kind \in Nulls => c.params = <<>>)
<1>3. ASSUME NEW kind \in Kinds, NEW params, IsSeq(params), kind \in Nulls => params = <<>>,
             c = Cond(fc, kind, params)
      PROVE  Goal
  <2>1. /\ Cond(fc, kind, params).field = fc.field
        /\ Cond(fc, kind, params).alias = FIELD_REGISTRY[fc.field].alias
        /\ Cond(fc, kind, params).kind = kind /\ Cond(fc, kind, params).params = params
    BY DEF Cond
  <2> HIDE DEF c
  <2> QED BY <1>3, <2>1
<1> DEFINE first == fc.values[1]
           type == FIELD_REGISTRY[fc.field].type
<1>4. /\ IsSeq(<<>>) /\ IsSeq(<<Coerced(first)>>) /\ IsSeq(<<first, fc.values[2]>>)
      /\ IsSeq(<<StatusId(first)>>) /\ IsSeq(<<first>>)
  BY TupleIsSeq
<1>5. /\ Operators \subseteq Kinds
      /\ \A k \in Operators \union {"=", "BETWEEN", "IN", "LIKE"} : k \in Kinds /\ k \notin Nulls
      /\ "IS NULL" \in Kinds /\ "IS NOT NULL" \in Kinds
  BY DEF Kinds, Operators
<1>6. c = IF first \in NULL_INDICATORS /\ fc.op = "eq" THEN Cond(fc, "IS NULL", <<>>)
          ELSE IF first \in NOT_NULL_INDICATORS /\ fc.op = "eq" THEN Cond(fc, "IS NOT NULL", <<>>)
          ELSE IF type = "boolean" THEN Cond(fc, "=", <<Coerced(first)>>)
          ELSE CASE fc.op = "between" -> Cond(fc, "BETWEEN", <<first, fc.values[2]>>)
                 [] fc.op = "in"      -> Cond(fc, "IN", fc.values)
                 [] fc.op = "eq"      -> IF fc.field = "status"
                                         THEN Cond(fc, "=", <<StatusId(first)>>)
                                         ELSE Cond(fc, IF type = "text" THEN "LIKE" ELSE "=", <<first>>)
                 [] OTHER             -> Cond(fc, fc.op, <<first>>)
  BY DEF build_filter_clause
<1> HIDE DEF c, first, type, Goal
<1>7. \/ c = Cond(fc, "IS NULL", <<>>) \/ c = Cond(fc, "IS NOT NULL", <<>>)
      \/ c = Cond(fc, "=", <<Coerced(first)>>) \/ c = Cond(fc, "BETWEEN", <<first, fc.values[2]>>)
      \/ c = Cond(fc, "IN", fc.values) \/ c = Cond(fc, "=", <<StatusId(first)>>)
      \/ c = Cond(fc, "LIKE", <<first>>) \/ c = Cond(fc, "=", <<first>>)
      \/ c = Cond(fc, fc.op, <<first>>)
  BY <1>1, <1>6 DEF Operators
<1>8. Goal
  <2>1. CASE c = Cond(fc, "IS NULL", <<>>) BY <1>3, <1>4, <1>5, <2>1
  <2>2. CASE c = Cond(fc, "IS NOT NULL", <<>>) BY <1>3, <1>4, <1>5, <2>2
  <2>3. CASE c = Cond(fc, "IN", fc.values)
    <3>1. "IN" \in Kinds /\ "IN" \notin Nulls BY <1>5
    <3> QED BY <1>2, <1>3, <2>3, <3>1
  <2>4. ASSUME NEW k \in Operators \union {"=", "BETWEEN", "IN", "LIKE"}, NEW p, IsSeq(p), c = Cond(fc, k, p)
        PROVE  Goal
    <3>1. k \in Kinds /\ k \notin Nulls BY <1>5
    <3> QED BY <1>3, <2>4, <3>1
  <2> QED BY <1>1, <1>4, <1>7, <2>1, <2>2, <2>3, <2>4
<1> QED BY <1>8 DEF Goal, c

-----------------------------------------------------------------------------
(* Compiling                                                               *)

\* The clauses that Applied keeps.
Applies(plan) ==
    {fc \in ValidClauses : /\ fc.field \in FieldNames
                           /\ ~Blank(fc.values)
                           /\ SkillParams(plan) = <<>> \/ ~IsSkill(fc)}

\* Applied picks clauses of the plan.
LEMMA AppliedPicked ==
  ASSUME NEW plan, plan.filters \in Seq(ValidClauses)
  PROVE  Applied(plan) = IF plan.intent \in SelfContained THEN <<>> ELSE Picked(plan.filters, Applies(plan))
<1> DEFINE fs == plan.filters
           applies(fc) == /\ fc.field \in FieldNames
                          /\ ~Blank(fc.values)
                          /\ SkillParams(plan) = <<>> \/ ~IsSkill(fc)
           parts == [i \in DOMAIN fs |-> IF applies(fs[i]) THEN <<fs[i]>> ELSE <<>>]
<1>1. ASSUME NEW i \in DOMAIN fs PROVE fs[i] \in Applies(plan) <=> applies(fs[i])
  <2>1. fs[i] \in ValidClauses BY LenProperties, ElementOfSeq
  <2> QED BY <2>1 DEF Applies
<1>2. parts = Parts(fs, Applies(plan)) BY <1>1 DEF Parts
<1>3. Applied(plan) = IF plan.intent \in SelfContained THEN <<>> ELSE FlattenSeq(parts)
  BY DEF Applied, Keep
<1> HIDE DEF parts
<1> QED BY <1>2, <1>3 DEF Picked

\* They are clauses of the plan, and apply.
LEMMA AppliedType ==
  ASSUME NEW plan, plan.filters \in Seq(ValidClauses)
  PROVE  /\ Applied(plan) \in Seq(ValidClauses)
         /\ Range(Applied(plan)) \subseteq Range(plan.filters) \cap Applies(plan)
<1>1. /\ Picked(plan.filters, Applies(plan)) \in Seq(ValidClauses)
      /\ Range(Picked(plan.filters, Applies(plan))) \subseteq Range(plan.filters) \cap Applies(plan)
  BY PickedRange
<1>2. <<>> \in Seq(ValidClauses) /\ Range(<<>>) = {} BY EmptySeq DEF Range
<1> QED BY <1>1, <1>2, AppliedPicked

\* The conditions of a plan, and the values of its filters.
Conditions(plan) == [i \in DOMAIN Applied(plan) |-> build_filter_clause(Applied(plan)[i])]
FilterValues(plan) == FlattenSeq([i \in DOMAIN Conditions(plan) |-> Conditions(plan)[i].params])

\* There is a condition for each of them.
LEMMA ConditionsType ==
  ASSUME NEW plan, plan.filters \in Seq(ValidClauses)
  PROVE  /\ Len(Applied(plan)) \in Nat
         /\ DOMAIN Applied(plan) = 1 .. Len(Applied(plan))
         /\ DOMAIN Conditions(plan) = 1 .. Len(Applied(plan))
         /\ \A i \in 1 .. Len(Applied(plan)) :
               /\ Applied(plan)[i] \in Range(plan.filters) \cap Applies(plan)
               /\ Applied(plan)[i] \in ValidClauses
               /\ Conditions(plan)[i] = build_filter_clause(Applied(plan)[i])
<1>1. /\ Applied(plan) \in Seq(ValidClauses)
      /\ Range(Applied(plan)) \subseteq Range(plan.filters) \cap Applies(plan)
  BY AppliedType
<1>2. Len(Applied(plan)) \in Nat /\ DOMAIN Applied(plan) = 1 .. Len(Applied(plan))
  BY <1>1, LenProperties
<1>3. ASSUME NEW i \in 1 .. Len(Applied(plan))
      PROVE  Applied(plan)[i] \in Range(plan.filters) \cap Applies(plan)
  BY <1>1, <1>2 DEF Range
<1> QED BY <1>2, <1>3 DEF Conditions, Applies

\* The values of all conditions are one sequence.
LEMMA FilterValuesType ==
  ASSUME NEW plan, plan.filters \in Seq(ValidClauses)
  PROVE  \E S : FilterValues(plan) \in Seq(S)
<1> DEFINE n == Len(Applied(plan))
           s == [i \in DOMAIN Conditions(plan) |-> Conditions(plan)[i].params]
<1>1. n \in Nat /\ DOMAIN Conditions(plan) = 1 .. n BY ConditionsType
<1>2. ASSUME NEW i \in 1 .. n PROVE IsSeq(s[i])
  BY <1>1, ConditionsType, ConditionShape
<1>3. DOMAIN s = 1 .. n BY <1>1
<1>4. IsSeq(s)
  <2>1. s \in Seq(Range(s)) BY <1>1 DEF Range
  <2> QED BY <2>1 DEF IsSeq
<1>5. FilterValues(plan) = FlattenSeq(s) BY DEF FilterValues
<1> HIDE DEF s, n
<1> QED BY <1>1, <1>2, <1>3, <1>4, <1>5, FlattenIsSeq

\* Bound parameters have the use they are bound for.
LEMMA BoundType ==
  ASSUME NEW S, NEW s \in Seq(S), NEW use
  PROVE  /\ Bound(use, s) \in Seq([use : {use}, value : S])
         /\ Len(Bound(use, s)) = Len(s)
         /\ \A i \in 1 .. Len(s) : Bound(use, s)[i].use = use /\ Bound(use, s)[i].value = s[i]
<1>1. Len(s) \in Nat /\ DOMAIN s = 1 .. Len(s) /\ \A i \in 1 .. Len(s) : s[i] \in S
  BY LenProperties, ElementOfSeq
<1>2. Bound(use, s) = [i \in 1 .. Len(s) |-> [use |-> use, value |-> s[i]]] BY <1>1 DEF Bound
<1> QED BY <1>1, <1>2

\* The lists of values compile_query puts before those of the filters.
LEMMA LeadingType ==
  ASSUME NEW plan
  PROVE  (\E S : SkillParams(plan) \in Seq(S)) /\ (\E S : ReportsToParams(plan) \in Seq(S))
<1>1. ASSUME NEW n \in Nat, NEW v PROVE [i \in 1 .. n |-> v] \in Seq({v}) OBVIOUS
<1>2. \A v : <<v>> \in Seq({v}) OBVIOUS
<1>3. \E S : SkillParams(plan) \in Seq(S)
  <2> DEFINE v == Keep(plan.filters, IsSkill)[1].values[1]
  <2>1. \/ SkillParams(plan) = <<>>
        \/ SkillParams(plan) = [i \in 1 .. 3 |-> v]
        \/ SkillParams(plan) = [i \in 1 .. 4 |-> v]
    BY DEF SkillParams
  <2> HIDE DEF v
  <2>2. [i \in 1 .. 3 |-> v] \in Seq({v}) /\ [i \in 1 .. 4 |-> v] \in Seq({v}) BY <1>1
  <2> QED BY <2>1, <2>2, EmptySeq
<1>4. \E S : ReportsToParams(plan) \in Seq(S)
  <2> DEFINE v == Keep(plan.filters, LAMBDA fc : fc.field = "resource_name")[1].values[1]
  <2>1. ReportsToParams(plan) \in {<<>>, <<v>>, <<"%">>} BY DEF ReportsToParams
  <2> HIDE DEF v
  <2> QED BY <1>2, <2>1, EmptySeq
<1> QED BY <1>3, <1>4

-----------------------------------------------------------------------------
(* Merging                                                                 *)

\* The recursive function inside Merged.
Placements(m, all, k, n) ==
    m = [i \in 0 .. n |-> IF i = 0 THEN <<>> ELSE Placed(m[i - 1], all[i], i <= k)]

\* One clause more is placed.
LEMMA PlacementsStep ==
  ASSUME NEW m, NEW all, NEW k, NEW n \in Nat, Placements(m, all, k, n), NEW i \in 0 .. n
  PROVE  m[i] = IF i = 0 THEN <<>> ELSE Placed(m[i - 1], all[i], i <= k)
<1> DEFINE g == [j \in 0 .. n |-> IF j = 0 THEN <<>> ELSE Placed(m[j - 1], all[j], j <= k)]
<1>1. m = g BY DEF Placements
<1>2. g[i] = IF i = 0 THEN <<>> ELSE Placed(m[i - 1], all[i], i <= k) OBVIOUS
<1> QED BY ONLY <1>1, <1>2

\* The recursive function of Merged exists.
LEMMA PlacementsExist ==
  ASSUME NEW all, NEW k, NEW n \in Nat PROVE \E m : Placements(m, all, k, n)
<1> DEFINE T == {l \in Nat : \E m : Placements(m, all, k, l)}
<1>1. 0 \in T
  <2> DEFINE m == [i \in 0 .. 0 |-> <<>>]
  <2>1. Placements(m, all, k, 0) BY DEF Placements
  <2> QED BY <2>1
<1>2. ASSUME NEW l \in Nat, l \in T PROVE l + 1 \in T
  <2>1. PICK m : Placements(m, all, k, l) BY <1>2
  <2> DEFINE next == Placed(m[l], all[l + 1], l + 1 <= k)
             g == [i \in 0 .. l + 1 |-> IF i <= l THEN m[i] ELSE next]
             step(i) == IF i = 0 THEN <<>> ELSE Placed(g[i - 1], all[i], i <= k)
  <2>2. ASSUME NEW i \in 0 .. l + 1 PROVE g[i] = step(i)
    <3>1. CASE i <= l
      <4>1. i \in 0 .. l /\ (i # 0 => i - 1 \in 0 .. l + 1 /\ i - 1 <= l) BY <3>1
      <4>2. m[i] = IF i = 0 THEN <<>> ELSE Placed(m[i - 1], all[i], i <= k)
        BY <2>1, <4>1, PlacementsStep
      <4>3. g[i] = m[i] /\ (i # 0 => g[i - 1] = m[i - 1]) BY <3>1, <4>1
      <4> HIDE DEF g
      <4> QED BY <4>2, <4>3
    <3>2. CASE i = l + 1
      <4>1. i # 0 /\ i - 1 = l /\ l \in 0 .. l + 1 /\ l <= l /\ ~(i <= l) BY <3>2
      <4>2. g[i] = next /\ g[l] = m[l] BY <4>1
      <4> HIDE DEF g
      <4> QED BY <3>2, <4>1, <4>2
    <3> QED BY <3>1, <3>2
  <2> HIDE DEF g
  <2>3. g = [i \in 0 .. l + 1 |-> step(i)]
    <3>1. g = [i \in 0 .. l + 1 |-> g[i]] BY DEF g
    <3> QED BY <2>2, <3>1
  <2>4. Placements(g, all, k, l + 1) BY <2>3 DEF Placements
  <2> QED BY <2>4
<1> HIDE DEF T
<1>3. n \in T BY <1>1, <1>2, SetInduction
<1> QED BY <1>3 DEF T

\* What a clause of a field may be combined with.
LEMMA CombinedShape ==
  ASSUME NEW old \in AnyClauses, NEW new \in AnyClauses, old.field = new.field
  PROVE  /\ Combined(old, new) \in AnyClauses
         /\ Combined(old, new).field = new.field
         /\ Range(Combined(old, new).values) =
              IF FIELD_REGISTRY[old.field].multi THEN Range(old.values) \union Range(new.values)
              ELSE Range(new.values)
<1> DEFINE seen(i) == new.values[i] \in Range(old.values) \union {new.values[j] : j \in 1 .. i - 1}
           parts == [i \in DOMAIN new.values |-> IF seen(i) THEN <<>> ELSE <<new.values[i]>>]
           more == FlattenSeq(parts)
           n == Len(new.values)
<1>1. /\ old.values \in Seq(Texts) /\ new.values \in Seq(Texts) /\ new.field \in Texts
      /\ old = [field |-> old.field, op |-> old.op, values |-> old.values] /\ old.op \in Texts
  BY DEF AnyClauses
<1>2. /\ n \in Nat /\ DOMAIN new.values = 1 .. n /\ \A i \in 1 .. n : new.values[i] \in Texts
  BY <1>1, LenProperties, ElementOfSeq
<1>3. parts \in Seq(Seq(Texts)) /\ Range(parts) = {parts[i] : i \in 1 .. n}
  <2>1. \A v \in Texts : <<v>> \in Seq(Texts) OBVIOUS
  <2>2. <<>> \in Seq(Texts) BY EmptySeq
  <2>3. parts \in [1 .. n -> Seq(Texts)] BY <1>2, <2>1, <2>2
  <2> HIDE DEF parts, n
  <2>4. parts \in Seq(Seq(Texts)) BY <1>2, <2>3
  <2>5. DOMAIN parts = 1 .. n BY <2>3
  <2> QED BY <2>4, <2>5 DEF Range
<1>4. more \in Seq(Texts) /\ Range(more) = UNION {Range(x) : x \in Range(parts)}
  BY <1>3, FlattenType, FlattenRange
<1>5. \A i \in 1 .. n : Range(parts[i]) = IF seen(i) THEN {} ELSE {new.values[i]}
  <2>1. ASSUME NEW v PROVE Range(<<v>>) = {v} /\ Range(<<>>) = {} BY DEF Range
  <2> QED BY <1>2, <2>1
<1>6. Range(old.values) \union Range(more) = Range(old.values) \union Range(new.values)
  <2> DEFINE all == Range(old.values) \union Range(more)
             T == {k \in Nat : \A i \in 1 .. n : i <= k => new.values[i] \in all}
  <2>1. 0 \in T OBVIOUS
  <2>2. ASSUME NEW k \in Nat, k \in T PROVE k + 1 \in T
    <3>1. SUFFICES ASSUME k + 1 \in 1 .. n PROVE new.values[k + 1] \in all
      <4> HIDE DEF all
      <4>1. ASSUME NEW i \in 1 .. n, i <= k + 1 PROVE i <= k \/ (i = k + 1 /\ k + 1 \in 1 .. n)
        BY <1>2, <4>1
      <4>2. \A i \in 1 .. n : i <= k => new.values[i] \in all BY <2>2
      <4> HIDE DEF n
      <4>3. (k + 1 \in 1 .. n => new.values[k + 1] \in all) => k + 1 \in T BY <4>1, <4>2
      <4> QED BY <4>3
    <3> DEFINE i == k + 1
    <3>0. i \in 1 .. n BY <3>1
    <3> HIDE DEF i
    <3>2. CASE seen(i)
      <4>1. CASE new.values[i] \in Range(old.values) BY <4>1 DEF i
      <4>2. CASE \E j \in 1 .. i - 1 : new.values[i] = new.values[j]
        <5>1. PICK j \in 1 .. i - 1 : new.values[i] = new.values[j] BY <4>2
        <5>2. j \in 1 .. n /\ j <= k BY <3>0 DEF i
        <5>3. new.values[j] \in all BY <2>2, <5>2
        <5> HIDE DEF all
        <5> QED BY <5>1, <5>3 DEF i
      <4> HIDE DEF all, T
      <4> QED BY <3>2, <4>1, <4>2
    <3>3. CASE ~seen(i)
      <4>1. Range(parts[i]) = {new.values[i]} BY <1>5, <3>0, <3>3
      <4>2. parts[i] \in Range(parts) BY <1>3, <3>0
      <4> HIDE DEF parts, more
      <4> QED BY <1>4, <4>1, <4>2 DEF i
    <3> QED BY <3>2, <3>3
  <2> HIDE DEF T
  <2>3. n \in T BY <1>2, <2>1, <2>2, SetInduction
  <2>4. Range(new.values) \subseteq all
    <3> HIDE DEF all
    <3>1. \A i \in 1 .. n : i <= n BY <1>2
    <3> HIDE DEF n
    <3> QED BY <1>2, <2>3, <3>1 DEF T, Range
  <2>5. Range(more) \subseteq Range(new.values)
    <3> HIDE DEF more
    <3>1. ASSUME NEW i \in 1 .. n PROVE Range(parts[i]) \subseteq Range(new.values)
      BY <1>2, <1>5 DEF Range
    <3> HIDE DEF parts
    <3> QED BY <1>3, <1>4, <3>1
  <2> QED BY <2>4, <2>5
<1>7. Combined(old, new) = IF ~FIELD_REGISTRY[old.field].multi THEN new
                           ELSE [old EXCEPT !.values = old.values \o more]
  BY DEF Combined
<1>8. ASSUME FIELD_REGISTRY[old.field].multi
      PROVE  /\ [old EXCEPT !.values = old.values \o more] \in AnyClauses
             /\ [old EXCEPT !.values = old.values \o more].field = new.field
             /\ Range([old EXCEPT !.values = old.values \o more].values)
                  = Range(old.values) \union Range(new.values)
  <2> DEFINE both == old.values \o more
  <2>1. /\ both \in Seq(Texts)
        /\ Range(both) = Range(old.values) \union Range(more)
    <3>1. old.values \in Seq(Texts) /\ more \in Seq(Texts) BY <1>1, <1>4
    <3> HIDE DEF more
    <3>2. both \in Seq(Texts) BY <3>1, ConcatProperties
    <3>3. Range(both) = Range(old.values) \union Range(more) BY <3>1, RangeConcatenation
    <3> QED BY <3>2, <3>3
  <2> HIDE DEF both, more
  <2>2. [old EXCEPT !.values = both] = [field |-> old.field, op |-> old.op, values |-> both] BY <1>1
  <2>3. /\ [old EXCEPT !.values = both] \in AnyClauses
        /\ [old EXCEPT !.values = both].field = new.field
        /\ [old EXCEPT !.values = both].values = both
    BY <1>1, <2>1, <2>2 DEF AnyClauses
  <2> QED BY <1>6, <2>1, <2>3 DEF both
<1> HIDE DEF more
<1> QED BY <1>7, <1>8

\* Placing keeps the fields there are, and adds a clause of another.
LEMMA PlacedShape ==
  ASSUME NEW s \in Seq(AnyClauses), NEW fc \in AnyClauses, NEW old \in BOOLEAN
  PROVE  /\ Placed(s, fc, old) \in Seq(AnyClauses)
         /\ ~Mentions(s, fc.field) => Placed(s, fc, old) = Append(s, fc)
         /\ Mentions(s, fc.field) =>
              /\ DOMAIN Placed(s, fc, old) = DOMAIN s
              /\ \A i \in DOMAIN s :
                   LET c == Placed(s, fc, old)[i]
                   IN  /\ c \in AnyClauses
                       /\ c.field = s[i].field
                       /\ s[i].field # fc.field => c = s[i]
                       /\ s[i].field = fc.field =>
                            Range(c.values) = IF ~old /\ FIELD_REGISTRY[fc.field].multi
                                              THEN Range(s[i].values) \union Range(fc.values)
                                              ELSE Range(fc.values)
<1>1. Len(s) \in Nat /\ DOMAIN s = 1 .. Len(s) /\ \A i \in DOMAIN s : s[i] \in AnyClauses
  BY LenProperties, ElementOfSeq
<1>2. CASE ~Mentions(s, fc.field) BY <1>2, AppendProperties DEF Placed
<1>3. CASE Mentions(s, fc.field)
  <2> DEFINE c(i) == IF s[i].field # fc.field THEN s[i]
                     ELSE IF old THEN fc ELSE Combined(s[i], fc)
  <2>1. Placed(s, fc, old) = [i \in DOMAIN s |-> c(i)] BY <1>3 DEF Placed
  <2>2. ASSUME NEW i \in DOMAIN s
        PROVE  /\ c(i) \in AnyClauses
               /\ c(i).field = s[i].field
               /\ s[i].field # fc.field => c(i) = s[i]
               /\ s[i].field = fc.field =>
                    Range(c(i).values) = IF ~old /\ FIELD_REGISTRY[fc.field].multi
                                         THEN Range(s[i].values) \union Range(fc.values)
                                         ELSE Range(fc.values)
    <3>1. s[i] \in AnyClauses BY <1>1
    <3>2. CASE s[i].field # fc.field BY <3>1, <3>2
    <3>3. CASE s[i].field = fc.field /\ old BY <3>3
    <3>4. CASE s[i].field = fc.field /\ ~old BY <3>1, <3>4, CombinedShape
    <3> QED BY <3>2, <3>3, <3>4
  <2> HIDE DEF c
  <2>3. [i \in DOMAIN s |-> c(i)] \in Seq(AnyClauses)
    <3>1. [i \in DOMAIN s |-> c(i)] \in [1 .. Len(s) -> AnyClauses] BY <1>1, <2>2
    <3> QED BY <1>1, <3>1
  <2> QED BY <1>3, <2>1, <2>2, <2>3
<1> QED BY <1>2, <1>3

\* The fields of a list of clauses, and the values it has for one of them.
FieldsIn(s) == {s[i].field : i \in DOMAIN s}
ValuesOf(s, f) == UNION {Range(s[i].values) : i \in {j \in DOMAIN s : s[j].field = f}}
FieldOf == [fc \in AnyClauses |-> fc.field]

\* Clauses are apart when no field is twice among them.
LEMMA ApartFields ==
  ASSUME NEW s \in Seq(AnyClauses)
  PROVE  /\ Len(s) \in Nat /\ DOMAIN s = 1 .. Len(s) /\ \A i \in DOMAIN s : s[i] \in AnyClauses
         /\ Apart(FieldOf, s) <=> \A i, j \in DOMAIN s : s[i].field = s[j].field => i = j
<1>1. Len(s) \in Nat /\ DOMAIN s = 1 .. Len(s) /\ \A i \in DOMAIN s : s[i] \in AnyClauses
  BY LenProperties, ElementOfSeq
<1>2. \A i \in DOMAIN s : FieldOf[s[i]] = s[i].field BY <1>1 DEF FieldOf
<1> QED BY <1>1, <1>2 DEF Apart

\* What placing a clause does to the fields and the values of a plan.
LEMMA PlacedMeaning ==
  ASSUME NEW s \in Seq(AnyClauses), NEW fc \in AnyClauses, NEW old \in BOOLEAN, Apart(FieldOf, s)
  PROVE  LET p == Placed(s, fc, old)
         IN  /\ p \in Seq(AnyClauses)
             /\ Apart(FieldOf, p)
             /\ FieldsIn(p) = FieldsIn(s) \union {fc.field}
             /\ \A f : f # fc.field => ValuesOf(p, f) = ValuesOf(s, f)
             /\ ValuesOf(p, fc.field) =
                  IF ~old /\ FIELD_REGISTRY[fc.field].multi
                  THEN ValuesOf(s, fc.field) \union Range(fc.values) ELSE Range(fc.values)
<1> DEFINE p == Placed(s, fc, old)
           n == Len(s)
<1>1. /\ n \in Nat /\ DOMAIN s = 1 .. n /\ \A i \in DOMAIN s : s[i] \in AnyClauses
      /\ \A i, j \in DOMAIN s : s[i].field = s[j].field => i = j
  BY ApartFields
<1>2. p \in Seq(AnyClauses) BY PlacedShape
<1>3. CASE ~Mentions(s, fc.field)
  <2>1. p = Append(s, fc) BY <1>3, PlacedShape
  <2>2. /\ DOMAIN p = 1 .. n + 1 /\ p[n + 1] = fc
        /\ \A i \in 1 .. n : p[i] = s[i]
    BY <2>1, AppendIndexed
  <2>3. \A i \in 1 .. n : s[i].field # fc.field BY <1>1, <1>3 DEF Mentions
  <2> HIDE DEF p, n
  <2>4. Apart(FieldOf, p)
    <3>1. ASSUME NEW i \in 1 .. n + 1, NEW j \in 1 .. n + 1, p[i].field = p[j].field PROVE i = j
      <4>1. (i \in 1 .. n \/ i = n + 1) /\ (j \in 1 .. n \/ j = n + 1) BY <1>1
      <4> QED BY <1>1, <2>2, <2>3, <3>1, <4>1
    <3> QED BY <1>2, <2>2, <3>1, ApartFields
  <2>5. FieldsIn(p) = FieldsIn(s) \union {fc.field}
    <3>1. n + 1 \in 1 .. n + 1 /\ \A i \in 1 .. n + 1 : i \in 1 .. n \/ i = n + 1 BY <1>1
    <3>2. \A i \in 1 .. n : i \in 1 .. n + 1 BY <1>1
    <3> QED BY <1>1, <2>2, <3>1, <3>2 DEF FieldsIn
  <2>6. ASSUME NEW f PROVE {j \in DOMAIN p : p[j].field = f} =
             {j \in DOMAIN s : s[j].field = f} \union (IF f = fc.field THEN {n + 1} ELSE {})
    <3>1. n + 1 \in 1 .. n + 1 /\ \A i \in 1 .. n + 1 : i \in 1 .. n \/ i = n + 1 BY <1>1
    <3>2. \A i \in 1 .. n : i \in 1 .. n + 1 BY <1>1
    <3> QED BY <1>1, <2>2, <3>1, <3>2
  <2>7. ASSUME NEW f, f # fc.field PROVE ValuesOf(p, f) = ValuesOf(s, f)
    <3>1. {j \in DOMAIN p : p[j].field = f} = {j \in DOMAIN s : s[j].field = f} BY <2>6, <2>7
    <3> QED BY <1>1, <2>2, <3>1 DEF ValuesOf
  <2>8. {j \in DOMAIN s : s[j].field = fc.field} = {} BY <1>1, <2>3
  <2>9. {j \in DOMAIN p : p[j].field = fc.field} = {n + 1} BY <2>6, <2>8
  <2>10. ValuesOf(s, fc.field) = {} BY <2>8 DEF ValuesOf
  <2>11. ValuesOf(p, fc.field) = Range(fc.values) BY <2>2, <2>9 DEF ValuesOf
  <2> QED BY <1>2, <2>4, <2>5, <2>7, <2>10, <2>11 DEF p
<1>4. CASE Mentions(s, fc.field)
  <2> DEFINE multi == FIELD_REGISTRY[fc.field].multi
  <2>1. /\ DOMAIN p = DOMAIN s
        /\ \A i \in DOMAIN s :
             /\ p[i].field = s[i].field
             /\ s[i].field # fc.field => p[i] = s[i]
             /\ s[i].field = fc.field =>
                  Range(p[i].values) = IF ~old /\ multi THEN Range(s[i].values) \union Range(fc.values)
                                       ELSE Range(fc.values)
    BY <1>4, PlacedShape
  <2> HIDE DEF p, n, multi
  <2>2. Apart(FieldOf, p) BY <1>1, <1>2, <2>1, ApartFields
  <2>3. PICK k \in DOMAIN s : s[k].field = fc.field BY <1>4 DEF Mentions
  <2>4. FieldsIn(p) = FieldsIn(s) \union {fc.field} BY <2>1, <2>3 DEF FieldsIn
  <2>5. \A f : {j \in DOMAIN p : p[j].field = f} = {j \in DOMAIN s : s[j].field = f} BY <2>1
  <2>6. ASSUME NEW f, f # fc.field PROVE ValuesOf(p, f) = ValuesOf(s, f)
    BY <2>1, <2>5, <2>6 DEF ValuesOf
  <2>7. {j \in DOMAIN s : s[j].field = fc.field} = {k} BY <1>1, <2>3
  <2>8. ValuesOf(s, fc.field) = Range(s[k].values) /\ ValuesOf(p, fc.field) = Range(p[k].values)
    BY <2>5, <2>7 DEF ValuesOf
  <2>9. ValuesOf(p, fc.field) = IF ~old /\ multi THEN ValuesOf(s, fc.field) \union Range(fc.values)
                                ELSE Range(fc.values)
    BY <2>1, <2>3, <2>8
  <2> QED BY <1>2, <2>2, <2>4, <2>6, <2>9 DEF p, multi
<1> QED BY <1>3, <1>4

\* The clauses update_query_plan places, one after the other.
Sources(domain, filters, new) == filters \o Picked(new, {fc \in AnyClauses : Registered(fc.field, domain)})

\* Merged is the last of its placements.
LEMMA MergedPlaces ==
  ASSUME NEW domain, NEW filters \in Seq(AnyClauses), NEW new \in Seq(AnyClauses)
  PROVE  LET all == Sources(domain, filters, new)
         IN  /\ all \in Seq(AnyClauses)
             /\ \E m : Placements(m, all, Len(filters), Len(all))
                       /\ Merged(domain, filters, new) = m[Len(all)]
<1> DEFINE T == {fc \in AnyClauses : Registered(fc.field, domain)}
           parts == [i \in DOMAIN new |-> IF Registered(new[i].field, domain) THEN <<new[i]>> ELSE <<>>]
           all == Sources(domain, filters, new)
           m == CHOOSE g : Placements(g, all, Len(filters), Len(all))
<1>1. \A i \in DOMAIN new : new[i] \in T <=> Registered(new[i].field, domain)
  BY LenProperties, ElementOfSeq
<1>2. parts = Parts(new, T) BY <1>1 DEF Parts
<1>3. Keep(new, LAMBDA fc : Registered(fc.field, domain)) = FlattenSeq(parts) BY DEF Keep
<1> HIDE DEF parts
<1>4. Keep(new, LAMBDA fc : Registered(fc.field, domain)) = Picked(new, T) BY <1>2, <1>3 DEF Picked
<1>5. Picked(new, T) \in Seq(AnyClauses) BY PickedRange
<1>6. all \in Seq(AnyClauses)
  <2> HIDE DEF T
  <2>1. filters \o Picked(new, T) \in Seq(AnyClauses) BY <1>5, ConcatProperties
  <2> QED BY <2>1 DEF Sources, T
<1>7. Merged(domain, filters, new) = m[Len(all)]
  <2> DEFINE kept == Keep(new, LAMBDA fc : Registered(fc.field, domain))
  <2>1. all = filters \o kept BY <1>4 DEF Sources
  <2>2. Merged(domain, filters, new) =
          LET merged[n \in 0 .. Len(filters \o kept)] ==
                IF n = 0 THEN <<>> ELSE Placed(merged[n - 1], (filters \o kept)[n], n <= Len(filters))
          IN  merged[Len(filters \o kept)]
    BY DEF Merged
  <2> HIDE DEF kept, all
  <2> QED BY <2>1, <2>2 DEF Placements
<1>8. Len(all) \in Nat BY <1>6, LenProperties
<1> HIDE DEF all
<1>9. Placements(m, all, Len(filters), Len(all)) BY <1>8, PlacementsExist
<1> QED BY <1>6, <1>7, <1>9 DEF all

\* The clauses among the first n that decide what is wanted of a field f, when
\* those up to k are old.
Deciding(all, k, n, f) ==
    {j \in 1 .. n : /\ all[j].field = f
                    /\ \/ FIELD_REGISTRY[f].multi
                       \/ j > k
                       \/ \A l \in k + 1 .. n : all[l].field # f}
Decided(all, k, n, f) == UNION {Range(all[j].values) : j \in Deciding(all, k, n, f)}

\* A further clause adds itself to those that decide, or takes their place.
LEMMA DecidingStep ==
  ASSUME NEW all, NEW k \in Nat, NEW n \in Nat,
         \A i, j \in 1 .. n + 1 : (i <= k <=> j <= k) /\ all[i].field = all[j].field => i = j
  PROVE  LET f == all[n + 1].field
         IN  /\ Deciding(all, k, n + 1, f) =
                  {n + 1} \union (IF n + 1 > k /\ FIELD_REGISTRY[f].multi THEN Deciding(all, k, n, f) ELSE {})
             /\ \A g : g # f => Deciding(all, k, n + 1, g) = Deciding(all, k, n, g)
<1> DEFINE f == all[n + 1].field
<1>1. /\ n + 1 \in 1 .. n + 1
      /\ \A j \in 1 .. n + 1 : j \in 1 .. n \/ j = n + 1
      /\ \A j \in 1 .. n : j \in 1 .. n + 1 /\ j # n + 1
      /\ \A l \in k + 1 .. n + 1 : (l \in k + 1 .. n \/ l = n + 1) /\ l \in 1 .. n + 1
      /\ \A l \in k + 1 .. n : l \in k + 1 .. n + 1
      /\ n + 1 > k => n + 1 \in k + 1 .. n + 1
      /\ n + 1 <= k => k + 1 .. n + 1 = {}
  OBVIOUS
<1>2. ASSUME NEW g, g # f PROVE Deciding(all, k, n + 1, g) = Deciding(all, k, n, g)
  <2>1. all[n + 1].field # g BY <1>2
  <2> HIDE DEF f
  <2>2. (\A l \in k + 1 .. n + 1 : all[l].field # g) <=> (\A l \in k + 1 .. n : all[l].field # g)
    BY <1>1, <2>1
  <2> QED BY <1>1, <2>1, <2>2 DEF Deciding
<1>3. n + 1 \in Deciding(all, k, n + 1, f)
  <2>1. CASE n + 1 > k BY <1>1, <2>1 DEF Deciding
  <2>2. CASE n + 1 <= k BY <1>1, <2>2 DEF Deciding
  <2> QED BY <2>1, <2>2
<1>4. CASE n + 1 <= k
  <2>1. ASSUME NEW j \in Deciding(all, k, n + 1, f) PROVE j = n + 1
    <3>1. j \in 1 .. n + 1 /\ all[j].field = all[n + 1].field BY <2>1 DEF Deciding
    <3>2. j <= k BY <1>4, <3>1
    <3> QED BY <1>1, <1>4, <3>1, <3>2
  <2>2. ~(n + 1 > k) BY <1>4
  <2> QED BY <1>2, <1>3, <2>1, <2>2
<1>5. CASE n + 1 > k /\ FIELD_REGISTRY[f].multi
  <2> HIDE DEF f
  <2>1. ASSUME NEW j \in 1 .. n
        PROVE  j \in Deciding(all, k, n + 1, f) <=> j \in Deciding(all, k, n, f)
    BY <1>1, <1>5 DEF Deciding
  <2>2. \A j \in Deciding(all, k, n, f) : j \in 1 .. n BY DEF Deciding
  <2>3. \A j \in Deciding(all, k, n + 1, f) : j \in 1 .. n \/ j = n + 1 BY <1>1 DEF Deciding
  <2>4. Deciding(all, k, n + 1, f) = {n + 1} \union Deciding(all, k, n, f)
    BY <1>3, <2>1, <2>2, <2>3
  <2> QED BY <1>2, <1>5, <2>4 DEF f
<1>6. CASE n + 1 > k /\ ~FIELD_REGISTRY[f].multi
  <2>1. ASSUME NEW j \in Deciding(all, k, n + 1, f) PROVE j = n + 1
    <3>1. j \in 1 .. n + 1 /\ all[j].field = all[n + 1].field BY <2>1 DEF Deciding
    <3>2. j > k BY <1>1, <1>6, <2>1 DEF Deciding
    <3>3. (j <= k) <=> (n + 1 <= k) BY <1>6, <3>1, <3>2
    <3> QED BY <1>1, <3>1, <3>3
  <2> QED BY <1>2, <1>3, <1>6, <2>1
<1> QED BY <1>4, <1>5, <1>6

\* Placing all clauses: one clause per field, and what each field gets.
LEMMA PlacementsMeaning ==
  ASSUME NEW all \in Seq(AnyClauses), NEW k \in Nat, NEW m, Placements(m, all, k, Len(all))
  PROVE  LET p == m[Len(all)]
         IN  /\ p \in Seq(AnyClauses) /\ Apart(FieldOf, p) /\ FieldsIn(p) = FieldsIn(all)
             /\ (\A i, j \in 1 .. Len(all) :
                    (i <= k <=> j <= k) /\ all[i].field = all[j].field => i = j)
                => \A f : ValuesOf(p, f) = Decided(all, k, Len(all), f)
<1> DEFINE L == Len(all)
           Separate == \A i, j \in 1 .. L : (i <= k <=> j <= k) /\ all[i].field = all[j].field => i = j
           Good(n) == /\ m[n] \in Seq(AnyClauses) /\ Apart(FieldOf, m[n])
                      /\ FieldsIn(m[n]) = {all[i].field : i \in 1 .. n}
                      /\ Separate => \A f : ValuesOf(m[n], f) = Decided(all, k, n, f)
           T == {n \in Nat : n <= L => Good(n)}
<1>1. L \in Nat /\ DOMAIN all = 1 .. L /\ \A i \in 1 .. L : all[i] \in AnyClauses
  BY LenProperties, ElementOfSeq
<1> HIDE DEF L
<1>2. Placements(m, all, k, L) BY DEF L
<1>3. Good(0)
  <2>1. m[0] = <<>> BY <1>1, <1>2, PlacementsStep
  <2>2. <<>> \in Seq(AnyClauses) /\ Apart(FieldOf, <<>>) /\ FieldsIn(<<>>) = {}
    BY EmptySeq DEF Apart, FieldsIn
  <2>3. \A f : ValuesOf(<<>>, f) = {} BY DEF ValuesOf
  <2>4. \A f : Deciding(all, k, 0, f) = {} BY DEF Deciding
  <2>5. \A f : Decided(all, k, 0, f) = {} BY <2>4 DEF Decided
  <2>6. {all[i].field : i \in 1 .. 0} = {} OBVIOUS
  <2> QED BY <2>1, <2>2, <2>3, <2>5, <2>6
<1>4. ASSUME NEW n \in Nat, n + 1 <= L, Good(n) PROVE Good(n + 1)
  <2> DEFINE fc == all[n + 1]
             old == n + 1 <= k
             p == m[n + 1]
  <2>1. n + 1 \in 1 .. L /\ n + 1 \in 0 .. L /\ n + 1 # 0 /\ n + 1 - 1 = n BY <1>1, <1>4
  <2>2. p = Placed(m[n], fc, old)
    <3> DEFINE i == n + 1
    <3>1. i \in 0 .. L /\ i # 0 /\ i - 1 = n BY <2>1
    <3> HIDE DEF i
    <3>2. m[i] = IF i = 0 THEN <<>> ELSE Placed(m[i - 1], all[i], i <= k) BY <1>1, <1>2, <3>1, PlacementsStep
    <3> QED BY <3>1, <3>2 DEF i
  <2>3. fc \in AnyClauses /\ old \in BOOLEAN BY <1>1, <2>1
  <2> HIDE DEF p, fc, old
  <2>4. /\ p \in Seq(AnyClauses) /\ Apart(FieldOf, p)
        /\ FieldsIn(p) = FieldsIn(m[n]) \union {fc.field}
        /\ \A f : f # fc.field => ValuesOf(p, f) = ValuesOf(m[n], f)
        /\ ValuesOf(p, fc.field) =
             IF ~old /\ FIELD_REGISTRY[fc.field].multi
             THEN ValuesOf(m[n], fc.field) \union Range(fc.values) ELSE Range(fc.values)
    <3> DEFINE q == m[n]
    <3>1. q \in Seq(AnyClauses) /\ Apart(FieldOf, q) /\ p = Placed(q, fc, old) BY <1>4, <2>2
    <3> HIDE DEF q
    <3>3. LET r == Placed(q, fc, old)
          IN  /\ r \in Seq(AnyClauses)
              /\ Apart(FieldOf, r)
              /\ FieldsIn(r) = FieldsIn(q) \union {fc.field}
              /\ \A f : f # fc.field => ValuesOf(r, f) = ValuesOf(q, f)
              /\ ValuesOf(r, fc.field) =
                   IF ~old /\ FIELD_REGISTRY[fc.field].multi
                   THEN ValuesOf(q, fc.field) \union Range(fc.values) ELSE Range(fc.values)
      BY <2>3, <3>1, PlacedMeaning, Zenon
    <3>2. /\ p \in Seq(AnyClauses) /\ Apart(FieldOf, p)
          /\ FieldsIn(p) = FieldsIn(q) \union {fc.field}
          /\ \A f : f # fc.field => ValuesOf(p, f) = ValuesOf(q, f)
          /\ ValuesOf(p, fc.field) =
               IF ~old /\ FIELD_REGISTRY[fc.field].multi
               THEN ValuesOf(q, fc.field) \union Range(fc.values) ELSE Range(fc.values)
      BY <3>1, <3>3
    <3> QED BY <3>2 DEF q
  <2>5. FieldsIn(p) = {all[i].field : i \in 1 .. n + 1}
    <3>1. /\ \A i \in 1 .. n + 1 : i \in 1 .. n \/ i = n + 1
          /\ \A i \in 1 .. n : i \in 1 .. n + 1
          /\ n + 1 \in 1 .. n + 1
      BY <1>4
    <3> QED BY <1>4, <2>4, <3>1 DEF fc
  <2>6. ASSUME Separate PROVE \A f : ValuesOf(p, f) = Decided(all, k, n + 1, f)
    <3>1. \A i, j \in 1 .. n + 1 : (i <= k <=> j <= k) /\ all[i].field = all[j].field => i = j
      <4>1. \A i \in 1 .. n + 1 : i \in 1 .. L BY <1>1, <1>4
      <4> QED BY <2>6, <4>1
    <3>2. /\ Deciding(all, k, n + 1, fc.field) =
                {n + 1} \union (IF n + 1 > k /\ FIELD_REGISTRY[fc.field].multi
                                THEN Deciding(all, k, n, fc.field) ELSE {})
          /\ \A g : g # fc.field => Deciding(all, k, n + 1, g) = Deciding(all, k, n, g)
      BY <1>4, <3>1, DecidingStep DEF fc
    <3>3. ASSUME NEW f, f # fc.field PROVE ValuesOf(p, f) = Decided(all, k, n + 1, f)
      BY <1>4, <2>4, <2>6, <3>2, <3>3 DEF Decided
    <3>4. ValuesOf(p, fc.field) = Decided(all, k, n + 1, fc.field)
      <4>1. ~old <=> n + 1 > k BY <1>4 DEF old
      <4>2. ValuesOf(m[n], fc.field) = Decided(all, k, n, fc.field) BY <1>4, <2>6
      <4>3. CASE ~old /\ FIELD_REGISTRY[fc.field].multi
        <5>1. Deciding(all, k, n + 1, fc.field) = {n + 1} \union Deciding(all, k, n, fc.field)
          BY <3>2, <4>1, <4>3
        <5>2. Decided(all, k, n + 1, fc.field) = Range(fc.values) \union Decided(all, k, n, fc.field)
          BY <5>1 DEF Decided, fc
        <5> QED BY <2>4, <4>2, <4>3, <5>2
      <4>4. CASE ~(~old /\ FIELD_REGISTRY[fc.field].multi)
        <5>1. Deciding(all, k, n + 1, fc.field) = {n + 1} BY <3>2, <4>1, <4>4
        <5>2. Decided(all, k, n + 1, fc.field) = Range(fc.values) BY <5>1 DEF Decided, fc
        <5> QED BY <2>4, <4>4, <5>2
      <4> QED BY <4>3, <4>4
    <3> QED BY <3>3, <3>4
  <2> QED BY <2>4, <2>5, <2>6 DEF p
<1>5. L \in T
  <2>1. 0 \in T BY <1>3
  <2>2. ASSUME NEW n \in Nat, n \in T PROVE n + 1 \in T
    <3>1. n + 1 <= L => n <= L BY <1>1
    <3> HIDE DEF Good
    <3> QED BY <1>4, <2>2, <3>1
  <2> HIDE DEF T
  <2> QED BY <1>1, <2>1, <2>2, SetInduction
<1>6. Good(L)
  <2> HIDE DEF Good
  <2> QED BY <1>1, <1>5
<1> QED BY <1>1, <1>6 DEF L, FieldsIn

\* A merged plan has one clause per field, of the fields that were there and
\* those of the question the domain knows.
LEMMA MergedShape ==
  ASSUME NEW domain, NEW filters \in Seq(AnyClauses), NEW new \in Seq(AnyClauses)
  PROVE  /\ Merged(domain, filters, new) \in Seq(AnyClauses)
         /\ Apart(FieldOf, Merged(domain, filters, new))
         /\ FieldsIn(Merged(domain, filters, new)) \subseteq FieldsIn(filters) \union FieldsIn(new)
<1> DEFINE T == {fc \in AnyClauses : Registered(fc.field, domain)}
           kept == Picked(new, T)
           all == Sources(domain, filters, new)
<1>1. all \in Seq(AnyClauses) /\ Len(filters) \in Nat BY MergedPlaces, LenProperties
<1>2. PICK m : Placements(m, all, Len(filters), Len(all)) /\ Merged(domain, filters, new) = m[Len(all)]
  BY MergedPlaces
<1>3. all = filters \o kept BY DEF Sources
<1>4. kept \in Seq(AnyClauses) /\ Range(kept) \subseteq Range(new)
  <2> HIDE DEF T
  <2> QED BY PickedRange
<1> HIDE DEF all, kept
<1>5. /\ m[Len(all)] \in Seq(AnyClauses) /\ Apart(FieldOf, m[Len(all)])
      /\ FieldsIn(m[Len(all)]) = FieldsIn(all)
  BY <1>1, <1>2, PlacementsMeaning
<1>6. Range(all) = Range(filters) \union Range(kept) BY <1>3, <1>4, RangeConcatenation
<1>7. \A s : FieldsIn(s) = {x.field : x \in Range(s)} BY DEF FieldsIn, Range
<1>8. FieldsIn(all) \subseteq FieldsIn(filters) \union FieldsIn(new) BY <1>4, <1>6, <1>7
<1> QED BY <1>2, <1>5, <1>8

\* What all passes is left as it is.
LEMMA PickedAll ==
  ASSUME NEW S, NEW T, NEW s \in Seq(S), Range(s) \subseteq T
  PROVE  Picked(s, T) = s
<1> DEFINE U == {r \in Seq(S) : Range(r) \subseteq T => Picked(r, T) = r}
<1>1. <<>> \in U BY PickedEmpty
<1>2. ASSUME NEW r \in Seq(S), NEW x \in S, r \in U PROVE Append(r, x) \in U
  <2>1. Range(Append(r, x)) = Range(r) \union {x} /\ Append(r, x) \in Seq(S) BY AppendIndexed
  <2>2. SUFFICES ASSUME Range(Append(r, x)) \subseteq T PROVE Picked(Append(r, x), T) = Append(r, x)
    BY <2>1
  <2>3. x \in T /\ Picked(r, T) = r BY <1>2, <2>1, <2>2
  <2> QED BY <2>3, PickedAppend
<1> HIDE DEF U
<1>3. s \in U BY <1>1, <1>2, SeqInduction
<1> QED BY <1>3 DEF U

\* What a merge does: no field is lost, a field with several values collects
\* them, and any other has those that came last (update_query_plan).
THEOREM MergedMeaning ==
  ASSUME NEW domain, NEW filters \in Seq(AnyClauses), NEW new \in Seq(AnyClauses),
         Apart(FieldOf, filters), Apart(FieldOf, new), FieldsIn(new) \subseteq FieldsOf(domain)
  PROVE  /\ FieldsIn(Merged(domain, filters, new)) = FieldsIn(filters) \union FieldsIn(new)
         /\ \A f : ValuesOf(Merged(domain, filters, new), f) =
              IF f \notin FieldsIn(new) THEN ValuesOf(filters, f)
              ELSE IF FIELD_REGISTRY[f].multi THEN ValuesOf(filters, f) \union ValuesOf(new, f)
              ELSE ValuesOf(new, f)
<1> DEFINE T == {fc \in AnyClauses : Registered(fc.field, domain)}
           all == Sources(domain, filters, new)
           k == Len(filters)
           n == Len(new)
<1>1. all \in Seq(AnyClauses) BY MergedPlaces
<1>2. PICK m : Placements(m, all, k, Len(all)) /\ Merged(domain, filters, new) = m[Len(all)]
  BY MergedPlaces
<1>3. all = filters \o new
  <2>1. Range(new) \subseteq T
    <3>1. Range(new) \subseteq AnyClauses BY RangeOfSeq
    <3> QED BY <3>1 DEF FieldsIn, Range, Registered
  <2> HIDE DEF T
  <2>2. Picked(new, T) = new BY <2>1, PickedAll
  <2> QED BY <2>2 DEF Sources, T
<1>4. /\ k \in Nat /\ DOMAIN filters = 1 .. k
      /\ \A i, j \in 1 .. k : filters[i].field = filters[j].field => i = j
      /\ n \in Nat /\ DOMAIN new = 1 .. n
      /\ \A i, j \in 1 .. n : new[i].field = new[j].field => i = j
  BY ApartFields
<1>5. /\ Len(all) = k + n
      /\ \A i \in 1 .. k : all[i] = filters[i]
      /\ \A i \in 1 .. n : all[k + i] = new[i]
  <2>1. /\ Len(filters \o new) = k + n
        /\ \A i \in 1 .. k + n : (filters \o new)[i] = IF i <= k THEN filters[i] ELSE new[i - k]
    BY ConcatProperties
  <2> HIDE DEF all, k, n
  <2>2. \A i \in 1 .. k : i \in 1 .. k + n /\ i <= k BY <1>4
  <2>3. \A i \in 1 .. n : k + i \in 1 .. k + n /\ ~(k + i <= k) /\ k + i - k = i BY <1>4
  <2>4. ASSUME NEW i \in 1 .. k PROVE all[i] = filters[i] BY <1>3, <2>1, <2>2
  <2>5. ASSUME NEW i \in 1 .. n PROVE all[k + i] = new[i]
    <3> DEFINE j == k + i
    <3>1. j \in 1 .. k + n /\ ~(j <= k) /\ j - k = i BY <1>4, <2>3
    <3> HIDE DEF j
    <3>2. all[j] = new[j - k] BY <1>3, <2>1, <3>1
    <3> QED BY <3>1, <3>2 DEF j
  <2>6. Len(all) = k + n BY <1>3, <2>1
  <2> QED BY <2>4, <2>5, <2>6
<1> HIDE DEF all, k, n
<1>6. \A j \in 1 .. k + n : j \in 1 .. k \/ \E i \in 1 .. n : j = k + i
  <2>1. ASSUME NEW j \in 1 .. k + n, j \notin 1 .. k PROVE \E i \in 1 .. n : j = k + i
    <3>1. j - k \in 1 .. n /\ j = k + (j - k) BY <1>4, <2>1
    <3> QED BY <3>1
  <2> QED BY <2>1
<1>7. /\ \A i \in 1 .. k : i \in 1 .. k + n /\ i <= k
      /\ \A i \in 1 .. n : k + i \in 1 .. k + n /\ k + i > k /\ ~(k + i <= k) /\ k + i \in k + 1 .. k + n
      /\ \A l \in k + 1 .. k + n : l \in 1 .. k + n /\ l \notin 1 .. k
  BY <1>4
<1>8. \A i, j \in 1 .. k + n : (i <= k <=> j <= k) /\ all[i].field = all[j].field => i = j
  <2>1. ASSUME NEW i \in 1 .. k + n, NEW j \in 1 .. k + n, i <= k, j <= k, all[i].field = all[j].field
        PROVE  i = j
    <3>1. i \in 1 .. k /\ j \in 1 .. k BY <2>1
    <3> QED BY <1>4, <1>5, <2>1, <3>1
  <2>2. ASSUME NEW i \in 1 .. k + n, NEW j \in 1 .. k + n, ~(i <= k), ~(j <= k), all[i].field = all[j].field
        PROVE  i = j
    <3>1. i \notin 1 .. k /\ j \notin 1 .. k BY <2>2
    <3>2. PICK a \in 1 .. n : i = k + a BY <1>6, <3>1
    <3>3. PICK b \in 1 .. n : j = k + b BY <1>6, <3>1
    <3>4. new[a].field = new[b].field BY <1>5, <2>2, <3>2, <3>3
    <3>5. a = b BY <1>4, <3>4
    <3> QED BY <3>2, <3>3, <3>5
  <2> QED BY <2>1, <2>2
<1> DEFINE p == m[Len(all)]
<1>9. FieldsIn(p) = FieldsIn(all) /\ \A f : ValuesOf(p, f) = Decided(all, k, k + n, f)
  <2> DEFINE L == Len(all)
  <2>1. Placements(m, all, k, L) /\ L = k + n BY <1>2, <1>5
  <2>2. \A i, j \in 1 .. L : (i <= k <=> j <= k) /\ all[i].field = all[j].field => i = j BY <1>8, <2>1
  <2>3. LET q == m[L]
        IN  /\ q \in Seq(AnyClauses) /\ Apart(FieldOf, q) /\ FieldsIn(q) = FieldsIn(all)
            /\ (\A i, j \in 1 .. L :
                   (i <= k <=> j <= k) /\ all[i].field = all[j].field => i = j)
               => \A f : ValuesOf(q, f) = Decided(all, k, L, f)
    BY <1>1, <1>4, <2>1, PlacementsMeaning, Zenon
  <2> HIDE DEF L
  <2>4. FieldsIn(m[L]) = FieldsIn(all) /\ \A f : ValuesOf(m[L], f) = Decided(all, k, L, f)
    BY <2>2, <2>3
  <2> QED BY <2>1, <2>4 DEF L
<1>10. FieldsIn(all) = FieldsIn(filters) \union FieldsIn(new)
  <2>1. \A s : FieldsIn(s) = {x.field : x \in Range(s)} BY DEF FieldsIn, Range
  <2>2. Range(all) = Range(filters) \union Range(new) BY <1>3, RangeConcatenation
  <2> QED BY <2>1, <2>2
<1>11. ASSUME NEW f
       PROVE  /\ ValuesOf(filters, f) = UNION {Range(all[j].values) : j \in {i \in 1 .. k : all[i].field = f}}
              /\ ValuesOf(new, f) = UNION {Range(all[j].values) : j \in {i \in k + 1 .. k + n : all[i].field = f}}
  <2>1. {i \in DOMAIN filters : filters[i].field = f} = {i \in 1 .. k : all[i].field = f}
    BY <1>4, <1>5
  <2>2. ValuesOf(filters, f) = UNION {Range(all[j].values) : j \in {i \in 1 .. k : all[i].field = f}}
    BY <1>4, <1>5, <2>1 DEF ValuesOf
  <2>3. {i \in k + 1 .. k + n : all[i].field = f} = {k + i : i \in {l \in DOMAIN new : new[l].field = f}}
    <3>1. ASSUME NEW i \in k + 1 .. k + n, all[i].field = f
          PROVE  i \in {k + l : l \in {l \in DOMAIN new : new[l].field = f}}
      <4>1. PICK l \in 1 .. n : i = k + l BY <1>6, <1>7
      <4> QED BY <1>4, <1>5, <3>1, <4>1
    <3>2. ASSUME NEW l \in 1 .. n, new[l].field = f
          PROVE  k + l \in {i \in k + 1 .. k + n : all[i].field = f}
      BY <1>5, <1>7, <3>2
    <3> QED BY <1>4, <3>1, <3>2
  <2>4. ValuesOf(new, f) = UNION {Range(all[j].values) : j \in {i \in k + 1 .. k + n : all[i].field = f}}
    <3> DEFINE D == {l \in DOMAIN new : new[l].field = f}
               K == {i \in k + 1 .. k + n : all[i].field = f}
    <3>1. \A l \in D : all[k + l] = new[l] BY <1>4, <1>5
    <3>2. K = {k + l : l \in D} BY <2>3
    <3> HIDE DEF D, K
    <3>3. UNION {Range(all[j].values) : j \in K} = UNION {Range(new[l].values) : l \in D}
      BY <3>1, <3>2
    <3> QED BY <3>3 DEF ValuesOf, D, K
  <2> QED BY <2>2, <2>4
<1>12. ASSUME NEW f PROVE f \in FieldsIn(new) <=> \E i \in k + 1 .. k + n : all[i].field = f
  <2>1. ASSUME NEW i \in 1 .. n, new[i].field = f PROVE \E j \in k + 1 .. k + n : all[j].field = f
    <3>1. k + i \in k + 1 .. k + n BY <1>7
    <3>2. all[k + i].field = f BY <1>5, <2>1
    <3> QED BY <3>1, <3>2
  <2>2. ASSUME NEW j \in k + 1 .. k + n, all[j].field = f PROVE \E i \in 1 .. n : new[i].field = f
    <3>1. PICK i \in 1 .. n : j = k + i BY <1>6, <1>7
    <3> QED BY <1>5, <2>2, <3>1
  <2>3. f \in FieldsIn(new) <=> \E i \in 1 .. n : new[i].field = f BY <1>4 DEF FieldsIn
  <2> QED BY <2>1, <2>2, <2>3
<1>13. ASSUME NEW f
       PROVE  Decided(all, k, k + n, f) =
                IF f \notin FieldsIn(new) THEN ValuesOf(filters, f)
                ELSE IF FIELD_REGISTRY[f].multi THEN ValuesOf(filters, f) \union ValuesOf(new, f)
                ELSE ValuesOf(new, f)
  <2> DEFINE D == Deciding(all, k, k + n, f)
             A == {i \in 1 .. k : all[i].field = f}
             B == {i \in k + 1 .. k + n : all[i].field = f}
             values(J) == UNION {Range(all[j].values) : j \in J}
  <2>1. Decided(all, k, k + n, f) = values(D) /\ ValuesOf(filters, f) = values(A) /\ ValuesOf(new, f) = values(B)
    BY <1>11 DEF Decided
  <2>2. /\ \A j \in 1 .. k + n : j \in 1 .. k \/ (j \in k + 1 .. k + n /\ j > k)
        /\ \A j \in 1 .. k : j \in 1 .. k + n /\ ~(j > k)
        /\ \A j \in k + 1 .. k + n : j \in 1 .. k + n /\ j > k
    BY <1>4
  <2>3. CASE f \notin FieldsIn(new)
    <3>1. D = A BY <1>12, <2>2, <2>3 DEF Deciding
    <3> QED BY <2>1, <2>3, <3>1
  <2>4. CASE f \in FieldsIn(new) /\ FIELD_REGISTRY[f].multi
    <3>1. D = A \union B BY <2>2, <2>4 DEF Deciding
    <3>2. values(D) = values(A) \union values(B)
      <4> HIDE DEF D, A, B
      <4> QED BY <3>1
    <3> HIDE DEF values
    <3> QED BY <2>1, <2>4, <3>2
  <2>5. CASE f \in FieldsIn(new) /\ ~FIELD_REGISTRY[f].multi
    <3>1. D = B BY <1>12, <2>2, <2>5 DEF Deciding
    <3> QED BY <2>1, <2>5, <3>1
  <2> QED BY <2>3, <2>4, <2>5
<1> QED BY <1>2, <1>9, <1>10, <1>13

-----------------------------------------------------------------------------
(* Topics                                                                  *)

\* What the table of fields says, row by row.
LEMMA FieldNamesListed ==
  FieldNames = {"skill", "resource_name", "designation", "tech_category", "role", "start_date",
                "end_date", "billable", "min_allocation", "skill_name", "min_experience",
                "client_name", "country_id", "project_name", "status", "min_budget",
                "min_utilization", "client_id", "min_duration", "days_overdue", "min_hours",
                "description", "category"}
  BY DEF FieldNames, FIELD_REGISTRY

OtherNames == {"skill_filter", "employee_name", "person", "resource", "category", "account_name"}

\* The aliases of the registry.
LEMMA AliasesListed == \A f \in FieldNames : FIELD_REGISTRY[f].aliases \subseteq OtherNames
<1> USE DEF FIELD_REGISTRY, Field, Known, Qualified, OtherNames
<1>1. FIELD_REGISTRY["skill"].aliases \subseteq OtherNames OBVIOUS
<1>2. FIELD_REGISTRY["resource_name"].aliases \subseteq OtherNames OBVIOUS
<1>3. FIELD_REGISTRY["designation"].aliases \subseteq OtherNames OBVIOUS
<1>4. FIELD_REGISTRY["tech_category"].aliases \subseteq OtherNames OBVIOUS
<1>5. FIELD_REGISTRY["role"].aliases \subseteq OtherNames OBVIOUS
<1>6. FIELD_REGISTRY["start_date"].aliases \subseteq OtherNames OBVIOUS
<1>7. FIELD_REGISTRY["end_date"].aliases \subseteq OtherNames OBVIOUS
<1>8. FIELD_REGISTRY["billable"].aliases \subseteq OtherNames OBVIOUS
<1>9. FIELD_REGISTRY["min_allocation"].aliases \subseteq OtherNames OBVIOUS
<1>10. FIELD_REGISTRY["skill_name"].aliases \subseteq OtherNames OBVIOUS
<1>11. FIELD_REGISTRY["min_experience"].aliases \subseteq OtherNames OBVIOUS
<1>12. FIELD_REGISTRY["client_name"].aliases \subseteq OtherNames OBVIOUS
<1>13. FIELD_REGISTRY["country_id"].aliases \subseteq OtherNames OBVIOUS
<1>14. FIELD_REGISTRY["project_name"].aliases \subseteq OtherNames OBVIOUS
<1>15. FIELD_REGISTRY["status"].aliases \subseteq OtherNames OBVIOUS
<1>16. FIELD_REGISTRY["min_budget"].aliases \subseteq OtherNames OBVIOUS
<1>17. FIELD_REGISTRY["min_utilization"].aliases \subseteq OtherNames OBVIOUS
<1>18. FIELD_REGISTRY["client_id"].aliases \subseteq OtherNames OBVIOUS
<1>19. FIELD_REGISTRY["min_duration"].aliases \subseteq OtherNames OBVIOUS
<1>20. FIELD_REGISTRY["days_overdue"].aliases \subseteq OtherNames OBVIOUS
<1>21. FIELD_REGISTRY["min_hours"].aliases \subseteq OtherNames OBVIOUS
<1>22. FIELD_REGISTRY["description"].aliases \subseteq OtherNames OBVIOUS
<1>23. FIELD_REGISTRY["category"].aliases \subseteq OtherNames OBVIOUS
<1> HIDE DEF FIELD_REGISTRY, Field, Known, Qualified, OtherNames
<1> QED BY <1>1, <1>2, <1>3, <1>4, <1>5, <1>6, <1>7, <1>8, <1>9, <1>10, <1>11, <1>12, <1>13,
           <1>14, <1>15, <1>16, <1>17, <1>18, <1>19, <1>20, <1>21, <1>22, <1>23, FieldNamesListed

\* The fields of a domain are fields, and what a name resolves to is one.
LEMMA ResolvesToField ==
  ASSUME NEW name, NEW domain
  PROVE  /\ FieldsOf(domain) \subseteq FieldNames
         /\ FieldNames \subseteq Texts
         /\ resolve_alias(name, domain) # NoField => resolve_alias(name, domain) \in FieldsOf(domain)
<1> DEFINE owners == {f \in FieldsOf(domain) : name \in FIELD_REGISTRY[f].aliases}
<1>1. resolve_alias(name, domain) = IF Registered(name, domain) THEN name
         ELSE IF owners = {} THEN NoField ELSE CHOOSE f \in owners : TRUE
  BY DEF resolve_alias
<1>2. owners # {} => (CHOOSE f \in owners : TRUE) \in owners OBVIOUS
<1>3. owners \subseteq FieldsOf(domain) OBVIOUS
<1> HIDE DEF owners
<1>4. resolve_alias(name, domain) # NoField => resolve_alias(name, domain) \in FieldsOf(domain)
  BY <1>1, <1>2, <1>3 DEF Registered
<1>5. FieldsOf(domain) \subseteq FieldNames BY DEF FieldsOf
<1>6. FieldNames \subseteq Texts
  <2>1. ASSUME NEW f \in FieldNames PROVE f \in Texts BY DEF Texts
  <2> QED BY <2>1
<1> QED BY <1>4, <1>5, <1>6

\* The patterns are a sequence without repetition.
LEMMA PatternsListed ==
  /\ Range(Patterns) = {"skill", "dates", "project", "client", "name", "more_hours", "fewer_hours",
                        "allocation", "budget", "experience", "overdue", "designation",
                        "billable", "status"}
  /\ Patterns \in Seq(Range(Patterns))
<1>1. DOMAIN Patterns = 1 .. 14 /\ Len(Patterns) = 14 BY DEF Patterns
<1>2. /\ Patterns[1] = "skill" /\ Patterns[2] = "dates" /\ Patterns[3] = "project"
      /\ Patterns[4] = "client" /\ Patterns[5] = "name" /\ Patterns[6] = "more_hours"
      /\ Patterns[7] = "fewer_hours" /\ Patterns[8] = "allocation" /\ Patterns[9] = "budget"
      /\ Patterns[10] = "experience" /\ Patterns[11] = "overdue" /\ Patterns[12] = "designation"
      /\ Patterns[13] = "billable" /\ Patterns[14] = "status"
  BY DEF Patterns
<1>3. Patterns = [i \in 1 .. 14 |-> Patterns[i]] BY DEF Patterns
<1>4. Patterns \in Seq(Range(Patterns))
  <2> DEFINE R == Range(Patterns)
  <2>1. \A i \in 1 .. 14 : Patterns[i] \in R BY <1>1 DEF Range
  <2> HIDE DEF R
  <2>2. [i \in 1 .. 14 |-> Patterns[i]] \in Seq(R) BY <2>1
  <2> QED BY <1>3, <2>2 DEF R
<1>5. Range(Patterns) = {Patterns[i] : i \in 1 .. 14} BY <1>1 DEF Range
<1>6. \A i : i \in 1 .. 14 <=> i \in {1, 2, 3, 4, 5, 6, 7, 8, 9, 10, 11, 12, 13, 14} OBVIOUS
<1>7. {Patterns[i] : i \in {1, 2, 3, 4, 5, 6, 7, 8, 9, 10, 11, 12, 13, 14}} =
        {Patterns[1], Patterns[2], Patterns[3], Patterns[4], Patterns[5], Patterns[6], Patterns[7],
         Patterns[8], Patterns[9], Patterns[10], Patterns[11], Patterns[12], Patterns[13],
         Patterns[14]}
  BY Zenon
<1> QED BY <1>2, <1>4, <1>5, <1>6, <1>7

\* No pattern is tried twice.
Same == [p \in Range(Patterns) |-> p]

\* No two patterns are the same.
LEMMA PatternsApart == Apart(Same, Patterns)
<1> DEFINE Place == [skill |-> 1, dates |-> 2, project |-> 3, client |-> 4, name |-> 5,
                     more_hours |-> 6, fewer_hours |-> 7, allocation |-> 8, budget |-> 9,
                     experience |-> 10, overdue |-> 11, designation |-> 12, billable |-> 13,
                     status |-> 14]
<1>1. DOMAIN Patterns = 1 .. 14 BY DEF Patterns
<1>2. ASSUME NEW i \in 1 .. 14 PROVE Place[Patterns[i]] = i /\ Same[Patterns[i]] = Patterns[i]
  <2>1. i \in {1, 2, 3, 4, 5, 6, 7, 8, 9, 10, 11, 12, 13, 14} OBVIOUS
  <2>2. Patterns[i] \in Range(Patterns) /\ Place[Patterns[i]] = i
    <3>1. i = 1 => Patterns[i] = "skill" /\ Place["skill"] = 1 BY DEF Patterns
    <3>2. i = 2 => Patterns[i] = "dates" /\ Place["dates"] = 2 BY DEF Patterns
    <3>3. i = 3 => Patterns[i] = "project" /\ Place["project"] = 3 BY DEF Patterns
    <3>4. i = 4 => Patterns[i] = "client" /\ Place["client"] = 4 BY DEF Patterns
    <3>5. i = 5 => Patterns[i] = "name" /\ Place["name"] = 5 BY DEF Patterns
    <3>6. i = 6 => Patterns[i] = "more_hours" /\ Place["more_hours"] = 6 BY DEF Patterns
    <3>7. i = 7 => Patterns[i] = "fewer_hours" /\ Place["fewer_hours"] = 7 BY DEF Patterns
    <3>8. i = 8 => Patterns[i] = "allocation" /\ Place["allocation"] = 8 BY DEF Patterns
    <3>9. i = 9 => Patterns[i] = "budget" /\ Place["budget"] = 9 BY DEF Patterns
    <3>10. i = 10 => Patterns[i] = "experience" /\ Place["experience"] = 10 BY DEF Patterns
    <3>11. i = 11 => Patterns[i] = "overdue" /\ Place["overdue"] = 11 BY DEF Patterns
    <3>12. i = 12 => Patterns[i] = "designation" /\ Place["designation"] = 12 BY DEF Patterns
    <3>13. i = 13 => Patterns[i] = "billable" /\ Place["billable"] = 13 BY DEF Patterns
    <3>14. i = 14 => Patterns[i] = "status" /\ Place["status"] = 14 BY DEF Patterns
    <3>15. Patterns[i] \in Range(Patterns) BY <1>1 DEF Range
    <3> HIDE DEF Place
    <3> QED BY <2>1, <3>15, <3>1, <3>2, <3>3, <3>4, <3>5, <3>6, <3>7, <3>8, <3>9, <3>10,
              <3>11, <3>12, <3>13, <3>14
  <2> QED BY <2>2 DEF Same
<1> HIDE DEF Place
<1> QED BY <1>1, <1>2 DEF Apart

\* What a pattern finds is of its own field, which is no other name of one.
LEMMA PatternResolves ==
  ASSUME NEW p \in Range(Patterns), NEW domain, resolve_alias(PatternField[p], domain) # NoField
  PROVE  resolve_alias(PatternField[p], domain) = PatternField[p]
<1>1. PatternField[p] \notin OtherNames BY PatternsListed DEF PatternField, OtherNames
<1>2. {f \in FieldsOf(domain) : PatternField[p] \in FIELD_REGISTRY[f].aliases} = {}
  BY <1>1, AliasesListed, ResolvesToField
<1> QED BY <1>2 DEF resolve_alias

\* A topic of the catalog, and the domain of those of its intents that remap
\* a field.
LEMMA CatalogTopic ==
  ASSUME NEW topic \in INTENT_CATALOG
  PROVE  /\ topic = <<topic[1], topic[2]>> /\ topic # NoTopic
         /\ topic[1] \in {"resource", "client", "project", "timesheet", "user_self"}
         /\ topic[1] = "user_self" <=> topic[2] \in OwnIntents
         /\ topic[2] \in {"project_resources", "project_timeline", "project_budget",
                          "project_status", "project_by_client"} => topic[1] = "project"
         /\ topic[2] \in {"resource_skills_list", "reports_to"} => topic[1] = "resource"
<1> DEFINE Of(d) == CASE d = "resource" -> {"active_resources", "benched_resources", "benched_by_skill",
                      "resource_by_skill", "resource_availability",
                      "resource_project_assignments", "resource_skills_list", "reports_to"}
                      [] d = "client" -> {"active_clients", "client_projects", "client_status"}
                      [] d = "project" -> {"active_projects", "project_by_client", "project_budget",
                            "project_resources", "project_timeline", "project_status",
                            "overdue_projects"}
                      [] d = "timesheet" -> {"approved_timesheets", "timesheet_by_period",
                              "unapproved_timesheets", "timesheet_by_project"}
                      [] OTHER -> OwnIntents
<1>1. PICK d \in {"resource", "client", "project", "timesheet", "user_self"} : topic \in {d} \X Of(d)
  BY DEF INTENT_CATALOG
<1>2. topic = <<topic[1], topic[2]>> /\ topic # NoTopic /\ topic[1] = d /\ topic[2] \in Of(d)
  <2> DEFINE A == Of(d)
  <2>1. topic \in {d} \X A BY <1>1
  <2> HIDE DEF A
  <2>2. PICK a \in {d}, b \in A : topic = <<a, b>> BY <2>1
  <2>3. topic = <<topic[1], topic[2]>> /\ topic[1] = d /\ topic[2] \in A BY <2>2
  <2>4. topic # NoTopic BY <2>2 DEF NoTopic
  <2> QED BY <2>3, <2>4 DEF A
<1>3. d \in {"resource", "client", "project", "timesheet", "user_self"} OBVIOUS
<1>4. d = "user_self" <=> topic[2] \in OwnIntents BY <1>2, <1>3 DEF OwnIntents
<1>5. topic[2] \in {"project_resources", "project_timeline", "project_budget",
                    "project_status", "project_by_client"} => d = "project"
  BY <1>2, <1>3 DEF OwnIntents
<1>6. topic[2] \in {"resource_skills_list", "reports_to"} => d = "resource"
  BY <1>2, <1>3 DEF OwnIntents
<1> HIDE DEF Of
<1> QED BY <1>2, <1>3, <1>4, <1>5, <1>6

\* The fields a plan about the topic may have.
PlanFields(topic) == {Remap(topic[2], f) : f \in FieldsOf(topic[1])}

\* A remapped field is one of the domain again (_intent_field_remap).
LEMMA PlanFieldsKnown ==
  ASSUME NEW topic \in INTENT_CATALOG
  PROVE  PlanFields(topic) \subseteq FieldsOf(topic[1])
<1>1. "project_name" \in FieldsOf("project") /\ "client_name" \in FieldsOf("project")
  <2>1. "project" \in FIELD_REGISTRY["project_name"].domains BY DEF FIELD_REGISTRY, Field
  <2>2. "project" \in FIELD_REGISTRY["client_name"].domains BY DEF FIELD_REGISTRY, Field, Known
  <2> QED BY <2>1, <2>2, FieldNamesListed DEF FieldsOf
<1>2. "resource_name" \in FieldsOf("resource")
  <2>1. "resource" \in FIELD_REGISTRY["resource_name"].domains BY DEF FIELD_REGISTRY, Field, Known, Qualified
  <2> QED BY <2>1, FieldNamesListed DEF FieldsOf
<1>3. ASSUME NEW f \in FieldsOf(topic[1]) PROVE Remap(topic[2], f) \in FieldsOf(topic[1])
  <2>1. \/ Remap(topic[2], f) = f
        \/ /\ topic[2] \in {"project_resources", "project_timeline", "project_budget", "project_status"}
           /\ Remap(topic[2], f) = "project_name"
        \/ topic[2] = "project_by_client" /\ Remap(topic[2], f) = "client_name"
        \/ topic[2] \in {"resource_skills_list", "reports_to"} /\ Remap(topic[2], f) = "resource_name"
    BY DEF Remap
  <2> QED BY <1>1, <1>2, <1>3, <2>1, CatalogTopic
<1> QED BY <1>3 DEF PlanFields

\* Remapping changes fields, and sanitises values.
LEMMA RemappedShape ==
  ASSUME NEW intent, NEW filters \in Seq(AnyClauses)
  PROVE  /\ Remapped(intent, filters) \in Seq(AnyClauses)
         /\ DOMAIN Remapped(intent, filters) = DOMAIN filters
         /\ \A i \in DOMAIN filters :
              /\ Remapped(intent, filters)[i].field = Remap(intent, filters[i].field)
              /\ Remapped(intent, filters)[i].op = filters[i].op
<1> DEFINE r == Remapped(intent, filters)
           n == Len(filters)
           c(fc) == [fc EXCEPT !.field = Remap(intent, @)]
<1>1. n \in Nat /\ DOMAIN filters = 1 .. n /\ \A i \in 1 .. n : filters[i] \in AnyClauses
  BY LenProperties, ElementOfSeq
<1>2. \A f \in Texts : Remap(intent, f) \in Texts
  <2>1. {"project_name", "client_name", "resource_name"} \subseteq Texts BY FieldNamesListed DEF Texts
  <2>2. \A f : Remap(intent, f) \in {"project_name", "client_name", "resource_name", f} BY DEF Remap
  <2> QED BY <2>1, <2>2
<1>3. ASSUME NEW fc \in AnyClauses
      PROVE  c(fc) \in AnyClauses /\ c(fc).field = Remap(intent, fc.field) /\ c(fc).op = fc.op
  <2>1. fc = [field |-> fc.field, op |-> fc.op, values |-> fc.values]
        /\ fc.field \in Texts /\ fc.op \in Texts /\ fc.values \in Seq(Texts)
    BY DEF AnyClauses
  <2>2. ASSUME NEW z, z = c(fc)
        PROVE  z = [field |-> Remap(intent, fc.field), op |-> fc.op, values |-> fc.values]
    BY <2>1, <2>2
  <2>3. c(fc) = [field |-> Remap(intent, fc.field), op |-> fc.op, values |-> fc.values] BY <2>2
  <2> HIDE DEF c
  <2> QED BY <1>2, <2>1, <2>3 DEF AnyClauses
<1>4. r = [i \in 1 .. n |-> FilterClause(c(filters[i]))] BY <1>1 DEF Remapped
<1> HIDE DEF r, n, c
<1>5. \A i \in 1 .. n : /\ FilterClause(c(filters[i])) \in AnyClauses
                        /\ FilterClause(c(filters[i])).field = Remap(intent, filters[i].field)
                        /\ FilterClause(c(filters[i])).op = filters[i].op
  <2>1. ASSUME NEW i \in 1 .. n
        PROVE  /\ FilterClause(c(filters[i])) \in AnyClauses
               /\ FilterClause(c(filters[i])).field = Remap(intent, filters[i].field)
               /\ FilterClause(c(filters[i])).op = filters[i].op
    <3>1. filters[i] \in AnyClauses BY <1>1
    <3>2. c(filters[i]) \in AnyClauses /\ c(filters[i]).field = Remap(intent, filters[i].field)
          /\ c(filters[i]).op = filters[i].op
      BY <1>3, <3>1
    <3> QED BY <3>2, FilterClauseShape
  <2> QED BY <2>1
<1>6. r \in Seq(AnyClauses) BY <1>1, <1>4, <1>5
<1>7. DOMAIN r = 1 .. n /\ \A i \in 1 .. n : r[i] = FilterClause(c(filters[i])) BY <1>4
<1> QED BY <1>1, <1>5, <1>6, <1>7 DEF r

\* What update_query_plan makes of clauses is clauses.
LEMMA UpdateShape ==
  ASSUME NEW plan, plan.filters \in Seq(AnyClauses), NEW topic, NEW filters \in Seq(AnyClauses)
  PROVE  LET p == update_query_plan(plan, topic, filters)
             new == Remapped(topic[2], filters)
         IN  /\ p.filters \in Seq(AnyClauses)
             /\ \/ p.filters = <<>> /\ topic[2] \in NO_FILTER_INTENTS
                \/ p = Plan(topic, new) /\ ~SameTopic(plan, topic) /\ topic[2] \notin NO_FILTER_INTENTS
                \/ p = plan /\ new = <<>> /\ SameTopic(plan, topic) /\ topic[2] \notin NO_FILTER_INTENTS
                \/ /\ p = Plan(topic, Merged(topic[1], plan.filters, new))
                   /\ SameTopic(plan, topic) /\ topic[2] \notin NO_FILTER_INTENTS
<1> DEFINE p == update_query_plan(plan, topic, filters)
           new == Remapped(topic[2], filters)
<1>1. new \in Seq(AnyClauses) BY RemappedShape
<1>2. p = IF topic[2] \in NO_FILTER_INTENTS THEN Plan(topic, <<>>)
          ELSE IF ~SameTopic(plan, topic) THEN Plan(topic, new)
          ELSE IF new = <<>> THEN plan
          ELSE Plan(topic, Merged(topic[1], plan.filters, new))
  BY DEF update_query_plan
<1> HIDE DEF p, new
<1>3. Merged(topic[1], plan.filters, new) \in Seq(AnyClauses) BY <1>1, MergedShape
<1>4. \A f : Plan(topic, f).filters = f BY DEF Plan
<1>5. <<>> \in Seq(AnyClauses) BY EmptySeq
<1> QED BY <1>1, <1>2, <1>3, <1>4, <1>5 DEF p, new

\* An update that does not raise leaves clauses FilterClause accepts.
LEMMA UpdateValid ==
  ASSUME NEW plan, plan.filters \in Seq(AnyClauses), NEW topic, NEW filters \in Seq(AnyClauses),
         ~UpdateRaises(plan, topic, filters)
  PROVE  update_query_plan(plan, topic, filters).filters \in Seq(ValidClauses)
<1> DEFINE s == update_query_plan(plan, topic, filters).filters
<1>1. s \in Seq(AnyClauses) BY UpdateShape
<1>2. \A i \in DOMAIN s : s[i].op \in Operators BY DEF UpdateRaises
<1> HIDE DEF s
<1>3. Len(s) \in Nat /\ DOMAIN s = 1 .. Len(s) /\ s = [i \in 1 .. Len(s) |-> s[i]]
  BY <1>1, LenProperties
<1>4. ASSUME NEW i \in 1 .. Len(s) PROVE s[i] \in ValidClauses
  <2>1. s[i] \in AnyClauses BY <1>1, ElementOfSeq
  <2>2. s[i].op \in Operators BY <1>2, <1>3
  <2> QED BY <2>1, <2>2 DEF AnyClauses, ValidClauses
<1>5. s \in Seq(ValidClauses) BY <1>3, <1>4
<1> QED BY <1>5 DEF s

\* A valid clause is a clause.
LEMMA ValidIsAny ==
  ASSUME NEW s \in Seq(ValidClauses)
  PROVE  s \in Seq(AnyClauses)
<1>1. ValidClauses \subseteq AnyClauses
  <2>1. Operators \subseteq Texts BY DEF Texts
  <2> QED BY <2>1 DEF ValidClauses, AnyClauses
<1> QED BY <1>1, SeqMonotone

-----------------------------------------------------------------------------
(* Extraction                                                              *)

\* A question as PlanTurnsAssumption has them.
IsQuestion(question) ==
    DOMAIN question \subseteq Range(Patterns) /\ \A p \in DOMAIN question : question[p] \in Seq(STRING)

\* The patterns whose finding becomes a filter, and their order.
Finds(question, domain) ==
    {p \in Range(Patterns) : /\ p \in DOMAIN question
                             /\ ~Claimed(p, question)
                             /\ resolve_alias(PatternField[p], domain) # NoField}
Found(question, domain) == Picked(Patterns, Finds(question, domain))

\* extract_filters makes a clause of each pattern found.
LEMMA FoundShape ==
  ASSUME NEW question, NEW domain
  PROVE  LET m == Found(question, domain)
         IN  /\ Len(m) \in Nat /\ DOMAIN m = 1 .. Len(m)
             /\ \A i \in 1 .. Len(m) : m[i] \in Finds(question, domain)
             /\ \A i, j \in 1 .. Len(m) : m[i] = m[j] => i = j
             /\ extract_filters(question, domain) =
                  [i \in 1 .. Len(m) |->
                      Clause(PatternField[m[i]], PatternOp(m[i], question[m[i]]), question[m[i]])]
<1> DEFINE m == Found(question, domain)
           R == Range(Patterns)
           T == Finds(question, domain)
           matches(p) == /\ p \in DOMAIN question
                         /\ ~Claimed(p, question)
                         /\ resolve_alias(PatternField[p], domain) # NoField
           parts == [i \in DOMAIN Patterns |-> IF matches(Patterns[i]) THEN <<Patterns[i]>> ELSE <<>>]
           kept == Keep(Patterns, matches)
<1>1. Patterns \in Seq(R) BY PatternsListed
<1>2. kept = m
  <2>1. \A i \in DOMAIN Patterns : Patterns[i] \in R BY DEF Range
  <2>2. \A i \in DOMAIN Patterns : matches(Patterns[i]) <=> Patterns[i] \in T BY <2>1 DEF Finds
  <2>3. parts = Parts(Patterns, T) BY <2>2 DEF Parts
  <2>4. kept = FlattenSeq(parts) BY DEF Keep
  <2> HIDE DEF parts, T
  <2> QED BY <2>3, <2>4 DEF Picked, Found, T
<1>3. extract_filters(question, domain) =
        [i \in DOMAIN kept |->
            Clause(resolve_alias(PatternField[kept[i]], domain),
                   PatternOp(kept[i], question[kept[i]]), question[kept[i]])]
  BY DEF extract_filters
<1> HIDE DEF kept
<1>4. m \in Seq(R) /\ Range(m) = R \cap T /\ Apart(Same, m)
  <2>1. Apart(Same, Patterns) BY PatternsApart
  <2>2. m = Picked(Patterns, T) BY DEF Found
  <2> HIDE DEF R, T, m
  <2>3. Picked(Patterns, T) \in Seq(R) /\ Range(Picked(Patterns, T)) = Range(Patterns) \cap T
    BY <1>1, PickedRange
  <2>4. Apart(Same, Picked(Patterns, T)) BY <1>1, <2>1, PickedApart
  <2> QED BY <2>2, <2>3, <2>4 DEF R
<1>5. Len(m) \in Nat /\ DOMAIN m = 1 .. Len(m) BY <1>4, LenProperties
<1>6. \A i \in 1 .. Len(m) : m[i] \in R /\ m[i] \in T BY <1>4, <1>5 DEF Range
<1>7. \A i, j \in 1 .. Len(m) : m[i] = m[j] => i = j BY <1>4, <1>5, <1>6 DEF Apart, Same
<1>8. \A i \in 1 .. Len(m) : resolve_alias(PatternField[m[i]], domain) = PatternField[m[i]]
  BY <1>6, PatternResolves DEF Finds
<1> HIDE DEF m, R, T
<1>9. extract_filters(question, domain) =
        [i \in 1 .. Len(m) |->
            Clause(PatternField[m[i]], PatternOp(m[i], question[m[i]]), question[m[i]])]
  BY <1>2, <1>3, <1>5, <1>8
<1> QED BY <1>5, <1>6, <1>7, <1>9 DEF m, T

\* The filters of a question are clauses on fields of the domain.
LEMMA ExtractedShape ==
  ASSUME NEW question, IsQuestion(question), NEW domain
  PROVE  /\ extract_filters(question, domain) \in Seq(AnyClauses)
         /\ FieldsIn(extract_filters(question, domain)) \subseteq FieldsOf(domain)
<1> DEFINE m == Found(question, domain)
           s == extract_filters(question, domain)
           c(i) == Clause(PatternField[m[i]], PatternOp(m[i], question[m[i]]), question[m[i]])
<1>1. /\ Len(m) \in Nat /\ \A i \in 1 .. Len(m) : m[i] \in Finds(question, domain)
      /\ s = [i \in 1 .. Len(m) |-> c(i)]
  BY FoundShape
<1>2. ASSUME NEW i \in 1 .. Len(m) PROVE c(i) \in AnyClauses /\ c(i).field \in FieldsOf(domain)
  <2>1. /\ m[i] \in Range(Patterns) /\ m[i] \in DOMAIN question
        /\ resolve_alias(PatternField[m[i]], domain) # NoField
    BY <1>1 DEF Finds
  <2>2. PatternField[m[i]] \in FieldsOf(domain) BY <2>1, PatternResolves, ResolvesToField
  <2>3. PatternField[m[i]] \in Texts BY <2>2, ResolvesToField DEF Texts
  <2>4. question[m[i]] \in Seq(Texts)
    <3>1. question[m[i]] \in Seq(STRING) BY <2>1 DEF IsQuestion
    <3>2. STRING \subseteq Texts BY DEF Texts
    <3> HIDE DEF m
    <3> QED BY <3>1, <3>2, SeqMonotone
  <2>5. PatternOp(m[i], question[m[i]]) \in Texts
    <3>1. PatternOp(m[i], question[m[i]]) \in {"between", "eq", "lt", "gt"} BY DEF PatternOp
    <3> QED BY <3>1 DEF Texts, Operators
  <2> QED BY <2>2, <2>3, <2>4, <2>5 DEF Clause, AnyClauses
<1> HIDE DEF m, s, c
<1>3. s \in Seq(AnyClauses) BY <1>1, <1>2
<1>4. FieldsIn(s) \subseteq FieldsOf(domain) BY <1>1, <1>2 DEF FieldsIn
<1> QED BY <1>3, <1>4 DEF s

\* Two findings are never about one field, whatever the intent makes of them:
\* a project or a client claims the name, "more than" goes before "less than".
LEMMA FindingsApart ==
  ASSUME NEW question, NEW domain, NEW intent,
         NEW p \in Finds(question, domain), NEW q \in Finds(question, domain),
         Remap(intent, PatternField[p]) = Remap(intent, PatternField[q])
  PROVE  p = q
<1>1. /\ p \in Range(Patterns) /\ p \in DOMAIN question /\ ~Claimed(p, question)
      /\ q \in Range(Patterns) /\ q \in DOMAIN question /\ ~Claimed(q, question)
  BY DEF Finds
<1>2. /\ ~(p = "name" /\ q \in {"project", "client"}) /\ ~(q = "name" /\ p \in {"project", "client"})
      /\ ~(p = "fewer_hours" /\ q = "more_hours") /\ ~(q = "fewer_hours" /\ p = "more_hours")
  BY <1>1 DEF Claimed
<1>3. \A f : \/ Remap(intent, f) = f
             \/ f = "resource_name" /\ Remap(intent, f) \in {"project_name", "client_name"}
             \/ f = "project_name" /\ Remap(intent, f) = "resource_name" /\ intent = "reports_to"
             \/ f = "skill_name"
  BY DEF Remap
<1>4. /\ PatternField["skill"] = "skill" /\ PatternField["dates"] = "start_date"
      /\ PatternField["project"] = "project_name" /\ PatternField["client"] = "client_name"
      /\ PatternField["name"] = "resource_name" /\ PatternField["more_hours"] = "min_hours"
      /\ PatternField["fewer_hours"] = "min_hours" /\ PatternField["allocation"] = "min_allocation"
      /\ PatternField["budget"] = "min_budget" /\ PatternField["experience"] = "min_experience"
      /\ PatternField["overdue"] = "days_overdue" /\ PatternField["designation"] = "designation"
      /\ PatternField["billable"] = "billable" /\ PatternField["status"] = "status"
  BY DEF PatternField
<1> DEFINE F(r) == Remap(intent, PatternField[r])
<1>5. \A r \in Range(Patterns) \ {"name", "project"} : F(r) = PatternField[r]
  BY <1>3, <1>4, PatternsListed
<1>6. /\ F("name") \in {"resource_name", "project_name", "client_name"}
      /\ F("project") \in {"project_name", "resource_name"}
  BY <1>3, <1>4
<1>7. F(p) = F(q) OBVIOUS
<1> HIDE DEF F
<1>8. CASE p \notin {"name", "project"} /\ q \notin {"name", "project"}
  <2>1. PatternField[p] = PatternField[q] BY <1>1, <1>5, <1>7, <1>8
  <2> QED BY <1>1, <1>2, <1>4, <2>1, PatternsListed
<1>9. CASE p \in {"name", "project"} \/ q \in {"name", "project"}
  BY <1>1, <1>2, <1>4, <1>5, <1>6, <1>7, <1>9, PatternsListed
<1> QED BY <1>8, <1>9

\* So the clauses of a question have different fields, remapped or not.
LEMMA ExtractedApart ==
  ASSUME NEW question, IsQuestion(question), NEW domain, NEW intent
  PROVE  Apart(FieldOf, Remapped(intent, extract_filters(question, domain)))
<1> DEFINE m == Found(question, domain)
           s == extract_filters(question, domain)
           r == Remapped(intent, s)
           c(i) == Clause(PatternField[m[i]], PatternOp(m[i], question[m[i]]), question[m[i]])
<1>1. /\ Len(m) \in Nat /\ \A i \in 1 .. Len(m) : m[i] \in Finds(question, domain)
      /\ \A i, j \in 1 .. Len(m) : m[i] = m[j] => i = j
      /\ s = [i \in 1 .. Len(m) |-> c(i)]
  BY FoundShape
<1>2. \A i : c(i).field = PatternField[m[i]] BY DEF Clause
<1>3. s \in Seq(AnyClauses) BY ExtractedShape
<1> HIDE DEF m, c, s
<1>4. DOMAIN s = 1 .. Len(m) /\ \A i \in 1 .. Len(m) : s[i].field = PatternField[m[i]]
  BY <1>1, <1>2
<1>5. r \in Seq(AnyClauses) /\ DOMAIN r = DOMAIN s /\ \A i \in DOMAIN s : r[i].field = Remap(intent, s[i].field)
  BY <1>3, RemappedShape
<1> HIDE DEF r
<1>6. ASSUME NEW i \in DOMAIN r, NEW j \in DOMAIN r, r[i].field = r[j].field PROVE i = j
  <2>1. i \in 1 .. Len(m) /\ j \in 1 .. Len(m) BY <1>4, <1>5
  <2>2. Remap(intent, PatternField[m[i]]) = Remap(intent, PatternField[m[j]]) BY <1>4, <1>5, <1>6, <2>1
  <2>3. m[i] = m[j] BY <1>1, <2>1, <2>2, FindingsApart
  <2> QED BY <1>1, <2>1, <2>3
<1> QED BY <1>5, <1>6, ApartFields DEF r, s

-----------------------------------------------------------------------------
(* Control                                                                 *)

Pcs == {"idle", "classify", "extract", "groq", "followup", "reply", "override", "score",
        "update", "tool", "fallback", "respond"}

\* t is a record of these fields.
Shape ==
    t = [pc |-> t.pc, topic |-> t.topic, question |-> t.question, filters |-> t.filters,
         followUp |-> t.followUp, score |-> t.score, plan |-> t.plan, sql |-> t.sql,
         generated |-> t.generated]

Before == {"idle", "classify", "extract", "groq", "followup", "reply", "override", "score", "update"}

\* The plan is made by update_query_plan, of the topic, and the statement of
\* the plan; only the Groq graph passes through the Groq node; and beyond the
\* gate of the others a topic is one that was allowed.
Gate ==
    /\ t.pc \in Before => t.plan = NoPlan /\ t.sql = <<>>
    /\ t.plan # NoPlan => t.topic # NoTopic
    /\ entry # "groq" => /\ t.pc # "groq"
                         /\ t.topic # NoTopic => Allowed(t.topic[1])

IInv == TypeOK /\ Shape /\ Gate

-----------------------------------------------------------------------------
\* A plan is about the topic it is made for.
LEMMA PlanOfTopic ==
    ASSUME NEW plan, NEW topic, NEW filters
    PROVE  SameTopic(update_query_plan(plan, topic, filters), topic)
<1> DEFINE new == Remapped(topic[2], filters)
<1>1. \A f : SameTopic(Plan(topic, f), topic) BY DEF SameTopic, Plan
<1>2. update_query_plan(plan, topic, filters) =
         IF topic[2] \in NO_FILTER_INTENTS THEN Plan(topic, <<>>)
         ELSE IF ~SameTopic(plan, topic) THEN Plan(topic, new)
         ELSE IF new = <<>> THEN plan
         ELSE Plan(topic, Merged(topic[1], plan.filters, new))
  BY DEF update_query_plan
<1> HIDE DEF new
<1> QED BY <1>1, <1>2

\* A turn that is idle keeps every promise.
LEMMA IdleInv ==
    ASSUME IInv, t' = Idle, UNCHANGED <<entry, carried, caller, turn>>,
           ctx'.plan # NoPlan => SameTopic(ctx'.plan, ctx'.topic)
    PROVE  IInv'
<1> USE DEF IInv
<1>1. /\ t'.pc = "idle" /\ t'.topic = NoTopic /\ t'.plan = NoPlan /\ t'.sql = <<>>
  BY DEF Idle
<1>2. \A i \in DOMAIN NoPlan.filters : FALSE BY DEF NoPlan
<1>3. TypeOK' BY <1>1, <1>2 DEF TypeOK
<1>4. Shape' BY DEF Shape, Idle
<1>5. Gate' BY <1>1 DEF Gate
<1> QED BY <1>3, <1>4, <1>5

\* A step before the plan is made.
LEMMA BeforeInv ==
    ASSUME IInv, Answering, t.pc \in Before, Shape', t'.pc \in Pcs \ {"idle"},
           t'.plan = t.plan, t'.sql = t.sql,
           entry # "groq" => t'.pc # "groq" /\ (t'.topic # NoTopic => Allowed(t'.topic[1]))
    PROVE  IInv'
<1> USE DEF IInv
<1>1. t'.plan = NoPlan /\ t'.sql = <<>> BY DEF Gate
<1>2. \A i \in DOMAIN NoPlan.filters : FALSE BY DEF NoPlan
<1>3. TypeOK' BY <1>1, <1>2 DEF TypeOK, Answering, Pcs
<1>4. Gate' BY <1>1 DEF Gate, Answering, Allowed
<1> QED BY <1>3, <1>4

\* At first nothing has been asked.
LEMMA InitInv == Init => IInv
<1> SUFFICES ASSUME Init PROVE IInv
  OBVIOUS
<1>1. /\ t.pc = "idle" /\ t.topic = NoTopic /\ t.plan = NoPlan /\ t.sql = <<>>
  BY DEF Init, Idle
<1>2. \A i \in DOMAIN NoPlan.filters : FALSE BY DEF NoPlan
<1>3. TypeOK BY <1>1, <1>2, PlanTurnsAssumption DEF TypeOK, Init, NoContext
<1>4. Shape BY DEF Init, Shape, Idle
<1>5. Gate BY <1>1 DEF Gate
<1> QED BY <1>3, <1>4, <1>5 DEF IInv

\* A question begins a turn without a plan.
LEMMA AskInv == ASSUME IInv, NEW question \in Questions, Ask(question) PROVE IInv'
<1> USE DEF IInv
<1> DEFINE pc == IF entry = "groq" THEN "groq" ELSE "classify"
<1>1. /\ t' = [Idle EXCEPT !.pc = pc, !.question = question]
      /\ turn < MaxTurns /\ turn' = turn + 1 /\ UNCHANGED <<entry, carried, caller, ctx>>
  BY DEF Ask
<1>2. pc \in Before /\ pc \in Pcs /\ (entry # "groq" => pc # "groq") BY DEF Before, Pcs
<1> HIDE DEF pc
<1>3. /\ t' = [pc |-> t'.pc, topic |-> t'.topic, question |-> t'.question, filters |-> t'.filters,
               followUp |-> t'.followUp, score |-> t'.score, plan |-> t'.plan, sql |-> t'.sql,
               generated |-> t'.generated]
      /\ t'.pc = pc /\ t'.topic = NoTopic /\ t'.plan = NoPlan /\ t'.sql = <<>>
  BY <1>1 DEF Idle
<1>4. \A i \in DOMAIN NoPlan.filters : FALSE BY DEF NoPlan
<1>5. turn' \in 0 .. MaxTurns BY <1>1, PlanTurnsAssumption DEF TypeOK
<1>6. TypeOK' BY <1>1, <1>2, <1>3, <1>4, <1>5 DEF TypeOK, Pcs
<1>7. Shape' BY <1>3 DEF Shape
<1>8. Gate' BY <1>1, <1>2, <1>3 DEF Gate
<1> QED BY <1>6, <1>7, <1>8

\* The role gate: what is classified is allowed.
LEMMA ClassifyIntentInv == ASSUME IInv, ClassifyIntent PROVE IInv'
<1> USE DEF IInv
<1>1. t.pc \in Before /\ Answering BY DEF ClassifyIntent, Before
<1>2. CASE \E topic \in {q \in Topics : Allowed(q[1])}, sure \in BOOLEAN :
              t' = [t EXCEPT !.topic = topic,
                             !.question = IF entry = "regex" /\ sure THEN @ ELSE <<>>,
                             !.pc = IF entry = "hybrid" THEN "followup"
                                    ELSE IF sure THEN "extract" ELSE "fallback"]
  <2>1. PICK topic \in {q \in Topics : Allowed(q[1])}, sure \in BOOLEAN :
              t' = [t EXCEPT !.topic = topic,
                             !.question = IF entry = "regex" /\ sure THEN @ ELSE <<>>,
                             !.pc = IF entry = "hybrid" THEN "followup"
                                    ELSE IF sure THEN "extract" ELSE "fallback"]
    BY <1>2
  <2> DEFINE pc == IF entry = "hybrid" THEN "followup" ELSE IF sure THEN "extract" ELSE "fallback"
             question == IF entry = "regex" /\ sure THEN t.question ELSE <<>>
  <2>2. pc \in {"followup", "extract", "fallback"} OBVIOUS
  <2>3. t' = [t EXCEPT !.topic = topic, !.question = question, !.pc = pc]
    BY <2>1 DEF Shape
  <2> HIDE DEF pc, question
  <2>4. Shape' /\ t'.pc = pc /\ t'.topic = topic /\ t'.plan = t.plan /\ t'.sql = t.sql
    BY <2>3 DEF Shape
  <2> QED BY <1>1, <2>2, <2>4, BeforeInv DEF Pcs
<1>3. CASE t' = [t EXCEPT !.pc = IF entry = "hybrid" THEN "followup" ELSE "fallback",
                          !.question = <<>>]
  <2> DEFINE pc == IF entry = "hybrid" THEN "followup" ELSE "fallback"
  <2>1. pc \in {"followup", "fallback"} OBVIOUS
  <2>2. t' = [t EXCEPT !.pc = pc, !.question = <<>>] BY <1>3
  <2> HIDE DEF pc
  <2>3. Shape' /\ t'.pc = pc /\ t'.topic = t.topic /\ t'.plan = t.plan /\ t'.sql = t.sql
    BY <2>2 DEF Shape
  <2> QED BY <1>1, <2>1, <2>3, BeforeInv DEF Pcs, Gate
<1> QED BY <1>2, <1>3 DEF ClassifyIntent

\* The filters change nothing the gate is about.
LEMMA ExtractFiltersInv == ASSUME IInv, ExtractFilters PROVE IInv'
<1> USE DEF IInv
<1> DEFINE filters == extract_filters(t.question, t.topic[1])
<1>1. /\ t.pc \in Before /\ Answering
      /\ t' = [t EXCEPT !.pc = "update", !.question = <<>>, !.filters = filters]
  BY DEF ExtractFilters, Before
<1> HIDE DEF filters
<1>2. Shape' /\ t'.pc = "update" /\ t'.topic = t.topic /\ t'.plan = t.plan /\ t'.sql = t.sql
  BY <1>1 DEF Shape
<1> QED BY <1>1, <1>2, BeforeInv DEF Pcs, Gate

\* The Groq graph's own nodes, where the gate is not claimed.
LEMMA GroqInv == ASSUME IInv, GroqFollowUp \/ GroqExtract \/ GroqRecover PROVE IInv'
<1> USE DEF IInv
<1>1. t.pc = "groq" /\ t.pc \in Before /\ Answering
  BY DEF GroqFollowUp, GroqExtract, GroqRecover, Before
<1>2. entry = "groq" BY <1>1 DEF Gate
<1>3. \E pc \in {"update", "fallback"} : \E topic, filters :
         t' = [t EXCEPT !.pc = pc, !.topic = topic, !.question = <<>>, !.filters = filters]
  <2>1. ASSUME NEW topic, t' = [t EXCEPT !.pc = "update", !.topic = topic, !.question = <<>>]
        PROVE  t' = [t EXCEPT !.pc = "update", !.topic = topic, !.question = <<>>,
                              !.filters = t.filters]
    BY <2>1 DEF Shape
  <2>2. ASSUME NEW topic, t' = [t EXCEPT !.pc = "fallback", !.topic = topic, !.question = <<>>]
        PROVE  t' = [t EXCEPT !.pc = "fallback", !.topic = topic, !.question = <<>>,
                              !.filters = t.filters]
    BY <2>2 DEF Shape
  <2>3. ASSUME t' = [t EXCEPT !.pc = "fallback", !.question = <<>>]
        PROVE  t' = [t EXCEPT !.pc = "fallback", !.topic = t.topic, !.question = <<>>]
    BY <2>3 DEF Shape
  <2>4. CASE GroqFollowUp
    <3>1. CASE Allowed(ctx.topic[1])
      <4>1. t' = [t EXCEPT !.pc = "update", !.topic = ctx.topic, !.question = <<>>]
        BY <2>4, <3>1 DEF GroqFollowUp
      <4> QED BY <2>1, <4>1
    <3>2. CASE ~Allowed(ctx.topic[1])
      <4>1. t' = [t EXCEPT !.pc = "fallback", !.question = <<>>]
        BY <2>4, <3>2 DEF GroqFollowUp
      <4>2. t' = [t EXCEPT !.pc = "fallback", !.topic = t.topic, !.question = <<>>]
        BY <2>3, <4>1
      <4> QED BY <2>2, <4>2
    <3> QED BY <3>1, <3>2
  <2>5. CASE GroqExtract BY <2>2, <2>5 DEF GroqExtract
  <2>6. CASE GroqRecover BY <2>6 DEF GroqRecover
  <2> QED BY <2>4, <2>5, <2>6
<1>4. PICK pc \in {"update", "fallback"} :
         \E topic, filters :
            t' = [t EXCEPT !.pc = pc, !.topic = topic, !.question = <<>>, !.filters = filters]
  BY <1>3
<1>5. Shape' /\ t'.pc = pc /\ t'.plan = t.plan /\ t'.sql = t.sql BY <1>4 DEF Shape
<1> QED BY <1>1, <1>2, <1>5, BeforeInv DEF Pcs

\* The nodes of the hybrid graph leave the topic to the classifier.
LEMMA HybridInv ==
    ASSUME IInv, FollowupDetection \/ LlmExtraction \/ DeterministicOverride \/ ConfidenceScoring
    PROVE  IInv'
<1> USE DEF IInv
<1>1. t.pc \in Before /\ Answering
  BY DEF FollowupDetection, LlmExtraction, DeterministicOverride, ConfidenceScoring, Before
<1>2. /\ Shape' /\ t'.pc \in {"reply", "override", "score", "update", "fallback"}
      /\ t'.topic = t.topic /\ t'.plan = t.plan /\ t'.sql = t.sql
  <2>1. CASE FollowupDetection
    <3>1. PICK x : t' = [t EXCEPT !.pc = "reply", !.followUp = x] BY <2>1 DEF FollowupDetection
    <3> QED BY <3>1 DEF Shape
  <2>2. CASE LlmExtraction
    <3>1. \E filters, x : t' = [t EXCEPT !.pc = "override", !.filters = filters,
                                         !.question = <<>>, !.followUp = x]
      <4>1. ASSUME t' = [t EXCEPT !.pc = "override", !.question = <<>>, !.followUp = "new"]
            PROVE  t' = [t EXCEPT !.pc = "override", !.filters = t.filters,
                                  !.question = <<>>, !.followUp = "new"]
        BY <4>1 DEF Shape
      <4> QED BY <2>2, <4>1 DEF LlmExtraction
    <3>2. PICK filters, x : t' = [t EXCEPT !.pc = "override", !.filters = filters,
                                           !.question = <<>>, !.followUp = x]
      BY <3>1
    <3> QED BY <3>2 DEF Shape
  <2>3. CASE DeterministicOverride
    <3>1. PICK x : t' = [t EXCEPT !.pc = "score", !.followUp = x]
      BY <2>3 DEF DeterministicOverride
    <3> QED BY <3>1 DEF Shape
  <2>4. CASE ConfidenceScoring
    <3>1. PICK x : t' = [t EXCEPT !.score = x, !.pc = IF x >= 70 THEN "update" ELSE "fallback"]
      BY <2>4 DEF ConfidenceScoring
    <3>2. PICK pc \in {"update", "fallback"} : t' = [t EXCEPT !.score = x, !.pc = pc] BY <3>1
    <3> QED BY <3>2 DEF Shape
  <2> QED BY <2>1, <2>2, <2>3, <2>4
<1> QED BY <1>1, <1>2, BeforeInv DEF Pcs, Gate

\* The plan is made, of the topic.
LEMMA UpdateQueryPlanInv == ASSUME IInv, UpdateQueryPlan PROVE IInv'
<1> USE DEF IInv
<1> DEFINE plan == update_query_plan(Handed, t.topic, t.filters)
<1>1. t.pc = "update" /\ t.pc \in Before /\ Answering BY DEF UpdateQueryPlan, Before
<1>2. CASE t' = [t EXCEPT !.pc = "tool"]
  <2>1. Shape' /\ t'.pc = "tool" /\ t'.topic = t.topic /\ t'.plan = t.plan /\ t'.sql = t.sql
    BY <1>2 DEF Shape
  <2> QED BY <1>1, <2>1, BeforeInv DEF Pcs, Gate
<1>3. CASE t' = Idle
  BY <1>1, <1>3, IdleInv DEF Answering, TypeOK
<1>4. CASE /\ t.topic # NoTopic /\ ~UpdateRaises(Handed, t.topic, t.filters)
           /\ t' = [t EXCEPT !.pc = "tool", !.score = 0, !.followUp = "new",
                             !.plan = plan]
  <2>1. SameTopic(plan, t.topic) BY PlanOfTopic
  <2>2. ~ \E i \in DOMAIN plan.filters : Len(plan.filters[i].values) > MaxValues
    BY <1>4 DEF UpdateRaises
  <2> HIDE DEF plan
  <2>3. /\ Shape' /\ t'.pc = "tool" /\ t'.topic = t.topic /\ t'.plan = plan /\ t'.sql = t.sql
    BY <1>4 DEF Shape
  <2>4. t.sql = <<>> BY <1>1 DEF Gate
  <2>5. TypeOK' BY <1>1, <2>1, <2>2, <2>3, <2>4 DEF TypeOK, Answering
  <2>6. Gate' BY <1>1, <1>4, <2>3 DEF Gate, Answering, Allowed, Before
  <2> QED BY <2>3, <2>5, <2>6
<1> QED BY <1>2, <1>3, <1>4 DEF UpdateQueryPlan

\* A step of a turn that has its plan, or none.
LEMMA AfterInv ==
    ASSUME IInv, Answering, Shape', t'.pc \in Pcs \ Before,
           t'.topic = t.topic, t'.plan = t.plan, t'.sql = t.sql \/ t.plan # NoPlan
    PROVE  IInv'
<1> USE DEF IInv
<1>1. TypeOK' BY DEF TypeOK, Answering, Pcs
<1>2. Gate' BY DEF Gate, Answering, Allowed, Pcs, Before
<1> QED BY <1>1, <1>2

\* The tool runs the plan or gives up, and keeps both.
LEMMA ToolInv == ASSUME IInv, ToolFails \/ RunDomainTool PROVE IInv'
<1> USE DEF IInv
<1>1. CASE ToolFails
  <2>1. Answering /\ t' = [t EXCEPT !.pc = "fallback"] BY <1>1 DEF ToolFails
  <2>2. Shape' /\ t'.pc = "fallback" /\ t'.topic = t.topic /\ t'.plan = t.plan /\ t'.sql = t.sql
    BY <2>1 DEF Shape
  <2> QED BY <2>1, <2>2, AfterInv DEF Pcs, Before
<1>2. CASE RunDomainTool
  <2>1. Answering /\ t.plan # NoPlan BY <1>2 DEF RunDomainTool
  <2>2. PICK pc \in {"respond", "fallback"} : \E st : t' = [t EXCEPT !.pc = pc, !.sql = <<st>>]
    BY <1>2 DEF RunDomainTool
  <2>3. Shape' /\ t'.pc = pc /\ t'.topic = t.topic /\ t'.plan = t.plan BY <2>2 DEF Shape
  <2> QED BY <2>1, <2>3, AfterInv DEF Pcs, Before
<1> QED BY <1>1, <1>2

\* The language model answers and leaves the plan.
LEMMA LlmFallbackInv == ASSUME IInv, LlmFallback PROVE IInv'
<1> USE DEF IInv
<1>1. Answering BY DEF LlmFallback
<1>2. CASE t' = Idle BY <1>1, <1>2, IdleInv DEF Answering, TypeOK
<1>3. ASSUME NEW generated, t' = [t EXCEPT !.pc = "respond", !.generated = generated]
      PROVE  IInv'
  <2>1. Shape' /\ t'.pc = "respond" /\ t'.topic = t.topic /\ t'.plan = t.plan /\ t'.sql = t.sql
    BY <1>3 DEF Shape
  <2> QED BY <1>1, <2>1, AfterInv DEF Pcs, Before
<1>4. t' = [t EXCEPT !.pc = "respond"] => t' = [t EXCEPT !.pc = "respond", !.generated = t.generated]
  BY DEF Shape
<1> QED BY <1>2, <1>3, <1>4 DEF LlmFallback

\* The answer hands the plan on with its topic.
LEMMA RespondInv == ASSUME IInv, Respond PROVE IInv'
<1> USE DEF IInv
<1>1. ctx'.plan # NoPlan => SameTopic(ctx'.plan, ctx'.topic)
  BY DEF Respond, NoContext, TypeOK
<1> QED BY <1>1, IdleInv DEF Respond

\* The context is cleared, between turns.
LEMMA ClearContextInv == ASSUME IInv, ClearContext PROVE IInv'
  BY DEF IInv, ClearContext, TypeOK, Shape, Gate, NoContext, Allowed

\* Every step keeps the invariant.
LEMMA NextInv == ASSUME IInv, [Next]_vars PROVE IInv'
<1>1. CASE UNCHANGED vars BY <1>1 DEF vars, IInv, TypeOK, Shape, Gate, Allowed
<1>2. CASE Next
  <2>1. CASE (\E question \in Questions : Ask(question)) \/ ClearContext
    BY <2>1, AskInv, ClearContextInv
  <2>2. CASE Step
    BY <2>2, ClassifyIntentInv, ExtractFiltersInv, GroqInv, HybridInv, UpdateQueryPlanInv,
       ToolInv, LlmFallbackInv, RespondInv DEF Step
  <2> QED BY <1>2, <2>1, <2>2 DEF Next
<1> QED BY <1>1, <1>2

\* The inductive invariant of the control of a turn.
LEMMA InductiveInvariant == Spec => []IInv
  BY InitInv, NextInv, PTL DEF Spec

-----------------------------------------------------------------------------
\* The variables keep their types: a plan, of a turn or of a context, is about
\* the topic beside it, and no clause outgrows MaxValues.
THEOREM TypeCorrect == Spec => []TypeOK
<1>1. IInv => TypeOK BY DEF IInv
<1> QED BY <1>1, InductiveInvariant, PTL

\* In the default and the hybrid graph a user's compiled statement is of his
\* own domain, whatever the model replies and whatever becomes of the
\* confidence (classify_intent's gate).
THEOREM GateHoldsAlways == Spec => []GateHolds
<1>1. IInv => GateHolds BY DEF IInv, TypeOK, Gate, GateHolds, Allowed
<1> QED BY <1>1, InductiveInvariant, PTL

-----------------------------------------------------------------------------
(* Data                                                                    *)

\* Which nodes an entry passes through, and with what: the classifier and the
\* default extraction have the question, and a topic is one of the catalog
\* but where the Groq model names it.
Nodes ==
    /\ carried => entry = "regex"
    /\ t.pc = "classify" => entry # "groq"
    /\ t.pc = "extract" => entry = "regex"
    /\ t.pc = "extract" \/ (entry = "regex" /\ t.pc = "update") => t.topic \in Topics
    /\ t.pc \in {"followup", "reply", "override", "score"} => entry = "hybrid"
    /\ t.pc \in {"classify", "extract", "groq"} => t.question \in Questions
    /\ entry # "groq" => /\ t.topic # NoTopic => t.topic \in Topics
                         /\ ctx.topic # NoTopic => ctx.topic \in Topics

\* The filters of a turn are clauses; in the default graph they are those of
\* a question, in the hybrid graph those of a reply the score lets through.
Filters ==
    /\ t.filters \in Seq(AnyClauses)
    /\ entry = "regex" /\ t.pc = "update" =>
          \E question \in Questions : t.filters = extract_filters(question, t.topic[1])
    /\ entry = "hybrid" =>
          /\ t.pc \in {"classify", "followup", "reply"} => t.filters = <<>>
          /\ FieldsIn(t.filters) \subseteq FieldsOf(Domain)
          /\ t.pc = "update" \/ t.plan # NoPlan => calculate_confidence(t.filters, Domain) >= 70

\* What the default graph's plans keep from turn to turn.
Coherent(plan) ==
    /\ Apart(FieldOf, plan.filters)
    /\ FieldsIn(plan.filters) \subseteq PlanFields(<<plan.domain, plan.intent>>)
    /\ plan.intent \in NO_FILTER_INTENTS => plan.filters = <<>>

\* Where a plan comes from, and a statement.
Plans ==
    /\ t.plan.filters \in Seq(ValidClauses) /\ ctx.plan.filters \in Seq(ValidClauses)
    /\ entry = "regex" => Coherent(t.plan) /\ Coherent(ctx.plan)
    /\ entry = "regex" /\ t.plan # NoPlan =>
          \E question \in Questions :
             t.plan = update_query_plan(Handed, t.topic, extract_filters(question, t.topic[1]))
    /\ entry = "hybrid" /\ t.plan # NoPlan =>
          \E filters \in Seq(AnyClauses) :
             /\ FieldsIn(filters) \subseteq FieldsOf(t.topic[1])
             /\ calculate_confidence(filters, t.topic[1]) >= 70
             /\ t.plan = update_query_plan(NoPlan, t.topic, filters)
    /\ t.sql # <<>> => /\ CompileFailure(t.plan, caller.rid) = "none"
                       /\ t.sql = <<compile_query(t.plan, caller.rid)>>

Origin == Nodes /\ Filters /\ Plans

\* No clauses are coherent clauses.
LEMMA EmptyClauses ==
  /\ <<>> \in Seq(AnyClauses) /\ <<>> \in Seq(ValidClauses)
  /\ Apart(FieldOf, <<>>) /\ FieldsIn(<<>>) = {}
  /\ NoPlan.filters = <<>> /\ Coherent(NoPlan)
<1>1. <<>> \in Seq(AnyClauses) /\ <<>> \in Seq(ValidClauses) BY EmptySeq
<1>2. Apart(FieldOf, <<>>) /\ FieldsIn(<<>>) = {} BY DEF Apart, FieldsIn
<1>3. NoPlan.filters = <<>> BY DEF NoPlan
<1> QED BY <1>1, <1>2, <1>3 DEF Coherent

\* The questions of the conversation are questions.
LEMMA KnownQuestion == ASSUME NEW question \in Questions PROVE IsQuestion(question)
  BY PlanTurnsAssumption DEF IsQuestion

\* A plan stays coherent: the question's clauses are apart, and so are merged
\* ones.
LEMMA UpdateCoherent ==
  ASSUME NEW plan, plan.filters \in Seq(AnyClauses), Coherent(plan),
         NEW topic \in INTENT_CATALOG, NEW question, IsQuestion(question)
  PROVE  Coherent(update_query_plan(plan, topic, extract_filters(question, topic[1])))
<1> DEFINE filters == extract_filters(question, topic[1])
           new == Remapped(topic[2], filters)
           p == update_query_plan(plan, topic, filters)
<1>1. filters \in Seq(AnyClauses) /\ FieldsIn(filters) \subseteq FieldsOf(topic[1]) BY ExtractedShape
<1>2. new \in Seq(AnyClauses) /\ Apart(FieldOf, new) BY <1>1, RemappedShape, ExtractedApart
<1>3. FieldsIn(new) \subseteq PlanFields(topic)
  <2>1. DOMAIN new = DOMAIN filters
        /\ \A i \in DOMAIN filters : new[i].field = Remap(topic[2], filters[i].field)
    BY <1>1, RemappedShape
  <2> HIDE DEF new, filters
  <2> QED BY <1>1, <2>1 DEF FieldsIn, PlanFields
<1>4. topic = <<topic[1], topic[2]>> BY CatalogTopic
<1>5. \A f : /\ Plan(topic, f).filters = f /\ Plan(topic, f).domain = topic[1]
             /\ Plan(topic, f).intent = topic[2]
  BY DEF Plan
<1>6. SameTopic(p, topic) BY PlanOfTopic
<1>7. \/ p.filters = <<>> /\ topic[2] \in NO_FILTER_INTENTS
      \/ p = Plan(topic, new) /\ ~SameTopic(plan, topic) /\ topic[2] \notin NO_FILTER_INTENTS
      \/ p = plan /\ new = <<>> /\ SameTopic(plan, topic) /\ topic[2] \notin NO_FILTER_INTENTS
      \/ /\ p = Plan(topic, Merged(topic[1], plan.filters, new))
         /\ SameTopic(plan, topic) /\ topic[2] \notin NO_FILTER_INTENTS
  BY <1>1, UpdateShape
<1> SUFFICES Coherent(p) OBVIOUS
<1> HIDE DEF new, filters, p
<1>8. <<p.domain, p.intent>> = topic BY <1>4, <1>6 DEF SameTopic
<1>9. CASE p.filters = <<>> BY <1>9, EmptyClauses DEF Coherent
<1>10. CASE p = Plan(topic, new) /\ topic[2] \notin NO_FILTER_INTENTS
  <2>1. p.filters = new /\ p.intent = topic[2] BY <1>5, <1>10
  <2> QED BY <1>2, <1>3, <1>8, <1>10, <2>1 DEF Coherent
<1>11. CASE p = plan BY <1>11
<1>12. CASE /\ p = Plan(topic, Merged(topic[1], plan.filters, new))
            /\ SameTopic(plan, topic) /\ topic[2] \notin NO_FILTER_INTENTS
  <2> DEFINE merged == Merged(topic[1], plan.filters, new)
  <2>1. /\ Apart(FieldOf, merged)
        /\ FieldsIn(merged) \subseteq FieldsIn(plan.filters) \union FieldsIn(new)
    BY <1>2, MergedShape
  <2>2. <<plan.domain, plan.intent>> = topic BY <1>4, <1>12 DEF SameTopic
  <2>3. FieldsIn(plan.filters) \subseteq PlanFields(topic) BY <2>2 DEF Coherent
  <2>4. p.filters = merged /\ p.intent = topic[2] BY <1>5, <1>12
  <2> HIDE DEF merged
  <2> QED BY <1>3, <1>8, <1>12, <2>1, <2>3, <2>4 DEF Coherent
<1> QED BY <1>7, <1>9, <1>10, <1>11, <1>12

\* A part of a list of clauses is one.
LEMMA SomeKept ==
  ASSUME NEW S, NEW s \in Seq(S), NEW parts, parts = [i \in DOMAIN s |-> parts[i]],
         \A i \in DOMAIN s : parts[i] = <<s[i]>> \/ parts[i] = <<>>
  PROVE  /\ FlattenSeq(parts) \in Seq(S)
         /\ \A x \in Range(FlattenSeq(parts)) : \E i \in DOMAIN s : x = s[i] /\ parts[i] = <<s[i]>>
<1>1. Len(s) \in Nat /\ DOMAIN s = 1 .. Len(s) /\ \A i \in 1 .. Len(s) : s[i] \in S
  BY LenProperties, ElementOfSeq
<1>2. parts \in Seq(Seq(S))
  <2>1. \A x \in S : <<x>> \in Seq(S) OBVIOUS
  <2>2. \A i \in 1 .. Len(s) : parts[i] \in Seq(S) BY <1>1, <2>1, EmptySeq
  <2> QED BY <1>1, <2>2
<1>3. FlattenSeq(parts) \in Seq(S) BY <1>2, FlattenType
<1>4. Range(FlattenSeq(parts)) = UNION {Range(x) : x \in Range(parts)} BY <1>2, FlattenRange
<1>5. ASSUME NEW x \in Range(FlattenSeq(parts))
      PROVE  \E i \in DOMAIN s : x = s[i] /\ parts[i] = <<s[i]>>
  <2>1. PICK y \in Range(parts) : x \in Range(y) BY <1>4
  <2>2. PICK i \in DOMAIN s : y = parts[i] BY <2>1 DEF Range
  <2>3. \A v : Range(<<v>>) = {v} /\ Range(<<>>) = {} BY DEF Range
  <2>4. parts[i] = <<s[i]>> \/ parts[i] = <<>> OBVIOUS
  <2>5. parts[i] = <<s[i]>> BY <2>1, <2>2, <2>3, <2>4, Zenon
  <2>6. x = s[i]
    <3>1. Range(y) = {s[i]} BY <2>2, <2>3, <2>5, Zenon
    <3> QED BY <2>1, <3>1
  <2> QED BY <2>5, <2>6
<1> QED BY <1>3, <1>5

\* What the Groq entry builds of a reply is clauses.
LEMMA GroqType ==
  ASSUME NEW topic, NEW reply \in Seq(AnyClauses), NEW question, IsQuestion(question)
  PROVE  GroqFilters(topic, reply, question) \in Seq(AnyClauses)
<1> DEFINE added(p) == <<Clause(PatternField[p], "eq", question[p])>>
           full == _post_process_extraction(topic, reply, question)
           solid(fc) == [fc EXCEPT !.values = Keep(@, LAMBDA v : v # "")]
           built == [i \in DOMAIN full |-> FilterClause(solid(full[i]))]
           accepted(fc) == /\ Registered(fc.field, topic[1])
                           /\ Len(fc.values) \in 1 .. MaxValues
                           /\ fc.op \in Operators
           parts == [i \in DOMAIN built |-> IF accepted(built[i]) THEN <<built[i]>> ELSE <<>>]
<1>1. \/ full = reply
      \/ "name" \in DOMAIN question /\ full = reply \o added("name")
      \/ "skill" \in DOMAIN question /\ full = reply \o added("skill")
      \/ "client" \in DOMAIN question /\ full = reply \o added("client")
  BY DEF _post_process_extraction
<1>2. ASSUME NEW p \in {"name", "skill", "client"}, p \in DOMAIN question
      PROVE  reply \o added(p) \in Seq(AnyClauses)
  <2>1. PatternField[p] \in FieldNames BY FieldNamesListed DEF PatternField
  <2>2. question[p] \in Seq(Texts)
    <3>1. question[p] \in Seq(STRING) BY <1>2 DEF IsQuestion
    <3>2. STRING \subseteq Texts BY DEF Texts
    <3> QED BY <3>1, <3>2, SeqMonotone
  <2>3. Clause(PatternField[p], "eq", question[p]) \in AnyClauses
    BY <2>1, <2>2 DEF Clause, AnyClauses, Texts, Operators
  <2>4. \A c \in AnyClauses : <<c>> \in Seq(AnyClauses) OBVIOUS
  <2>5. added(p) \in Seq(AnyClauses) BY <2>3, <2>4
  <2> HIDE DEF added
  <2> QED BY <2>5, ConcatProperties
<1>3. full \in Seq(AnyClauses)
  <2> HIDE DEF full, added
  <2> QED BY <1>1, <1>2
<1>4. GroqFilters(topic, reply, question) = Keep(built, accepted)
  BY DEF GroqFilters
<1>5. Keep(built, accepted) = FlattenSeq(parts) BY DEF Keep
<1> HIDE DEF full
<1>6. ASSUME NEW fc \in AnyClauses PROVE solid(fc) \in AnyClauses
  <2> DEFINE kept == Keep(fc.values, LAMBDA v : v # "")
  <2>1. /\ fc = [field |-> fc.field, op |-> fc.op, values |-> fc.values]
        /\ fc.field \in Texts /\ fc.op \in Texts /\ fc.values \in Seq(Texts)
    BY DEF AnyClauses
  <2>2. kept \in Seq(Texts)
    <3> DEFINE some == [i \in DOMAIN fc.values |-> IF fc.values[i] # "" THEN <<fc.values[i]>> ELSE <<>>]
    <3>1. kept = FlattenSeq(some) BY DEF Keep
    <3>2. /\ some = [i \in DOMAIN fc.values |-> some[i]]
          /\ \A i \in DOMAIN fc.values : some[i] = <<fc.values[i]>> \/ some[i] = <<>>
      OBVIOUS
    <3> HIDE DEF some, kept
    <3> QED BY <2>1, <3>1, <3>2, SomeKept
  <2>3. solid(fc) = [fc EXCEPT !.values = kept] OBVIOUS
  <2> HIDE DEF kept
  <2>4. ASSUME NEW z, z = [fc EXCEPT !.values = kept]
        PROVE  z = [field |-> fc.field, op |-> fc.op, values |-> kept]
    BY <2>1, <2>4
  <2> HIDE DEF solid
  <2> QED BY <2>1, <2>2, <2>3, <2>4 DEF AnyClauses
<1>7. built \in Seq(AnyClauses)
  <2>1. Len(full) \in Nat /\ DOMAIN full = 1 .. Len(full) /\ \A i \in 1 .. Len(full) : full[i] \in AnyClauses
    BY <1>3, LenProperties, ElementOfSeq
  <2>2. built = [i \in 1 .. Len(full) |-> FilterClause(solid(full[i]))] BY <2>1
  <2> HIDE DEF solid, built
  <2>3. ASSUME NEW i \in 1 .. Len(full) PROVE FilterClause(solid(full[i])) \in AnyClauses
    BY <1>6, <2>1, FilterClauseShape
  <2> QED BY <2>1, <2>2, <2>3
<1> HIDE DEF built
<1>8. \A i \in DOMAIN built : parts[i] = <<built[i]>> \/ parts[i] = <<>>
  <2> HIDE DEF accepted
  <2> QED OBVIOUS
<1>9. parts = [i \in DOMAIN built |-> parts[i]] OBVIOUS
<1> HIDE DEF parts
<1>10. FlattenSeq(parts) \in Seq(AnyClauses) BY <1>7, <1>8, <1>9, SomeKept
<1> HIDE DEF accepted
<1> QED BY <1>4, <1>5, <1>10

\* The clauses of a reply are on fields of the domain.
LEMMA HybridShape ==
  ASSUME NEW domain, NEW reply \in Seq(AnyClauses)
  PROVE  /\ HybridFilters(domain, reply) \in Seq(AnyClauses)
         /\ FieldsIn(HybridFilters(domain, reply)) \subseteq FieldsOf(domain)
<1> DEFINE is(fc) == Registered(_FIELD_ALIAS_REMAP(fc.field), domain)
           parts == [i \in DOMAIN reply |-> IF is(reply[i]) THEN <<reply[i]>> ELSE <<>>]
           known == Keep(reply, LAMBDA fc : Registered(_FIELD_ALIAS_REMAP(fc.field), domain))
           normal(fc) == Clause(_FIELD_ALIAS_REMAP(fc.field),
                                IF fc.op = "in" THEN "in" ELSE "eq", Wrapped(fc.values))
           s == HybridFilters(domain, reply)
<1>1. known = FlattenSeq(parts) BY DEF Keep
<1>2. s = [i \in DOMAIN known |-> normal(known[i])] BY DEF HybridFilters
<1>3. \A i \in DOMAIN reply : parts[i] = <<reply[i]>> \/ parts[i] = <<>>
  <2> HIDE DEF is
  <2> QED OBVIOUS
<1>4. parts = [i \in DOMAIN reply |-> parts[i]] OBVIOUS
<1>5. \A i \in DOMAIN reply : parts[i] = <<reply[i]>> => is(reply[i])
  <2> HIDE DEF is
  <2>1. \A v : <<v>> # <<>> OBVIOUS
  <2> QED BY <2>1
<1> HIDE DEF parts, known, s
<1>6. known \in Seq(AnyClauses) /\ \A x \in Range(known) : is(x)
  <2>1. /\ FlattenSeq(parts) \in Seq(AnyClauses)
        /\ \A x \in Range(FlattenSeq(parts)) : \E i \in DOMAIN reply : x = reply[i] /\ parts[i] = <<reply[i]>>
    BY <1>3, <1>4, SomeKept
  <2> HIDE DEF is
  <2> QED BY <1>1, <1>5, <2>1
<1>7. /\ Len(known) \in Nat /\ DOMAIN known = 1 .. Len(known)
      /\ \A i \in 1 .. Len(known) : known[i] \in AnyClauses /\ is(known[i])
  <2> HIDE DEF is
  <2>1. Len(known) \in Nat /\ DOMAIN known = 1 .. Len(known) BY <1>6, LenProperties
  <2>2. \A i \in 1 .. Len(known) : known[i] \in AnyClauses BY <1>6, ElementOfSeq
  <2>3. \A i \in 1 .. Len(known) : known[i] \in Range(known) BY <2>1 DEF Range
  <2> QED BY <1>6, <2>1, <2>2, <2>3
<1>8. ASSUME NEW fc \in AnyClauses, is(fc) PROVE normal(fc) \in AnyClauses /\ normal(fc).field \in FieldsOf(domain)
  <2>1. _FIELD_ALIAS_REMAP(fc.field) \in FieldsOf(domain) BY <1>8 DEF Registered
  <2>2. _FIELD_ALIAS_REMAP(fc.field) \in Texts BY <2>1, ResolvesToField DEF Texts
  <2>3. fc.values \in Seq(Texts) BY DEF AnyClauses
  <2>4. Wrapped(fc.values) \in Seq(Texts)
    <3>1. "(a list)" \in Texts /\ "(a complex list)" \in Texts BY DEF Texts
    <3>2. \A v \in Texts : <<v>> \in Seq(Texts) OBVIOUS
    <3> QED BY <2>3, <3>1, <3>2, EmptySeq DEF Wrapped
  <2>5. "in" \in Texts /\ "eq" \in Texts BY DEF Texts, Operators
  <2> QED BY <2>1, <2>2, <2>4, <2>5 DEF Clause, AnyClauses
<1> HIDE DEF is, normal
<1>9. DOMAIN s = 1 .. Len(known) /\ s \in Seq(AnyClauses)
  <2>1. s = [i \in 1 .. Len(known) |-> normal(known[i])] BY <1>2, <1>7
  <2>2. \A i \in 1 .. Len(known) : normal(known[i]) \in AnyClauses BY <1>7, <1>8
  <2> QED BY <1>7, <2>1, <2>2
<1>10. FieldsIn(s) \subseteq FieldsOf(domain)
  <2>1. \A i \in 1 .. Len(known) : s[i].field \in FieldsOf(domain) BY <1>2, <1>7, <1>8
  <2> QED BY <1>9, <2>1 DEF FieldsIn
<1> QED BY <1>9, <1>10 DEF s

\* As long as a turn has no plan there is nothing to say of one.
LEMMA PlansNone ==
  ASSUME Plans, Answering, t'.plan = NoPlan, t'.sql = <<>>
  PROVE  Plans'
  BY EmptyClauses DEF Plans, Answering

\* A step that keeps the plan and its statement keeps where they are from.
LEMMA PlansKept ==
  ASSUME Plans, Answering, t'.plan = t.plan, t'.sql = t.sql, t'.topic = t.topic
  PROVE  Plans'
  BY DEF Plans, Answering, Handed

\* A turn that is over leaves the context.
LEMMA IdleOrigin ==
  ASSUME Origin, t' = Idle, UNCHANGED <<entry, carried, caller>>,
         ctx'.plan.filters \in Seq(ValidClauses),
         entry = "regex" => Coherent(ctx'.plan),
         entry # "groq" => (ctx'.topic # NoTopic => ctx'.topic \in Topics)
  PROVE  Origin'
<1>1. /\ t'.pc = "idle" /\ t'.topic = NoTopic /\ t'.plan = NoPlan /\ t'.sql = <<>>
      /\ t'.filters = <<>>
  BY DEF Idle
<1>2. Nodes' BY <1>1 DEF Origin, Nodes
<1>3. Filters' BY <1>1, EmptyClauses DEF Filters
<1>4. Plans' BY <1>1, EmptyClauses DEF Origin, Plans
<1> QED BY <1>2, <1>3, <1>4 DEF Origin

\* At first there are neither filters nor plans.
LEMMA InitOrigin == Init => Origin
<1> SUFFICES ASSUME Init PROVE Origin OBVIOUS
<1>1. /\ t.pc = "idle" /\ t.topic = NoTopic /\ t.plan = NoPlan /\ t.sql = <<>> /\ t.filters = <<>>
      /\ ctx.plan = NoPlan /\ ctx.topic = NoTopic /\ (carried => entry = "regex")
  BY DEF Init, Idle, NoContext
<1>2. Nodes BY <1>1 DEF Nodes
<1>3. Filters BY <1>1, EmptyClauses DEF Filters
<1>4. Plans BY <1>1, EmptyClauses DEF Plans
<1> QED BY <1>2, <1>3, <1>4 DEF Origin

\* A question begins without either.
LEMMA AskOrigin == ASSUME IInv, Origin, NEW question \in Questions, Ask(question) PROVE Origin'
<1> DEFINE pc == IF entry = "groq" THEN "groq" ELSE "classify"
<1>1. /\ t' = [Idle EXCEPT !.pc = pc, !.question = question]
      /\ UNCHANGED <<entry, carried, caller, ctx>>
  BY DEF Ask
<1>2. pc \in {"groq", "classify"} /\ (pc = "classify" => entry # "groq") OBVIOUS
<1> HIDE DEF pc
<1>3. /\ t'.pc = pc /\ t'.question = question /\ t'.topic = NoTopic /\ t'.filters = <<>>
      /\ t'.plan = NoPlan /\ t'.sql = <<>>
  BY <1>1 DEF Idle
<1>4. Nodes' BY <1>1, <1>2, <1>3 DEF Origin, Nodes
<1>5. Filters' BY <1>2, <1>3, EmptyClauses DEF Filters
<1>6. Plans' BY <1>1, <1>3, EmptyClauses DEF Origin, Plans
<1> QED BY <1>4, <1>5, <1>6 DEF Origin

\* The classifier keeps the question for the default extraction only, with a
\* topic of the catalog.
LEMMA ClassifyIntentOrigin == ASSUME IInv, Origin, ClassifyIntent PROVE Origin'
<1>1. /\ t.pc = "classify" /\ Answering /\ t.plan = NoPlan /\ t.sql = <<>>
  BY DEF ClassifyIntent, IInv, Gate, Before
<1>2. Shape BY DEF IInv
<1>3. CASE \E topic \in {q \in Topics : Allowed(q[1])}, sure \in BOOLEAN :
              t' = [t EXCEPT !.topic = topic,
                             !.question = IF entry = "regex" /\ sure THEN @ ELSE <<>>,
                             !.pc = IF entry = "hybrid" THEN "followup"
                                    ELSE IF sure THEN "extract" ELSE "fallback"]
  <2>1. PICK topic \in {q \in Topics : Allowed(q[1])}, sure \in BOOLEAN :
              t' = [t EXCEPT !.topic = topic,
                             !.question = IF entry = "regex" /\ sure THEN @ ELSE <<>>,
                             !.pc = IF entry = "hybrid" THEN "followup"
                                    ELSE IF sure THEN "extract" ELSE "fallback"]
    BY <1>3
  <2> DEFINE pc == IF entry = "hybrid" THEN "followup" ELSE IF sure THEN "extract" ELSE "fallback"
             question == IF entry = "regex" /\ sure THEN t.question ELSE <<>>
  <2>2. t' = [t EXCEPT !.topic = topic, !.question = question, !.pc = pc] BY <1>2, <2>1 DEF Shape
  <2>3. /\ pc \in {"followup", "extract", "fallback"}
        /\ pc = "extract" => entry # "hybrid" /\ sure
        /\ pc = "followup" => entry = "hybrid"
        /\ entry = "hybrid" => pc = "followup"
        /\ entry = "regex" /\ sure => question = t.question
    OBVIOUS
  <2> HIDE DEF pc, question
  <2>4. /\ t'.pc = pc /\ t'.topic = topic /\ t'.question = question /\ t'.filters = t.filters
        /\ t'.plan = t.plan /\ t'.sql = t.sql
    BY <1>2, <2>2 DEF Shape
  <2>5. topic \in Topics /\ UNCHANGED <<entry, carried, caller, ctx>> BY <1>1, <2>1 DEF Answering
  <2>6. Nodes'
    <3>1. pc = "extract" => entry = "regex" /\ question \in Questions
      <4>1. entry \in {"regex", "groq", "hybrid"} BY PlanTurnsAssumption DEF IInv, TypeOK
      <4>2. entry # "groq" /\ t.question \in Questions BY <1>1 DEF Origin, Nodes
      <4> QED BY <2>3, <4>1, <4>2
    <3> QED BY <2>3, <2>4, <2>5, <3>1 DEF Origin, Nodes
  <2>7. Filters'
    <3>1. entry = "hybrid" => t.filters = <<>> BY <1>1 DEF Origin, Filters
    <3> QED BY <1>1, <2>3, <2>4, <2>5, <3>1, EmptyClauses DEF Origin, Filters
  <2>8. Plans' BY <1>1, <2>4, PlansNone DEF Origin
  <2> QED BY <2>6, <2>7, <2>8 DEF Origin
<1>4. CASE t' = [t EXCEPT !.pc = IF entry = "hybrid" THEN "followup" ELSE "fallback",
                          !.question = <<>>]
  <2> DEFINE pc == IF entry = "hybrid" THEN "followup" ELSE "fallback"
  <2>1. t' = [t EXCEPT !.pc = pc, !.question = <<>>] BY <1>4
  <2>2. pc \in {"followup", "fallback"} /\ (pc = "followup" => entry = "hybrid") OBVIOUS
  <2> HIDE DEF pc
  <2>3. /\ t'.pc = pc /\ t'.topic = t.topic /\ t'.filters = t.filters
        /\ t'.plan = t.plan /\ t'.sql = t.sql /\ UNCHANGED <<entry, carried, caller, ctx>>
    BY <1>1, <1>2, <2>1 DEF Shape, Answering
  <2>4. Nodes' BY <2>2, <2>3 DEF Origin, Nodes
  <2>5. Filters'
    <3>1. entry = "hybrid" => t.filters = <<>> BY <1>1 DEF Origin, Filters
    <3> QED BY <1>1, <2>2, <2>3, <3>1, EmptyClauses DEF Origin, Filters
  <2>6. Plans' BY <1>1, <2>3, PlansNone DEF Origin
  <2> QED BY <2>4, <2>5, <2>6 DEF Origin
<1> QED BY <1>3, <1>4 DEF ClassifyIntent

\* The filters of the default entry are those of a question.
LEMMA ExtractFiltersOrigin == ASSUME IInv, Origin, ExtractFilters PROVE Origin'
<1> DEFINE filters == extract_filters(t.question, t.topic[1])
<1>1. /\ t.pc = "extract" /\ Answering /\ t.plan = NoPlan /\ t.sql = <<>>
      /\ t' = [t EXCEPT !.pc = "update", !.question = <<>>, !.filters = filters]
  BY DEF ExtractFilters, IInv, Gate, Before
<1>2. entry = "regex" /\ t.question \in Questions /\ t.topic \in Topics
  BY <1>1 DEF Origin, Nodes
<1>3. filters \in Seq(AnyClauses)
  BY <1>2, KnownQuestion, ExtractedShape
<1> HIDE DEF filters
<1>4. /\ t'.pc = "update" /\ t'.topic = t.topic /\ t'.filters = filters
      /\ t'.plan = t.plan /\ t'.sql = t.sql /\ UNCHANGED <<entry, carried, caller, ctx>>
  BY <1>1 DEF IInv, Shape, Answering
<1>5. Nodes' BY <1>2, <1>4 DEF Origin, Nodes
<1>6. Filters' BY <1>2, <1>3, <1>4 DEF Filters, filters
<1>7. Plans' BY <1>1, <1>4, PlansNone DEF Origin
<1> QED BY <1>5, <1>6, <1>7 DEF Origin

\* In the Groq graph only the type of the filters is known.
LEMMA GroqOrigin == ASSUME IInv, Origin, GroqFollowUp \/ GroqExtract \/ GroqRecover PROVE Origin'
<1>1. /\ t.pc = "groq" /\ Answering /\ t.plan = NoPlan /\ t.sql = <<>> /\ Shape
  BY DEF GroqFollowUp, GroqExtract, GroqRecover, IInv, Gate, Before
<1>2. entry = "groq" /\ t.question \in Questions BY <1>1 DEF IInv, Gate, Origin, Nodes
<1>3. ASSUME NEW reply \in Replies PROVE reply \in Seq(AnyClauses)
  <2>1. STRING \subseteq Texts BY DEF Texts
  <2>2. Seq(STRING) \subseteq Seq(Texts) BY <2>1, SeqMonotone
  <2>3. Clauses \subseteq AnyClauses BY <2>1, <2>2 DEF Clauses, AnyClauses
  <2>4. reply \in Seq(Clauses) BY PlanTurnsAssumption
  <2> QED BY <2>3, <2>4, SeqMonotone
<1>4. t.filters \in Seq(AnyClauses) BY DEF Origin, Filters
<1>5. ASSUME NEW pc \in {"update", "fallback"}, NEW topic, NEW filters \in Seq(AnyClauses),
             t' = [t EXCEPT !.pc = pc, !.topic = topic, !.question = <<>>, !.filters = filters]
      PROVE  Origin'
  <2>1. /\ t'.pc = pc /\ t'.filters = filters /\ t'.plan = t.plan /\ t'.sql = t.sql
        /\ UNCHANGED <<entry, carried, caller, ctx>>
    BY <1>1, <1>5 DEF Shape, Answering
  <2>2. Nodes' BY <1>2, <2>1 DEF Origin, Nodes
  <2>3. Filters' BY <1>2, <2>1 DEF Filters
  <2>4. Plans' BY <1>1, <2>1, PlansNone DEF Origin
  <2> QED BY <2>2, <2>3, <2>4 DEF Origin
<1>6. ASSUME NEW pc \in {"update", "fallback"}, NEW topic,
             t' = [t EXCEPT !.pc = pc, !.topic = topic, !.question = <<>>]
      PROVE  Origin'
  <2>1. t' = [t EXCEPT !.pc = pc, !.topic = topic, !.question = <<>>, !.filters = t.filters]
    BY <1>1, <1>6 DEF Shape
  <2> QED BY <1>4, <1>5, <2>1
<1>7. ASSUME t' = [t EXCEPT !.pc = "fallback", !.question = <<>>] PROVE Origin'
  <2>1. t' = [t EXCEPT !.pc = "fallback", !.topic = t.topic, !.question = <<>>]
    BY <1>1, <1>7 DEF Shape
  <2> QED BY <1>6, <2>1
<1>8. CASE GroqFollowUp BY <1>6, <1>7, <1>8 DEF GroqFollowUp
<1>9. CASE GroqExtract
  <2>1. CASE \E topic \in {pair \in Paired : Allowed(pair[1])}, reply \in Replies :
               t' = [t EXCEPT !.pc = "update", !.topic = topic, !.question = <<>>,
                              !.filters = GroqFilters(topic, reply, t.question)]
    <3>1. PICK topic \in {pair \in Paired : Allowed(pair[1])}, reply \in Replies :
               t' = [t EXCEPT !.pc = "update", !.topic = topic, !.question = <<>>,
                              !.filters = GroqFilters(topic, reply, t.question)]
      BY <2>1
    <3>2. GroqFilters(topic, reply, t.question) \in Seq(AnyClauses)
      BY <1>2, <1>3, KnownQuestion, GroqType
    <3> QED BY <1>5, <3>1, <3>2
  <2> QED BY <1>6, <1>9, <2>1 DEF GroqExtract
<1>10. CASE GroqRecover BY <1>3, <1>5, <1>10 DEF GroqRecover
<1> QED BY <1>8, <1>9, <1>10

\* The filters of the hybrid entry are those of a reply that pass the score.
LEMMA HybridOrigin ==
  ASSUME IInv, Origin, FollowupDetection \/ LlmExtraction \/ DeterministicOverride \/ ConfidenceScoring
  PROVE  Origin'
<1>1. /\ t.pc \in {"followup", "reply", "override", "score"} /\ Answering
      /\ t.plan = NoPlan /\ t.sql = <<>> /\ Shape
  BY DEF FollowupDetection, LlmExtraction, DeterministicOverride, ConfidenceScoring, IInv, Gate, Before
<1>2. entry = "hybrid" BY <1>1 DEF Origin, Nodes
<1>3. /\ t.filters \in Seq(AnyClauses) /\ FieldsIn(t.filters) \subseteq FieldsOf(Domain)
      /\ t.pc \in {"followup", "reply"} => t.filters = <<>>
  BY <1>2 DEF Origin, Filters
\* What the four nodes have in common.
<1>4. ASSUME NEW pc \in {"reply", "override", "score", "update", "fallback"},
             t'.pc = pc, t'.topic = t.topic, t'.plan = t.plan, t'.sql = t.sql,
             t'.filters \in Seq(AnyClauses), FieldsIn(t'.filters) \subseteq FieldsOf(Domain),
             pc = "reply" => t'.filters = <<>>,
             pc = "update" => calculate_confidence(t'.filters, Domain) >= 70
      PROVE  Origin'
  <2>1. UNCHANGED <<entry, carried, caller, ctx>> /\ Domain' = Domain
    BY <1>1, <1>4 DEF Answering, Domain
  <2>2. Nodes' BY <1>2, <1>4, <2>1 DEF Origin, Nodes
  <2>3. Filters' BY <1>1, <1>2, <1>4, <2>1 DEF Filters
  <2>4. Plans' BY <1>1, <1>4, PlansNone DEF Origin
  <2> QED BY <2>2, <2>3, <2>4 DEF Origin
<1>5. CASE FollowupDetection
  <2>1. PICK x : t' = [t EXCEPT !.pc = "reply", !.followUp = x] BY <1>5 DEF FollowupDetection
  <2>2. /\ t'.pc = "reply" /\ t'.topic = t.topic /\ t'.plan = t.plan /\ t'.sql = t.sql
        /\ t'.filters = t.filters
    BY <1>1, <2>1 DEF Shape
  <2>3. t.filters = <<>> BY <1>3, <1>5 DEF FollowupDetection
  <2> QED BY <1>3, <1>4, <2>2, <2>3
<1>6. CASE LlmExtraction
  <2>1. ASSUME NEW filters \in Seq(AnyClauses), FieldsIn(filters) \subseteq FieldsOf(Domain), NEW x,
               t' = [t EXCEPT !.pc = "override", !.filters = filters, !.question = <<>>, !.followUp = x]
        PROVE  Origin'
    <3>1. /\ t'.pc = "override" /\ t'.topic = t.topic /\ t'.plan = t.plan /\ t'.sql = t.sql
          /\ t'.filters = filters
      BY <1>1, <2>1 DEF Shape
    <3> QED BY <1>4, <2>1, <3>1
  <2>2. ASSUME NEW reply \in Replies
        PROVE  /\ HybridFilters(Domain, reply) \in Seq(AnyClauses)
               /\ FieldsIn(HybridFilters(Domain, reply)) \subseteq FieldsOf(Domain)
    <3>1. STRING \subseteq Texts BY DEF Texts
    <3>2. Seq(STRING) \subseteq Seq(Texts) BY <3>1, SeqMonotone
    <3>3. Clauses \subseteq AnyClauses BY <3>1, <3>2 DEF Clauses, AnyClauses
    <3>4. reply \in Seq(Clauses) BY PlanTurnsAssumption
    <3>5. reply \in Seq(AnyClauses) BY <3>3, <3>4, SeqMonotone
    <3> QED BY <3>5, HybridShape
  <2>3. ASSUME t' = [t EXCEPT !.pc = "override", !.question = <<>>, !.followUp = "new"]
        PROVE  Origin'
    <3>1. t' = [t EXCEPT !.pc = "override", !.filters = t.filters, !.question = <<>>, !.followUp = "new"]
      BY <1>1, <2>3 DEF Shape
    <3> QED BY <1>3, <2>1, <3>1
  <2>4. CASE \E reply \in Replies, followUp \in {"refine", "replace", "new"} :
              t' = [t EXCEPT !.pc = "override", !.filters = HybridFilters(Domain, reply),
                             !.question = <<>>, !.followUp = followUp]
    BY <2>1, <2>2, <2>4
  <2> QED BY <1>6, <2>3, <2>4 DEF LlmExtraction
<1>7. CASE DeterministicOverride
  <2>1. PICK x : t' = [t EXCEPT !.pc = "score", !.followUp = x] BY <1>7 DEF DeterministicOverride
  <2>2. /\ t'.pc = "score" /\ t'.topic = t.topic /\ t'.plan = t.plan /\ t'.sql = t.sql
        /\ t'.filters = t.filters
    BY <1>1, <2>1 DEF Shape
  <2> QED BY <1>3, <1>4, <2>2
<1>8. CASE ConfidenceScoring
  <2> DEFINE score == calculate_confidence(t.filters, Domain)
             pc == IF score >= 70 THEN "update" ELSE "fallback"
  <2>1. t' = [t EXCEPT !.score = score, !.pc = pc] BY <1>8 DEF ConfidenceScoring
  <2>2. pc \in {"update", "fallback"} /\ (pc = "update" => score >= 70) OBVIOUS
  <2> HIDE DEF score, pc
  <2>3. /\ t'.pc = pc /\ t'.topic = t.topic /\ t'.plan = t.plan /\ t'.sql = t.sql
        /\ t'.filters = t.filters
    BY <1>1, <2>1 DEF Shape
  <2> QED BY <1>3, <1>4, <2>2, <2>3 DEF score
<1> QED BY <1>5, <1>6, <1>7, <1>8

\* The plan is that of its filters, and what raises leaves none.
LEMMA UpdateQueryPlanOrigin == ASSUME IInv, Origin, UpdateQueryPlan PROVE Origin'
<1> DEFINE plan == update_query_plan(Handed, t.topic, t.filters)
<1>1. /\ t.pc = "update" /\ Answering /\ t.plan = NoPlan /\ t.sql = <<>> /\ Shape
  BY DEF UpdateQueryPlan, IInv, Gate, Before
<1>2. UNCHANGED <<entry, carried, caller, ctx>> BY <1>1 DEF Answering
<1>3. /\ ctx.plan.filters \in Seq(ValidClauses)
      /\ entry = "regex" => Coherent(ctx.plan)
      /\ entry # "groq" => (ctx.topic # NoTopic => ctx.topic \in Topics)
  BY DEF Origin, Plans, Nodes
<1>4. CASE t.topic = NoTopic /\ t' = [t EXCEPT !.pc = "tool"]
  <2>1. /\ t'.pc = "tool" /\ t'.topic = t.topic /\ t'.filters = t.filters
        /\ t'.plan = t.plan /\ t'.sql = t.sql
    BY <1>1, <1>4 DEF Shape
  <2>2. Nodes' BY <1>2, <2>1 DEF Origin, Nodes
  <2>3. Filters' BY <1>2, <2>1 DEF Origin, Filters, Domain
  <2>4. Plans' BY <1>1, <2>1, PlansNone DEF Origin
  <2> QED BY <2>2, <2>3, <2>4 DEF Origin
<1>5. CASE t' = Idle BY <1>2, <1>3, <1>5, IdleOrigin
<1>6. CASE /\ t.topic # NoTopic /\ ~UpdateRaises(Handed, t.topic, t.filters)
           /\ t' = [t EXCEPT !.pc = "tool", !.score = 0, !.followUp = "new",
                             !.plan = plan]
  <2>1. t.filters \in Seq(AnyClauses) BY DEF Origin, Filters
  <2>2. Handed.filters \in Seq(AnyClauses) /\ (entry = "regex" => Coherent(Handed))
    BY <1>3, ValidIsAny, EmptyClauses DEF Handed
  <2>3. plan.filters \in Seq(ValidClauses) BY <1>6, <2>1, <2>2, UpdateValid
  <2>4. entry = "regex" => \E question \in Questions :
            /\ t.filters = extract_filters(question, t.topic[1])
            /\ t.topic \in Topics
    BY <1>1 DEF Origin, Filters, Nodes
  <2>5. entry = "regex" => Coherent(plan)
    <3>1. SUFFICES ASSUME entry = "regex" PROVE Coherent(plan) OBVIOUS
    <3>2. PICK question \in Questions : t.filters = extract_filters(question, t.topic[1]) BY <2>4, <3>1
    <3>3. t.topic \in INTENT_CATALOG /\ IsQuestion(question)
      BY <2>4, <3>1, KnownQuestion, PlanTurnsAssumption
    <3>4. Coherent(update_query_plan(Handed, t.topic, extract_filters(question, t.topic[1])))
      BY <2>2, <3>1, <3>3, UpdateCoherent
    <3> QED BY <3>2, <3>4
  <2>6. entry = "hybrid" =>
           /\ FieldsIn(t.filters) \subseteq FieldsOf(t.topic[1])
           /\ calculate_confidence(t.filters, t.topic[1]) >= 70
           /\ plan = update_query_plan(NoPlan, t.topic, t.filters)
    <3>1. SUFFICES ASSUME entry = "hybrid"
                   PROVE  /\ FieldsIn(t.filters) \subseteq FieldsOf(t.topic[1])
                          /\ calculate_confidence(t.filters, t.topic[1]) >= 70
                          /\ plan = update_query_plan(NoPlan, t.topic, t.filters)
      OBVIOUS
    <3>2. Handed = NoPlan BY <3>1 DEF Origin, Nodes, Handed
    <3>3. Domain = t.topic[1] BY <1>6 DEF Domain
    <3>4. FieldsIn(t.filters) \subseteq FieldsOf(Domain) /\ calculate_confidence(t.filters, Domain) >= 70
      BY <1>1, <3>1 DEF Origin, Filters
    <3> QED BY <3>2, <3>3, <3>4
  <2>7. plan = update_query_plan(Handed, t.topic, t.filters) OBVIOUS
  <2> HIDE DEF plan
  <2>8. /\ t'.pc = "tool" /\ t'.topic = t.topic /\ t'.filters = t.filters
        /\ t'.plan = plan /\ t'.sql = t.sql
    BY <1>1, <1>6 DEF Shape
  <2>9. Nodes' BY <1>2, <2>8 DEF Origin, Nodes
  <2>10. Filters'
    <3>1. Domain' = Domain BY <1>2, <2>8 DEF Domain
    <3> QED BY <1>1, <1>2, <2>8, <3>1 DEF Origin, Filters
  <2>11. Plans'
    <3>1. entry = "regex" => \E question \in Questions :
             plan = update_query_plan(Handed, t.topic, extract_filters(question, t.topic[1]))
      BY <2>4, <2>7
    <3>2. Handed' = Handed BY <1>2 DEF Handed
    <3>3. entry = "hybrid" => \E filters \in Seq(AnyClauses) :
             /\ FieldsIn(filters) \subseteq FieldsOf(t.topic[1])
             /\ calculate_confidence(filters, t.topic[1]) >= 70
             /\ plan = update_query_plan(NoPlan, t.topic, filters)
      BY <2>1, <2>6
    <3> QED BY <1>1, <1>2, <1>3, <2>3, <2>5, <2>8, <3>1, <3>2, <3>3 DEF Plans
  <2> QED BY <2>9, <2>10, <2>11 DEF Origin
<1> QED BY <1>4, <1>5, <1>6 DEF UpdateQueryPlan

\* A step behind the plan that keeps it, and what it was made of.
LEMMA AfterOrigin ==
  ASSUME Origin, Answering, t'.pc \in Pcs \ Before, t'.topic = t.topic, t'.filters = t.filters,
         t'.plan = t.plan,
         \/ t'.sql = t.sql
         \/ /\ CompileFailure(t.plan, caller.rid) = "none"
            /\ t'.sql = <<compile_query(t.plan, caller.rid)>>
  PROVE  Origin'
<1>1. t'.pc \in {"tool", "fallback", "respond"} BY DEF Pcs, Before
<1>2. UNCHANGED <<entry, carried, caller, ctx>> BY DEF Answering
<1>3. Nodes' BY <1>1, <1>2 DEF Origin, Nodes
<1>4. Filters' BY <1>1, <1>2 DEF Origin, Filters, Domain
<1>5. Plans'
  <2>1. Handed' = Handed BY <1>2 DEF Handed
  <2> QED BY <1>2, <2>1 DEF Origin, Plans
<1> QED BY <1>3, <1>4, <1>5 DEF Origin

\* The statement is that of the plan.
LEMMA ToolOrigin == ASSUME IInv, Origin, ToolFails \/ RunDomainTool PROVE Origin'
<1>1. Shape BY DEF IInv
<1>2. CASE ToolFails
  <2>1. Answering /\ t' = [t EXCEPT !.pc = "fallback"] BY <1>2 DEF ToolFails
  <2>2. /\ t'.pc = "fallback" /\ t'.topic = t.topic /\ t'.filters = t.filters
        /\ t'.plan = t.plan /\ t'.sql = t.sql
    BY <1>1, <2>1 DEF Shape
  <2> QED BY <2>1, <2>2, AfterOrigin DEF Pcs, Before
<1>3. CASE RunDomainTool
  <2> DEFINE st == compile_query(t.plan, caller.rid)
  <2>1. Answering /\ CompileFailure(t.plan, caller.rid) = "none" BY <1>3 DEF RunDomainTool
  <2>2. PICK pc \in {"respond", "fallback"} : t' = [t EXCEPT !.pc = pc, !.sql = <<st>>]
    BY <1>3 DEF RunDomainTool
  <2> HIDE DEF st
  <2>3. /\ t'.pc = pc /\ t'.topic = t.topic /\ t'.filters = t.filters /\ t'.plan = t.plan
        /\ t'.sql = <<st>>
    BY <1>1, <2>2 DEF Shape
  <2> QED BY <2>1, <2>3, AfterOrigin DEF Pcs, Before, st
<1> QED BY <1>2, <1>3

\* The language model leaves plan and statement alone.
LEMMA LlmFallbackOrigin == ASSUME IInv, Origin, LlmFallback PROVE Origin'
<1>1. Answering /\ Shape BY DEF LlmFallback, IInv
<1>2. CASE t' = Idle
  <2>1. UNCHANGED <<entry, carried, caller, ctx>> BY <1>1 DEF Answering
  <2> QED BY <1>2, <2>1, IdleOrigin DEF Origin, Plans, Nodes
<1>3. ASSUME NEW generated, t' = [t EXCEPT !.pc = "respond", !.generated = generated]
      PROVE  Origin'
  <2>1. /\ t'.pc = "respond" /\ t'.topic = t.topic /\ t'.filters = t.filters
        /\ t'.plan = t.plan /\ t'.sql = t.sql
    BY <1>1, <1>3 DEF Shape
  <2> QED BY <1>1, <2>1, AfterOrigin DEF Pcs, Before
<1>4. t' = [t EXCEPT !.pc = "respond"] => t' = [t EXCEPT !.pc = "respond", !.generated = t.generated]
  BY <1>1 DEF Shape
<1> QED BY <1>2, <1>3, <1>4 DEF LlmFallback

\* The context gets the plan of the turn, or none.
LEMMA RespondOrigin == ASSUME IInv, Origin, Respond PROVE Origin'
<1>1. /\ t' = Idle /\ UNCHANGED <<entry, carried, caller>>
      /\ ctx' = NoContext \/ ctx' = [topic |-> t.topic, plan |-> t.plan, sql |-> t.plan = NoPlan]
  BY DEF Respond
<1>2. CASE ctx' = NoContext
  <2>1. ctx'.plan = NoPlan /\ ctx'.topic = NoTopic BY <1>2 DEF NoContext
  <2> QED BY <1>1, <2>1, EmptyClauses, IdleOrigin
<1>3. CASE ctx' = [topic |-> t.topic, plan |-> t.plan, sql |-> t.plan = NoPlan]
  <2>1. ctx'.plan = t.plan /\ ctx'.topic = t.topic BY <1>3
  <2>2. /\ t.plan.filters \in Seq(ValidClauses) /\ (entry = "regex" => Coherent(t.plan))
        /\ entry # "groq" => (t.topic # NoTopic => t.topic \in Topics)
    BY DEF Origin, Plans, Nodes
  <2> QED BY <1>1, <2>1, <2>2, IdleOrigin
<1> QED BY <1>1, <1>2, <1>3

\* A cleared context has no plan.
LEMMA ClearContextOrigin == ASSUME IInv, Origin, ClearContext PROVE Origin'
<1>1. /\ t.pc = "idle" /\ UNCHANGED <<entry, carried, caller, t>> /\ t.plan = NoPlan
      /\ ctx'.plan = NoPlan /\ ctx'.topic = NoTopic
  BY DEF ClearContext, IInv, Gate, Before, NoContext
<1>2. Nodes' BY <1>1 DEF Origin, Nodes
<1>3. Filters' BY <1>1 DEF Origin, Filters, Domain
<1>4. Plans' BY <1>1, EmptyClauses DEF Origin, Plans
<1> QED BY <1>2, <1>3, <1>4 DEF Origin

\* Every step keeps the origin of filters, plans and statements.
LEMMA NextOrigin == ASSUME IInv, Origin, [Next]_vars PROVE Origin'
<1>1. CASE UNCHANGED vars
  <2>1. UNCHANGED <<entry, carried, caller, t, ctx>> BY <1>1 DEF vars
  <2>2. Nodes' BY <2>1 DEF Origin, Nodes
  <2>3. Filters' BY <2>1 DEF Origin, Filters, Domain
  <2>4. Plans' BY <2>1 DEF Origin, Plans, Handed
  <2> QED BY <2>2, <2>3, <2>4 DEF Origin
<1>2. CASE Next
  <2>1. CASE (\E question \in Questions : Ask(question)) \/ ClearContext
    BY <2>1, AskOrigin, ClearContextOrigin
  <2>2. CASE Step
    BY <2>2, ClassifyIntentOrigin, ExtractFiltersOrigin, GroqOrigin, HybridOrigin,
       UpdateQueryPlanOrigin, ToolOrigin, LlmFallbackOrigin, RespondOrigin DEF Step
  <2> QED BY <1>2, <2>1, <2>2 DEF Next
<1> QED BY <1>1, <1>2

\* The inductive invariant of the data of a conversation.
LEMMA OriginInvariant == Spec => [](IInv /\ Origin)
<1>1. Init => IInv /\ Origin BY InitInv, InitOrigin
<1>2. IInv /\ Origin /\ [Next]_vars => (IInv /\ Origin)'
  <2>1. SUFFICES ASSUME IInv, Origin, [Next]_vars PROVE IInv' /\ Origin' OBVIOUS
  <2> QED BY <2>1, NextInv, NextOrigin
<1> QED BY <1>1, <1>2, PTL DEF Spec

-----------------------------------------------------------------------------
(* What follows                                                            *)

\* In the default graph a plan never has two clauses of a field, however many
\* turns it has grown over (update_query_plan, extract_filters).
THEOREM OneClausePerFieldAlways == Spec => []OneClausePerField
<1>1. ASSUME Origin PROVE OneClausePerField
  <2>1. t.plan.filters \in Seq(AnyClauses) BY <1>1, ValidIsAny DEF Origin, Plans
  <2>2. entry = "regex" => Apart(FieldOf, t.plan.filters) BY <1>1 DEF Origin, Plans, Coherent
  <2> QED BY <2>1, <2>2, ApartFields DEF OneClausePerField
<1> QED BY <1>1, OriginInvariant, PTL

\* Picking does not lengthen.
LEMMA PickedLen ==
  ASSUME NEW S, NEW T, NEW s \in Seq(S)
  PROVE  Len(Picked(s, T)) \in Nat /\ Len(Picked(s, T)) <= Len(s)
<1> DEFINE U == {r \in Seq(S) : Len(Picked(r, T)) <= Len(r)}
<1>1. <<>> \in U BY PickedEmpty
<1>2. ASSUME NEW r \in Seq(S), NEW x \in S, r \in U PROVE Append(r, x) \in U
  <2>1. Append(r, x) \in Seq(S) /\ Len(Append(r, x)) = Len(r) + 1 /\ Len(r) \in Nat
    BY AppendProperties, LenProperties
  <2>2. Picked(r, T) \in Seq(S) BY PickedAppend
  <2>3. Len(Picked(r, T)) \in Nat /\ Len(Append(Picked(r, T), x)) = Len(Picked(r, T)) + 1
    BY <2>2, AppendProperties, LenProperties
  <2>4. Len(Picked(Append(r, x), T)) \in {Len(Picked(r, T)) + 1, Len(Picked(r, T))}
    BY <2>3, PickedAppend
  <2> QED BY <1>2, <2>1, <2>3, <2>4
<1> HIDE DEF U
<1>3. s \in U BY <1>1, <1>2, SeqInduction
<1>4. Len(Picked(s, T)) \in Nat BY PickedRange, LenProperties
<1> QED BY <1>3, <1>4 DEF U

\* Joined, two sequences that have elements have at least two.
LEMMA FlattenLong ==
  ASSUME NEW S, NEW s \in Seq(Seq(S))
  PROVE  /\ Len(FlattenSeq(s)) \in Nat
         /\ \A i, j \in DOMAIN s : s[i] # <<>> /\ s[j] # <<>> /\ i # j => Len(FlattenSeq(s)) >= 2
<1> DEFINE Long(r) == /\ \A i \in DOMAIN r : r[i] # <<>> => Len(FlattenSeq(r)) >= 1
                      /\ \A i, j \in DOMAIN r : r[i] # <<>> /\ r[j] # <<>> /\ i # j => Len(FlattenSeq(r)) >= 2
           U == {r \in Seq(Seq(S)) : Long(r)}
<1>1. <<>> \in U OBVIOUS
<1>2. ASSUME NEW r \in Seq(Seq(S)), NEW x \in Seq(S), r \in U PROVE Append(r, x) \in U
  <2> DEFINE n == Len(r)
             q == Append(r, x)
             k == Len(FlattenSeq(r))
             m == Len(FlattenSeq(q))
  <2>1. /\ q \in Seq(Seq(S)) /\ n \in Nat /\ DOMAIN r = 1 .. n /\ DOMAIN q = 1 .. n + 1
        /\ \A i \in 1 .. n : q[i] = r[i]
        /\ q[n + 1] = x
    BY AppendIndexed
  <2>2. m = k + Len(x) /\ k \in Nat
    <3>1. FlattenSeq(r) \in Seq(S) BY FlattenType
    <3>2. FlattenSeq(q) = FlattenSeq(r) \o x BY FlattenAppend
    <3> QED BY <3>1, <3>2, ConcatProperties, LenProperties
  <2>3. Len(x) \in Nat /\ (x # <<>> => Len(x) >= 1) BY LenProperties, EmptySeq
  <2>4. Long(r) BY <1>2
  <2>5. /\ \A i \in 1 .. n : r[i] # <<>> => k >= 1
        /\ \A i, j \in 1 .. n : r[i] # <<>> /\ r[j] # <<>> /\ i # j => k >= 2
    BY <2>1, <2>4
  <2> HIDE DEF n, q, k, m, Long
  <2>6. ASSUME NEW i \in 1 .. n + 1, q[i] # <<>> PROVE m >= 1
    <3>1. CASE i \in 1 .. n BY <2>1, <2>2, <2>3, <2>5, <2>6, <3>1
    <3>2. CASE i = n + 1 BY <2>1, <2>2, <2>3, <2>6, <3>2
    <3> QED BY <2>1, <3>1, <3>2
  <2>7. ASSUME NEW i \in 1 .. n + 1, NEW j \in 1 .. n + 1, q[i] # <<>>, q[j] # <<>>, i # j PROVE m >= 2
    <3>1. CASE i \in 1 .. n /\ j \in 1 .. n BY <2>1, <2>2, <2>3, <2>5, <2>7, <3>1
    <3>2. CASE i \in 1 .. n /\ j = n + 1 BY <2>1, <2>2, <2>3, <2>5, <2>7, <3>2
    <3>3. CASE i = n + 1 /\ j \in 1 .. n BY <2>1, <2>2, <2>3, <2>5, <2>7, <3>3
    <3> QED BY <2>1, <2>7, <3>1, <3>2, <3>3
  <2>8. Long(q) BY <2>1, <2>6, <2>7 DEF Long, m
  <2> QED BY <2>1, <2>8 DEF q
<1> HIDE DEF U
<1>3. s \in U BY <1>1, <1>2, SeqInduction
<1>4. Len(FlattenSeq(s)) \in Nat BY FlattenType, LenProperties
<1> QED BY <1>3, <1>4 DEF U

\* Filters that pass the score have at most one that needs a NULL check.
LEMMA ScoreLimits ==
  ASSUME NEW filters \in Seq(AnyClauses), NEW domain, calculate_confidence(filters, domain) >= 70,
         NEW i \in DOMAIN filters, NEW j \in DOMAIN filters,
         Range(filters[i].values) \intersect Complex # {},
         Range(filters[j].values) \intersect Complex # {}
  PROVE  i = j
<1> DEFINE n == Len(filters)
           T == {fc \in AnyClauses : Registered(fc.field, domain)}
           known == Keep(filters, LAMBDA fc : Registered(fc.field, domain))
           parts == [k \in DOMAIN filters |-> Picked(filters[k].values, Complex)]
           lost == Len(FlattenSeq(parts))
<1>1. /\ n \in Nat /\ DOMAIN filters = 1 .. n /\ \A k \in 1 .. n : filters[k] \in AnyClauses
  BY LenProperties, ElementOfSeq
<1>2. filters # <<>> /\ n >= 1 BY <1>1
<1>3. known = Picked(filters, T)
  <2> DEFINE kept == [k \in DOMAIN filters |->
                        IF Registered(filters[k].field, domain) THEN <<filters[k]>> ELSE <<>>]
  <2>1. kept = Parts(filters, T) BY <1>1 DEF Parts
  <2>2. known = FlattenSeq(kept) BY DEF Keep
  <2> HIDE DEF kept, T, known
  <2> QED BY <2>1, <2>2 DEF Picked
<1>4. Len(known) \in Nat /\ Len(known) <= n
  <2> HIDE DEF T, known
  <2> QED BY <1>3, PickedLen
<1>5. _check_field_validity(filters, domain) = (30 * Len(known)) \div n
  BY <1>2 DEF _check_field_validity
<1>6. _check_value_complexity(filters) = 15 * lost
  BY DEF _check_value_complexity, Keep, Picked, Parts
<1>7. _check_schema_match(filters) = 25 BY <1>2 DEF _check_schema_match
<1> HIDE DEF known, n
<1>8. parts \in Seq(Seq(Texts))
  <2>1. \A k \in 1 .. n : filters[k].values \in Seq(Texts) BY <1>1 DEF AnyClauses
  <2>2. \A k \in 1 .. n : Picked(filters[k].values, Complex) \in Seq(Texts)
    BY <2>1, PickedRange
  <2> QED BY <1>1, <2>2
<1>9. parts[i] # <<>> /\ parts[j] # <<>> /\ DOMAIN parts = DOMAIN filters
  <2>1. ASSUME NEW k \in DOMAIN filters, Range(filters[k].values) \intersect Complex # {}
        PROVE  parts[k] # <<>>
    <3>1. filters[k].values \in Seq(Texts) BY <1>1 DEF AnyClauses
    <3>2. Range(Picked(filters[k].values, Complex)) # {} BY <2>1, <3>1, PickedRange
    <3>3. Range(<<>>) = {} BY DEF Range
    <3> QED BY <3>2, <3>3
  <2> QED BY <2>1
<1> HIDE DEF parts
<1>10. lost \in Nat /\ (i # j => lost >= 2) BY <1>8, <1>9, FlattenLong
<1> HIDE DEF lost
<1>11. (30 * Len(known)) \div n <= 30 /\ (30 * Len(known)) \div n \in Int
  BY <1>1, <1>2, <1>4
<1>12. 30 + (30 * Len(known)) \div n + 25 - 15 * lost >= 70
  BY <1>5, <1>6, <1>7 DEF calculate_confidence
<1>13. lost <= 1 BY <1>10, <1>11, <1>12
<1> QED BY <1>10, <1>13

\* The filters of a plan of the hybrid graph: those of the reply, or none.
LEMMA HybridPlan ==
  ASSUME NEW topic \in INTENT_CATALOG, NEW filters \in Seq(AnyClauses)
  PROVE  LET p == update_query_plan(NoPlan, topic, filters)
         IN  p.filters = <<>> \/ p.filters = Remapped(topic[2], filters)
<1>1. ~SameTopic(NoPlan, topic)
  <2>1. topic[1] # "none" BY CatalogTopic
  <2> QED BY <2>1 DEF SameTopic, NoPlan
<1>2. NoPlan.filters \in Seq(AnyClauses) BY EmptyClauses
<1>3. \A f : Plan(topic, f).filters = f BY DEF Plan
<1> QED BY <1>1, <1>2, <1>3, UpdateShape

\* A reply that gets a plan has at most one clause that looks like a NULL
\* check before it is sanitised: the score sends every other to the language
\* model, whatever else it says (calculate_confidence, route_after_confidence).
THEOREM ComplexFallsBackAlways == Spec => []ComplexFallsBack
<1>1. ASSUME IInv, Origin PROVE ComplexFallsBack
  <2> DEFINE hard == {i \in DOMAIN t.filters : Range(t.filters[i].values) \intersect Complex # {}}
  <2>1. SUFFICES ASSUME entry = "hybrid", t.plan # NoPlan PROVE Cardinality(hard) <= 1
    BY DEF ComplexFallsBack
  <2>2. t.filters \in Seq(AnyClauses) /\ calculate_confidence(t.filters, Domain) >= 70
    BY <1>1, <2>1 DEF Origin, Filters
  <2>3. \A i, j \in hard : i = j BY <2>2, ScoreLimits
  <2> HIDE DEF hard
  <2>4. CASE hard = {} BY <2>4, FS_EmptySet
  <2>5. CASE hard # {}
    <3>1. PICK i \in hard : TRUE BY <2>5
    <3>2. hard = {i} BY <2>3, <3>1
    <3>3. Cardinality({i}) = 1 BY FS_Singleton
    <3> QED BY <3>2, <3>3
  <2> QED BY <2>4, <2>5
<1> QED BY <1>1, OriginInvariant, PTL

\* The domains that know names.
LEMMA NameDomains ==
  ASSUME NEW domain, "resource_name" \in FieldsOf(domain)
  PROVE  domain \in {"resource", "project", "timesheet"}
<1>1. FIELD_REGISTRY["resource_name"].domains = {"resource", "project", "timesheet"}
  BY DEF FIELD_REGISTRY, Field, Known, Qualified
<1> QED BY <1>1 DEF FieldsOf

\* A plan that may have a filter on a name is compiled for a statement that
\* has the table of the resources, or takes no filter.
LEMMA NamesHaveTable ==
  ASSUME NEW topic \in INTENT_CATALOG, "resource_name" \in PlanFields(topic),
         topic[2] \notin SelfContained
  PROVE  "r" \in BASE_QUERIES[topic[2]].aliases
<1>1. PICK f \in FieldsOf(topic[1]) : Remap(topic[2], f) = "resource_name" BY DEF PlanFields
<1>2. \/ topic[2] \in {"resource_skills_list", "reports_to"}
      \/ /\ f = "resource_name"
         /\ topic[2] \notin {"project_resources", "project_timeline", "project_budget",
                             "project_status", "project_by_client"}
  BY <1>1 DEF Remap
<1>3. topic[2] \in {"resource_project_assignments", "resource_skills_list", "timesheet_by_period",
                    "timesheet_by_project"}
  <2>1. CASE topic[2] \in {"resource_skills_list", "reports_to"} BY <2>1 DEF SelfContained
  <2>2. CASE /\ f = "resource_name"
             /\ topic[2] \notin {"project_resources", "project_timeline", "project_budget",
                                 "project_status", "project_by_client"}
    <3>1. topic[1] \in {"resource", "project", "timesheet"} BY <2>2, NameDomains
    <3>2. topic[1] \notin {"client", "user_self"} BY <3>1
    <3>3. CASE topic[1] = "resource"
      <4>1. topic[2] \in {"active_resources", "benched_resources", "benched_by_skill",
                      "resource_by_skill", "resource_availability",
                      "resource_project_assignments", "resource_skills_list", "reports_to"}
        BY <3>3 DEF INTENT_CATALOG
      <4> QED BY <4>1 DEF SelfContained
    <3>4. CASE topic[1] = "project"
      <4>1. topic[2] \in {"active_projects", "project_by_client", "project_budget",
                            "project_resources", "project_timeline", "project_status",
                            "overdue_projects"}
        BY <3>4 DEF INTENT_CATALOG
      <4> QED BY <2>2, <4>1 DEF SelfContained
    <3>5. CASE topic[1] = "timesheet"
      <4>1. topic[2] \in {"approved_timesheets", "timesheet_by_period",
                              "unapproved_timesheets", "timesheet_by_project"}
        BY <3>5 DEF INTENT_CATALOG
      <4> QED BY <4>1 DEF SelfContained
    <3> QED BY <3>1, <3>3, <3>4, <3>5
  <2> QED BY <1>2, <2>1, <2>2
<1>4. "r" \in BASE_QUERIES["resource_project_assignments"].aliases BY DEF BASE_QUERIES, Base
<1>5. "r" \in BASE_QUERIES["resource_skills_list"].aliases BY DEF BASE_QUERIES, Base
<1>6. "r" \in BASE_QUERIES["timesheet_by_period"].aliases BY DEF BASE_QUERIES, Base
<1>7. "r" \in BASE_QUERIES["timesheet_by_project"].aliases BY DEF BASE_QUERIES, Base
<1> QED BY <1>3, <1>4, <1>5, <1>6, <1>7

\* The fields of a plan are those of its topic.
LEMMA PlanFieldsOf ==
  ASSUME IInv, Origin, t.plan # NoPlan, t.topic \in INTENT_CATALOG, entry # "groq"
  PROVE  FieldsIn(t.plan.filters) \subseteq PlanFields(t.topic)
<1>1. t.topic = <<t.topic[1], t.topic[2]>> BY CatalogTopic
<1>2. CASE entry = "regex"
  <2>1. <<t.plan.domain, t.plan.intent>> = t.topic BY <1>1 DEF IInv, TypeOK, SameTopic
  <2>2. Coherent(t.plan) BY <1>2 DEF Origin, Plans
  <2> QED BY <2>1, <2>2 DEF Coherent
<1>3. CASE entry = "hybrid"
  <2> DEFINE s == t.plan.filters
  <2>1. PICK filters \in Seq(AnyClauses) :
             /\ FieldsIn(filters) \subseteq FieldsOf(t.topic[1])
             /\ t.plan = update_query_plan(NoPlan, t.topic, filters)
    BY <1>3 DEF Origin, Plans
  <2>2. s = <<>> \/ s = Remapped(t.topic[2], filters) BY <2>1, HybridPlan
  <2>3. CASE s = <<>> BY <2>3, EmptyClauses
  <2>4. CASE s = Remapped(t.topic[2], filters)
    <3>1. DOMAIN s = DOMAIN filters
          /\ \A i \in DOMAIN filters : s[i].field = Remap(t.topic[2], filters[i].field)
      BY <2>4, RemappedShape
    <3> HIDE DEF s
    <3>2. FieldsIn(s) \subseteq PlanFields(t.topic) BY <2>1, <3>1 DEF FieldsIn, PlanFields
    <3> QED BY <3>2 DEF s
  <2> QED BY <2>2, <2>3, <2>4
<1>4. entry \in {"regex", "groq", "hybrid"} BY PlanTurnsAssumption DEF IInv, TypeOK
<1> QED BY <1>2, <1>3, <1>4

\* Outside the Groq graph a filter on a name finds the table of the names in
\* its statement, for any topic (_intent_field_remap and BASE_QUERIES).
THEOREM NamesResolveAlways == Spec => []NamesResolve
<1>1. ASSUME IInv, Origin PROVE NamesResolve
  <2> DEFINE plan == t.plan
             st == compile_query(plan, caller.rid)
  <2>1. SUFFICES ASSUME plan # NoPlan, t.topic \in Topics, entry # "groq",
                        NEW i \in DOMAIN st.conditions, st.conditions[i].field = "resource_name"
                 PROVE  Resolves(st.conditions[i], plan.intent)
    BY DEF NamesResolve
  <2>2. st.conditions = Conditions(plan) BY DEF compile_query, Conditions
  <2>3. plan.filters \in Seq(ValidClauses) BY <1>1 DEF Origin, Plans
  <2>4. t.topic \in INTENT_CATALOG BY <2>1, PlanTurnsAssumption
  <2>5. FieldsIn(plan.filters) \subseteq PlanFields(t.topic) BY <1>1, <2>1, <2>4, PlanFieldsOf
  <2>6. plan.intent = t.topic[2] BY <1>1, <2>1 DEF IInv, TypeOK, SameTopic
  <2> HIDE DEF st, plan
  <2> DEFINE fc == Applied(plan)[i]
             c == build_filter_clause(fc)
  <2>7. /\ i \in 1 .. Len(Applied(plan)) /\ fc \in Range(plan.filters) /\ fc \in ValidClauses
        /\ st.conditions[i] = c
    BY <2>1, <2>2, <2>3, ConditionsType
  <2>8. c.field = fc.field /\ c.alias = FIELD_REGISTRY[fc.field].alias
    <3> HIDE DEF fc
    <3> QED BY <2>7, ConditionShape
  <2> HIDE DEF c, fc
  <2>9. fc.field = "resource_name" /\ c.alias = "r"
    <3>1. FIELD_REGISTRY["resource_name"].alias = "r" BY DEF FIELD_REGISTRY, Field, Known, Qualified
    <3> QED BY <2>1, <2>7, <2>8, <3>1
  <2>10. "resource_name" \in PlanFields(t.topic)
    <3>1. fc.field \in FieldsIn(plan.filters) BY <2>7 DEF FieldsIn, Range
    <3> QED BY <2>5, <2>9, <3>1
  <2>11. plan.intent \notin SelfContained
    <3>1. plan.intent \in SelfContained => Applied(plan) = <<>> BY DEF Applied
    <3> QED BY <2>7, <3>1
  <2>12. "r" \in BASE_QUERIES[plan.intent].aliases BY <2>4, <2>6, <2>10, <2>11, NamesHaveTable
  <2> QED BY <2>7, <2>9, <2>12 DEF Resolves
<1> QED BY <1>1, OriginInvariant, PTL

-----------------------------------------------------------------------------
(* Memory                                                                  *)

\* What a plan wants, as MergedMeaning has it.
LEMMA WantsShape ==
  /\ \A s : Wants(s) = [f \in FieldsIn(s) |-> ValuesOf(s, f)]
  /\ \A s : DOMAIN Wants(s) = FieldsIn(s) /\ \A f \in FieldsIn(s) : Wants(s)[f] = ValuesOf(s, f)
  /\ Wants(<<>>) = Memory!Nothing /\ FieldsIn(<<>>) = {}
<1>1. \A s : Wants(s) = [f \in FieldsIn(s) |-> ValuesOf(s, f)] BY DEF Wants, FieldsIn, ValuesOf
<1>2. FieldsIn(<<>>) = {} BY DEF FieldsIn
<1>3. Wants(<<>>) = Memory!Nothing BY <1>1, <1>2 DEF Memory!Nothing
<1> QED BY <1>1, <1>2, <1>3

\* Only the end of a turn and the user change the context.
LEMMA ContextChanges == ASSUME [Next]_vars, ctx' # ctx PROVE Respond \/ ClearContext
  BY DEF vars, Next, Step, Ask, Answering, ClassifyIntent, ExtractFilters, GroqFollowUp, GroqExtract,
     GroqRecover, FollowupDetection, LlmExtraction, DeterministicOverride, ConfidenceScoring,
     UpdateQueryPlan, ToolFails, RunDomainTool, LlmFallback

\* A context with a plan has a topic.
Rooted == ctx.plan # NoPlan => ctx.topic # NoTopic

\* A context with a plan has a topic, at any time.
LEMMA RootedInvariant == Spec => []Rooted
<1>1. Init => Rooted BY DEF Init, NoContext, Rooted
<1>2. IInv /\ Rooted /\ [Next]_vars => Rooted'
  <2>1. SUFFICES ASSUME IInv, Rooted, [Next]_vars, ctx' # ctx PROVE Rooted' BY DEF Rooted
  <2>2. CASE Respond
    <3>1. \/ ctx' = NoContext
          \/ ctx' = [topic |-> t.topic, plan |-> t.plan, sql |-> t.plan = NoPlan]
      BY <2>2 DEF Respond
    <3> QED BY <2>1, <3>1 DEF IInv, Gate, NoContext, Rooted
  <2>3. CASE ClearContext BY <2>3 DEF ClearContext, NoContext, Rooted
  <2> QED BY <2>1, <2>2, <2>3, ContextChanges
<1>3. Spec => []IInv BY InductiveInvariant
<1> QED BY <1>1, <1>2, <1>3, PTL DEF Spec

\* What a question says about a topic, and what was wanted together with it.
Stated(question, topic) ==
    IF topic[2] \in NO_FILTER_INTENTS THEN Wants(<<>>)
    ELSE Wants(Remapped(topic[2], extract_filters(question, topic[1])))
Together(old, said) ==
    [f \in DOMAIN old \union DOMAIN said |->
        IF f \notin DOMAIN said THEN old[f]
        ELSE IF f \in DOMAIN old \intersect {g \in FieldNames : FIELD_REGISTRY[g].multi}
             THEN old[f] \union said[f]
        ELSE said[f]]

\* What the plan wants after a question is what was wanted and what the
\* question says.
LEMMA UpdateRemembers ==
  ASSUME NEW plan, plan.filters \in Seq(AnyClauses), Coherent(plan),
         NEW topic \in INTENT_CATALOG, NEW question, IsQuestion(question)
  PROVE  Wants(update_query_plan(plan, topic, extract_filters(question, topic[1])).filters) =
            IF ~SameTopic(plan, topic) THEN Stated(question, topic)
            ELSE Together(Wants(plan.filters), Stated(question, topic))
<1> DEFINE filters == extract_filters(question, topic[1])
           new == Remapped(topic[2], filters)
           p == update_query_plan(plan, topic, filters)
           said == IF topic[2] \in NO_FILTER_INTENTS THEN Wants(<<>>) ELSE Wants(new)
           old == Wants(plan.filters)
           multi == {f \in FieldNames : FIELD_REGISTRY[f].multi}
           sum == [f \in DOMAIN old \union DOMAIN said |->
                       IF f \notin DOMAIN said THEN old[f]
                       ELSE IF f \in DOMAIN old \intersect multi THEN old[f] \union said[f]
                       ELSE said[f]]
<1>1. filters \in Seq(AnyClauses) /\ FieldsIn(filters) \subseteq FieldsOf(topic[1]) BY ExtractedShape
<1>2. new \in Seq(AnyClauses) /\ Apart(FieldOf, new) BY <1>1, RemappedShape, ExtractedApart
<1>3. FieldsIn(new) \subseteq FieldsOf(topic[1])
  <2>1. DOMAIN new = DOMAIN filters
        /\ \A i \in DOMAIN filters : new[i].field = Remap(topic[2], filters[i].field)
    BY <1>1, RemappedShape
  <2> HIDE DEF new, filters
  <2>2. FieldsIn(new) \subseteq PlanFields(topic) BY <1>1, <2>1 DEF FieldsIn, PlanFields
  <2> QED BY <2>2, PlanFieldsKnown
<1>4. \A f : Plan(topic, f).filters = f BY DEF Plan
<1>5. \/ p.filters = <<>> /\ topic[2] \in NO_FILTER_INTENTS
      \/ p = Plan(topic, new) /\ ~SameTopic(plan, topic) /\ topic[2] \notin NO_FILTER_INTENTS
      \/ p = plan /\ new = <<>> /\ SameTopic(plan, topic) /\ topic[2] \notin NO_FILTER_INTENTS
      \/ /\ p = Plan(topic, Merged(topic[1], plan.filters, new))
         /\ SameTopic(plan, topic) /\ topic[2] \notin NO_FILTER_INTENTS
  BY <1>1, UpdateShape
<1>6. DOMAIN old = FieldsIn(plan.filters) /\ \A f \in FieldsIn(plan.filters) : old[f] = ValuesOf(plan.filters, f)
  BY WantsShape
<1> SUFFICES Wants(p.filters) = IF ~SameTopic(plan, topic) THEN said ELSE sum
  BY DEF Stated, Together
<1>7. ASSUME DOMAIN said = {} PROVE sum = [f \in DOMAIN old |-> old[f]]
  BY <1>7
<1>8. old = [f \in DOMAIN old |-> old[f]] BY WantsShape
<1> HIDE DEF new, filters, p, old
<1>9. CASE p.filters = <<>> /\ topic[2] \in NO_FILTER_INTENTS
  <2>1. said = Wants(<<>>) /\ DOMAIN said = {} BY <1>9, WantsShape
  <2>2. SameTopic(plan, topic) => plan.filters = <<>> BY <1>9 DEF SameTopic, Coherent
  <2>3. SameTopic(plan, topic) => old = Wants(<<>>) BY <2>2 DEF old
  <2> HIDE DEF said, sum
  <2> QED BY <1>7, <1>8, <1>9, <2>1, <2>3
<1>10. CASE p = Plan(topic, new) /\ ~SameTopic(plan, topic) /\ topic[2] \notin NO_FILTER_INTENTS
  BY <1>4, <1>10
<1>11. CASE p = plan /\ new = <<>> /\ SameTopic(plan, topic) /\ topic[2] \notin NO_FILTER_INTENTS
  <2>1. said = Wants(<<>>) /\ DOMAIN said = {} BY <1>11, WantsShape
  <2>2. Wants(p.filters) = old BY <1>11 DEF old
  <2> HIDE DEF said, sum
  <2> QED BY <1>7, <1>8, <1>11, <2>1, <2>2
<1>12. CASE /\ p = Plan(topic, Merged(topic[1], plan.filters, new))
            /\ SameTopic(plan, topic) /\ topic[2] \notin NO_FILTER_INTENTS
  <2> DEFINE merged == Merged(topic[1], plan.filters, new)
  <2>1. /\ FieldsIn(merged) = FieldsIn(plan.filters) \union FieldsIn(new)
        /\ \A f : ValuesOf(merged, f) =
              IF f \notin FieldsIn(new) THEN ValuesOf(plan.filters, f)
              ELSE IF FIELD_REGISTRY[f].multi THEN ValuesOf(plan.filters, f) \union ValuesOf(new, f)
              ELSE ValuesOf(new, f)
    BY <1>2, <1>3, MergedMeaning DEF Coherent
  <2>2. p.filters = merged BY <1>4, <1>12
  <2>3. said = Wants(new) BY <1>12
  <2>4. DOMAIN said = FieldsIn(new) /\ \A f \in FieldsIn(new) : said[f] = ValuesOf(new, f)
    BY <2>3, WantsShape
  <2>5. Wants(merged) = [f \in FieldsIn(merged) |-> ValuesOf(merged, f)] BY WantsShape
  <2>6. \A f : f \notin FieldsIn(plan.filters) => ValuesOf(plan.filters, f) = {}
    BY DEF FieldsIn, ValuesOf
  <2>7. \A f \in FieldsIn(new) : f \in FieldNames BY <1>3 DEF FieldsOf
  <2>8. \A f \in FieldsIn(new) : f \in multi <=> FIELD_REGISTRY[f].multi BY <2>7
  <2> HIDE DEF merged, said, multi
  <2>9. ASSUME NEW f \in FieldsIn(merged)
        PROVE  ValuesOf(merged, f) = IF f \notin DOMAIN said THEN old[f]
                       ELSE IF f \in DOMAIN old \intersect multi THEN old[f] \union said[f]
                       ELSE said[f]
    <3>1. CASE f \notin FieldsIn(new) BY <1>6, <2>1, <2>4, <3>1
    <3>2. CASE f \in FieldsIn(new) /\ f \in FieldsIn(plan.filters) BY <1>6, <2>1, <2>4, <2>8, <3>2
    <3>3. CASE f \in FieldsIn(new) /\ f \notin FieldsIn(plan.filters)
      <4>1. ValuesOf(merged, f) = ValuesOf(new, f) BY <2>1, <2>6, <3>3
      <4> QED BY <1>6, <2>4, <3>3, <4>1
    <3> QED BY <3>1, <3>2, <3>3
  <2>10. Wants(merged) = sum BY <1>6, <2>1, <2>4, <2>5, <2>9
  <2> HIDE DEF sum
  <2> QED BY <1>12, <2>2, <2>10
<1> HIDE DEF said, sum
<1> QED BY <1>5, <1>9, <1>10, <1>11, <1>12

\* The answer of a turn with a plan is remembered, any other forgets.
LEMMA RespondRemembers == ASSUME IInv, Origin, Rooted, carried, entry = "regex", Respond PROVE Memory!Next
<1>1. /\ t.pc = "respond"
      /\ \/ ctx' = NoContext
         \/ /\ t.topic # NoTopic
            /\ ctx' = [topic |-> t.topic, plan |-> t.plan, sql |-> t.plan = NoPlan]
  BY DEF Respond
<1>2. CASE ctx'.plan = NoPlan
  <2>1. Wants(NoPlan.filters) = Memory!Nothing BY WantsShape DEF NoPlan
  <2>2. Memory!Forget BY <1>2, <2>1 DEF Memory!Forget, Memory!NoTopic, NoTopic
  <2> QED BY <2>2 DEF Memory!Next
<1>3. CASE ctx'.plan # NoPlan
  <2>1. ctx'.plan = t.plan /\ ctx'.topic = t.topic /\ t.plan # NoPlan /\ t.topic # NoTopic
    BY <1>1, <1>3 DEF NoContext
  <2>2. t.topic \in Topics /\ t.topic \in INTENT_CATALOG
    BY <2>1, PlanTurnsAssumption DEF Origin, Nodes
  <2>3. PICK question \in Questions :
          t.plan = update_query_plan(ctx.plan, t.topic, extract_filters(question, t.topic[1]))
    BY <2>1 DEF Origin, Plans, Handed
  <2> DEFINE said == Stated(question, t.topic)
             last == IF ctx.plan = NoPlan THEN NoTopic ELSE ctx.topic
             sum == Together(Wants(ctx.plan.filters), said)
  <2>4. said \in Said(t.topic) BY DEF Said, Stated
  <2>5. SameTopic(ctx.plan, t.topic) <=> t.topic = last
    <3>1. t.topic = <<t.topic[1], t.topic[2]>> /\ t.topic[1] # "none" BY <2>2, CatalogTopic
    <3>2. ctx.plan # NoPlan => SameTopic(ctx.plan, ctx.topic) BY DEF IInv, TypeOK
    <3>3. ctx.plan # NoPlan => ctx.topic = <<ctx.topic[1], ctx.topic[2]>>
      <4>1. ctx.plan # NoPlan => ctx.topic \in INTENT_CATALOG
        BY PlanTurnsAssumption DEF Origin, Nodes, Rooted
      <4> QED BY <4>1, CatalogTopic
    <3>4. ~SameTopic(NoPlan, t.topic) BY <3>1 DEF SameTopic, NoPlan
    <3>5. CASE ctx.plan = NoPlan BY <2>1, <3>4, <3>5
    <3>6. CASE ctx.plan # NoPlan
      <4>1. last = ctx.topic BY <3>6
      <4>2. ctx.plan.domain = ctx.topic[1] /\ ctx.plan.intent = ctx.topic[2] BY <3>2, <3>6 DEF SameTopic
      <4> QED BY <3>1, <3>3, <3>6, <4>1, <4>2 DEF SameTopic
    <3> QED BY <3>5, <3>6
  <2>6. Wants(t.plan.filters) = IF ~SameTopic(ctx.plan, t.topic) THEN said ELSE sum
    <3>1. ctx.plan.filters \in Seq(AnyClauses) /\ Coherent(ctx.plan) BY ValidIsAny DEF Origin, Plans
    <3>2. IsQuestion(question) BY KnownQuestion
    <3> QED BY <2>2, <2>3, <3>1, <3>2, UpdateRemembers
  <2>7. (IF ctx.plan = NoPlan THEN NoTopic ELSE ctx.topic)' = t.topic
        /\ (Wants(ctx.plan.filters))' = Wants(t.plan.filters)
    BY <1>3, <2>1
  <2>8. Memory!Updated(said) = sum BY DEF Memory!Updated, Together
  <2> HIDE DEF said, sum, last
  <2>9. Memory!Remember(t.topic, said)
    BY <2>5, <2>6, <2>7, <2>8 DEF Memory!Remember, last
  <2> QED BY <2>2, <2>4, <2>9 DEF Memory!Next
<1> QED BY <1>2, <1>3

\* What the context does, in any step.
LEMMA ContextRemembers ==
  ASSUME IInv, Origin, Rooted, [Next]_vars, ctx' # ctx, carried, entry = "regex"
  PROVE  Memory!Next
<1>1. CASE Respond BY <1>1, RespondRemembers
<1>2. CASE ClearContext
  <2>1. ctx'.plan = NoPlan BY <1>2 DEF ClearContext, NoContext
  <2>2. Wants(NoPlan.filters) = Memory!Nothing BY WantsShape DEF NoPlan
  <2>3. Memory!Forget BY <2>1, <2>2 DEF Memory!Forget, Memory!NoTopic, NoTopic
  <2> QED BY <2>3 DEF Memory!Next
<1> QED BY <1>1, <1>2, ContextChanges

\* An answer honours what was said since the topic began, and nothing else
\* (update_query_plan, the end of execute_nl_query).
THEOREM PlanIsMemoryAlways == Spec => PlanIsMemory
<1>1. IInv /\ Origin /\ Rooted /\ [Next]_vars => [carried /\ entry = "regex" => Memory!Next]_ctx
  BY ContextRemembers
<1> QED BY <1>1, OriginInvariant, RootedInvariant, PTL DEF Spec, PlanIsMemory

\* Where the plan comes back, the whole conversation implements the
\* specification of a memory: FilterMemory, from its initial state on.
THEOREM ConversationIsMemory == Spec /\ carried /\ entry = "regex" => Memory!Spec
<1> DEFINE P == carried /\ entry = "regex"
<1>1. Init => Memory!Init
  <2>1. Wants(NoPlan.filters) = Memory!Nothing BY WantsShape DEF NoPlan
  <2> QED BY <2>1 DEF Init, NoContext, Memory!Init, Memory!NoTopic, NoTopic
<1>2. P /\ [Next]_vars => P'
  BY DEF vars, Next, Step, Ask, Answering, ClassifyIntent, ExtractFilters, GroqFollowUp, GroqExtract,
     GroqRecover, FollowupDetection, LlmExtraction, DeterministicOverride, ConfidenceScoring,
     UpdateQueryPlan, ToolFails, RunDomainTool, LlmFallback, Respond, ClearContext
<1>3. P /\ IInv /\ Origin /\ Rooted /\ [Next]_vars
        => [Memory!Next]_<<IF ctx.plan = NoPlan THEN NoTopic ELSE ctx.topic, Wants(ctx.plan.filters)>>
  BY ContextRemembers
<1> HIDE DEF P
<1>4. Spec /\ P => Memory!Spec
  BY <1>1, <1>2, <1>3, OriginInvariant, RootedInvariant, PTL DEF Spec, Memory!Spec
<1> QED BY <1>4 DEF P

-----------------------------------------------------------------------------
(* Alignment                                                               *)

\* The tokens of a statement.
Tokens == Kinds \union Placeholders \union
          {"SELECT", "WHERE", "ORDER BY", "GROUP BY", "AND", SkillToken}

Copies(x, n) == [i \in 1 .. n |-> x]
Uses(params) == [i \in DOMAIN params |-> params[i].use]

\* A sequence of the same, none and one.
LEMMA CopiesShape ==
  ASSUME NEW S, NEW x \in S, NEW n \in Nat
  PROVE  /\ Copies(x, n) \in Seq(S) /\ Len(Copies(x, n)) = n
         /\ Range(Copies(x, n)) \subseteq {x}
         /\ Copies(x, 0) = <<>> /\ Copies(x, 1) = <<x>>
<1>1. Copies(x, n) \in Seq(S) /\ Len(Copies(x, n)) = n BY DEF Copies
<1>2. Range(Copies(x, n)) \subseteq {x} BY DEF Copies, Range
<1>3. Copies(x, 0) = <<>> BY DEF Copies
<1>4. Copies(x, 1) = <<x>> BY DEF Copies
<1> QED BY <1>1, <1>2, <1>3, <1>4

\* Copies after copies.
LEMMA CopiesConcat ==
  ASSUME NEW x, NEW m \in Nat, NEW n \in Nat
  PROVE  Copies(x, m) \o Copies(x, n) = Copies(x, m + n)
<1> DEFINE a == Copies(x, m)
           b == Copies(x, n)
           c == Copies(x, m + n)
<1>1. /\ a \in Seq({x}) /\ b \in Seq({x}) /\ c \in Seq({x})
      /\ Len(a) = m /\ Len(b) = n /\ Len(c) = m + n
  <2>1. x \in {x} /\ m + n \in Nat OBVIOUS
  <2> HIDE DEF a, b, c
  <2>2. a \in Seq({x}) /\ Len(a) = m BY <2>1, CopiesShape DEF a
  <2>3. b \in Seq({x}) /\ Len(b) = n BY <2>1, CopiesShape DEF b
  <2>4. c \in Seq({x}) /\ Len(c) = m + n BY <2>1, CopiesShape DEF c
  <2> QED BY <2>2, <2>3, <2>4
<1> HIDE DEF a, b, c
<1>2. a \o b \in Seq({x}) /\ Len(a \o b) = m + n BY <1>1, ConcatProperties
<1>3. \A i \in 1 .. m + n : (a \o b)[i] = x /\ c[i] = x
  <2>1. \A s \in Seq({x}) : \A i \in 1 .. Len(s) : s[i] = x BY ElementOfSeq
  <2> QED BY <1>1, <1>2, <2>1
<1>4. a \o b = c BY <1>1, <1>2, <1>3
<1> QED BY <1>4 DEF a, b, c

\* The uses of lists of parameters.
LEMMA UsesConcat ==
  ASSUME NEW S, NEW a \in Seq(S), NEW b \in Seq(S)
  PROVE  Uses(a \o b) = Uses(a) \o Uses(b)
<1> DEFINE U == {x.use : x \in S}
<1>1. ASSUME NEW s \in Seq(S)
      PROVE  Uses(s) \in Seq(U) /\ Len(Uses(s)) = Len(s) /\ \A i \in 1 .. Len(s) : Uses(s)[i] = s[i].use
  <2>1. Len(s) \in Nat /\ DOMAIN s = 1 .. Len(s) /\ \A i \in 1 .. Len(s) : s[i] \in S
    BY LenProperties, ElementOfSeq
  <2>2. Uses(s) = [i \in 1 .. Len(s) |-> s[i].use] BY <2>1 DEF Uses
  <2> QED BY <2>1, <2>2
<1> HIDE DEF U
<1>2. /\ a \o b \in Seq(S) /\ Len(a \o b) = Len(a) + Len(b)
      /\ Len(a) \in Nat /\ Len(b) \in Nat
      /\ \A i \in 1 .. Len(a) + Len(b) : (a \o b)[i] = IF i <= Len(a) THEN a[i] ELSE b[i - Len(a)]
  BY ConcatProperties, LenProperties
<1>3. /\ Uses(a) \o Uses(b) \in Seq(U) /\ Len(Uses(a) \o Uses(b)) = Len(a) + Len(b)
      /\ \A i \in 1 .. Len(a) + Len(b) :
           (Uses(a) \o Uses(b))[i] = IF i <= Len(a) THEN Uses(a)[i] ELSE Uses(b)[i - Len(a)]
  <2>1. /\ Uses(a) \in Seq(U) /\ Len(Uses(a)) = Len(a)
        /\ Uses(b) \in Seq(U) /\ Len(Uses(b)) = Len(b)
    BY <1>1
  <2> DEFINE c == Uses(a)
             d == Uses(b)
  <2> HIDE DEF c, d
  <2>2. c \in Seq(U) /\ d \in Seq(U) /\ Len(c) = Len(a) /\ Len(d) = Len(b) BY <2>1 DEF c, d
  <2>3. /\ c \o d \in Seq(U) /\ Len(c \o d) = Len(c) + Len(d)
        /\ \A i \in 1 .. Len(c) + Len(d) : (c \o d)[i] = IF i <= Len(c) THEN c[i] ELSE d[i - Len(c)]
    BY <2>2, ConcatProperties
  <2> QED BY <2>2, <2>3 DEF c, d
<1>4. Uses(a \o b) \in Seq(U) /\ Len(Uses(a \o b)) = Len(a) + Len(b)
      /\ \A i \in 1 .. Len(a) + Len(b) : Uses(a \o b)[i] = (a \o b)[i].use
  BY <1>1, <1>2
<1>5. ASSUME NEW i \in 1 .. Len(a) + Len(b) PROVE Uses(a \o b)[i] = (Uses(a) \o Uses(b))[i]
  <2>1. CASE i <= Len(a)
    <3>1. i \in 1 .. Len(a) BY <1>2, <2>1
    <3>2. Uses(a)[i] = a[i].use BY <1>1, <3>1
    <3> QED BY <1>2, <1>3, <1>4, <2>1, <3>2
  <2>2. CASE ~(i <= Len(a))
    <3>1. i - Len(a) \in 1 .. Len(b) BY <1>2, <2>2
    <3>2. Uses(b)[i - Len(a)] = b[i - Len(a)].use BY <1>1, <3>1
    <3> QED BY <1>2, <1>3, <1>4, <2>2, <3>2
  <2> QED BY <2>1, <2>2
<1> QED BY <1>3, <1>4, <1>5

\* Bound parameters are all for the same.
LEMMA UsesBound ==
  ASSUME NEW S, NEW s \in Seq(S), NEW use
  PROVE  Uses(Bound(use, s)) = Copies(use, Len(s))
<1>1. Len(s) \in Nat /\ DOMAIN s = 1 .. Len(s) BY LenProperties
<1>2. Bound(use, s) = [i \in 1 .. Len(s) |-> [use |-> use, value |-> s[i]]] BY <1>1 DEF Bound
<1> HIDE DEF Bound
<1>3. DOMAIN Bound(use, s) = 1 .. Len(s) /\ \A i \in 1 .. Len(s) : Bound(use, s)[i].use = use BY <1>2
<1> QED BY <1>3 DEF Uses, Copies

\* Fragments that have a placeholder per value have, joined, one for each of
\* the values joined.
LEMMA FlattenParallel ==
  ASSUME NEW S, NEW V, NEW T, NEW x,
         NEW n \in Nat, NEW texts \in Seq(Seq(S)), NEW values \in Seq(Seq(V)),
         Len(texts) = n, Len(values) = n,
         \A i \in 1 .. n : Picked(texts[i], T) = Copies(x, Len(values[i]))
  PROVE  Picked(FlattenSeq(texts), T) = Copies(x, Len(FlattenSeq(values)))
<1> DEFINE Pairs == {p \in Seq(S) \X Seq(V) : Picked(p[1], T) = Copies(x, Len(p[2]))}
           First(z) == [i \in DOMAIN z |-> z[i][1]]
           Second(z) == [i \in DOMAIN z |-> z[i][2]]
           Good(z) == /\ First(z) \in Seq(Seq(S)) /\ Second(z) \in Seq(Seq(V))
                      /\ Picked(FlattenSeq(First(z)), T) = Copies(x, Len(FlattenSeq(Second(z))))
           U == {z \in Seq(Pairs) : Good(z)}
<1>1. <<>> \in U
  <2>1. First(<<>>) = <<>> /\ Second(<<>>) = <<>> OBVIOUS
  <2>2. Len(<<>>) = 0 OBVIOUS
  <2>3. Copies(x, 0) = <<>> BY DEF Copies
  <2> HIDE DEF First, Second
  <2>4. Good(<<>>) BY <2>1, <2>2, <2>3, FlattenEmpty, PickedEmpty, EmptySeq
  <2> HIDE DEF Good
  <2> QED BY <2>4, EmptySeq
<1>2. ASSUME NEW z \in Seq(Pairs), NEW p \in Pairs, z \in U PROVE Append(z, p) \in U
  <2> DEFINE w == Append(z, p)
             k == Len(z)
             a == First(z)
             b == Second(z)
  <2>1. /\ k \in Nat /\ DOMAIN z = 1 .. k /\ w \in Seq(Pairs) /\ DOMAIN w = 1 .. k + 1
        /\ \A i \in 1 .. k : w[i] = z[i]
        /\ w[k + 1] = p
    BY AppendIndexed
  <2>2. p[1] \in Seq(S) /\ p[2] \in Seq(V) /\ Picked(p[1], T) = Copies(x, Len(p[2])) OBVIOUS
  <2>3. Good(z) BY <1>2
  <2> HIDE DEF w, k, Pairs
  <2>4. DOMAIN a = 1 .. k /\ DOMAIN b = 1 .. k
        /\ \A i \in 1 .. k : a[i] = z[i][1] /\ b[i] = z[i][2]
    BY <2>1
  <2>5. a \in Seq(Seq(S)) /\ b \in Seq(Seq(V)) BY <2>3
  <2>6. Len(a) = k /\ Len(b) = k
    <3> HIDE DEF a, b
    <3> QED BY <2>1, <2>4, <2>5, LenProperties
  <2>7. First(w) = [i \in 1 .. k + 1 |-> w[i][1]] /\ Second(w) = [i \in 1 .. k + 1 |-> w[i][2]]
    BY <2>1
  <2>8. \A i \in 1 .. k + 1 : i \in 1 .. k \/ i = k + 1 BY <2>1
  <2> HIDE DEF a, b, First, Second, Good
  <2>9. First(w) = Append(a, p[1])
    <3>1. /\ Append(a, p[1]) \in Seq(Seq(S)) /\ DOMAIN Append(a, p[1]) = 1 .. k + 1
          /\ \A i \in 1 .. k : Append(a, p[1])[i] = a[i]
          /\ Append(a, p[1])[k + 1] = p[1]
      BY <2>2, <2>5, <2>6, AppendIndexed
    <3>2. \A i \in 1 .. k + 1 : Append(a, p[1])[i] = w[i][1] BY <2>1, <2>4, <2>8, <3>1
    <3>3. Append(a, p[1]) = [i \in DOMAIN Append(a, p[1]) |-> Append(a, p[1])[i]]
      BY <2>2, <2>5, AppendProperties
    <3> QED BY <2>7, <3>1, <3>2, <3>3
  <2>10. Second(w) = Append(b, p[2])
    <3>1. /\ Append(b, p[2]) \in Seq(Seq(V)) /\ DOMAIN Append(b, p[2]) = 1 .. k + 1
          /\ \A i \in 1 .. k : Append(b, p[2])[i] = b[i]
          /\ Append(b, p[2])[k + 1] = p[2]
      BY <2>2, <2>5, <2>6, AppendIndexed
    <3>2. \A i \in 1 .. k + 1 : Append(b, p[2])[i] = w[i][2] BY <2>1, <2>4, <2>8, <3>1
    <3>3. Append(b, p[2]) = [i \in DOMAIN Append(b, p[2]) |-> Append(b, p[2])[i]]
      BY <2>2, <2>5, AppendProperties
    <3> QED BY <2>7, <3>1, <3>2, <3>3
  <2>11. /\ FlattenSeq(First(w)) = FlattenSeq(a) \o p[1]
         /\ FlattenSeq(Second(w)) = FlattenSeq(b) \o p[2]
         /\ FlattenSeq(a) \in Seq(S) /\ FlattenSeq(b) \in Seq(V)
    BY <2>2, <2>5, <2>9, <2>10, FlattenAppend, FlattenType
  <2>12. Picked(FlattenSeq(First(w)), T) = Picked(FlattenSeq(a), T) \o Picked(p[1], T)
    BY <2>2, <2>11, PickedConcat
  <2>13. /\ Len(FlattenSeq(Second(w))) = Len(FlattenSeq(b)) + Len(p[2])
         /\ Len(FlattenSeq(b)) \in Nat /\ Len(p[2]) \in Nat
    BY <2>2, <2>11, ConcatProperties, LenProperties
  <2>14. Picked(FlattenSeq(a), T) = Copies(x, Len(FlattenSeq(b))) BY <2>3 DEF Good, a, b
  <2>15. Picked(FlattenSeq(First(w)), T) = Copies(x, Len(FlattenSeq(Second(w))))
    BY <2>2, <2>12, <2>13, <2>14, CopiesConcat
  <2>16. First(w) \in Seq(Seq(S)) /\ Second(w) \in Seq(Seq(V))
    BY <2>2, <2>5, <2>9, <2>10, AppendProperties
  <2>17. Good(w) BY <2>15, <2>16 DEF Good
  <2> QED BY <2>1, <2>17 DEF w
<1> DEFINE z == [i \in 1 .. n |-> <<texts[i], values[i]>>]
<1>3. \A i \in 1 .. n : texts[i] \in Seq(S) /\ values[i] \in Seq(V) BY ElementOfSeq
<1>4. z \in Seq(Pairs)
  <2>1. \A i \in 1 .. n : <<texts[i], values[i]>> \in Pairs BY <1>3
  <2> HIDE DEF Pairs
  <2> QED BY <2>1
<1>5. texts = [i \in 1 .. n |-> texts[i]] /\ values = [i \in 1 .. n |-> values[i]]
  BY LenProperties
<1>6. First(z) = texts /\ Second(z) = values BY <1>5
<1> HIDE DEF z, Pairs, First, Second
<1>7. z \in U
  <2> HIDE DEF U
  <2> QED BY <1>1, <1>2, <1>4, SeqInduction
<1> QED BY <1>6, <1>7

\* Copies of a member are picked.
LEMMA PickedCopies ==
  ASSUME NEW T, NEW x \in T, NEW n \in Nat
  PROVE  Picked(Copies(x, n), T) = Copies(x, n)
<1>1. x \in {x} OBVIOUS
<1>2. Copies(x, n) \in Seq({x}) /\ Range(Copies(x, n)) \subseteq {x} BY <1>1, CopiesShape
<1>3. Range(Copies(x, n)) \subseteq T BY <1>2
<1> QED BY <1>2, <1>3, PickedAll

\* Tuples, element by element.
LEMMA AppendTuple ==
  /\ \A a : Append(<<>>, a) = <<a>>
  /\ \A a, b : Append(<<a>>, b) = <<a, b>>
  /\ \A a, b, c : Append(<<a, b>>, c) = <<a, b, c>>
  /\ \A a, b, c, d : Append(<<a, b, c>>, d) = <<a, b, c, d>>
  /\ \A a, b, c, d, e : Append(<<a, b, c, d>>, e) = <<a, b, c, d, e>>
<1>1. \A a : Append(<<>>, a) = <<a>> OBVIOUS
<1>2. ASSUME NEW a, NEW b PROVE Append(<<a>>, b) = <<a, b>>
  <2> DEFINE r == Append(<<a>>, b)
             u == <<a, b>>
             S == {a, b}
  <2>1. <<a>> \in Seq(S) /\ u \in Seq(S) /\ b \in S OBVIOUS
  <2>2. r \in Seq(S) /\ Len(r) = 2 /\ r[1] = a /\ r[2] = b
    BY <2>1, AppendProperties
  <2>3. Len(u) = 2 /\ u[1] = a /\ u[2] = b OBVIOUS
  <2> HIDE DEF r, u
  <2>4. r = u BY <2>1, <2>2, <2>3
  <2> QED BY <2>4 DEF r, u
<1>3. ASSUME NEW a, NEW b, NEW c PROVE Append(<<a, b>>, c) = <<a, b, c>>
  <2> DEFINE r == Append(<<a, b>>, c)
             u == <<a, b, c>>
             S == {a, b, c}
  <2>1. <<a, b>> \in Seq(S) /\ u \in Seq(S) /\ c \in S OBVIOUS
  <2>2. r \in Seq(S) /\ Len(r) = 3 /\ r[1] = a /\ r[2] = b /\ r[3] = c
    BY <2>1, AppendProperties
  <2>3. Len(u) = 3 /\ u[1] = a /\ u[2] = b /\ u[3] = c OBVIOUS
  <2> HIDE DEF r, u
  <2>4. r = u BY <2>1, <2>2, <2>3
  <2> QED BY <2>4 DEF r, u
<1>4. ASSUME NEW a, NEW b, NEW c, NEW d PROVE Append(<<a, b, c>>, d) = <<a, b, c, d>>
  <2> DEFINE r == Append(<<a, b, c>>, d)
             u == <<a, b, c, d>>
             S == {a, b, c, d}
  <2>1. <<a, b, c>> \in Seq(S) /\ u \in Seq(S) /\ d \in S OBVIOUS
  <2>2. r \in Seq(S) /\ Len(r) = 4 /\ r[1] = a /\ r[2] = b /\ r[3] = c /\ r[4] = d
    BY <2>1, AppendProperties
  <2>3. Len(u) = 4 /\ u[1] = a /\ u[2] = b /\ u[3] = c /\ u[4] = d OBVIOUS
  <2> HIDE DEF r, u
  <2>4. r = u BY <2>1, <2>2, <2>3
  <2> QED BY <2>4 DEF r, u
<1>5. ASSUME NEW a, NEW b, NEW c, NEW d, NEW e PROVE Append(<<a, b, c, d>>, e) = <<a, b, c, d, e>>
  <2> DEFINE r == Append(<<a, b, c, d>>, e)
             u == <<a, b, c, d, e>>
             S == {a, b, c, d, e}
  <2>1. <<a, b, c, d>> \in Seq(S) /\ u \in Seq(S) /\ e \in S OBVIOUS
  <2>2. r \in Seq(S) /\ Len(r) = 5 /\ r[1] = a /\ r[2] = b /\ r[3] = c /\ r[4] = d /\ r[5] = e
    BY <2>1, AppendProperties
  <2>3. Len(u) = 5 /\ u[1] = a /\ u[2] = b /\ u[3] = c /\ u[4] = d /\ u[5] = e OBVIOUS
  <2> HIDE DEF r, u
  <2>4. r = u BY <2>1, <2>2, <2>3
  <2> QED BY <2>4 DEF r, u
<1> QED BY <1>1, <1>2, <1>3, <1>4, <1>5

\* One token, and none.
LEMMA PickedOne ==
  ASSUME NEW T, NEW x
  PROVE  Picked(<<x>>, T) = IF x \in T THEN <<x>> ELSE <<>>
<1>1. <<>> \in Seq({x}) /\ x \in {x} BY EmptySeq
<1>2. Append(<<>>, x) = <<x>> OBVIOUS
<1> DEFINE e == <<>>
<1> HIDE DEF e
<1>3. Picked(Append(e, x), T) = IF x \in T THEN Append(Picked(e, T), x) ELSE Picked(e, T)
  <2>1. e \in Seq({x}) /\ x \in {x} BY <1>1 DEF e
  <2> QED BY <2>1, PickedAppend
<1> QED BY <1>2, <1>3, PickedEmpty DEF e

\* A condition in the text has the placeholders of its parameters.
LEMMA FragmentPlaceholders ==
  ASSUME NEW fc \in ValidClauses, NEW joint \in {"AND", "WHERE"}
  PROVE  LET c == build_filter_clause(fc)
             text == <<joint>> \o FragmentText(c)
         IN  text \in Seq(Tokens) /\ Picked(text, Placeholders) = Copies("?filter", Len(c.params))
<1> DEFINE c == build_filter_clause(fc)
           n == Len(c.params)
           q == Copies("?filter", n)
<1>1. IsSeq(c.params) /\ c.kind \in Kinds /\ (c.kind \in {"IS NULL", "IS NOT NULL"} => c.params = <<>>)
  BY ConditionShape
<1> HIDE DEF c
<1>2. n \in Nat /\ DOMAIN c.params = 1 .. n BY <1>1, LenProperties DEF IsSeq
<1>3. FragmentText(c) = IF c.kind \in {"IS NULL", "IS NOT NULL"} THEN <<c.kind>> ELSE <<c.kind>> \o q
  BY DEF FragmentText, Copies
<1>4. c.kind \in {"IS NULL", "IS NOT NULL"} => n = 0
  <2>1. Len(<<>>) = 0 OBVIOUS
  <2> QED BY <1>1, <2>1
<1> HIDE DEF n
<1>5. joint \in Tokens /\ c.kind \in Tokens /\ "?filter" \in Tokens
  BY <1>1 DEF Tokens, Placeholders
<1>6. joint \notin Placeholders /\ c.kind \notin Placeholders /\ "?filter" \in Placeholders
  BY <1>1 DEF Placeholders, Kinds, Operators
<1>7. <<joint>> \in Seq(Tokens) /\ <<c.kind>> \in Seq(Tokens) BY <1>5
<1>8. Picked(<<joint>>, Placeholders) = <<>> /\ Picked(<<c.kind>>, Placeholders) = <<>>
  BY <1>6, PickedOne
<1>9. q \in Seq(Tokens) /\ Picked(q, Placeholders) = q BY <1>2, <1>5, <1>6, CopiesShape, PickedCopies
<1>10. Copies("?filter", 0) = <<>> BY DEF Copies
<1> HIDE DEF q
<1>11. /\ FragmentText(c) \in Seq(Tokens)
       /\ Picked(FragmentText(c), Placeholders) = q
  <2>1. CASE c.kind \in {"IS NULL", "IS NOT NULL"}
    <3>1. q = <<>> BY <1>4, <1>10, <2>1 DEF q
    <3> QED BY <1>3, <1>7, <1>8, <2>1, <3>1
  <2>2. CASE c.kind \notin {"IS NULL", "IS NOT NULL"}
    <3>1. FragmentText(c) = <<c.kind>> \o q BY <1>3, <2>2
    <3> DEFINE k == <<c.kind>>
    <3> HIDE DEF k
    <3>2. Picked(k \o q, Placeholders) = <<>> \o q
      <4>1. k \in Seq(Tokens) /\ Picked(k, Placeholders) = <<>> BY <1>7, <1>8 DEF k
      <4>2. Picked(k \o q, Placeholders) = Picked(k, Placeholders) \o Picked(q, Placeholders)
        BY <1>9, <4>1, PickedConcat
      <4> QED BY <1>9, <4>1, <4>2, Zenon
    <3>3. k \o q \in Seq(Tokens) BY <1>7, <1>9, ConcatProperties DEF k
    <3> QED BY <1>9, <3>1, <3>2, <3>3, ConcatEmptySeq DEF k
  <2> QED BY <2>1, <2>2
<1>12. Picked(<<joint>> \o FragmentText(c), Placeholders) = <<>> \o q
  <2> DEFINE k == <<joint>>
             f == FragmentText(c)
  <2> HIDE DEF k, f
  <2>1. Picked(k \o f, Placeholders) = Picked(k, Placeholders) \o Picked(f, Placeholders)
    BY <1>7, <1>11, PickedConcat DEF k, f
  <2> QED BY <1>8, <1>11, <2>1 DEF k, f
<1>13. <<joint>> \o FragmentText(c) \in Seq(Tokens) BY <1>7, <1>11, ConcatProperties
<1>14. <<>> \o q = q BY <1>9, ConcatEmptySeq
<1>15. Picked(<<joint>> \o FragmentText(c), Placeholders) = q BY <1>12, <1>14
<1> QED BY <1>13, <1>15 DEF q, n, c

\* What Appended adds to a text.
Trailing(domain, text, conditions) ==
    LET joint == IF domain = "user_self" \/ "WHERE" \in Range(text) THEN "AND" ELSE "WHERE"
    IN  FlattenSeq([i \in DOMAIN conditions |->
            <<IF i = 1 THEN joint ELSE "AND">> \o FragmentText(conditions[i])])

\* The text of the conditions has a placeholder for each value of a filter.
LEMMA TrailingPlaceholders ==
  ASSUME NEW plan, plan.filters \in Seq(ValidClauses), NEW domain, NEW text
  PROVE  /\ Trailing(domain, text, Conditions(plan)) \in Seq(Tokens)
         /\ Picked(Trailing(domain, text, Conditions(plan)), Placeholders)
              = Copies("?filter", Len(FilterValues(plan)))
<1> DEFINE n == Len(Applied(plan))
           cs == Conditions(plan)
           joint == IF domain = "user_self" \/ "WHERE" \in Range(text) THEN "AND" ELSE "WHERE"
           word(i) == IF i = 1 THEN joint ELSE "AND"
           texts == [i \in DOMAIN cs |-> <<word(i)>> \o FragmentText(cs[i])]
           values == [i \in DOMAIN cs |-> cs[i].params]
<1>1. n \in Nat /\ DOMAIN cs = 1 .. n
      /\ \A i \in 1 .. n : Applied(plan)[i] \in ValidClauses /\ cs[i] = build_filter_clause(Applied(plan)[i])
  BY ConditionsType
<1>2. Trailing(domain, text, cs) = FlattenSeq(texts) BY DEF Trailing
<1>3. FilterValues(plan) = FlattenSeq(values) BY DEF FilterValues
<1>4. \A i : word(i) \in {"AND", "WHERE"} OBVIOUS
<1> HIDE DEF cs, n, word
<1>5. ASSUME NEW i \in 1 .. n
      PROVE  /\ texts[i] \in Seq(Tokens)
             /\ Picked(texts[i], Placeholders) = Copies("?filter", Len(values[i]))
             /\ IsSeq(values[i])
  <2> DEFINE fc == Applied(plan)[i]
             c == build_filter_clause(fc)
             w == word(i)
  <2>1. fc \in ValidClauses /\ cs[i] = c /\ w \in {"AND", "WHERE"} BY <1>1, <1>4
  <2>2. texts[i] = <<w>> \o FragmentText(cs[i]) /\ values[i] = cs[i].params BY <1>1
  <2> HIDE DEF fc, w
  <2>3. LET d == build_filter_clause(fc)
            s == <<w>> \o FragmentText(d)
        IN  s \in Seq(Tokens) /\ Picked(s, Placeholders) = Copies("?filter", Len(d.params))
    BY <2>1, FragmentPlaceholders, Zenon
  <2>4. IsSeq(c.params) BY <2>1, ConditionShape
  <2> HIDE DEF texts, values
  <2> QED BY <2>1, <2>2, <2>3, <2>4
<1>6. texts = [i \in 1 .. n |-> texts[i]] /\ values = [i \in 1 .. n |-> values[i]] BY <1>1
<1> HIDE DEF texts, values
<1>7. texts \in Seq(Seq(Tokens)) /\ Len(texts) = n
  <2> DEFINE X == Seq(Tokens)
  <2>1. \A i \in 1 .. n : texts[i] \in X BY <1>5
  <2> HIDE DEF X
  <2>2. texts \in Seq(X) BY <1>1, <1>6, <2>1
  <2>3. Len(texts) = n BY <1>1, <1>6
  <2> QED BY <2>2, <2>3 DEF X
<1>8. PICK V : values \in Seq(Seq(V))
  <2>1. IsSeq(values)
    <3>1. values \in Seq(Range(values)) BY <1>1, <1>6 DEF Range
    <3> QED BY <3>1 DEF IsSeq
  <2>2. DOMAIN values = 1 .. n BY <1>6
  <2> QED BY <1>1, <1>5, <2>1, <2>2, FlattenIsSeq
<1>9. Len(values) = n BY <1>1, <1>6
<1>10. \A i \in 1 .. n : Picked(texts[i], Placeholders) = Copies("?filter", Len(values[i])) BY <1>5
<1>11. Picked(FlattenSeq(texts), Placeholders) = Copies("?filter", Len(FlattenSeq(values)))
  <2>1. n \in Nat /\ texts \in Seq(Seq(Tokens)) /\ Len(texts) = n BY <1>1, <1>7
  <2>2. values \in Seq(Seq(V)) /\ Len(values) = n BY <1>8, <1>9
  <2>3. ASSUME NEW x, x = "?filter"
        PROVE  Picked(FlattenSeq(texts), Placeholders) = Copies(x, Len(FlattenSeq(values)))
    <3>1. \A i \in 1 .. n : Picked(texts[i], Placeholders) = Copies(x, Len(values[i])) BY <1>10, <2>3
    <3> HIDE DEF n, texts, values
    <3>2. PICK m \in Nat : m = n BY <2>1
    <3>3. PICK p \in Seq(Seq(Tokens)) : p = texts BY <2>1
    <3>4. PICK q \in Seq(Seq(V)) : q = values BY <2>2
    <3>5. \A i \in 1 .. m : Picked(p[i], Placeholders) = Copies(x, Len(q[i])) BY <3>1, <3>2, <3>3, <3>4
    <3>6. Len(p) = m /\ Len(q) = m BY <2>1, <2>2, <3>2, <3>3, <3>4
    <3>7. Picked(FlattenSeq(p), Placeholders) = Copies(x, Len(FlattenSeq(q))) BY <3>5, <3>6, FlattenParallel
    <3> QED BY <3>3, <3>4, <3>7
  <2> QED BY <2>3
<1>12. FlattenSeq(texts) \in Seq(Tokens) BY <1>7, FlattenType
<1> QED BY <1>2, <1>3, <1>11, <1>12 DEF cs

-----------------------------------------------------------------------------
\* A base text with n skills in the place of its token, and its placeholders.
Pieces(text, n) == [i \in DOMAIN text |-> IF text[i] = SkillToken THEN Copies("?skill", n) ELSE <<text[i]>>]
Expanded(text, n) == FlattenSeq(Pieces(text, n))

\* Nothing expands to nothing.
LEMMA ExpandedEmpty == ASSUME NEW n \in Nat PROVE Expanded(<<>>, n) = <<>> /\ <<>> \in Seq(Tokens)
<1>1. Pieces(<<>>, n) = <<>> BY DEF Pieces
<1> QED BY <1>1, FlattenEmpty, EmptySeq DEF Expanded

\* A token more, and the placeholders it brings.
LEMMA ExpandedAppend ==
  ASSUME NEW n \in Nat, NEW text \in Seq(Tokens), NEW x \in Tokens
  PROVE  LET all == Append(text, x)
         IN  /\ all \in Seq(Tokens) /\ Expanded(all, n) \in Seq(Tokens)
             /\ Picked(Expanded(all, n), Placeholders) = Picked(Expanded(text, n), Placeholders) \o
                  (IF x = SkillToken THEN Copies("?skill", n) ELSE IF x \in Placeholders THEN <<x>> ELSE <<>>)
<1> DEFINE all == Append(text, x)
           k == Len(text)
           piece(y) == IF y = SkillToken THEN Copies("?skill", n) ELSE <<y>>
           a == Pieces(text, n)
           b == Pieces(all, n)
<1>1. /\ all \in Seq(Tokens) /\ k \in Nat /\ DOMAIN text = 1 .. k
      /\ DOMAIN all = 1 .. k + 1
      /\ \A i \in 1 .. k : all[i] = text[i]
      /\ all[k + 1] = x
  BY AppendIndexed
<1>2. \A i \in 1 .. k : text[i] \in Tokens BY ElementOfSeq
<1>3. ASSUME NEW y \in Tokens
      PROVE  /\ piece(y) \in Seq(Tokens)
             /\ Picked(piece(y), Placeholders)
                  = IF y = SkillToken THEN Copies("?skill", n) ELSE IF y \in Placeholders THEN <<y>> ELSE <<>>
  <2>1. "?skill" \in Tokens /\ "?skill" \in Placeholders BY DEF Tokens, Placeholders
  <2>2. /\ Copies("?skill", n) \in Seq(Tokens)
        /\ Picked(Copies("?skill", n), Placeholders) = Copies("?skill", n)
    BY <2>1, CopiesShape, PickedCopies
  <2>3. <<y>> \in Seq(Tokens) OBVIOUS
  <2> QED BY <2>2, <2>3, PickedOne
<1>4. a = [i \in 1 .. k |-> piece(text[i])] /\ b = [i \in 1 .. k + 1 |-> piece(all[i])]
  BY <1>1 DEF Pieces
<1> HIDE DEF all, k, a, b, piece
<1>5. a \in Seq(Seq(Tokens)) /\ Len(a) = k
  <2>1. \A i \in 1 .. k : piece(text[i]) \in Seq(Tokens) BY <1>2, <1>3
  <2> QED BY <1>1, <1>4, <2>1
<1>6. b = Append(a, piece(x))
  <2>1. /\ Append(a, piece(x)) \in Seq(Seq(Tokens)) /\ DOMAIN Append(a, piece(x)) = 1 .. k + 1
        /\ \A i \in 1 .. k : Append(a, piece(x))[i] = a[i]
        /\ Append(a, piece(x))[k + 1] = piece(x)
    BY <1>3, <1>5, AppendIndexed
  <2>2. \A i \in 1 .. k + 1 : i \in 1 .. k \/ i = k + 1 BY <1>1
  <2>3. \A i \in 1 .. k + 1 : Append(a, piece(x))[i] = piece(all[i]) BY <1>1, <1>4, <2>1, <2>2
  <2>4. Append(a, piece(x)) = [i \in DOMAIN Append(a, piece(x)) |-> Append(a, piece(x))[i]]
    <3> DEFINE s == Append(a, piece(x))
    <3> HIDE DEF s
    <3>1. s \in Seq(Seq(Tokens)) BY <2>1 DEF s
    <3>2. s = [i \in DOMAIN s |-> s[i]] BY <3>1, LenProperties
    <3> QED BY <3>2 DEF s
  <2> QED BY <1>4, <2>1, <2>3, <2>4
<1>7. Expanded(text, n) = FlattenSeq(a) /\ Expanded(all, n) = FlattenSeq(b) BY DEF Expanded, a, b
<1>8. FlattenSeq(b) = FlattenSeq(a) \o piece(x) /\ FlattenSeq(a) \in Seq(Tokens)
  BY <1>3, <1>5, <1>6, FlattenAppend, FlattenType
<1>9. Expanded(all, n) \in Seq(Tokens) BY <1>3, <1>7, <1>8, ConcatProperties
<1>10. Picked(Expanded(all, n), Placeholders)
         = Picked(Expanded(text, n), Placeholders) \o Picked(piece(x), Placeholders)
  BY <1>3, <1>7, <1>8, PickedConcat
<1> QED BY <1>1, <1>3, <1>9, <1>10 DEF all

\* The placeholders of the base texts.
LEMMA BasePlaceholders ==
  ASSUME NEW n \in Nat
  PROVE  /\ \A text \in {Plain, Where, Sorted} :
               Expanded(text, n) \in Seq(Tokens) /\ Picked(Expanded(text, n), Placeholders) = <<>>
         /\ \A text \in {Own, <<"SELECT", "WHERE", "?own", "ORDER BY">>,
                         <<"SELECT", "WHERE", "?own", "GROUP BY", "ORDER BY">>} :
               Expanded(text, n) \in Seq(Tokens) /\ Picked(Expanded(text, n), Placeholders) = <<"?own">>
         /\ \A text \in {<<"SELECT", "WHERE", "?manager">>} :
               Expanded(text, n) \in Seq(Tokens) /\ Picked(Expanded(text, n), Placeholders) = <<"?manager">>
         /\ \A text \in {<<"SELECT", "WHERE", SkillToken, "ORDER BY">>, <<"SELECT", "WHERE", SkillToken>>} :
               /\ Expanded(text, n) \in Seq(Tokens)
               /\ Picked(Expanded(text, n), Placeholders) = Copies("?skill", n)
<1> DEFINE Has(text, s) == /\ text \in Seq(Tokens) /\ Expanded(text, n) \in Seq(Tokens)
                           /\ Picked(Expanded(text, n), Placeholders) = s
<1>1. ASSUME NEW text, NEW s \in Seq(Tokens), Has(text, s), NEW x \in Tokens
      PROVE  /\ x = SkillToken => Has(Append(text, x), s \o Copies("?skill", n))
             /\ x # SkillToken /\ x \in Placeholders => Has(Append(text, x), s \o <<x>>)
             /\ x # SkillToken /\ x \notin Placeholders => Has(Append(text, x), s)
  <2>1. LET all == Append(text, x)
        IN  /\ all \in Seq(Tokens) /\ Expanded(all, n) \in Seq(Tokens)
             /\ Picked(Expanded(all, n), Placeholders) = Picked(Expanded(text, n), Placeholders) \o
                  (IF x = SkillToken THEN Copies("?skill", n) ELSE IF x \in Placeholders THEN <<x>> ELSE <<>>)
    BY <1>1, ExpandedAppend, Zenon
  <2>2. s \o <<>> = s BY ConcatEmptySeq
  <2> QED BY <1>1, <2>1, <2>2
<1>2. Has(<<>>, <<>>) BY ExpandedEmpty, PickedEmpty
<1> HIDE DEF Has
<1>0. \A a, b, c, d : Append(<<a, b, c>>, d) = <<a, b, c, d>> BY AppendTuple
<1>3. <<>> \in Seq(Tokens) /\ <<"?own">> \in Seq(Tokens) /\ <<"?manager">> \in Seq(Tokens)
      /\ Copies("?skill", n) \in Seq(Tokens)
  <2>1. "?own" \in Tokens /\ "?manager" \in Tokens /\ "?skill" \in Tokens BY DEF Tokens, Placeholders
  <2> QED BY <2>1, CopiesShape, EmptySeq
<1>4. \A x \in {"SELECT", "WHERE", "ORDER BY", "GROUP BY"} :
         x \in Tokens /\ x # SkillToken /\ x \notin Placeholders
  BY DEF Tokens, SkillToken, Placeholders
<1>5. \A x \in {"?own", "?manager"} : x \in Tokens /\ x # SkillToken /\ x \in Placeholders
  BY DEF Tokens, SkillToken, Placeholders
<1>6. SkillToken \in Tokens BY DEF Tokens
<1>7. Has(<<"SELECT">>, <<>>)
  <2>1. Append(<<>>, "SELECT") = <<"SELECT">> BY AppendTuple
  <2> QED BY <1>1, <1>2, <1>3, <1>4, <2>1
<1>8. Has(<<"SELECT", "WHERE">>, <<>>)
  <2>1. Append(<<"SELECT">>, "WHERE") = <<"SELECT", "WHERE">> BY AppendTuple
  <2> QED BY <1>1, <1>3, <1>4, <1>7, <2>1
<1>9. Has(<<"SELECT", "WHERE", "ORDER BY">>, <<>>)
  <2>1. Append(<<"SELECT", "WHERE">>, "ORDER BY") = <<"SELECT", "WHERE", "ORDER BY">> BY AppendTuple
  <2> QED BY <1>1, <1>3, <1>4, <1>8, <2>1
<1>10. Has(<<"SELECT", "WHERE", "?own">>, <<"?own">>)
  <2>1. Append(<<"SELECT", "WHERE">>, "?own") = <<"SELECT", "WHERE", "?own">>
        /\ <<>> \o <<"?own">> = <<"?own">>
    BY <1>3, ConcatEmptySeq, AppendTuple
  <2> QED BY <1>1, <1>3, <1>5, <1>8, <2>1
<1>11. Has(<<"SELECT", "WHERE", "?own", "ORDER BY">>, <<"?own">>)
  <2>1. Append(<<"SELECT", "WHERE", "?own">>, "ORDER BY") = <<"SELECT", "WHERE", "?own", "ORDER BY">>
    BY <1>0, Zenon
  <2> QED BY <1>1, <1>3, <1>4, <1>10, <2>1
<1>12. Has(<<"SELECT", "WHERE", "?own", "GROUP BY">>, <<"?own">>)
  <2>1. Append(<<"SELECT", "WHERE", "?own">>, "GROUP BY") = <<"SELECT", "WHERE", "?own", "GROUP BY">>
    BY <1>0, Zenon
  <2> QED BY <1>1, <1>3, <1>4, <1>10, <2>1
<1>13. Has(<<"SELECT", "WHERE", "?own", "GROUP BY", "ORDER BY">>, <<"?own">>)
  <2>1. Append(<<"SELECT", "WHERE", "?own", "GROUP BY">>, "ORDER BY")
          = <<"SELECT", "WHERE", "?own", "GROUP BY", "ORDER BY">>
    <3>1. \A a, b, c, d, e : Append(<<a, b, c, d>>, e) = <<a, b, c, d, e>> BY AppendTuple
    <3> QED BY <3>1, Zenon
  <2> QED BY <1>1, <1>3, <1>4, <1>12, <2>1
<1>14. Has(<<"SELECT", "WHERE", "?manager">>, <<"?manager">>)
  <2>1. Append(<<"SELECT", "WHERE">>, "?manager") = <<"SELECT", "WHERE", "?manager">>
        /\ <<>> \o <<"?manager">> = <<"?manager">>
    BY <1>3, ConcatEmptySeq, AppendTuple
  <2> QED BY <1>1, <1>3, <1>5, <1>8, <2>1
<1>15. Has(<<"SELECT", "WHERE", SkillToken>>, Copies("?skill", n))
  <2>1. Append(<<"SELECT", "WHERE">>, SkillToken) = <<"SELECT", "WHERE", SkillToken>> BY AppendTuple
  <2>2. <<>> \o Copies("?skill", n) = Copies("?skill", n) BY <1>3, ConcatEmptySeq
  <2> QED BY <1>1, <1>3, <1>6, <1>8, <2>1, <2>2
<1>16. Has(<<"SELECT", "WHERE", SkillToken, "ORDER BY">>, Copies("?skill", n))
  <2>1. Append(<<"SELECT", "WHERE", SkillToken>>, "ORDER BY") = <<"SELECT", "WHERE", SkillToken, "ORDER BY">>
    BY <1>0, Zenon
  <2> QED BY <1>1, <1>3, <1>4, <1>15, <2>1
<1> QED BY <1>7, <1>8, <1>9, <1>10, <1>11, <1>13, <1>14, <1>15, <1>16 DEF Has, Plain, Where, Sorted, Own

\* The texts of the catalog: user_self asks for the caller, reports_to for the
\* manager, and two more for skills.
LEMMA BaseText ==
  ASSUME NEW topic \in INTENT_CATALOG
  PROVE  LET text == BASE_QUERIES[topic[2]].text
         IN  /\ topic[1] = "user_self" =>
                  /\ text \in {Own, <<"SELECT", "WHERE", "?own", "ORDER BY">>,
                               <<"SELECT", "WHERE", "?own", "GROUP BY", "ORDER BY">>}
                  /\ topic[2] # "reports_to"
             /\ topic[2] = "reports_to" => text = <<"SELECT", "WHERE", "?manager">>
             /\ topic[1] # "user_self" /\ topic[2] # "reports_to" =>
                  text \in {Plain, Where, Sorted, <<"SELECT", "WHERE", SkillToken, "ORDER BY">>,
                            <<"SELECT", "WHERE", SkillToken>>}
<1> DEFINE text == BASE_QUERIES[topic[2]].text
<1>1. CASE topic[1] = "resource"
  <2>1. topic[2] \in {"active_resources", "benched_resources", "benched_by_skill",
                      "resource_by_skill", "resource_availability",
                      "resource_project_assignments", "resource_skills_list", "reports_to"}
    BY <1>1 DEF INTENT_CATALOG
  <2>2. /\ BASE_QUERIES["active_resources"].text = Sorted
        /\ BASE_QUERIES["benched_resources"].text = Sorted
        /\ BASE_QUERIES["benched_by_skill"].text = <<"SELECT", "WHERE", SkillToken, "ORDER BY">>
        /\ BASE_QUERIES["resource_by_skill"].text = <<"SELECT", "WHERE", SkillToken>>
    BY DEF BASE_QUERIES, Base
  <2>3. /\ BASE_QUERIES["resource_availability"].text = Where
        /\ BASE_QUERIES["resource_project_assignments"].text = Plain
        /\ BASE_QUERIES["resource_skills_list"].text = Where
        /\ BASE_QUERIES["reports_to"].text = <<"SELECT", "WHERE", "?manager">>
    BY DEF BASE_QUERIES, Base
  <2> QED BY <1>1, <2>1, <2>2, <2>3
<1>2. CASE topic[1] = "client"
  <2>1. topic[2] \in {"active_clients", "client_projects", "client_status"}
    BY <1>2 DEF INTENT_CATALOG
  <2>2. /\ BASE_QUERIES["active_clients"].text = Where
        /\ BASE_QUERIES["client_projects"].text = Plain
        /\ BASE_QUERIES["client_status"].text = Plain
    BY DEF BASE_QUERIES, Base
  <2> QED BY <1>2, <2>1, <2>2
<1>3. CASE topic[1] = "project"
  <2>1. topic[2] \in {"active_projects", "project_by_client", "project_budget",
                            "project_resources", "project_timeline", "project_status",
                            "overdue_projects"}
    BY <1>3 DEF INTENT_CATALOG
  <2>2. /\ BASE_QUERIES["active_projects"].text = Where
        /\ BASE_QUERIES["project_by_client"].text = Plain
        /\ BASE_QUERIES["project_budget"].text = Plain
        /\ BASE_QUERIES["project_resources"].text = Where
    BY DEF BASE_QUERIES, Base
  <2>3. /\ BASE_QUERIES["project_timeline"].text = Plain
        /\ BASE_QUERIES["project_status"].text = Plain
        /\ BASE_QUERIES["overdue_projects"].text = Where
    BY DEF BASE_QUERIES, Base
  <2> QED BY <1>3, <2>1, <2>2, <2>3
<1>4. CASE topic[1] = "timesheet"
  <2>1. topic[2] \in {"approved_timesheets", "timesheet_by_period",
                              "unapproved_timesheets", "timesheet_by_project"}
    BY <1>4 DEF INTENT_CATALOG
  <2>2. /\ BASE_QUERIES["approved_timesheets"].text = Sorted
        /\ BASE_QUERIES["timesheet_by_period"].text = Where
        /\ BASE_QUERIES["unapproved_timesheets"].text = Sorted
        /\ BASE_QUERIES["timesheet_by_project"].text = Sorted
    BY DEF BASE_QUERIES, Base
  <2> QED BY <1>4, <2>1, <2>2
<1>5. CASE topic[1] = "user_self"
  <2>1. topic[2] \in {"my_projects", "my_allocation", "my_timesheets", "my_skills", "my_utilization"}
    BY <1>5 DEF INTENT_CATALOG, OwnIntents
  <2>2. /\ BASE_QUERIES["my_projects"].text = Own
        /\ BASE_QUERIES["my_allocation"].text = Own
        /\ BASE_QUERIES["my_skills"].text = Own
    BY DEF BASE_QUERIES, Base
  <2>3. /\ BASE_QUERIES["my_timesheets"].text = <<"SELECT", "WHERE", "?own", "ORDER BY">>
        /\ BASE_QUERIES["my_utilization"].text = <<"SELECT", "WHERE", "?own", "GROUP BY", "ORDER BY">>
    BY DEF BASE_QUERIES, Base
  <2> QED BY <1>5, <2>1, <2>2, <2>3
<1> QED BY <1>1, <1>2, <1>3, <1>4, <1>5, CatalogTopic

\* The elements of short tuples.
LEMMA TupleRange ==
  /\ \A a : Range(<<a>>) = {a}
  /\ \A a, b : Range(<<a, b>>) = {a, b}
  /\ \A a, b, c : Range(<<a, b, c>>) = {a, b, c}
<1>1. ASSUME NEW a PROVE Range(<<a>>) = {a} BY DEF Range
<1>2. ASSUME NEW a, NEW b PROVE Range(<<a, b>>) = {a, b}
  <2>1. DOMAIN <<a, b>> = {1, 2} OBVIOUS
  <2> DEFINE s == <<a, b>>
  <2>2. s[1] = a /\ s[2] = b OBVIOUS
  <2> HIDE DEF s
  <2>3. Range(s) = {s[i] : i \in {1, 2}} BY <2>1 DEF Range, s
  <2> QED BY <2>2, <2>3 DEF s
<1>3. ASSUME NEW a, NEW b, NEW c PROVE Range(<<a, b, c>>) = {a, b, c}
  <2>1. DOMAIN <<a, b, c>> = {1, 2, 3} OBVIOUS
  <2> DEFINE s == <<a, b, c>>
  <2>2. s[1] = a /\ s[2] = b /\ s[3] = c OBVIOUS
  <2> HIDE DEF s
  <2>3. Range(s) = {s[i] : i \in {1, 2, 3}} BY <2>1 DEF Range, s
  <2> QED BY <2>2, <2>3 DEF s
<1> QED BY <1>1, <1>2, <1>3

\* Only two of the texts have the token.
LEMMA NoSkillToken ==
  \A s \in {Plain, Where, Sorted, <<"SELECT", "WHERE", "?manager">>} : SkillToken \notin Range(s)
<1>1. ASSUME NEW a, NEW b, NEW c, NEW d, a = "SELECT", b = "WHERE", c = "ORDER BY", d = "?manager"
      PROVE  \A s \in {Plain, Where, Sorted, <<a, b, d>>} : SkillToken \notin Range(s)
  <2>1. Plain = <<a>> /\ Where = <<a, b>> /\ Sorted = <<a, b, c>> BY <1>1 DEF Plain, Where, Sorted
  <2>2. SkillToken \notin {a, b, c, d} BY <1>1 DEF SkillToken
  <2>3. /\ Range(<<a>>) = {a} /\ Range(<<a, b>>) = {a, b} /\ Range(<<a, b, c>>) = {a, b, c}
        /\ Range(<<a, b, d>>) = {a, b, d}
    BY TupleRange
  <2> QED BY <2>1, <2>2, <2>3
<1> QED BY <1>1

\* The base text of a plan asks for the parameters bound before those of the
\* filters.
LEMMA LeadingPlaceholders ==
  ASSUME NEW topic \in INTENT_CATALOG, NEW plan, SameTopic(plan, topic)
  PROVE  /\ ExpandedText(plan) \in Seq(Tokens)
         /\ Picked(ExpandedText(plan), Placeholders) =
              IF plan.domain = "user_self" THEN <<"?own">>
              ELSE Copies("?manager", Len(ReportsToParams(plan))) \o Copies("?skill", Len(SkillParams(plan)))
<1> DEFINE text == BASE_QUERIES[plan.intent].text
           n == Len(SkillParams(plan))
           m == Len(ReportsToParams(plan))
<1>1. n \in Nat /\ DOMAIN SkillParams(plan) = 1 .. n /\ m \in Nat
  BY LeadingType, LenProperties
<1>2. ExpandedText(plan) = Expanded(text, n)
  BY <1>1 DEF ExpandedText, Expanded, Pieces, Copies
<1>3. /\ topic[1] = "user_self" =>
           /\ text \in {Own, <<"SELECT", "WHERE", "?own", "ORDER BY">>,
                        <<"SELECT", "WHERE", "?own", "GROUP BY", "ORDER BY">>}
           /\ topic[2] # "reports_to"
      /\ topic[2] = "reports_to" => text = <<"SELECT", "WHERE", "?manager">>
      /\ topic[1] # "user_self" /\ topic[2] # "reports_to" =>
           text \in {Plain, Where, Sorted, <<"SELECT", "WHERE", SkillToken, "ORDER BY">>,
                     <<"SELECT", "WHERE", SkillToken>>}
  BY BaseText DEF SameTopic
<1>4. plan.domain = topic[1] /\ plan.intent = topic[2] BY DEF SameTopic
<1>5. m = IF plan.intent = "reports_to" THEN 1 ELSE 0
  <2>1. \A v : Len(<<v>>) = 1 /\ Len(<<>>) = 0 OBVIOUS
  <2> DEFINE r == ReportsToParams(plan)
             v == Keep(plan.filters, LAMBDA fc : fc.field = "resource_name")[1].values[1]
  <2>2. IF plan.intent # "reports_to" THEN r = <<>> ELSE r = <<v>> \/ r = <<"%">>
    BY DEF ReportsToParams
  <2> HIDE DEF r, v
  <2>3. Len(r) = IF plan.intent = "reports_to" THEN 1 ELSE 0 BY <2>1, <2>2
  <2> QED BY <2>3 DEF r
<1>6. SkillToken \notin Range(text) => n = 0
  <2>1. SkillToken \notin Range(text) => SkillParams(plan) = <<>> BY DEF SkillParams
  <2> QED BY <2>1
<1> DEFINE e == ExpandedText(plan)
           p == Picked(e, Placeholders)
           q == Copies("?skill", n)
           r == Copies("?manager", m)
<1> SUFFICES e \in Seq(Tokens) /\ p = IF plan.domain = "user_self" THEN <<"?own">> ELSE r \o q
  OBVIOUS
<1>7. /\ r \in Seq(Tokens) /\ q \in Seq(Tokens) /\ Copies("?skill", 0) = <<>>
      /\ Copies("?manager", 0) = <<>> /\ Copies("?manager", 1) = <<"?manager">>
  <2>1. "?manager" \in Tokens /\ "?skill" \in Tokens BY DEF Tokens, Placeholders
  <2> QED BY <1>1, <2>1, CopiesShape
<1>8. e = Expanded(text, n) BY <1>2
<1>9. p = Picked(Expanded(text, n), Placeholders) BY <1>8
<1> HIDE DEF text, n, m, e, p
<1>10. CASE topic[1] = "user_self" BY <1>1, <1>3, <1>4, <1>8, <1>9, <1>10, BasePlaceholders
<1>11. CASE topic[2] = "reports_to"
  <2>1. text = <<"SELECT", "WHERE", "?manager">> /\ topic[1] # "user_self" BY <1>3, <1>11
  <2>2. e \in Seq(Tokens) /\ p = <<"?manager">> BY <1>1, <1>8, <1>9, <2>1, BasePlaceholders
  <2>3. n = 0
    <3>1. SkillToken \notin Range(text) BY <2>1, NoSkillToken
    <3> QED BY <1>6, <3>1
  <2>4. r = <<"?manager">> /\ q = <<>> BY <1>4, <1>5, <1>7, <1>11, <2>3
  <2> HIDE DEF r, q
  <2>5. r \o q = r BY <1>7, <2>4, ConcatEmptySeq
  <2> QED BY <1>4, <2>1, <2>2, <2>4, <2>5
<1>12. CASE topic[1] # "user_self" /\ topic[2] # "reports_to"
  <2>1. r = <<>> BY <1>4, <1>5, <1>7, <1>12
  <2>2. r \o q = q BY <1>7, <2>1, ConcatEmptySeq
  <2>3. CASE text \in {Plain, Where, Sorted}
    <3>1. e \in Seq(Tokens) /\ p = <<>> BY <1>1, <1>8, <1>9, <2>3, BasePlaceholders
    <3>2. n = 0
      <4>1. SkillToken \notin Range(text) BY <2>3, NoSkillToken
      <4> QED BY <1>6, <4>1
    <3>3. q = <<>> BY <1>7, <3>2
    <3> HIDE DEF r, q
    <3> QED BY <1>4, <1>12, <2>2, <3>1, <3>3
  <2>4. CASE text \in {<<"SELECT", "WHERE", SkillToken, "ORDER BY">>, <<"SELECT", "WHERE", SkillToken>>}
    <3>1. e \in Seq(Tokens) /\ p = q BY <1>1, <1>8, <1>9, <2>4, BasePlaceholders
    <3> HIDE DEF r, q
    <3> QED BY <1>4, <1>12, <2>2, <3>1
  <2> QED BY <1>3, <1>12, <2>3, <2>4
<1> QED BY <1>10, <1>11, <1>12

\* A statement of the catalog has a parameter for each placeholder, in order.
LEMMA CompiledAligned ==
  ASSUME NEW topic \in INTENT_CATALOG, NEW plan, SameTopic(plan, topic),
         plan.filters \in Seq(ValidClauses), NEW rid
  PROVE  Aligned(compile_query(plan, rid))
<1> DEFINE st == compile_query(plan, rid)
           text == ExpandedText(plan)
           tail == Trailing(plan.domain, text, Conditions(plan))
           F == Bound("?filter", FilterValues(plan))
           O == Bound("?own", <<rid>>)
           M == Bound("?manager", ReportsToParams(plan))
           K == Bound("?skill", SkillParams(plan))
<1>1. st.params = IF plan.domain = "user_self" THEN O \o F ELSE M \o K \o F
  BY DEF compile_query, FilterValues, Conditions
<1>2. st.text = text \o tail
  BY DEF compile_query, Conditions, Appended, Trailing
<1>3. Keep(st.text, LAMBDA token : token \in Placeholders) = Picked(st.text, Placeholders)
  BY DEF Keep, Picked, Parts
<1>4. PICK A : FilterValues(plan) \in Seq(A) BY FilterValuesType
<1>5. PICK B : SkillParams(plan) \in Seq(B) BY LeadingType
<1>6. PICK C : ReportsToParams(plan) \in Seq(C) BY LeadingType
<1> DEFINE f == Copies("?filter", Len(FilterValues(plan)))
           k == Copies("?skill", Len(SkillParams(plan)))
           m == Copies("?manager", Len(ReportsToParams(plan)))
<1>7. Uses(F) = f /\ Uses(K) = k /\ Uses(M) = m BY <1>4, <1>5, <1>6, UsesBound
<1>8. Uses(O) = <<"?own">>
  <2>1. <<rid>> \in Seq({rid}) /\ Len(<<rid>>) = 1 OBVIOUS
  <2>2. Uses(O) = Copies("?own", 1) BY <2>1, UsesBound
  <2> QED BY <2>2, CopiesShape
<1>9. \E S : F \in Seq(S) /\ K \in Seq(S) /\ M \in Seq(S) /\ O \in Seq(S)
  <2> DEFINE a == [use : {"?filter"}, value : A]
             b == [use : {"?skill"}, value : B]
             c == [use : {"?manager"}, value : C]
             d == [use : {"?own"}, value : {rid}]
             S == a \union b \union c \union d
  <2>1. F \in Seq(a) /\ K \in Seq(b) /\ M \in Seq(c) BY <1>4, <1>5, <1>6, BoundType
  <2>2. O \in Seq(d)
    <3>1. <<rid>> \in Seq({rid}) OBVIOUS
    <3> QED BY <3>1, BoundType
  <2> HIDE DEF a, b, c, d, F, K, M, O
  <2>3. a \subseteq S /\ b \subseteq S /\ c \subseteq S /\ d \subseteq S OBVIOUS
  <2> HIDE DEF S
  <2> QED BY <2>1, <2>2, <2>3, SeqMonotone
<1> HIDE DEF F, K, M, O, f, k, m, text, tail
<1>10. PICK S : F \in Seq(S) /\ K \in Seq(S) /\ M \in Seq(S) /\ O \in Seq(S) BY <1>9
<1>11. Uses(st.params) = IF plan.domain = "user_self" THEN <<"?own">> \o f ELSE m \o k \o f
  <2>1. Uses(O \o F) = Uses(O) \o Uses(F) BY <1>10, UsesConcat
  <2>2. M \o K \in Seq(S) BY <1>10, ConcatProperties
  <2>3. Uses(M \o K \o F) = Uses(M \o K) \o Uses(F) BY <1>10, <2>2, UsesConcat
  <2>4. Uses(M \o K) = Uses(M) \o Uses(K) BY <1>10, UsesConcat
  <2> HIDE DEF st
  <2> QED BY <1>1, <1>7, <1>8, <2>1, <2>3, <2>4
<1>12. text \in Seq(Tokens) /\ Picked(text, Placeholders) = IF plan.domain = "user_self" THEN <<"?own">> ELSE m \o k
  BY LeadingPlaceholders DEF text, m, k
<1>13. tail \in Seq(Tokens) /\ Picked(tail, Placeholders) = f BY TrailingPlaceholders DEF tail, f
<1>14. Picked(text \o tail, Placeholders) = Picked(text, Placeholders) \o Picked(tail, Placeholders)
  BY <1>12, <1>13, PickedConcat
<1>15. Picked(st.text, Placeholders) = Uses(st.params)
  <2> HIDE DEF st
  <2> QED BY <1>2, <1>11, <1>12, <1>13, <1>14
<1> HIDE DEF st
<1>16. Aligned(st) BY <1>3, <1>15 DEF Aligned, Uses
<1> QED BY <1>16 DEF st

\* Every placeholder of a compiled statement gets a parameter that was meant
\* for it, for any topic and any filters (compile_query).
THEOREM ParamsAlignedAlways == Spec => []ParamsAligned
<1>1. ASSUME IInv, Origin PROVE ParamsAligned
  <2>1. SUFFICES ASSUME t.plan # NoPlan, t.topic \in Topics
                 PROVE  Aligned(compile_query(t.plan, caller.rid))
    BY DEF ParamsAligned
  <2>2. t.topic \in INTENT_CATALOG BY <2>1, PlanTurnsAssumption
  <2>3. SameTopic(t.plan, t.topic) BY <1>1, <2>1 DEF IInv, TypeOK
  <2>4. t.plan.filters \in Seq(ValidClauses) BY <1>1 DEF Origin, Plans
  <2> QED BY <2>2, <2>3, <2>4, CompiledAligned
<1> QED BY <1>1, OriginInvariant, PTL

-----------------------------------------------------------------------------
(* The rows of the caller                                                  *)

\* The conditions of a user_self statement are joined by AND.
LEMMA TrailingJoined ==
  ASSUME NEW plan, plan.filters \in Seq(ValidClauses), NEW text
  PROVE  Trailing("user_self", text, Conditions(plan)) \in Seq(Tokens \ {"WHERE"})
<1> DEFINE n == Len(Applied(plan))
           cs == Conditions(plan)
           texts == [i \in DOMAIN cs |-> <<"AND">> \o FragmentText(cs[i])]
           S == Tokens \ {"WHERE"}
<1>1. n \in Nat /\ DOMAIN cs = 1 .. n
      /\ \A i \in 1 .. n : Applied(plan)[i] \in ValidClauses /\ cs[i] = build_filter_clause(Applied(plan)[i])
  BY ConditionsType
<1>2. Trailing("user_self", text, cs) = FlattenSeq(texts) BY DEF Trailing
<1> HIDE DEF cs, n
<1>3. "AND" \in S /\ "?filter" \in S /\ Kinds \subseteq S
  <2>1. "WHERE" \notin Kinds BY DEF Kinds, Operators
  <2> QED BY <2>1 DEF Tokens, Placeholders
<1>4. ASSUME NEW i \in 1 .. n PROVE texts[i] \in Seq(S)
  <2> DEFINE c == cs[i]
             x == "?filter"
             rest == [k \in 1 .. Len(c.params) |-> x]
  <2>1. c.kind \in Kinds /\ IsSeq(c.params) BY <1>1, ConditionShape
  <2>2. Len(c.params) \in Nat BY <2>1, LenProperties DEF IsSeq
  <2>3. FragmentText(c) = <<c.kind>> \/ FragmentText(c) = <<c.kind>> \o rest BY DEF FragmentText
  <2>4. texts[i] = <<"AND">> \o FragmentText(c) BY <1>1
  <2> HIDE DEF texts, c, S
  <2>5. rest \in Seq(S) BY <1>3, <2>2
  <2> HIDE DEF x, rest
  <2>6. <<c.kind>> \in Seq(S) /\ <<"AND">> \in Seq(S) BY <1>3, <2>1
  <2>7. FragmentText(c) \in Seq(S) BY <2>3, <2>5, <2>6, ConcatProperties
  <2> QED BY <2>4, <2>6, <2>7, ConcatProperties
<1>5. texts \in Seq(Seq(S))
  <2>1. texts = [i \in 1 .. n |-> texts[i]] BY <1>1
  <2> DEFINE X == Seq(S)
  <2> HIDE DEF texts, X
  <2>2. \A i \in 1 .. n : texts[i] \in X BY <1>4 DEF X
  <2>3. texts \in Seq(X) BY <1>1, <2>1, <2>2
  <2> QED BY <2>3 DEF X
<1> HIDE DEF texts, S
<1>6. FlattenSeq(texts) \in Seq(S) BY <1>5, FlattenType
<1> QED BY <1>2, <1>6 DEF S, cs

\* A text without the token is expanded to itself.
LEMMA ExpandedPlain ==
  ASSUME NEW plan, NEW S, BASE_QUERIES[plan.intent].text \in Seq(S),
         SkillToken \notin Range(BASE_QUERIES[plan.intent].text)
  PROVE  ExpandedText(plan) = BASE_QUERIES[plan.intent].text
<1> DEFINE text == BASE_QUERIES[plan.intent].text
           T == Range(text)
           pieces == [i \in DOMAIN text |->
                        IF text[i] = SkillToken THEN [j \in DOMAIN SkillParams(plan) |-> "?skill"]
                        ELSE <<text[i]>>]
<1>1. ExpandedText(plan) = FlattenSeq(pieces) BY DEF ExpandedText
<1>2. \A i \in DOMAIN text : text[i] \in T BY DEF Range
<1>3. text \in Seq(S) /\ SkillToken \notin T OBVIOUS
<1> HIDE DEF text, T
<1>4. pieces = Parts(text, T) BY <1>2, <1>3 DEF Parts
<1>5. Picked(text, T) = text BY <1>3, PickedAll DEF T
<1> QED BY <1>1, <1>4, <1>5 DEF Picked, text

\* The texts of user_self begin alike.
LEMMA OwnText ==
  ASSUME NEW topic \in INTENT_CATALOG, topic[1] = "user_self"
  PROVE  LET text == BASE_QUERIES[topic[2]].text
         IN  /\ text \in Seq({"SELECT", "WHERE", "?own", "ORDER BY", "GROUP BY"})
             /\ Len(text) \in {3, 4, 5}
             /\ text[1] = "SELECT" /\ text[2] = "WHERE" /\ text[3] = "?own"
             /\ \A i \in 4 .. Len(text) : text[i] # "WHERE"
<1> DEFINE text == BASE_QUERIES[topic[2]].text
<1>1. text \in {Own, <<"SELECT", "WHERE", "?own", "ORDER BY">>,
                <<"SELECT", "WHERE", "?own", "GROUP BY", "ORDER BY">>}
  BY BaseText
<1>2. ASSUME NEW a, NEW b, NEW c, NEW d, NEW e, a = "SELECT", b = "WHERE", c = "?own",
             d = "ORDER BY", e = "GROUP BY"
      PROVE  /\ text \in Seq({a, b, c, d, e}) /\ Len(text) \in {3, 4, 5}
             /\ text[1] = a /\ text[2] = b /\ text[3] = c
             /\ \A i \in 4 .. Len(text) : text[i] # b
  <2> DEFINE S == {a, b, c, d, e}
  <2>1. text \in {<<a, b, c>>, <<a, b, c, d>>, <<a, b, c, e, d>>} BY <1>1, <1>2 DEF Own
  <2>2. b # d /\ b # e BY <1>2
  <2> HIDE DEF text
  <2>3. CASE text = <<a, b, c>> BY <2>3
  <2>4. CASE text = <<a, b, c, d>>
    <3>1. /\ text \in Seq(S) /\ Len(text) = 4
          /\ text[1] = a /\ text[2] = b /\ text[3] = c /\ text[4] = d
      BY <2>4
    <3>2. \A i \in 4 .. 4 : i = 4 OBVIOUS
    <3> QED BY <2>2, <3>1, <3>2
  <2>5. CASE text = <<a, b, c, e, d>>
    <3>1. /\ text \in Seq(S) /\ Len(text) = 5
          /\ text[1] = a /\ text[2] = b /\ text[3] = c /\ text[4] = e /\ text[5] = d
      BY <2>5
    <3>2. \A i \in 4 .. 5 : i = 4 \/ i = 5 OBVIOUS
    <3> QED BY <2>2, <3>1, <3>2
  <2> QED BY <2>1, <2>3, <2>4, <2>5
<1> QED BY <1>2

\* A statement of user_self compares with the caller's id, in its only WHERE.
LEMMA OwnStatement ==
  ASSUME NEW topic \in INTENT_CATALOG, topic[1] = "user_self", NEW plan, SameTopic(plan, topic),
         plan.filters \in Seq(ValidClauses), NEW rid
  PROVE  LET st == compile_query(plan, rid)
         IN  /\ 3 \in 2 .. Len(st.text)
             /\ {q \in DOMAIN st.text : st.text[q] = "WHERE"} = {3 - 1}
             /\ st.text[3] = "?own"
             /\ BoundAt(st, 3) = [use |-> "?own", value |-> rid]
<1> DEFINE st == compile_query(plan, rid)
           base == BASE_QUERIES[topic[2]].text
           text == ExpandedText(plan)
           tail == Trailing(plan.domain, text, Conditions(plan))
           O == Bound("?own", <<rid>>)
           F == Bound("?filter", FilterValues(plan))
           Words == {"SELECT", "WHERE", "?own", "ORDER BY", "GROUP BY"}
<1>1. plan.domain = "user_self" /\ plan.intent = topic[2] BY DEF SameTopic
<1>2. st.text = text \o tail BY DEF compile_query, Conditions, Appended, Trailing
<1>3. st.params = O \o F BY <1>1 DEF compile_query, FilterValues, Conditions
<1>4. /\ base \in Seq(Words) /\ Len(base) \in {3, 4, 5}
      /\ base[1] = "SELECT" /\ base[2] = "WHERE" /\ base[3] = "?own"
      /\ \A i \in 4 .. Len(base) : base[i] # "WHERE"
  BY OwnText
<1>5. text = base
  <2>1. SkillToken \notin Words BY DEF SkillToken
  <2>2. Range(base) \subseteq Words BY <1>4, TypedIsSeq
  <2> HIDE DEF base, Words
  <2>3. SkillToken \notin Range(base) BY <2>1, <2>2
  <2> QED BY <1>1, <1>4, <2>3, ExpandedPlain DEF base
<1>6. tail \in Seq(Tokens \ {"WHERE"}) BY <1>1, TrailingJoined
<1>7. O[1] = [use |-> "?own", value |-> rid] /\ Len(O) = 1 /\ O \in Seq([use : {"?own"}, value : {rid}])
  <2>1. <<rid>> \in Seq({rid}) /\ Len(<<rid>>) = 1 OBVIOUS
  <2>2. O \in Seq([use : {"?own"}, value : {rid}]) /\ Len(O) = 1 BY <2>1, BoundType
  <2>3. O = [i \in 1 .. 1 |-> [use |-> "?own", value |-> <<rid>>[i]]] BY DEF Bound
  <2> QED BY <2>2, <2>3
<1>8. \E S : O \in Seq(S) /\ F \in Seq(S)
  <2>1. PICK A : FilterValues(plan) \in Seq(A) BY FilterValuesType
  <2> DEFINE a == [use : {"?filter"}, value : A]
             b == [use : {"?own"}, value : {rid}]
             S == a \union b
  <2>2. F \in Seq(a) BY <2>1, BoundType
  <2> HIDE DEF a, F, O
  <2>3. O \in Seq(b) BY <1>7
  <2> HIDE DEF b
  <2>4. a \subseteq S /\ b \subseteq S OBVIOUS
  <2> HIDE DEF S
  <2> QED BY <2>2, <2>3, <2>4, SeqMonotone
<1> HIDE DEF base, text, tail, O, F
<1>9. st.params[1] = [use |-> "?own", value |-> rid]
  <2>1. PICK S : O \in Seq(S) /\ F \in Seq(S) BY <1>8
  <2>2. (O \o F)[1] = O[1] BY <1>7, <2>1, ConcatProperties, LenProperties
  <2> HIDE DEF st
  <2> QED BY <1>3, <1>7, <2>2
<1> HIDE DEF st
<1>10. \E S : base \in Seq(S) /\ tail \in Seq(S)
  <2> DEFINE U == Tokens \ {"WHERE"}
             S == Words \union U
  <2>1. Words \subseteq S /\ U \subseteq S OBVIOUS
  <2>2. tail \in Seq(U) BY <1>6
  <2> HIDE DEF S, U, Words
  <2>3. base \in Seq(S) BY <1>4, <2>1, SeqMonotone
  <2>4. tail \in Seq(S) BY <2>1, <2>2, SeqMonotone
  <2> QED BY <2>3, <2>4
<1> DEFINE k == Len(base)
           l == Len(tail)
<1>11. /\ DOMAIN st.text = 1 .. k + l /\ Len(st.text) = k + l /\ k \in {3, 4, 5} /\ l \in Nat
       /\ \A i \in 1 .. k : st.text[i] = base[i]
       /\ \A i \in k + 1 .. k + l : st.text[i] # "WHERE"
  <2>1. PICK S : base \in Seq(S) /\ tail \in Seq(S) BY <1>10
  <2>2. /\ base \o tail \in Seq(S) /\ Len(base \o tail) = k + l
        /\ \A i \in 1 .. k + l : (base \o tail)[i] = IF i <= k THEN base[i] ELSE tail[i - k]
    BY <2>1, ConcatProperties
  <2>3. k \in {3, 4, 5} /\ l \in Nat /\ DOMAIN (base \o tail) = 1 .. k + l
    BY <1>4, <2>1, <2>2, LenProperties
  <2>4. \A i \in 1 .. l : tail[i] # "WHERE"
    <3>1. \A i \in 1 .. l : tail[i] \in Tokens \ {"WHERE"} BY <1>6, ElementOfSeq
    <3> QED BY <3>1
  <2>5. st.text = base \o tail BY <1>2, <1>5
  <2> HIDE DEF k, l
  <2>6. \A i \in k + 1 .. k + l : i \in 1 .. k + l /\ ~(i <= k) /\ i - k \in 1 .. l BY <2>3
  <2>7. \A i \in 1 .. k : i \in 1 .. k + l /\ i <= k BY <2>3
  <2> QED BY <2>2, <2>3, <2>4, <2>5, <2>6, <2>7
<1> HIDE DEF k, l
<1>12. st.text[1] = "SELECT" /\ st.text[2] = "WHERE" /\ st.text[3] = "?own"
  <2>1. 1 \in 1 .. k /\ 2 \in 1 .. k /\ 3 \in 1 .. k BY <1>11
  <2>2. st.text[1] = base[1] /\ st.text[2] = base[2] /\ st.text[3] = base[3] BY <1>11, <2>1
  <2> QED BY <1>4, <2>2
<1>13. {q \in DOMAIN st.text : st.text[q] = "WHERE"} = {2}
  <2>1. ASSUME NEW q \in 1 .. k + l, q # 2 PROVE st.text[q] # "WHERE"
    <3>1. CASE q > k
      <4>1. q \in k + 1 .. k + l BY <1>11, <3>1
      <4> QED BY <1>11, <4>1
    <3>2. CASE q \in {1, 3} BY <1>12, <3>2
    <3>3. CASE q \in 4 .. k
      <4>1. q \in 1 .. k /\ st.text[q] = base[q] BY <1>11, <3>3
      <4>2. base[q] # "WHERE" BY <1>4, <3>3 DEF k
      <4> QED BY <4>1, <4>2
    <3>4. q > k \/ q \in {1, 3} \/ q \in 4 .. k BY <1>11, <2>1
    <3> QED BY <3>1, <3>2, <3>3, <3>4
  <2>2. 2 \in 1 .. k + l BY <1>11
  <2> QED BY <1>11, <1>12, <2>1, <2>2
<1>14. Cardinality({i \in 1 .. 3 : st.text[i] \in Placeholders}) = 1
  <2>1. \A i \in 1 .. 3 : i = 1 \/ i = 2 \/ i = 3 OBVIOUS
  <2>2. "SELECT" \notin Placeholders /\ "WHERE" \notin Placeholders /\ "?own" \in Placeholders
    BY DEF Placeholders
  <2>3. {i \in 1 .. 3 : st.text[i] \in Placeholders} = {3} BY <1>12, <2>1, <2>2
  <2>4. Cardinality({3}) = 1 BY FS_Singleton
  <2> QED BY <2>3, <2>4
<1>15. BoundAt(st, 3) = [use |-> "?own", value |-> rid] BY <1>9, <1>14 DEF BoundAt
<1>16. 3 \in 2 .. Len(st.text) /\ 3 - 1 = 2 BY <1>11
<1> QED BY <1>12, <1>13, <1>15, <1>16 DEF st

\* What is executed for a user of the default or the hybrid graph compares,
\* in its only WHERE, with a placeholder that his own resource_id lands in,
\* whatever the topics and the filters (Allowed, BASE_QUERIES, compile_query).
THEOREM OwnRowsOnlyAlways == Spec => []OwnRowsOnly
<1>1. ASSUME IInv, Origin PROVE OwnRowsOnly
  <2>1. SUFFICES ASSUME entry # "groq", caller.role = "user", NEW st \in Range(t.sql)
                 PROVE  /\ caller.rid # NoResource
                        /\ \E p \in 2 .. Len(st.text) :
                              /\ {q \in DOMAIN st.text : st.text[q] = "WHERE"} = {p - 1}
                              /\ st.text[p] = "?own"
                              /\ BoundAt(st, p) = [use |-> "?own", value |-> caller.rid]
    BY DEF OwnRowsOnly
  <2>2. t.sql # <<>>
    <3>1. Range(<<>>) = {} BY DEF Range
    <3> QED BY <2>1, <3>1
  <2>3. /\ t.plan.filters \in Seq(ValidClauses)
        /\ CompileFailure(t.plan, caller.rid) = "none"
        /\ t.sql = <<compile_query(t.plan, caller.rid)>>
    BY <1>1, <2>2 DEF Origin, Plans
  <2>4. st = compile_query(t.plan, caller.rid)
    <3> DEFINE x == compile_query(t.plan, caller.rid)
    <3> HIDE DEF x
    <3>1. Range(<<x>>) = {x} BY TupleRange
    <3> QED BY <2>1, <2>3, <3>1 DEF x
  <2>5. t.plan # NoPlan BY <1>1, <2>2 DEF IInv, TypeOK
  <2>6. SameTopic(t.plan, t.topic) BY <1>1, <2>5 DEF IInv, TypeOK
  <2>7. t.topic \in INTENT_CATALOG
    BY <1>1, <2>1, <2>5, PlanTurnsAssumption DEF IInv, Gate, Origin, Nodes
  <2>8. t.topic[1] = "user_self" BY <1>1, <2>1, <2>5 DEF IInv, Gate, Allowed
  <2>9. caller.rid # NoResource BY <2>3, <2>6, <2>8 DEF CompileFailure, SameTopic
  <2>10. /\ 3 \in 2 .. Len(st.text)
         /\ {q \in DOMAIN st.text : st.text[q] = "WHERE"} = {3 - 1}
         /\ st.text[3] = "?own"
         /\ BoundAt(st, 3) = [use |-> "?own", value |-> caller.rid]
    BY <2>3, <2>4, <2>6, <2>7, <2>8, OwnStatement, SMTT(30)
  <2> QED BY <2>9, <2>10
<1> QED BY <1>1, OriginInvariant, PTL
=============================================================================
