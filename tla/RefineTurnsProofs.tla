-------------------------- MODULE RefineTurnsProofs --------------------------
(***************************************************************************)
(* What a refinement wraps and what it falls back to, for any topics,      *)
(* parameters and number of turns, and whatever the registry of templates  *)
(* holds: the proof looks into no template.                                *)
(***************************************************************************)
EXTENDS RefineTurns, TLAPS

\* t and ctx are records of these fields.
Shape ==
    /\ t = [pc |-> t.pc, topic |-> t.topic, found |-> t.found, params |-> t.params,
            prior |-> t.prior, queue |-> t.queue, failed |-> t.failed, sql |-> t.sql]
    /\ ctx = [topic |-> ctx.topic, params |-> ctx.params, sql |-> ctx.sql]

\* The empty SQL, or one statement.
OneAtMost(sql) == sql = <<>> \/ sql = <<sql[1]>>

\* A statement that wraps no other, of this topic or of the language model.
Unrefined(st, topic) == st.layers = 0 /\ st.intent \in {topic[2], "generated"}

\* The prior SQL and what is stored as such.
Stored ==
    /\ OneAtMost(t.prior) /\ OneAtMost(t.sql) /\ OneAtMost(ctx.sql)
    /\ t.prior # <<>> => Unrefined(t.prior[1], t.topic)
    /\ ctx.sql # <<>> => Unrefined(ctx.sql[1], ctx.topic)
    /\ t.prior = <<>> /\ t.sql # <<>> => Unrefined(t.sql[1], t.topic)

\* The templates of an override, and the statements a turn may try.
OverrideTemplates ==
    {BySkill("EMPID", 3), On("name", "Name", "resource_name"),
     On("status", "Designation", "designation"), On("status", "TechCategoryName", "tech_category")}

Refinements(topic, params, prior) ==
    {Wrap(prior, tm) : tm \in find_matching_template(AgentDomain(topic[1]), topic[2], params)
                              \union OverrideTemplates}

Usable(topic, params, prior) ==
    {Base(topic)} \union (IF prior = <<>> THEN {} ELSE Refinements(topic, params, prior[1]))

\* The base intent comes last.
Queue ==
    /\ t.queue \in Seq(Usable(t.topic, t.params, t.prior))
    /\ t.queue # <<>> => t.queue[Len(t.queue)] = Base(t.topic)
    /\ t.pc \in {"extract", "tool"} => t.sql = <<>>

Planned == planned => t.prior = <<>> /\ ctx.sql = <<>>

IInv == Shape /\ TypeOK /\ Stored /\ Queue /\ Planned /\ BaseIsLastResort

-----------------------------------------------------------------------------
LEMMA Appended ==
    ASSUME NEW S, NEW a \in Seq(S), NEW b \in S
    PROVE  LET q == a \o <<b>>
           IN  q \in Seq(S) /\ q # <<>> /\ q[Len(q)] = b
  OBVIOUS

LEMMA BaseUnrefined == \A topic : Unrefined(Base(topic), topic)
  BY DEF Base, Statement, Unrefined

LEMMA GeneratedUnrefined == \A columns, topic : Unrefined(Generated(columns), topic)
  BY DEF Generated, Statement, Unrefined

\* What is tried: refinements of the prior SQL, and the base intent in the end.
LEMMA AttemptsUsable ==
    ASSUME NEW topic, NEW params, NEW prior
    PROVE  LET q == Attempts(topic, params, prior)
           IN  /\ q \in Seq(Usable(topic, params, <<prior>>))
               /\ q # <<>> /\ q[Len(q)] = Base(topic)
<1> DEFINE S == Usable(topic, params, <<prior>>)
           templates == find_matching_template(AgentDomain(topic[1]), topic[2], params)
           first == IF templates = {} THEN <<>>
                    ELSE <<Wrap(prior, CHOOSE template \in templates : TRUE)>>
           override == IF topic[1] = "resource" THEN Overrides(prior, params) \o <<Base(topic)>>
                       ELSE <<>>
<1>1. Base(topic) \in S /\ \A tm \in templates \union OverrideTemplates : Wrap(prior, tm) \in S
  BY DEF Usable, Refinements
<1>2. first \in Seq(S)
  <2>1. templates # {} => (CHOOSE template \in templates : TRUE) \in templates
    OBVIOUS
  <2> HIDE DEF S, templates
  <2> QED BY <2>1, <1>1
<1>3. Overrides(prior, params) \in Seq(S)
  <2> DEFINE skill == IF "skill_name" \in params THEN "skill_name" ELSE "skill"
             given(key, template) == IF key \in params THEN <<Wrap(prior, template)>> ELSE <<>>
  <2>1. ASSUME NEW key, NEW template \in OverrideTemplates
        PROVE  given(key, template) \in Seq(S)
    <3>1. Wrap(prior, template) \in S BY <1>1
    <3> HIDE DEF S
    <3> QED BY <3>1
  <2> DEFINE a == given(skill, BySkill("EMPID", 3))
             b == given("resource_name", On("name", "Name", "resource_name"))
             c == given("designation", On("status", "Designation", "designation"))
             d == given("tech_category", On("status", "TechCategoryName", "tech_category"))
  <2>2. a \in Seq(S) /\ b \in Seq(S) /\ c \in Seq(S) /\ d \in Seq(S)
    <3> HIDE DEF S, given
    <3> QED BY <2>1 DEF OverrideTemplates
  <2>3. Overrides(prior, params) = a \o b \o c \o d
    BY DEF Overrides
  <2> HIDE DEF S, a, b, c, d
  <2> QED BY <2>2, <2>3
<1>4. override \in Seq(S)
  <2> HIDE DEF S
  <2> QED BY <1>1, <1>3
<1>5. Attempts(topic, params, prior) = (first \o override) \o <<Base(topic)>>
  BY DEF Attempts
<1>6. first \o override \in Seq(S)
  <2> HIDE DEF S, first, override
  <2> QED BY <1>2, <1>4
<1> HIDE DEF S, first, override
<1>7. LET q == (first \o override) \o <<Base(topic)>>
      IN  q \in Seq(S) /\ q # <<>> /\ q[Len(q)] = Base(topic)
  BY <1>1, <1>6, Appended
<1> QED BY <1>5, <1>7 DEF S

\* They wrap the prior SQL once.
LEMMA UsableLayers ==
    ASSUME NEW topic, NEW params, NEW prior,
           prior # <<>> => Unrefined(prior[1], topic),
           NEW st \in Usable(topic, params, prior)
    PROVE  /\ st.layers <= 1 /\ st.intent \in {topic[2], "generated"}
           /\ prior = <<>> => Unrefined(st, topic)
<1>1. CASE st = Base(topic)
  BY <1>1, BaseUnrefined DEF Unrefined
<1>2. CASE st # Base(topic)
  <2>1. prior # <<>> /\ st \in Refinements(topic, params, prior[1])
    BY <1>2 DEF Usable
  <2>2. PICK tm : st = Wrap(prior[1], tm)
    BY <2>1 DEF Refinements
  <2>3. st.layers = prior[1].layers + 1 /\ st.intent = prior[1].intent
    BY <2>2 DEF Wrap, Statement
  <2> QED BY <2>1, <2>3 DEF Unrefined
<1> QED BY <1>1, <1>2

-----------------------------------------------------------------------------
LEMMA InitInv == Init => IInv
<1> SUFFICES ASSUME Init PROVE IInv
  OBVIOUS
<1> USE DEF Init, Idle, NoContext
<1>1. Shape BY DEF Shape
<1>2. TypeOK BY RefineAssumption DEF TypeOK
<1>3. Stored BY DEF Stored, OneAtMost
<1>4. Queue BY DEF Queue
<1>5. Planned /\ BaseIsLastResort BY DEF Planned, BaseIsLastResort
<1> QED BY <1>1, <1>2, <1>3, <1>4, <1>5 DEF IInv

LEMMA AskInv ==
    ASSUME IInv, NEW topic \in Topics, NEW found \in SUBSET Findable, Ask(topic, found)
    PROVE  IInv'
<1> USE DEF IInv, Ask, Idle
<1>1. Shape' BY DEF Shape
<1>2. TypeOK' BY RefineAssumption DEF TypeOK
<1>3. Stored' BY DEF Stored, OneAtMost
<1>4. Queue' BY DEF Queue
<1>5. Planned' /\ BaseIsLastResort' BY DEF Planned, BaseIsLastResort
<1> QED BY <1>1, <1>2, <1>3, <1>4, <1>5

LEMMA ClearContextInv == ASSUME IInv, ClearContext PROVE IInv'
<1> USE DEF IInv, ClearContext, NoContext
<1>1. Shape' BY DEF Shape
<1>2. TypeOK' BY DEF TypeOK
<1>3. Stored' BY DEF Stored, OneAtMost
<1>4. Queue' BY DEF Queue
<1>5. Planned' /\ BaseIsLastResort' BY DEF Planned, BaseIsLastResort
<1> QED BY <1>1, <1>2, <1>3, <1>4, <1>5

LEMMA ExtractParamsInv == ASSUME IInv, ExtractParams PROVE IInv'
<1> USE DEF IInv
<1> DEFINE params == ctx.params \union t.found
           refine == ctx.sql # <<>> /\ ctx.topic # <<>> /\ ctx.topic[2] = t.topic[2]
<1>1. PICK word \in BOOLEAN :
        LET skilled == IF word /\ refine THEN params \union {"skill"} ELSE params
            queue   == IF refine THEN Attempts(t.topic, skilled, ctx.sql[1]) ELSE <<Base(t.topic)>>
        IN  t' = [t EXCEPT !.pc = "tool", !.params = skilled,
                           !.prior = IF refine THEN ctx.sql ELSE <<>>, !.queue = queue]
  BY DEF ExtractParams
<1> DEFINE skilled == IF word /\ refine THEN params \union {"skill"} ELSE params
           prior == IF refine THEN ctx.sql ELSE <<>>
           queue == IF refine THEN Attempts(t.topic, skilled, ctx.sql[1]) ELSE <<Base(t.topic)>>
<1>2. UNCHANGED <<planned, scoped, turn, ctx>> /\ t.pc = "extract"
  BY DEF ExtractParams
<1>3. queue \in Seq(Usable(t.topic, skilled, prior)) /\ queue # <<>> /\ queue[Len(queue)] = Base(t.topic)
  <2>1. CASE refine
    <3>1. prior = <<ctx.sql[1]>> BY <2>1 DEF Stored, OneAtMost
    <3>2. queue = Attempts(t.topic, skilled, ctx.sql[1]) BY <2>1
    <3> HIDE DEF skilled, prior, queue
    <3> QED BY <3>1, <3>2, AttemptsUsable
  <2>2. CASE ~refine
    <3>1. Base(t.topic) \in Usable(t.topic, skilled, prior) BY DEF Usable
    <3>2. queue = <<Base(t.topic)>> BY <2>2
    <3> HIDE DEF skilled, prior, queue
    <3> QED BY <3>1, <3>2
  <2> QED BY <2>1, <2>2
<1>4. skilled \subseteq Keys
  BY DEF TypeOK, Keys
<1>5. /\ OneAtMost(prior) /\ (prior # <<>> => Unrefined(prior[1], t.topic))
      /\ planned => prior = <<>>
  BY DEF Stored, Unrefined, Planned, OneAtMost
<1>6. t' = [t EXCEPT !.pc = "tool", !.params = skilled, !.prior = prior, !.queue = queue]
  BY <1>1
<1> HIDE DEF skilled, prior, queue
<1>7. t' = [pc |-> "tool", topic |-> t.topic, found |-> t.found, params |-> skilled, prior |-> prior,
            queue |-> queue, failed |-> t.failed, sql |-> t.sql]
  BY <1>6 DEF Shape
<1>8. t.sql = <<>> BY <1>2 DEF Queue
<1>9. Len(prior) <= 1 BY <1>5 DEF OneAtMost
<1>10. Shape' BY <1>2, <1>7 DEF Shape
<1>11. TypeOK' BY <1>2, <1>3, <1>4, <1>7, <1>9 DEF TypeOK, Keys
<1>12. Stored' BY <1>2, <1>5, <1>7, <1>8 DEF Stored
<1>13. Queue' BY <1>3, <1>7, <1>8 DEF Queue
<1>14. Planned' /\ BaseIsLastResort' BY <1>2, <1>5, <1>7 DEF Planned, BaseIsLastResort
<1> QED BY <1>10, <1>11, <1>12, <1>13, <1>14

LEMMA SucceedInv == ASSUME IInv, Succeed PROVE IInv'
<1> USE DEF IInv
<1>1. PICK pc \in {"respond", "fallback"} :
        t' = [t EXCEPT !.pc = pc, !.sql = <<Head(t.queue)>>, !.queue = <<>>, !.failed = <<>>]
  BY DEF Succeed
<1>2. UNCHANGED <<planned, scoped, turn, ctx>> /\ t.pc = "tool" /\ t.queue # <<>>
  BY DEF Succeed, TypeOK
<1> DEFINE st == Head(t.queue)
<1>3. st \in Usable(t.topic, t.params, t.prior)
  BY <1>2 DEF Queue
<1>4. t.prior = <<>> => Unrefined(st, t.topic)
  BY <1>3, UsableLayers DEF Stored
<1> HIDE DEF st
<1>5. t' = [pc |-> pc, topic |-> t.topic, found |-> t.found, params |-> t.params, prior |-> t.prior,
            queue |-> <<>>, failed |-> <<>>, sql |-> <<st>>]
  BY <1>1 DEF Shape, st
<1>6. Shape' BY <1>2, <1>5 DEF Shape
<1>7. TypeOK' BY <1>2, <1>5 DEF TypeOK, Keys
<1>8. Stored' BY <1>2, <1>4, <1>5 DEF Stored, OneAtMost
<1>9. Queue' BY <1>5 DEF Queue
<1>10. Planned' /\ BaseIsLastResort' BY <1>2, <1>5 DEF Planned, BaseIsLastResort
<1> QED BY <1>6, <1>7, <1>8, <1>9, <1>10

\* The last statement to fail is the base intent.
LEMMA FailStatementInv == ASSUME IInv, FailStatement PROVE IInv'
<1> USE DEF IInv
<1> DEFINE pc == IF Len(t.queue) > 1 THEN "tool" ELSE "fallback"
           S == Usable(t.topic, t.params, t.prior)
<1>1. /\ UNCHANGED <<planned, scoped, turn, ctx>> /\ t.pc = "tool" /\ t.queue # <<>>
      /\ t' = [pc |-> pc, topic |-> t.topic, found |-> t.found, params |-> t.params,
               prior |-> t.prior, queue |-> Tail(t.queue), failed |-> <<Head(t.queue)>>, sql |-> t.sql]
  BY DEF FailStatement, TypeOK, Shape
<1>2. /\ Tail(t.queue) \in Seq(S)
      /\ Len(t.queue) > 1 => /\ Tail(t.queue) # <<>>
                             /\ Tail(t.queue)[Len(Tail(t.queue))] = t.queue[Len(t.queue)]
      /\ ~(Len(t.queue) > 1) => Tail(t.queue) = <<>> /\ Head(t.queue) = t.queue[Len(t.queue)]
  <2> DEFINE q == t.queue
  <2>1. q \in Seq(S) /\ q # <<>> BY <1>1 DEF Queue
  <2> HIDE DEF S, q
  <2>2. Tail(q) \in Seq(S) /\ Len(Tail(q)) = Len(q) - 1 /\ Len(q) \in Nat \ {0} BY <2>1
  <2>3. \A i \in 1 .. Len(q) - 1 : Tail(q)[i] = q[i + 1] BY <2>1
  <2>4. Len(q) > 1 => Tail(q) # <<>> /\ Tail(q)[Len(Tail(q))] = q[Len(q)]
    <3> SUFFICES ASSUME Len(q) > 1 PROVE Tail(q) # <<>> /\ Tail(q)[Len(Tail(q))] = q[Len(q)]
      OBVIOUS
    <3>1. Tail(q) # <<>>
      <4>1. \A e : e = <<>> => Len(e) = 0 OBVIOUS
      <4>2. Len(Tail(q)) # 0 BY <2>2
      <4> QED BY <4>1, <4>2
    <3>2. Len(q) - 1 \in 1 .. Len(q) - 1 BY <2>2
    <3>3. Tail(q)[Len(q) - 1] = q[(Len(q) - 1) + 1] BY <2>3, <3>2
    <3>4. (Len(q) - 1) + 1 = Len(q) BY <2>2
    <3> QED BY <2>2, <3>1, <3>3, <3>4
  <2>5. ~(Len(q) > 1) => Tail(q) = <<>> /\ Head(q) = q[Len(q)]
    <3>1. Head(q) = q[1] BY <2>1
    <3>2. ASSUME ~(Len(q) > 1) PROVE Len(q) = 1 /\ Tail(q) = <<>> BY <2>2, <3>2
    <3> QED BY <3>1, <3>2
  <2> QED BY <2>2, <2>4, <2>5 DEF q
<1>3. t.sql = <<>> /\ t.queue[Len(t.queue)] = Base(t.topic) BY <1>1 DEF Queue
<1>4. Shape' BY <1>1 DEF Shape
<1>5. TypeOK' BY <1>1, <1>2 DEF TypeOK, Keys
<1>6. Stored' BY <1>1 DEF Stored
<1>7. Queue' BY <1>1, <1>2, <1>3 DEF Queue
<1>8. Planned' BY <1>1 DEF Planned
<1>9. BaseIsLastResort' BY <1>1, <1>2, <1>3 DEF BaseIsLastResort
<1> QED BY <1>4, <1>5, <1>6, <1>7, <1>8, <1>9

LEMMA LlmFallbackInv == ASSUME IInv, LlmFallback PROVE IInv'
<1> USE DEF IInv
<1>1. /\ UNCHANGED <<planned, scoped, turn, ctx>> /\ t.pc = "fallback" /\ t.queue = <<>>
      /\ \E sql : /\ sql = t.sql \/ \E columns : sql = <<Generated(columns)>>
                  /\ t' = [pc |-> "respond", topic |-> t.topic, found |-> t.found,
                           params |-> t.params, prior |-> t.prior, queue |-> t.queue,
                           failed |-> <<>>, sql |-> sql]
  BY DEF LlmFallback, TypeOK, Shape
<1>2. PICK sql : /\ sql = t.sql \/ \E columns : sql = <<Generated(columns)>>
                 /\ t' = [pc |-> "respond", topic |-> t.topic, found |-> t.found,
                          params |-> t.params, prior |-> t.prior, queue |-> t.queue,
                          failed |-> <<>>, sql |-> sql]
  BY <1>1
<1>3. OneAtMost(sql) /\ (t.prior = <<>> /\ sql # <<>> => Unrefined(sql[1], t.topic))
  <2>1. CASE sql = t.sql BY <2>1 DEF Stored
  <2>2. ASSUME NEW columns, sql = <<Generated(columns)>>
        PROVE  OneAtMost(sql) /\ Unrefined(sql[1], t.topic)
    <3>1. sql[1] = Generated(columns) BY <2>2
    <3> QED BY <2>2, <3>1, GeneratedUnrefined DEF OneAtMost
  <2> QED BY <1>2, <2>1, <2>2
<1>4. Len(sql) <= 1
  <2>1. CASE sql = <<>> BY <2>1
  <2>2. CASE sql = <<sql[1]>>
    <3>1. \A e, x : e = <<x>> => Len(e) = 1 OBVIOUS
    <3>2. Len(sql) = 1 BY <2>2, <3>1, Zenon
    <3> QED BY <3>2
  <2> QED BY <1>3, <2>1, <2>2 DEF OneAtMost
<1>5. Shape' BY <1>1, <1>2 DEF Shape
<1>6. TypeOK' BY <1>1, <1>2, <1>4 DEF TypeOK, Keys
<1>7. Stored' BY <1>1, <1>2, <1>3 DEF Stored
<1>8. Queue' BY <1>1, <1>2 DEF Queue
<1>9. Planned' /\ BaseIsLastResort' BY <1>1, <1>2 DEF Planned, BaseIsLastResort
<1> QED BY <1>5, <1>6, <1>7, <1>8, <1>9

\* Not the refinement is stored but what it wrapped.
LEMMA RespondInv == ASSUME IInv, Respond PROVE IInv'
<1> USE DEF IInv
<1>1. /\ UNCHANGED <<planned, scoped, turn>> /\ t' = Idle
      /\ \/ ctx' = NoContext
         \/ ctx' = [topic |-> t.topic, params |-> t.params, sql |-> StoredSql]
  BY DEF Respond
<1>2. /\ OneAtMost(StoredSql) /\ (StoredSql # <<>> => Unrefined(StoredSql[1], t.topic))
      /\ planned => StoredSql = <<>>
  BY DEF StoredSql, Stored, Planned
<1>3. Len(StoredSql) <= 1 BY <1>2 DEF OneAtMost
<1>4. CASE ctx' = NoContext
  <2> USE <1>1, <1>4 DEF NoContext, Idle
  <2>1. Shape' BY DEF Shape
  <2>2. TypeOK' BY DEF TypeOK
  <2>3. Stored' BY DEF Stored, OneAtMost
  <2>4. Queue' /\ Planned' /\ BaseIsLastResort' BY DEF Queue, Planned, BaseIsLastResort
  <2> QED BY <2>1, <2>2, <2>3, <2>4
<1>5. CASE ctx' = [topic |-> t.topic, params |-> t.params, sql |-> StoredSql]
  <2> USE <1>1, <1>5 DEF Idle
  <2>1. Shape' BY DEF Shape
  <2>2. TypeOK' BY <1>3 DEF TypeOK, Keys
  <2>3. Stored' BY <1>2 DEF Stored, OneAtMost
  <2>4. Queue' /\ BaseIsLastResort' BY DEF Queue, BaseIsLastResort
  <2>5. Planned' BY <1>2 DEF Planned
  <2> QED BY <2>1, <2>2, <2>3, <2>4, <2>5
<1> QED BY <1>1, <1>4, <1>5

LEMMA NextInv == IInv /\ [Next]_vars => IInv'
<1> SUFFICES ASSUME IInv, [Next]_vars PROVE IInv'
  OBVIOUS
<1>1. CASE UNCHANGED vars
  BY <1>1 DEF vars, IInv, Shape, TypeOK, Stored, Queue, Planned, BaseIsLastResort, Keys
<1> QED BY <1>1, AskInv, ClearContextInv, ExtractParamsInv, SucceedInv, FailStatementInv,
           LlmFallbackInv, RespondInv DEF Next

LEMMA InductiveInvariant == Spec => []IInv
<1> QED BY InitInv, NextInv, PTL DEF Spec

\* Contexts, turns and their statements keep their shape.
THEOREM TypeCorrect == Spec => []TypeOK
<1>1. IInv => TypeOK BY DEF IInv
<1> QED BY <1>1, InductiveInvariant, PTL

\* Whatever the templates and the agents' overrides are, no refinement wraps
\* another, or the SQL of another intent, however long the conversation.
THEOREM RefinesBaseOnlyAlways == Spec => []RefinesBaseOnly
<1>1. IInv => RefinesBaseOnly
  <2> SUFFICES ASSUME IInv, NEW i \in DOMAIN t.queue
               PROVE  t.queue[i].layers <= 1 /\ t.queue[i].intent \in {t.topic[2], "generated"}
    BY DEF RefinesBaseOnly
  <2>1. t.queue[i] \in Usable(t.topic, t.params, t.prior) BY DEF IInv, Queue
  <2> QED BY <2>1, UsableLayers DEF IInv, Stored
<1> QED BY <1>1, InductiveInvariant, PTL

\* A refinement that fails always ends at the unrefined answer.
THEOREM BaseIsLastResortAlways == Spec => []BaseIsLastResort
<1>1. IInv => BaseIsLastResort BY DEF IInv
<1> QED BY <1>1, InductiveInvariant, PTL

\* With the plan updater among the nodes no turn refines.
THEOREM PlannedNeverRefinesEver == Spec => []PlannedNeverRefines
<1>1. IInv => PlannedNeverRefines BY DEF IInv, Planned, PlannedNeverRefines
<1> QED BY <1>1, InductiveInvariant, PTL
=============================================================================
