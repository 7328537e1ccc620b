---------------------------- MODULE RefineTurns ----------------------------
(***************************************************************************)
(* A conversation with the query plan compiler switched off                *)
(* (use_query_plan_compiler false): extract_params carries the parameters  *)
(* of the last turn over, run_domain_tool refines the prior SQL with a     *)
(* template, with the agent's own override or not at all, llm_fallback     *)
(* steps in for no rows, and execute_nl_query stores the SQL the next turn *)
(* will refine.  Every statement may fail or return no rows.               *)
(*                                                                         *)
(* The tests compose these nodes; build_graph no longer has extract_params.*)
(* Whether update_query_plan is among the nodes is chosen once: its plan   *)
(* then decides what is stored.                                            *)
(***************************************************************************)
EXTENDS Refinement, TopicSwitches

CONSTANTS Topics,    \* the pairs <<domain, intent>> the questions are about
          Findable,  \* the parameter keys the questions contain
          MaxTurns   \* the questions of the conversation (a bound)

ASSUME RefineAssumption ==
    /\ \A q \in Topics : /\ q[1] \in DOMAIN DOMAIN_REGISTRY
                         /\ q[2] \in DOMAIN DOMAIN_REGISTRY[q[1]]
    /\ MaxTurns \in Nat

NoContext == [topic |-> <<>>, params |-> {}, sql |-> <<>>]

VARIABLES
    planned,  \* whether update_query_plan runs in every turn
    scoped,   \* whether the caller has a resource_id
    turn,     \* the number of questions asked
    t,        \* the turn in progress
    ctx       \* the turn_context of the last answer

vars == <<planned, scoped, turn, t, ctx>>

-----------------------------------------------------------------------------
(* A statement, as far as a refinement depends on it.  The empty SQL is    *)
(* <<>>, any other is <<statement>>.                                       *)

Statement(intent, layers, columns, holes, bound, named) ==
    [intent |-> intent, layers |-> layers, columns |-> columns,
     holes |-> holes, bound |-> bound, named |-> named]

\* _run_intent.
Base(topic) ==
    LET q == DOMAIN_REGISTRY[topic[1]][topic[2]]
    IN  Statement(topic[2], 0, q.columns, q.binds, q.binds, {})

\* build_sql: the placeholders of the prior SQL stay, its values do not.
Wrap(prior, template) ==
    Statement(prior.intent, prior.layers + 1, prior.columns,
              prior.holes + Len(template.keys), Len(template.keys), template.columns)

\* What llm_fallback generates has no placeholders; its columns may be
\* those of the intent or any others.
Generated(columns) == Statement("generated", 0, columns, 0, 0, {})

\* The driver and the server accept the statement.
Ready(st) == st.holes = st.bound /\ st.named \subseteq st.columns

\* ResourceAgent._run_refinement: one attempt per parameter, in this order.
Overrides(prior, params) ==
    LET given(key, template) == IF key \in params THEN <<Wrap(prior, template)>> ELSE <<>>
        skill == IF "skill_name" \in params THEN "skill_name" ELSE "skill"
    IN  given(skill, BySkill("EMPID", 3))
          \o given("resource_name", On("name", "Name", "resource_name"))
          \o given("designation", On("status", "Designation", "designation"))
          \o given("tech_category", On("status", "TechCategoryName", "tech_category"))

\* Mutant of Attempts: the base intent is left to the override.
AttemptsNoBase(topic, params, prior) ==
    LET templates == find_matching_template(AgentDomain(topic[1]), topic[2], params)
        first     == IF templates = {} THEN <<>>
                     ELSE <<Wrap(prior, CHOOSE template \in templates : TRUE)>>
    IN  IF first \o Overrides(prior, params) = <<>> THEN <<Base(topic)>>
        ELSE first \o Overrides(prior, params)

\* _try_refinement: the statements it executes until one succeeds.  The
\* override of ResourceAgent ends with the base intent, inside the try.
Attempts(topic, params, prior) ==
    LET templates == find_matching_template(AgentDomain(topic[1]), topic[2], params)
        first     == IF templates = {} THEN <<>>
                     ELSE <<Wrap(prior, CHOOSE template \in templates : TRUE)>>
        override  == IF topic[1] = "resource" THEN Overrides(prior, params) \o <<Base(topic)>> ELSE <<>>
    IN  first \o override \o <<Base(topic)>>

-----------------------------------------------------------------------------

Idle == [pc |-> "idle", topic |-> <<>>, found |-> {}, params |-> {}, prior |-> <<>>,
         queue |-> <<>>, failed |-> <<>>, sql |-> <<>>]

Init ==
    /\ planned \in BOOLEAN
    /\ scoped \in BOOLEAN
    /\ turn = 0
    /\ t = Idle
    /\ ctx = NoContext

\* A question arrives and is classified.  A second date needs a first one.
Ask(topic, found) ==
    /\ t.pc = "idle"
    /\ turn < MaxTurns
    /\ "end_date" \in found => "start_date" \in found
    /\ turn' = turn + 1
    /\ t' = [Idle EXCEPT !.pc = "extract", !.topic = topic, !.found = found]
    /\ UNCHANGED <<planned, scoped, ctx>>

\* The user clears the context.
ClearContext ==
    /\ t.pc = "idle"
    /\ ctx # NoContext
    /\ ctx' = NoContext
    /\ UNCHANGED <<planned, scoped, turn, t>>

\* extract_params.  Refining, a bare word may be taken for a skill.
ExtractParams ==
    /\ t.pc = "extract"
    /\ LET params == ctx.params \union t.found
           refine == ctx.sql # <<>> /\ ctx.topic # <<>> /\ ctx.topic[2] = t.topic[2]
       IN  \E word \in BOOLEAN :
             LET skilled == IF word /\ refine THEN params \union {"skill"} ELSE params
                 queue   == IF refine THEN Attempts(t.topic, skilled, ctx.sql[1])
                            ELSE <<Base(t.topic)>>
             IN  t' = [t EXCEPT !.pc = "tool", !.params = skilled,
                                !.prior = IF refine THEN ctx.sql ELSE <<>>,
                                !.queue = queue]
    /\ UNCHANGED <<planned, scoped, turn, ctx>>

\* UserSelfAgent raises ValueError for a caller without resource_id.
Runs(st) == Ready(st) /\ (t.topic[1] = "user_self" => scoped)

\* Mutant of Succeed: the statements that were not needed stay.
SucceedKeepingQueue ==
    /\ t.pc = "tool"
    /\ Runs(Head(t.queue))
    /\ \E pc \in {"respond", "fallback"} : t' = [t EXCEPT !.pc = pc, !.sql = <<Head(t.queue)>>]
    /\ UNCHANGED <<planned, scoped, turn, ctx>>

\* The next statement returns rows, or none and llm_fallback is next.
Succeed ==
    /\ t.pc = "tool"
    /\ Runs(Head(t.queue))
    /\ \E pc \in {"respond", "fallback"} :
         t' = [t EXCEPT !.pc = pc, !.sql = <<Head(t.queue)>>,
                        !.queue = <<>>, !.failed = <<>>]
    /\ UNCHANGED <<planned, scoped, turn, ctx>>

\* The next statement fails: the one after it, or the exception that
\* run_domain_tool turns into an empty result without SQL.
FailStatement ==
    /\ t.pc = "tool"
    /\ t' = [t EXCEPT !.failed = <<Head(t.queue)>>,
                      !.queue = Tail(@),
                      !.pc = IF Len(t.queue) > 1 THEN "tool" ELSE "fallback"]
    /\ UNCHANGED <<planned, scoped, turn, ctx>>

\* llm_fallback answers with SQL of its own, or leaves the state as it is.
LlmFallback ==
    /\ t.pc = "fallback"
    /\ \/ \E columns \in {{}, Base(t.topic).columns} :
            t' = [t EXCEPT !.pc = "respond", !.sql = <<Generated(columns)>>, !.failed = <<>>]
       \/ t' = [t EXCEPT !.pc = "respond", !.failed = <<>>]
    /\ UNCHANGED <<planned, scoped, turn, ctx>>

\* Mutants of StoredSql: the SQL executed is stored, refined or not; and so
\* it is of a plan.
StoredFinal == t.sql
StoredSqlUnplanned == IF t.prior # <<>> THEN t.prior ELSE t.sql

\* The end of execute_nl_query: no context after a topic switch, and else
\* the base SQL: that of the plan, or the prior SQL, or the SQL executed.
StoredSql == IF planned \/ t.prior # <<>> THEN t.prior ELSE t.sql

Respond ==
    /\ t.pc = "respond"
    /\ ctx' = IF _is_topic_switch(t.topic, ctx.topic) THEN NoContext
              ELSE [topic |-> t.topic, params |-> t.params, sql |-> StoredSql]
    /\ t' = Idle
    /\ UNCHANGED <<planned, scoped, turn>>

Next ==
    \/ \E topic \in Topics, found \in SUBSET Findable : Ask(topic, found)
    \/ ClearContext
    \/ ExtractParams
    \/ Succeed
    \/ FailStatement
    \/ LlmFallback
    \/ Respond

Spec == Init /\ [][Next]_vars

-----------------------------------------------------------------------------
Keys == Findable \union {"skill"}

\* Contexts, turns and statements have the shape the code gives them.
TypeOK ==
    /\ planned \in BOOLEAN /\ scoped \in BOOLEAN
    /\ turn \in 0 .. MaxTurns
    /\ ctx.topic \in Topics \union {<<>>} /\ ctx.params \subseteq Keys /\ Len(ctx.sql) <= 1
    /\ t.pc \in {"idle", "extract", "tool", "fallback", "respond"}
    /\ t.topic \in Topics \union {<<>>} /\ t.found \subseteq Findable /\ t.params \subseteq Keys
    /\ Len(t.prior) <= 1 /\ Len(t.sql) <= 1
    /\ t.pc = "tool" <=> t.queue # <<>>

\* A refinement wraps the SQL of its own intent, or what the language model
\* answered for it, and never another refinement: placeholders do not
\* accumulate over the turns (query_service.py: "always store the base
\* (original) SQL"), and a change of intent never refines the old one's.
RefinesBaseOnly ==
    \A i \in DOMAIN t.queue :
        t.queue[i].layers <= 1 /\ t.queue[i].intent \in {t.topic[2], "generated"}

\* The agent gives up only when the base intent itself has failed: a
\* refinement that cannot be executed degrades to the unrefined answer
\* (_try_refinement, step 3).
BaseIsLastResort ==
    t.pc = "fallback" /\ t.sql = <<>> =>
        t.failed = <<Base(t.topic)>>

\* With update_query_plan among the nodes no turn ever refines: the plan's
\* base SQL comes from the parameters of a refinement, and the first one has
\* none (plan_updater.py, base_intent_sql).
PlannedNeverRefines == planned => t.prior = <<>>

\* build_sql: "Build the final SQL and parameter tuple ... ready for
\* connector.execute_query()".  The values of the prior SQL are not kept, so
\* a refinement of a statement with parameters of its own is not.
RefinedIsReady == \A i \in DOMAIN t.queue : t.queue[i].layers > 0 => Ready(t.queue[i])
=============================================================================
