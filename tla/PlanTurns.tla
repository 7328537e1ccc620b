----------------------------- MODULE PlanTurns -----------------------------
(***************************************************************************)
(* A conversation with the query plan compiler switched on                 *)
(* (use_query_plan_compiler true), through any of the three entries of     *)
(* _build_graph: the filters of a question are extracted, become or join a *)
(* plan, the plan is compiled, and the statement is executed.              *)
(*                                                                         *)
(* execute_nl_query starts every turn without a plan; the tests of the     *)
(* default entry hand the last plan back.  carried tells which.            *)
(***************************************************************************)
EXTENDS PlanUpdater, TopicSwitches

CONSTANTS Topics,     \* topics of the catalog
          Questions,  \* what questions mention: see Extraction
          Replies,    \* the clauses the language model may reply with
          Entries,    \* the entries of the graph: subset of {"regex", "groq", "hybrid"}
          Carried,    \* subset of BOOLEAN
          MaxTurns    \* the questions of the conversation (a bound)

ASSUME PlanTurnsAssumption ==
    /\ Topics \subseteq INTENT_CATALOG
    /\ \A q \in Questions : /\ DOMAIN q \subseteq Range(Patterns)
                            /\ \A p \in DOMAIN q : q[p] \in Seq(STRING)
    /\ Replies \subseteq Seq(Clauses)
    /\ Entries \subseteq {"regex", "groq", "hybrid"} /\ Carried \subseteq BOOLEAN
    /\ MaxTurns \in Nat /\ MaxValues \in Nat

\* A regular expression does not match blanks, and a list is one after it is
\* sanitised, too.
ASSUME TextsAssumption ==
    /\ \A q \in Questions : \A p \in DOMAIN q : \A i \in DOMAIN q[p] : q[p][i] # ""
    /\ {"(a list)", "(a complex list)"} \intersect DOMAIN Rewritten = {}

VARIABLES
    entry,    \* the entry of the compiled graph
    carried,  \* whether the plan of the last answer comes back
    caller,   \* role and resource_id of the user
    turn,     \* the number of questions asked
    t,        \* the turn in progress
    ctx       \* the turn_context of the last answer

vars == <<entry, carried, caller, turn, t, ctx>>

\* The context keeps a base SQL only of a turn without a plan, whose
\* follow-up is then recognised as one.
NoContext == [topic |-> NoTopic, plan |-> NoPlan, sql |-> FALSE]

Idle == [pc |-> "idle", topic |-> NoTopic, question |-> <<>>, filters |-> <<>>,
         followUp |-> "new", score |-> 0, plan |-> NoPlan, sql |-> <<>>,
         generated |-> FALSE]

Callers == {[role |-> "user", rid |-> "own"], [role |-> "user", rid |-> NoResource],
            [role |-> "admin", rid |-> NoResource]}

Init ==
    /\ entry \in Entries
    /\ carried \in Carried
    /\ carried => entry = "regex"
    /\ caller \in Callers
    /\ turn = 0
    /\ t = Idle
    /\ ctx = NoContext

Answering == UNCHANGED <<entry, carried, caller, turn, ctx>>

-----------------------------------------------------------------------------
\* A question arrives.
Ask(question) ==
    /\ t.pc = "idle"
    /\ turn < MaxTurns
    /\ turn' = turn + 1
    /\ t' = [Idle EXCEPT !.pc = IF entry = "groq" THEN "groq" ELSE "classify",
                         !.question = question]
    /\ UNCHANGED <<entry, carried, caller, ctx>>

\* Mutant of Allowed: in the hybrid graph the gate only lowers the confidence.
AllowedByConfidence(domain) == caller.role = "user" => entry = "hybrid" \/ domain = "user_self"

\* The role gate: a user has only the tools about himself.
Allowed(domain) == caller.role = "user" => domain = "user_self"

\* classify_intent.  By keyword, by similarity above the threshold, or as a
\* follow-up of a context with SQL; else its best guess stays below it.
ClassifyIntent ==
    /\ t.pc = "classify"
    /\ \/ \E topic \in {q \in Topics : Allowed(q[1])}, sure \in BOOLEAN :
            t' = [t EXCEPT !.topic = topic,
                           !.question = IF entry = "regex" /\ sure THEN @ ELSE <<>>,
                           !.pc = IF entry = "hybrid" THEN "followup"
                                  ELSE IF sure THEN "extract" ELSE "fallback"]
       \/ t' = [t EXCEPT !.pc = IF entry = "hybrid" THEN "followup" ELSE "fallback",
                         !.question = <<>>]
    /\ Answering

\* extract_filters, of the default graph.
ExtractFilters ==
    /\ t.pc = "extract"
    /\ t' = [t EXCEPT !.pc = "update", !.question = <<>>,
                      !.filters = extract_filters(t.question, t.topic[1])]
    /\ Answering

-----------------------------------------------------------------------------
(* The Groq entry.                                                         *)

\* A follow-up inherits the topic, and no filter.
GroqFollowUp ==
    /\ t.pc = "groq"
    /\ ctx.sql
    /\ t' = IF Allowed(ctx.topic[1])
            THEN [t EXCEPT !.pc = "update", !.topic = ctx.topic, !.question = <<>>]
            ELSE [t EXCEPT !.pc = "fallback", !.question = <<>>]
    /\ Answering

\* A domain and an intent, each known, that need not belong together.
Paired == {topic[1] : topic \in Topics} \X {topic[2] : topic \in Topics}

\* The tool call.  The model names a pair and is confident or not; post-processing adds filters, the role gate and
\* "unknown" end at the language model.
GroqExtract ==
    /\ t.pc = "groq"
    /\ \/ \E topic \in {pair \in Paired : Allowed(pair[1])}, reply \in Replies :
            t' = [t EXCEPT !.pc = "update", !.topic = topic, !.question = <<>>,
                           !.filters = GroqFilters(topic, reply, t.question)]
       \/ \E topic \in {pair \in Paired : Allowed(pair[1])} \union {NoTopic} :
            t' = [t EXCEPT !.pc = "fallback", !.topic = topic, !.question = <<>>]
    /\ Answering

\* A call that failed may carry what the model had generated: it is used as
\* it is, and before the role gate.
GroqRecover ==
    /\ t.pc = "groq"
    /\ \E topic \in Paired, reply \in Replies :
          t' = [t EXCEPT !.pc = "update", !.topic = topic, !.question = <<>>,
                         !.filters = reply]
    /\ Answering

-----------------------------------------------------------------------------
(* The hybrid entry.                                                       *)

NoIntent == "none"
LastIntent == IF ctx.topic = NoTopic THEN NoIntent ELSE ctx.topic[2]
Intent == IF t.topic = NoTopic THEN NoIntent ELSE t.topic[2]
Domain == IF t.topic = NoTopic THEN NoField ELSE t.topic[1]

\* compute_embedding and followup_detection: last_query_embedding is never
\* set, and there are no filters yet.
FollowupDetection ==
    /\ t.pc = "followup"
    /\ t' = [t EXCEPT !.pc = "reply",
                      !.followUp = detect_followup_type(Intent, LastIntent, "unavailable", FALSE)]
    /\ Answering

\* llm_extraction_node: a reply, or no filters when the call fails, for
\* _fallback_extraction calls extract_params without awaiting it.
LlmExtraction ==
    /\ t.pc = "reply"
    /\ \/ \E reply \in Replies, followUp \in {"refine", "replace", "new"} :
            t' = [t EXCEPT !.pc = "override", !.filters = HybridFilters(Domain, reply),
                           !.question = <<>>, !.followUp = followUp]
       \/ t' = [t EXCEPT !.pc = "override", !.question = <<>>, !.followUp = "new"]
    /\ Answering

\* deterministic_override.
DeterministicOverride ==
    /\ t.pc = "override"
    /\ t' = [t EXCEPT !.pc = "score", !.followUp = apply_overrides(@, Intent, LastIntent)]
    /\ Answering

\* Mutant of ConfidenceScoring: the decision "partial_fallback" is routed to
\* a node of its own, which the graph does not have.
ConfidenceScoringPartial ==
    /\ t.pc = "score"
    /\ LET score == calculate_confidence(t.filters, Domain)
       IN  t' = [t EXCEPT !.score = score,
                          !.pc = IF score >= 70 THEN "update" ELSE IF score >= 40 THEN "partial" ELSE "fallback"]
    /\ Answering

\* confidence_scoring and route_after_confidence.
ConfidenceScoring ==
    /\ t.pc = "score"
    /\ LET score == calculate_confidence(t.filters, Domain)
       IN  t' = [t EXCEPT !.score = score, !.pc = IF score >= 70 THEN "update" ELSE "fallback"]
    /\ Answering

-----------------------------------------------------------------------------
(* The nodes the entries share.                                            *)

Handed == IF carried THEN ctx.plan ELSE NoPlan

\* update_query_plan.  What it raises ends the request; the caller keeps
\* the context it has.
UpdateQueryPlan ==
    /\ t.pc = "update"
    /\ t' = IF t.topic = NoTopic THEN [t EXCEPT !.pc = "tool"]
            ELSE IF UpdateRaises(Handed, t.topic, t.filters) THEN Idle
            ELSE [t EXCEPT !.pc = "tool", !.score = 0, !.followUp = "new",
                           !.plan = update_query_plan(Handed, t.topic, t.filters)]
    /\ Answering

\* run_domain_tool without a plan is without a domain too and refuses; a
\* plan that does not compile and an error of the server end the same way.
ToolFails ==
    /\ t.pc = "tool"
    /\ t' = [t EXCEPT !.pc = "fallback"]
    /\ Answering

\* The plan compiles and its statement is executed: with rows the turn is
\* over, without them the language model tries.
RunDomainTool ==
    /\ t.pc = "tool"
    /\ t.plan # NoPlan
    /\ CompileFailure(t.plan, caller.rid) = "none"
    /\ LET st == compile_query(t.plan, caller.rid)
       IN  /\ Executable(st, t.plan.intent)
           /\ \E pc \in {"respond", "fallback"} : t' = [t EXCEPT !.pc = pc, !.sql = <<st>>]
    /\ Answering

\* llm_fallback answers with SQL of its own, or leaves what there is: the
\* empty result of the tool, or nothing, and the request fails.
LlmFallback ==
    /\ t.pc = "fallback"
    /\ \/ t' = [t EXCEPT !.pc = "respond", !.generated = TRUE]
       \/ t' = IF t.plan = NoPlan THEN Idle ELSE [t EXCEPT !.pc = "respond"]
    /\ Answering

\* The end of execute_nl_query: the context of the answer.
Respond ==
    /\ t.pc = "respond"
    /\ ctx' = IF t.topic = NoTopic \/ _is_topic_switch(t.topic, ctx.topic) THEN NoContext
              ELSE [topic |-> t.topic, plan |-> t.plan, sql |-> t.plan = NoPlan]
    /\ t' = Idle
    /\ UNCHANGED <<entry, carried, caller, turn>>

\* The user clears the context.
ClearContext ==
    /\ t.pc = "idle"
    /\ ctx # NoContext
    /\ ctx' = NoContext
    /\ UNCHANGED <<entry, carried, caller, turn, t>>

Step ==
    \/ ClassifyIntent \/ ExtractFilters
    \/ GroqFollowUp \/ GroqExtract \/ GroqRecover
    \/ FollowupDetection \/ LlmExtraction \/ DeterministicOverride \/ ConfidenceScoring
    \/ UpdateQueryPlan \/ ToolFails \/ RunDomainTool \/ LlmFallback \/ Respond

Next == (\E question \in Questions : Ask(question)) \/ ClearContext \/ Step

\* Every node of a turn that has begun runs.
Fairness == WF_vars(Step)

Spec == Init /\ [][Next]_vars /\ Fairness

-----------------------------------------------------------------------------
Fields(plan) == {plan.filters[i].field : i \in DOMAIN plan.filters}

\* Contexts, turns and plans have the shape the code gives them; a plan is
\* about the topic of its turn.
TypeOK ==
    /\ entry \in Entries /\ carried \in Carried /\ caller \in Callers
    /\ turn \in 0 .. MaxTurns
    /\ t.pc \in {"idle", "classify", "extract", "groq", "followup", "reply", "override", "score",
                 "update", "tool", "fallback", "respond"}
    /\ t.plan # NoPlan => SameTopic(t.plan, t.topic)
    /\ ctx.plan # NoPlan => SameTopic(ctx.plan, ctx.topic)
    /\ t.sql # <<>> => t.plan # NoPlan
    /\ ~ \E i \in DOMAIN t.plan.filters : Len(t.plan.filters[i].values) > MaxValues

\* Every placeholder of a compiled statement gets a parameter that was meant
\* for it: resource_id, manager, skill and filter values are bound by
\* position only, from lists built in different places (compile_query).
\* The Groq entry may pair a domain with an intent of another.
ParamsAligned ==
    t.plan # NoPlan /\ t.topic \in Topics /\ CompileFailure(t.plan, caller.rid) = "none" =>
        Aligned(compile_query(t.plan, caller.rid))

\* A filter on a name is compiled for a statement that has the table: the
\* registry's domains, _intent_field_remap and BASE_QUERIES agree.  (The
\* status has the alias c whatever the statement, and statements without c
\* fail on it.)
NamesResolve ==
    t.plan # NoPlan /\ t.topic \in Topics /\ entry # "groq"
            /\ CompileFailure(t.plan, caller.rid) = "none" =>
        LET st == compile_query(t.plan, caller.rid)
        IN  \A i \in DOMAIN st.conditions :
                st.conditions[i].field = "resource_name" => Resolves(st.conditions[i], t.plan.intent)

\* What the regular expressions find never contradicts itself: over any
\* number of turns, remapped or not, a plan has one clause per field.
OneClausePerField ==
    entry = "regex" =>
        \A i, j \in DOMAIN t.plan.filters :
            t.plan.filters[i].field = t.plan.filters[j].field => i = j

\* The parameter that the server puts in the place of the token at p.
BoundAt(st, p) == st.params[Cardinality({i \in 1 .. p : st.text[i] \in Placeholders})]

\* Whatever a user asks in the default or the hybrid graph, and whatever his
\* plan has gathered: in a statement that is executed for him the first
\* condition of the only WHERE compares with a placeholder, and the parameter
\* that lands there, by its position, is the resource_id he has (role gate,
\* BASE_QUERIES and compile_query together).
OwnRowsOnly ==
    entry # "groq" /\ caller.role = "user" =>
        \A st \in Range(t.sql) :
            /\ caller.rid # NoResource
            /\ \E p \in 2 .. Len(st.text) :
                  /\ {q \in DOMAIN st.text : st.text[q] = "WHERE"} = {p - 1}
                  /\ st.text[p] = "?own"
                  /\ BoundAt(st, p) = [use |-> "?own", value |-> caller.rid]

\* The hybrid entry overwrites the confidence the role gate has set to 0:
\* the gate holds all the same, in the default graph and in the hybrid one.
GateHolds ==
    entry # "groq" /\ t.sql # <<>> /\ caller.role = "user" => t.topic[1] = "user_self"

\* A reply gets a plan with at most one clause that looks like a NULL check
\* before it is sanitised: what two of them lose is more than the rest of the
\* score makes good, whatever else the reply says (calculate_confidence).
ComplexFallsBack ==
    entry = "hybrid" /\ t.plan # NoPlan =>
        Cardinality({i \in DOMAIN t.filters : Range(t.filters[i].values) \intersect Complex # {}}) <= 1

\* confidence_scoring.py:64: "Complex values like "missing", "incomplete"
\* require LLM fallback"; :176: "require SQL generation for NULL checks -
\* can't be handled by template SQL".  One complex value passes the score, and
\* so does any that becomes one when it is sanitised.
NullChecksFallBack ==
    entry = "hybrid" =>
        \A st \in Range(t.sql) : \A i \in DOMAIN st.conditions : st.conditions[i].kind # "IS NULL"

\* What a question about a topic says, and what a plan wants.
Wants(filters) ==
    [f \in {filters[i].field : i \in DOMAIN filters} |->
        UNION {Range(filters[i].values) : i \in {j \in DOMAIN filters : filters[j].field = f}}]

Said(topic) ==
    IF topic[2] \in NO_FILTER_INTENTS THEN {Wants(<<>>)}
    ELSE {Wants(Remapped(topic[2], extract_filters(question, topic[1]))) : question \in Questions}

Memory == INSTANCE FilterMemory WITH
    topic  <- IF ctx.plan = NoPlan THEN NoTopic ELSE ctx.topic,
    wanted <- Wants(ctx.plan.filters),
    Multi  <- {f \in FieldNames : FIELD_REGISTRY[f].multi}

\* When the plan comes back, an answer honours what was said since the topic
\* began, and nothing else (the docstrings of plan_updater.py).
PlanIsMemory == [][carried /\ entry = "regex" => Memory!Next]_ctx

\* Whatever fails on the way, a question is answered or refused.
TurnsEnd == t.pc # "idle" ~> t.pc = "idle"

\* plan_updater.py: "filter accumulation rules across conversation turns";
\* "Existing plan with same domain/intent -> merge new filters".
\* execute_nl_query never hands a plan back.
FollowUpKeepsFilters ==
    [][ctx.plan # NoPlan /\ ctx'.plan # NoPlan /\ ctx.topic = ctx'.topic =>
          Fields(ctx.plan) \subseteq Fields(ctx'.plan)]_ctx
=============================================================================
