---------------------------- MODULE SqlCompiler ----------------------------
(***************************************************************************)
(* compile_query (nodes/sql_compiler.py): from a QueryPlan to the text and *)
(* the parameters of one SQL Server statement.                             *)
(*                                                                         *)
(* A text is the sequence of those tokens that decide whether it is well   *)
(* formed: its clauses, the connectives and conditions appended to it, and *)
(* its placeholders, told apart by what belongs there: "?own" the caller's *)
(* resource_id, "?manager" a name, "?skill" and "?filter" a filter's value.*)
(* A parameter carries the use it is bound for.  A base query also names   *)
(* the table aliases of its FROM.  Metric fragments are left out:          *)
(* detect_metrics is a stub that returns none, and execute passes none.    *)
(***************************************************************************)
EXTENDS FieldRegistry, Naturals, SequencesExt

\* The values _sanitize_value changes, by removing what it takes for SQL and
\* the space around it, and what it makes of them.
CONSTANT Rewritten

\* Values it would have to be applied to twice ("DRDROPOP") are left out (a
\* bound): some clauses are built twice, so that it is.
ASSUME RewrittenAssumption ==
    /\ Rewritten \in [DOMAIN Rewritten -> STRING]
    /\ \A v \in DOMAIN Rewritten : Rewritten[v] \notin DOMAIN Rewritten

_sanitize_value(v) == IF v \in DOMAIN Rewritten THEN Rewritten[v] ELSE v

\* What is extracted for a filter, and the filter of a plan: FilterClause
\* sanitises the values.
Clause(field, op, values) == [field |-> field, op |-> op, values |-> values]
Clauses == [field : STRING, op : STRING, values : Seq(STRING)]
FilterClause(fc) ==
    [fc EXCEPT !.values = [i \in DOMAIN fc.values |-> _sanitize_value(fc.values[i])]]

\* The elements of s that pass the test, in their order: a list comprehension
\* with a condition.  (SelectSeq says the same, but has no definition that a
\* proof could open.)
Keep(s, Test(_)) == FlattenSeq([i \in DOMAIN s |-> IF Test(s[i]) THEN <<s[i]>> ELSE <<>>])

SkillToken == "{skill_filter}"

\* The shapes of a base query, and one with the aliases of its FROM.
Plain == <<"SELECT">>
Where == <<"SELECT", "WHERE">>
Sorted == <<"SELECT", "WHERE", "ORDER BY">>
Own == <<"SELECT", "WHERE", "?own">>
Base(text, aliases) == [text |-> text, aliases |-> aliases]

\* resource_availability selects FROM Resource without an alias, and so does
\* project_timeline FROM Project.
BASE_QUERIES ==
    [active_resources             |-> Base(Sorted, {"r", "dr"}),
     benched_resources            |-> Base(Sorted, {"r", "pr", "p", "t"}),
     benched_by_skill             |-> Base(<<"SELECT", "WHERE", SkillToken, "ORDER BY">>,
                                           {"r", "pr", "p", "t", "rs", "s"}),
     resource_by_skill            |-> Base(<<"SELECT", "WHERE", SkillToken>>,
                                           {"r", "dr", "tc", "par", "psk"}),
     resource_availability        |-> Base(Where, {}),
     resource_project_assignments |-> Base(Plain, {"r", "pr", "p"}),
     resource_skills_list         |-> Base(Where, {"r", "rs", "s"}),
     reports_to                   |-> Base(<<"SELECT", "WHERE", "?manager">>, {"r", "pm"}),
     active_clients               |-> Base(Where, {"c", "st"}),
     client_projects              |-> Base(Plain, {"c", "p"}),
     client_status                |-> Base(Plain, {"c", "st"}),
     active_projects              |-> Base(Where, {"p", "c", "st"}),
     project_by_client            |-> Base(Plain, {"p", "c", "s", "r"}),
     project_budget               |-> Base(Plain, {"p"}),
     project_resources            |-> Base(Where, {"p", "pr", "r", "tc", "c"}),
     project_timeline             |-> Base(Plain, {}),
     project_status               |-> Base(Plain, {"p", "c", "s", "r"}),
     overdue_projects             |-> Base(Where, {"p", "c", "st"}),
     approved_timesheets          |-> Base(Sorted, {"ts", "r"}),
     timesheet_by_period          |-> Base(Where, {"ts", "r"}),
     unapproved_timesheets        |-> Base(Sorted, {"ts", "r"}),
     timesheet_by_project         |-> Base(Sorted, {"ts", "r", "p"}),
     my_projects                  |-> Base(Own, {"p", "pr", "r"}),
     my_allocation                |-> Base(Own, {"pr", "p"}),
     my_timesheets                |-> Base(<<"SELECT", "WHERE", "?own", "ORDER BY">>, {"ts", "r"}),
     my_skills                    |-> Base(Own, {"rs", "s"}),
     my_utilization               |-> Base(<<"SELECT", "WHERE", "?own", "GROUP BY", "ORDER BY">>,
                                           {"ts", "r"})]

\* The domain of each intent (intent_catalog.py).
OwnIntents == {"my_projects", "my_allocation", "my_timesheets", "my_skills", "my_utilization"}

INTENT_CATALOG ==
    ({"resource"} \X {"active_resources", "benched_resources", "benched_by_skill",
                      "resource_by_skill", "resource_availability",
                      "resource_project_assignments", "resource_skills_list", "reports_to"})
    \union ({"client"} \X {"active_clients", "client_projects", "client_status"})
    \union ({"project"} \X {"active_projects", "project_by_client", "project_budget",
                            "project_resources", "project_timeline", "project_status",
                            "overdue_projects"})
    \union ({"timesheet"} \X {"approved_timesheets", "timesheet_by_period",
                              "unapproved_timesheets", "timesheet_by_project"})
    \union ({"user_self"} \X OwnIntents)

\* The intents whose statement takes no filter of the plan.
SelfContained ==
    {"benched_resources", "benched_by_skill", "active_resources", "resource_availability",
     "resource_by_skill", "active_projects", "overdue_projects", "active_clients",
     "approved_timesheets", "unapproved_timesheets", "my_utilization", "reports_to"}

-----------------------------------------------------------------------------
(* build_filter_clause.  A condition is the tokens of its fragment, the    *)
(* alias it is qualified with, and its parameters.                         *)

NULL_INDICATORS == {"missing", "incomplete", "null", "empty", "blank", "undefined"}
NOT_NULL_INDICATORS == {"not missing", "not null", "has value", "filled", "complete"}

Blank(values) == \A i \in DOMAIN values : values[i] = ""

Cond(fc, kind, params) ==
    [field |-> fc.field, alias |-> FIELD_REGISTRY[fc.field].alias, kind |-> kind, params |-> params]

\* values[1] of "between" does not exist: IndexError.
Raises(fc) == fc.op = "between" /\ Len(fc.values) < 2 /\ ~Blank(fc.values)
                /\ FIELD_REGISTRY[fc.field].type # "boolean"

\* The status of every domain is looked up among those of "client": a
\* FilterClause has no domain of its own.
StatusId(value) ==
    LET ids == DOMAIN_STATUS_IDS["client"]
    IN  IF value \in DOMAIN ids THEN ToString(ids[value]) ELSE value

Coerced(value) == IF value \in {"true", "1", "yes"} THEN "1" ELSE "0"

build_filter_clause(fc) ==
    LET type  == FIELD_REGISTRY[fc.field].type
        first == fc.values[1]
    IN  IF first \in NULL_INDICATORS /\ fc.op = "eq" THEN Cond(fc, "IS NULL", <<>>)
        ELSE IF first \in NOT_NULL_INDICATORS /\ fc.op = "eq" THEN Cond(fc, "IS NOT NULL", <<>>)
        ELSE IF type = "boolean" THEN Cond(fc, "=", <<Coerced(first)>>)
        ELSE CASE fc.op = "between" -> Cond(fc, "BETWEEN", <<first, fc.values[2]>>)
               [] fc.op = "in"      -> Cond(fc, "IN", fc.values)
               [] fc.op = "eq"      -> IF fc.field = "status"
                                       THEN Cond(fc, "=", <<StatusId(first)>>)
                                       ELSE Cond(fc, IF type = "text" THEN "LIKE" ELSE "=", <<first>>)
               [] OTHER             -> Cond(fc, fc.op, <<first>>)

\* The fragment as it is written into the text.
FragmentText(c) ==
    CASE c.kind \in {"IS NULL", "IS NOT NULL"} -> <<c.kind>>
      [] OTHER -> <<c.kind>> \o [i \in 1 .. Len(c.params) |-> "?filter"]

-----------------------------------------------------------------------------
(* compile_query.                                                          *)

NoResource == "none"   \* resource_id is None: admins and managers

IsSkill(fc) == fc.field \in {"skill", "skill_name"}

\* {skill_filter}: only the first skill clause counts, and of it only the
\* first value; without one the token becomes 1=1.
SkillParams(plan) ==
    LET skills == Keep(plan.filters, IsSkill)
    IN  IF skills = <<>> \/ SkillToken \notin Range(BASE_QUERIES[plan.intent].text) THEN <<>>
        ELSE [i \in 1 .. (IF plan.intent = "benched_by_skill" THEN 3 ELSE 4) |-> skills[1].values[1]]

ExpandedText(plan) ==
    LET text == BASE_QUERIES[plan.intent].text
    IN  FlattenSeq([i \in DOMAIN text |->
            IF text[i] = SkillToken THEN [j \in DOMAIN SkillParams(plan) |-> "?skill"]
            ELSE <<text[i]>>])

\* The filters that become conditions.
Applied(plan) ==
    LET applies(fc) == /\ fc.field \in FieldNames
                       /\ ~Blank(fc.values)
                       /\ SkillParams(plan) = <<>> \/ ~IsSkill(fc)
    IN  IF plan.intent \in SelfContained THEN <<>> ELSE Keep(plan.filters, applies)

\* reports_to binds the manager's name, or % when there is none.
ReportsToParams(plan) ==
    LET names == Keep(plan.filters, LAMBDA fc : fc.field = "resource_name")
    IN  IF plan.intent # "reports_to" THEN <<>>
        ELSE IF names # <<>> /\ names[1].values # <<>> THEN <<names[1].values[1]>> ELSE <<"%">>

SkillIndexError(plan) ==
    /\ SkillToken \in Range(BASE_QUERIES[plan.intent].text)
    /\ LET skills == Keep(plan.filters, IsSkill)
       IN  skills # <<>> /\ skills[1].values = <<>>

CompileFailure(plan, rid) ==
    IF (plan.domain = "user_self" /\ rid = NoResource) \/ plan.intent \notin DOMAIN BASE_QUERIES
    THEN "ValueError"
    ELSE IF SkillIndexError(plan) \/ \E i \in DOMAIN Applied(plan) : Raises(Applied(plan)[i])
    THEN "IndexError" ELSE "none"

\* Conditions are appended to the text: " AND " when it has a WHERE, and
\* always for user_self, whose statements have one.
Appended(domain, text, conditions) ==
    LET joint == IF domain = "user_self" \/ "WHERE" \in Range(text) THEN "AND" ELSE "WHERE"
    IN  text \o FlattenSeq([i \in DOMAIN conditions |->
            <<IF i = 1 THEN joint ELSE "AND">> \o FragmentText(conditions[i])])

Bound(use, values) == [i \in DOMAIN values |-> [use |-> use, value |-> values[i]]]

\* Mutant of compile_query: the parameters of filters come first.
compile_queryFiltersFirst(plan, rid) ==
    LET conditions == [i \in DOMAIN Applied(plan) |-> build_filter_clause(Applied(plan)[i])]
        filters    == Bound("?filter", FlattenSeq([i \in DOMAIN conditions |-> conditions[i].params]))
    IN  [text       |-> Appended(plan.domain, ExpandedText(plan), conditions),
         conditions |-> conditions,
         params     |-> filters \o (IF plan.domain = "user_self" THEN Bound("?own", <<rid>>)
                                    ELSE Bound("?manager", ReportsToParams(plan))
                                           \o Bound("?skill", SkillParams(plan)))]

compile_query(plan, rid) ==
    LET conditions == [i \in DOMAIN Applied(plan) |-> build_filter_clause(Applied(plan)[i])]
        filters    == Bound("?filter", FlattenSeq([i \in DOMAIN conditions |-> conditions[i].params]))
    IN  [text       |-> Appended(plan.domain, ExpandedText(plan), conditions),
         conditions |-> conditions,
         params     |-> IF plan.domain = "user_self" THEN Bound("?own", <<rid>>) \o filters
                        ELSE Bound("?manager", ReportsToParams(plan))
                               \o Bound("?skill", SkillParams(plan)) \o filters]

-----------------------------------------------------------------------------
(* What a statement must satisfy to be executed, and to mean what it says. *)

Placeholders == {"?own", "?manager", "?skill", "?filter"}

\* Every placeholder gets a parameter, and one that was meant for it.
Aligned(st) ==
    Keep(st.text, LAMBDA token : token \in Placeholders)
        = [i \in DOMAIN st.params |-> st.params[i].use]

\* Nothing but sort keys follows ORDER BY.
WellOrdered(st) ==
    \A i, j \in DOMAIN st.text : (st.text[i] = "ORDER BY" /\ i < j) => st.text[j] = "ORDER BY"

\* A condition is qualified with a table of the FROM clause, or not at all.
Resolves(condition, intent) ==
    condition.alias \in {NoAlias} \union BASE_QUERIES[intent].aliases

Executable(st, intent) ==
    /\ Len(st.params) = Len(Keep(st.text, LAMBDA token : token \in Placeholders))
    /\ WellOrdered(st)
    /\ \A i \in DOMAIN st.conditions : Resolves(st.conditions[i], intent)
=============================================================================
