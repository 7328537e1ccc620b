----------------------------- MODULE MCPlanTurns -----------------------------
(***************************************************************************)
(* Small instances of PlanTurns: topics with own parameters, with sorting, *)
(* with remapped fields, with fixed statements; questions that collect     *)
(* values, replace them and mention names; replies with unknown fields, no *)
(* value, several values, blank ones, NULL checks, and values that turn    *)
(* into one when they are sanitised.                                       *)
(***************************************************************************)
EXTENDS PlanTurns

MCTopics == {<<"resource", "resource_project_assignments">>, <<"resource", "resource_by_skill">>,
             <<"resource", "reports_to">>, <<"project", "project_budget">>,
             <<"user_self", "my_timesheets">>, <<"user_self", "my_projects">>}

MCRewritten == ("nu;ll" :> "null") @@ ("O'Neil" :> "ONeil")
MCComplex == COMPLEX_KEYWORDS \union {"(a complex list)", "not null", "not missing"}

Two(a, b) == <<a, b>>

MCQuestions == {[p \in {} |-> <<>>],
                [skill |-> <<"Python">>],
                [skill |-> <<"Go">>, dates |-> <<"2024-01-01">>],
                [dates |-> Two("2024-01-01", "2024-06-30"), name |-> <<"Jo">>],
                [project |-> <<"Apollo">>, name |-> <<"Jo">>, billable |-> <<"1">>],
                [status |-> <<"Active">>, more_hours |-> <<"8">>, fewer_hours |-> <<"9">>]}

MCReplies == {<<>>,
              <<Clause("role", "eq", <<"missing">>), Clause("designation", "eq", <<"null">>),
                Clause("status", "contains", <<"none">>)>>,
              <<Clause("role", "eq", <<"nu;ll">>), Clause("skill", "in", <<"missing", "">>),
                Clause("billable", "eq", <<"False">>)>>,
              <<Clause("manager", "contains", <<"O'Neil">>), Clause("skill", "in", <<"Python", "Java", "Go">>),
                Clause("resource_name", "eq", <<"Jo">>), Clause("min_hours", "between", <<"8">>)>>}
=============================================================================
