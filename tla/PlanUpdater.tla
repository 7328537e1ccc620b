---------------------------- MODULE PlanUpdater ----------------------------
(***************************************************************************)
(* update_query_plan (nodes/plan_updater.py) and QueryPlan (query_plan.py):*)
(* the filters of a question become the plan of its intent, or are merged  *)
(* into the plan that came with the question.                              *)
(*                                                                         *)
(* The normalisation of values is left out: nothing calls load_value_map,  *)
(* so its map is always empty.  So is the rebuilding of a plan that does   *)
(* not deserialise: every plan that comes back was serialised here.        *)
(***************************************************************************)
EXTENDS Extraction

NoPlan == [domain |-> "none", intent |-> "none", filters |-> <<>>]

Plan(topic, filters) == [domain |-> topic[1], intent |-> topic[2], filters |-> filters]

\* The intents whose plan never has filters.  It is not SqlCompiler's
\* SelfContained: benched_resources, benched_by_skill, resource_by_skill and
\* reports_to keep theirs.
NO_FILTER_INTENTS ==
    {"active_resources", "resource_availability", "active_projects", "overdue_projects",
     "active_clients", "approved_timesheets", "unapproved_timesheets", "my_utilization"}

\* Mutant of Remap: the projects are forgotten.
RemapClientsOnly(intent, field) ==
    IF intent = "project_by_client" /\ field = "resource_name" THEN "client_name" ELSE field

\* _intent_field_remap: for this intent, the one field is always the other.
Remap(intent, field) ==
    CASE intent \in {"project_resources", "project_timeline", "project_budget", "project_status"}
           /\ field = "resource_name" -> "project_name"
      [] intent = "project_by_client" /\ field = "resource_name"   -> "client_name"
      [] intent = "resource_skills_list" /\ field = "skill_name"   -> "resource_name"
      [] intent = "reports_to" /\ field = "project_name"           -> "resource_name"
      [] OTHER -> field

\* The new clauses as the plan gets them, sanitised, those of a tool call for a
\* second time.
Remapped(intent, filters) ==
    [i \in DOMAIN filters |-> FilterClause([filters[i] EXCEPT !.field = Remap(intent, @)])]

\* Mutant of Combined: the last clause wins for every field.
CombinedLastWins(old, new) == new

\* An old clause and a new one of its field: values are collected where a
\* field may have several, and else the last clause wins.
Combined(old, new) ==
    LET seen(i) == new.values[i] \in Range(old.values) \union {new.values[j] : j \in 1 .. i - 1}
    IN  IF ~FIELD_REGISTRY[old.field].multi THEN new
        ELSE [old EXCEPT !.values = @ \o FlattenSeq([i \in DOMAIN new.values |->
                                          IF seen(i) THEN <<>> ELSE <<new.values[i]>>])]

\* existing_by_field: a clause is put in the place of the one of its field.
\* Of two old clauses of a field the last one stays.
Placed(clauses, fc, old) ==
    IF ~Mentions(clauses, fc.field) THEN Append(clauses, fc)
    ELSE [i \in DOMAIN clauses |->
            IF clauses[i].field # fc.field THEN clauses[i]
            ELSE IF old THEN fc ELSE Combined(clauses[i], fc)]

\* Mutant of Merged: the new clauses are appended.
MergedAppending(domain, filters, new) == filters \o new

\* all_field_names: one clause per field, in the order the fields came up; a
\* field the domain does not know is skipped.
Merged(domain, filters, new) ==
    LET all == filters \o Keep(new, LAMBDA fc : Registered(fc.field, domain))
        merged[n \in 0 .. Len(all)] ==
            IF n = 0 THEN <<>> ELSE Placed(merged[n - 1], all[n], n <= Len(filters))
    IN  merged[Len(all)]

SameTopic(plan, topic) == plan.domain = topic[1] /\ plan.intent = topic[2]

\* Mutant of update_query_plan: a question without filters keeps any plan.
update_query_planKeeping(plan, topic, filters) ==
    LET new == Remapped(topic[2], filters)
    IN  IF topic[2] \in NO_FILTER_INTENTS THEN Plan(topic, <<>>)
        ELSE IF plan # NoPlan /\ new = <<>> THEN plan
        ELSE IF ~SameTopic(plan, topic) THEN Plan(topic, new)
        ELSE Plan(topic, Merged(topic[1], plan.filters, new))

update_query_plan(plan, topic, filters) ==
    LET new == Remapped(topic[2], filters)
    IN  IF topic[2] \in NO_FILTER_INTENTS THEN Plan(topic, <<>>)
        ELSE IF ~SameTopic(plan, topic) THEN Plan(topic, new)
        ELSE IF new = <<>> THEN plan
        ELSE Plan(topic, Merged(topic[1], plan.filters, new))

\* FilterClause refuses too many values and an operator it does not know.
\* (The clauses of the hybrid path are dictionaries, which the merge cannot
\* read; but no plan comes back there to be merged with.)
UpdateRaises(plan, topic, filters) ==
    LET clauses == update_query_plan(plan, topic, filters).filters
    IN  \E i \in DOMAIN clauses :
            Len(clauses[i].values) > MaxValues \/ clauses[i].op \notin Operators
=============================================================================
