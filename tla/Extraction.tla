----------------------------- MODULE Extraction -----------------------------
(***************************************************************************)
(* The three ways to the filters of a question: regular expressions        *)
(* (filter_extractor.py), one tool call (llm_groq_extractor.py), and one   *)
(* JSON reply that is scored (llm_extraction.py, deterministic_override.py *)
(* and confidence_scoring.py).                                             *)
(*                                                                         *)
(* A question is a function from what it mentions to the texts mentioned;  *)
(* a reply is a sequence of clauses with any field, operator and values.   *)
(* Finding the mentions is the business of regular expressions.  The bare  *)
(* word a refining question may mean as a skill is left out: it needs a    *)
(* prior SQL, and a plan has none (RefineTurns, PlannedNeverRefines).      *)
(***************************************************************************)
EXTENDS SqlCompiler, Integers

CONSTANTS MaxValues,   \* FilterClause.validate_values: 50 in the code
          Complex      \* the values with one of COMPLEX_KEYWORDS in them

Operators == {"eq", "in", "lt", "gt", "between"}   \* FilterClause.op

-----------------------------------------------------------------------------
(* extract_filters.                                                        *)

\* The patterns, in the order they are tried, and the field of each.
Patterns ==
    <<"skill", "dates", "project", "client", "name", "more_hours", "fewer_hours", "allocation",
      "budget", "experience", "overdue", "designation", "billable", "status">>

PatternField ==
    [skill |-> "skill", dates |-> "start_date", project |-> "project_name",
     client |-> "client_name", name |-> "resource_name", more_hours |-> "min_hours",
     fewer_hours |-> "min_hours", allocation |-> "min_allocation", budget |-> "min_budget",
     experience |-> "min_experience", overdue |-> "days_overdue", designation |-> "designation",
     billable |-> "billable", status |-> "status"]

PatternOp(pattern, values) ==
    CASE pattern = "dates" -> IF Len(values) >= 2 THEN "between" ELSE "eq"
      [] pattern = "fewer_hours" -> "lt"
      [] pattern \in {"more_hours", "allocation", "budget", "experience", "overdue"} -> "gt"
      [] OTHER -> "eq"

\* A project or a client claims the name; "more than" goes before "less than".
Claimed(pattern, question) ==
    \/ pattern = "name" /\ {"project", "client"} \intersect DOMAIN question # {}
    \/ pattern = "fewer_hours" /\ "more_hours" \in DOMAIN question

\* _make_filter drops a field that the domain does not know.  That it sanitises
\* the values is left to Remapped: nothing looks at them before.
extract_filters(question, domain) ==
    LET matches(p) == /\ p \in DOMAIN question
                      /\ ~Claimed(p, question)
                      /\ resolve_alias(PatternField[p], domain) # NoField
        matched == Keep(Patterns, matches)
    IN  [i \in DOMAIN matched |->
            Clause(resolve_alias(PatternField[matched[i]], domain),
                   PatternOp(matched[i], question[matched[i]]), question[matched[i]])]

-----------------------------------------------------------------------------
(* groq_extract.                                                           *)

Mentions(clauses, field) == \E i \in DOMAIN clauses : clauses[i].field = field

\* _post_process_extraction adds what the question says and the reply omits;
\* a reply without filters is not looked at.
_post_process_extraction(topic, reply, question) ==
    LET missing(intent, pattern) ==
            /\ reply # <<>>
            /\ topic[2] = intent
            /\ intent = "resource_skills_list" => topic[1] = "resource"
            /\ pattern \in DOMAIN question
            /\ ~Mentions(reply, PatternField[pattern])
        added(pattern) == <<Clause(PatternField[pattern], "eq", question[pattern])>>
    IN  CASE missing("resource_skills_list", "name") -> reply \o added("name")
          [] missing("resource_by_skill", "skill")   -> reply \o added("skill")
          [] missing("project_by_client", "client")  -> reply \o added("client")
          [] OTHER                                   -> reply

\* The clauses that can be built, without their blank values: registered,
\* with values, and valid.
GroqFilters(topic, reply, question) ==
    LET full == _post_process_extraction(topic, reply, question)
        solid(fc) == [fc EXCEPT !.values = Keep(@, LAMBDA v : v # "")]
    IN  Keep([i \in DOMAIN full |-> FilterClause(solid(full[i]))],
             LAMBDA fc : /\ Registered(fc.field, topic[1])
                         /\ Len(fc.values) \in 1 .. MaxValues
                         /\ fc.op \in Operators)

-----------------------------------------------------------------------------
(* llm_extraction_node.                                                    *)

_FIELD_ALIAS_REMAP(field) ==
    IF field \in {"reports_to", "manager", "reporting_to", "project_manager"}
    THEN "resource_name" ELSE field

\* The value of a reply in Python: a list when it has several, and a complex
\* one when one of them is.
Falsy == {"", "False", "0 (number)"}
Wrapped(values) ==
    IF Len(values) > 1
    THEN <<IF Range(values) \intersect Complex = {} THEN "(a list)" ELSE "(a complex list)">>
    ELSE IF values = <<>> \/ values[1] \in Falsy THEN <<>> ELSE values

\* _validate_and_normalize_fields, and the node's conversion to clauses.
\* "contains" becomes "eq"; what is false becomes no value.
HybridFilters(domain, reply) ==
    LET normal(fc) == Clause(_FIELD_ALIAS_REMAP(fc.field),
                             IF fc.op = "in" THEN "in" ELSE "eq", Wrapped(fc.values))
        known == Keep(reply, LAMBDA fc : Registered(_FIELD_ALIAS_REMAP(fc.field), domain))
    IN  [i \in DOMAIN known |-> normal(known[i])]

\* detect_followup_type, with the similarity to the last question and
\* whether both have a filter on the same field.
detect_followup_type(intent, lastIntent, similarity, sharedField) ==
    IF similarity = "unavailable" \/ ("none" \notin {intent, lastIntent} /\ intent # lastIntent)
    THEN "new"
    ELSE IF similarity = "high" THEN "refine"
    ELSE IF sharedField THEN "replace" ELSE "new"

\* apply_overrides: a follow-up of another intent is a new question.
apply_overrides(followUp, intent, lastIntent) ==
    IF lastIntent # "none" /\ intent # lastIntent THEN "new" ELSE followUp

COMPLEX_KEYWORDS ==
    {"missing", "incomplete", "null", "empty", "blank", "undefined", "none", "unset", "absent",
     "without", "lacking", "no description", "no name"}

ASSUME ComplexAssumption ==
    COMPLEX_KEYWORDS \union {"(a complex list)"} \subseteq Complex /\ "(a list)" \notin Complex

\* The parts of the score, in hundredths.
_check_field_validity(filters, domain) ==
    LET known == Keep(filters, LAMBDA fc : Registered(fc.field, domain))
    IN  IF filters = <<>> THEN 15 ELSE (30 * Len(known)) \div Len(filters)

\* The keywords are looked for anywhere in a value, and before it is
\* sanitised.
_check_value_complexity(filters) ==
    LET complex(fc) == Keep(fc.values, LAMBDA v : v \in Complex)
    IN  15 * Len(FlattenSeq([i \in DOMAIN filters |-> complex(filters[i])]))

\* Mutant of _check_schema_match: clauses are counted as complete.
_check_schema_matchComplete(filters) == 40

\* A clause has "op" and no "operator": a reply with clauses misses 15 of 40.
_check_schema_match(filters) == IF filters = <<>> THEN 40 ELSE 25

calculate_confidence(filters, domain) ==
    30 + _check_field_validity(filters, domain) + _check_schema_match(filters)
       - _check_value_complexity(filters)
=============================================================================
