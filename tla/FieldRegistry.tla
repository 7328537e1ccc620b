--------------------------- MODULE FieldRegistry ---------------------------
(***************************************************************************)
(* The filterable fields of the PRMS schema (nodes/field_registry.py): the *)
(* table every later node reads, and its two lookups.  A field keeps what  *)
(* decides the SQL it compiles to and where it may appear; example values  *)
(* and extraction hints are text for a prompt and are left out.            *)
(***************************************************************************)
EXTENDS FiniteSets, TLC

NoAlias == "none"   \* table_alias is None: the column is not qualified
NoField == "none"   \* lookup_field and resolve_alias return None

Domains == {"resource", "client", "project", "timesheet", "user_self"}

\* FieldConfig: a field with one value per plan and an unqualified column.
Field(type, domains) ==
    [type |-> type, multi |-> FALSE, alias |-> NoAlias, domains |-> domains, aliases |-> {}]

\* Rows of the table that differ from Field in one respect.
Known(field, names) == [field EXCEPT !.aliases = names]
Qualified(field, a) == [field EXCEPT !.alias = a]

\* The StatusId of each status name, per domain.
DOMAIN_STATUS_IDS ==
    [client   |-> [Active |-> 2, Inactive |-> 1, Closed |-> 12],
     project  |-> [Active |-> 4, Inactive |-> 3, Closed |-> 13]
                    @@ ("On hold" :> 5) @@ ("Others" :> 6),
     resource |-> [Active |-> 8, Inactive |-> 7]]

FIELD_REGISTRY ==
    [skill           |-> [Known(Field("text", {"resource"}), {"skill_filter"}) EXCEPT !.multi = TRUE],
     resource_name   |-> Qualified(Known(Field("text", {"resource", "project", "timesheet"}),
                                        {"employee_name", "person", "resource"}), "r"),
     designation     |-> Field("text", {"resource"}),
     tech_category   |-> Known(Field("text", {"resource", "project"}), {"category"}),
     role            |-> Field("text", {"resource", "project"}),
     start_date      |-> Field("date", Domains),
     end_date        |-> Field("date", Domains),
     billable        |-> Field("boolean", {"resource", "project"}),
     min_allocation  |-> Field("numeric", {"resource", "project", "user_self"}),
     skill_name      |-> Field("text", {"resource", "user_self"}),
     min_experience  |-> Field("numeric", {"resource", "user_self"}),
     client_name     |-> Known(Field("text", {"client", "project"}), {"account_name"}),
     country_id      |-> Field("text", {"client"}),
     project_name    |-> Field("text", {"client", "project", "user_self"}),
     status          |-> Qualified(Field("numeric", {"client", "project"}), "c"),
     min_budget      |-> Field("numeric", {"project"}),
     min_utilization |-> Field("numeric", {"project"}),
     client_id       |-> Field("numeric", {"project"}),
     min_duration    |-> Field("numeric", {"project"}),
     days_overdue    |-> Field("numeric", {"project"}),
     min_hours       |-> Field("numeric", {"timesheet", "user_self"}),
     description     |-> Field("text", {"client", "timesheet"}),
     category        |-> Field("text", {"user_self"})]

FieldNames == DOMAIN FIELD_REGISTRY

\* FIELD_REGISTRY_BY_DOMAIN[domain], {} for an unknown domain.
FieldsOf(domain) == {f \in FieldNames : domain \in FIELD_REGISTRY[f].domains}

\* lookup_field: whether the field is registered for the domain.
Registered(field, domain) == field \in FieldsOf(domain)

\* resolve_alias: the name itself when it is a field of the domain, else the
\* field of the domain that lists it as an alias.
resolve_alias(name, domain) ==
    IF Registered(name, domain) THEN name
    ELSE LET owners == {f \in FieldsOf(domain) : name \in FIELD_REGISTRY[f].aliases}
         IN  IF owners = {} THEN NoField ELSE CHOOSE f \in owners : TRUE

\* validate_registry_completeness: raises StartupIntegrityError otherwise.
RegistryComplete(catalogDomains) == \A d \in catalogDomains : FieldsOf(d) # {}
============================================================================
