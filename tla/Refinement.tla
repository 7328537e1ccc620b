----------------------------- MODULE Refinement -----------------------------
(***************************************************************************)
(* The refinement of a prior result (domains/refinement_registry.py) and   *)
(* the statements the domain agents run without a plan (_run_intent).      *)
(*                                                                         *)
(* A template wraps the prior SQL as "SELECT prev.* FROM (...) AS prev"    *)
(* with one more condition.  What is kept of it: its type, the columns of  *)
(* prev it names, and the parameter keys it reads, one per placeholder.    *)
(***************************************************************************)
EXTENDS Naturals, Sequences, TLC

Template(type, columns, keys) == [type |-> type, columns |-> columns, keys |-> keys]

On(type, column, key) == Template(type, {column}, <<key>>)
Between(first, last) == Template("date_range", {first, last}, <<"start_date", "end_date">>)
BySkill(column, n) == Template("skill", {column}, [i \in 1 .. n |-> "skill"])

-----------------------------------------------------------------------------
(* REFINEMENT_REGISTRY, domain by domain, in the order of registration.    *)

BenchTemplates ==
    [active_resources  |-> <<BySkill("EMPID", 3), On("name", "Name", "resource_name"),
                             On("status", "Designation", "designation")>>,
     benched_resources |-> <<BySkill("EMPID", 3), On("name", "Name", "resource_name"),
                             On("status", "TechCategoryName", "tech_category")>>,
     resource_by_skill |-> <<On("status", "Designation", "designation")>>]

AssignmentTemplates ==
    [resource_availability |->
         <<On("name", "ResourceName", "resource_name"), BySkill("ResourceId", 1)>>,
     resource_project_assignments |->
         <<Between("Start Date", "End Date"), On("boolean", "Billab", "billable"),
           On("text", "Role", "role"), On("numeric", "Allocation", "min_allocation")>>,
     resource_skills_list |->
         <<On("text", "Name", "skill_name"), On("numeric", "SkillExperience", "min_experience")>>]

ClientTemplates ==
    [active_clients  |-> <<On("name", "ClientName", "client_name"),
                           On("status", "CountryId", "country_id")>>,
     client_projects |-> <<Between("StartDate", "StartDate"), On("text", "ProjectName", "project_name")>>,
     client_status   |-> <<On("status", "StatusName", "status")>>]

PortfolioTemplates ==
    [active_projects   |-> <<On("name", "ClientName", "client_name"),
                             On("text", "ProjectName", "project_name")>>,
     project_by_client |-> <<On("status", "Status", "status"),
                             On("text", "Project Manager", "project_manager"),
                             Between("Start date", "Start date")>>,
     project_budget    |-> <<On("numeric", "Budget", "min_budget"),
                             On("numeric", "BudgetUtilized", "min_utilization")>>]

StaffingTemplates ==
    [project_resources |->
         <<On("boolean", "Billable", "billable"), On("text", "ResourceRole", "role"),
           On("status", "TechCategoryName", "tech_category"),
           On("numeric", "PercentageAllocation", "min_allocation"),
           On("name", "ResourceName", "resource_name"), On("name", "ClientId", "client_id")>>]

ScheduleTemplates ==
    [project_timeline |-> <<Between("Start Date", "Start Date"), On("numeric", "DurationDays", "min_duration")>>,
     overdue_projects |-> <<On("name", "ClientName", "client_name"),
                            On("numeric", "EndDate", "days_overdue")>>]

ApprovedTemplates ==
    [approved_timesheets |->
         <<On("name", "ResourceName", "resource_name"), Between("WorkDate", "WorkDate"),
           On("numeric", "Hours", "min_hours"), On("text", "Description", "description")>>,
     timesheet_by_period |->
         <<On("name", "ResourceName", "resource_name"), On("numeric", "Hours", "min_hours")>>]

PendingTemplates ==
    [unapproved_timesheets |->
         <<On("name", "ResourceName", "resource_name"), Between("WorkDate", "WorkDate")>>,
     timesheet_by_project |->
         <<On("name", "ResourceName", "resource_name"), Between("WorkDate", "WorkDate"),
           On("numeric", "Hours", "min_hours")>>]

OwnWorkTemplates ==
    [my_projects   |-> <<On("date_range", "Start Date", "start_date"),
                         On("date_range", "End Date", "end_date")>>,
     my_allocation |-> <<Between("StartDate", "EndDate"),
                         On("numeric", "PercentageAllocation", "min_allocation"),
                         On("text", "ProjectName", "project_name")>>]

OwnRecordTemplates ==
    [my_timesheets  |-> <<Between("File Date", "File Date"), On("text", "Category", "category"),
                          On("numeric", "Effort Hours", "min_hours")>>,
     my_skills      |-> <<On("text", "Name", "skill_name"),
                          On("numeric", "SkillExperience", "min_experience")>>,
     my_utilization |-> <<Between("File Date", "File Date"), On("numeric", "TotalHours", "min_hours"),
                          On("text", "Title", "category")>>]

REFINEMENT_REGISTRY ==
    [resource  |-> BenchTemplates @@ AssignmentTemplates,
     client    |-> ClientTemplates,
     project   |-> PortfolioTemplates @@ StaffingTemplates @@ ScheduleTemplates,
     timesheet |-> ApprovedTemplates @@ PendingTemplates,
     user_self |-> OwnWorkTemplates @@ OwnRecordTemplates]

get_refinement_templates(domain, intent) ==
    IF domain \in DOMAIN REFINEMENT_REGISTRY /\ intent \in DOMAIN REFINEMENT_REGISTRY[domain]
    THEN REFINEMENT_REGISTRY[domain][intent] ELSE <<>>

\* find_matching_template: the first template all of whose keys are among
\* the parameters; None, an empty set here, if there is none.
find_matching_template(domain, intent, params) ==
    LET templates == get_refinement_templates(domain, intent)
        matching  == {i \in DOMAIN templates :
                          \A k \in DOMAIN templates[i].keys : templates[i].keys[k] \in params}
    IN  {templates[i] : i \in {j \in matching : \A k \in matching : j <= k}}

-----------------------------------------------------------------------------
(* _run_intent: the columns of an agent's statement, and how many values   *)
(* it binds.                                                               *)

Returns(columns, binds) == [columns |-> columns, binds |-> binds]

ResourceAgentQueries ==
    [active_resources      |-> Returns({"EMPID", "Name", "EmailId", "Designation"}, 0),
     benched_resources     |-> Returns({"EMPID", "Name", "EmailId", "TechCategoryName"}, 0),
     benched_by_skill      |-> Returns({"EMPID", "Name", "EmailId", "Tech Category", "Skill"}, 3),
     resource_by_skill     |-> Returns({"EMPID", "Name", "EmailId", "Designation"}, 4),
     resource_availability |-> Returns({"ResourceId", "ResourceName", "EmailId"}, 0),
     resource_project_assignments |->
         Returns({"EMPID", "Employee Name", "Project Name", "Start Date", "End Date", "Role",
                  "Allocation", "Billable"}, 1),
     resource_skills_list  |-> Returns({"ResourceName", "Name", "SkillExperience"}, 1),
     reports_to            |-> Returns({"EmployeeId", "ResourceName", "Reporting To"}, 1)]

ClientAgentQueries ==
    [active_clients  |-> Returns({"ClientName", "Description", "CountryId"}, 0),
     client_projects |-> Returns({"ClientName", "ProjectName", "StartDate", "EndDate"}, 1),
     client_status   |-> Returns({"ClientName", "StatusName"}, 1)]

ProjectAgentQueries ==
    [active_projects   |-> Returns({"ProjectId", "ProjectName", "ClientName"}, 0),
     project_by_client |-> Returns({"Project Name", "Client Name", "Start date", "End date",
                                    "Project Manager", "Status"}, 1),
     project_budget    |-> Returns({"ProjectName", "Budget", "BudgetUtilized"}, 1),
     project_resources |-> Returns({"ProjectName", "ClientId", "ResourceName", "TechCategoryName",
                                    "Billable", "ResourceRole", "PercentageAllocation"}, 1),
     project_timeline  |-> Returns({"ProjectName", "Start Date", "End Date", "DurationDays"}, 1),
     project_status    |-> Returns({"Project Name", "Client", "Status", "Start Date", "End Date",
                                    "Project Manager"}, 1),
     overdue_projects  |-> Returns({"ProjectId", "ProjectName", "EndDate", "ClientName"}, 0)]

TimesheetAgentQueries ==
    [approved_timesheets   |-> Returns({"TimesheetId", "ResourceName", "WorkDate", "Hours", "Description"}, 0),
     timesheet_by_period   |-> Returns({"ResourceName", "WorkDate", "Hours", "Description"}, 2),
     unapproved_timesheets |-> Returns({"TimesheetId", "ResourceName", "WorkDate", "Hours"}, 0),
     timesheet_by_project  |-> Returns({"ProjectName", "ResourceName", "WorkDate", "Hours"}, 1)]

\* All of them raise ValueError without a resource_id.
UserSelfAgentQueries ==
    [my_projects    |-> Returns({"ProjectName", "Employee Name", "Start Date", "End Date"}, 1),
     my_allocation  |-> Returns({"ProjectName", "PercentageAllocation", "StartDate", "EndDate"}, 1),
     my_timesheets  |-> Returns({"Title", "Category", "Activity", "Effort Hours", "File Date"}, 1),
     my_skills      |-> Returns({"Name", "SkillExperience"}, 1),
     my_utilization |-> Returns({"Title", "TotalHours", "File Date"}, 1)]

\* DOMAIN_REGISTRY: the agent of each domain.
DOMAIN_REGISTRY ==
    [resource  |-> ResourceAgentQueries,
     client    |-> ClientAgentQueries,
     project   |-> ProjectAgentQueries,
     timesheet |-> TimesheetAgentQueries,
     user_self |-> UserSelfAgentQueries]

\* BaseDomainAgent.domain: the name of the class, lower case, without
\* "Agent"; UserSelfAgent does not override it.
AgentDomain(domain) == IF domain = "user_self" THEN "userself" ELSE domain
=============================================================================
