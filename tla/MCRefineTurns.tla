--------------------------- MODULE MCRefineTurns ---------------------------
(* Three questions about topics of every domain: with and without an       *)
(* override, with templates and without, with and without own parameters.  *)
EXTENDS RefineTurns

MCTopics == {<<"resource", "active_resources">>, <<"resource", "benched_resources">>,
             <<"resource", "resource_project_assignments">>, <<"client", "client_projects">>,
             <<"timesheet", "approved_timesheets">>, <<"user_self", "my_projects">>}
=============================================================================
